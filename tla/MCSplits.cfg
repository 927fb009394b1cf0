SPECIFICATION LedgerSpec
CONSTANTS
    Width = 30
    Size = 5
    People = {1, 2, 3}
    Totals = {1, 2, 7, 10, 100}
    Values = {0, 1, 3, 7}
    Bps = {0, 3333, 3334, 5000, 10000}
    Debts <- MCDebts
    Years = {2023, 2024, 2025, 2026, 2027, 2028}
INVARIANTS SharesSumToAmount SettlesAll
PROPERTIES CreatedFairly RescaledFairly KeepsDay
CHECK_DEADLOCK FALSE
