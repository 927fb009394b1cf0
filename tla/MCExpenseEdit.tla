--------------------------- MODULE MCExpenseEdit ---------------------------
(***************************************************************************)
(* Small instances of ExpenseEdit: two members and an outsider, one        *)
(* expense of 10 cents, and patches chosen so that amount-only,            *)
(* splits-only and combined edits can meet.                                *)
(***************************************************************************)
EXTENDS ExpenseEdit

Noon  == [sec |-> 1, frac |-> 0]
Noon5 == [sec |-> 1, frac |-> 5]
Later == [sec |-> 2, frac |-> 0]

Blank == [description |-> Nil, category_id |-> Nil, payer_id |-> Nil,
          incurred_at |-> Nil, amount_cents |-> Nil, split |-> Nil]

Equal == [mode |-> "equal", in |-> <<[user |-> 1, value |-> 0], [user |-> 2, value |-> 0]>>]
Only2 == [mode |-> "exact", in |-> <<[user |-> 2, value |-> 7]>>]
Outside == [mode |-> "equal", in |-> <<[user |-> 3, value |-> 0]>>]

MCCreations ==
    {[description |-> "tea", category_id |-> "food", payer_id |-> 1, incurred_at |-> Noon,
      amount_cents |-> 10,
      split |-> [mode |-> "exact",
                 in |-> <<[user |-> 1, value |-> 3], [user |-> 2, value |-> 7]>>]]}

\* Edits of the amount, of the splits, of everything, and of nothing.
GoodPatches ==
    {[Blank EXCEPT !.amount_cents = 7],
     [Blank EXCEPT !.split = Equal],
     [description |-> "cake", category_id |-> "fun", payer_id |-> 2,
      incurred_at |-> Later, amount_cents |-> 7, split |-> Only2],
     [Blank EXCEPT !.description = "tea", !.incurred_at = Noon5]}

\* Edits the service refuses.
RefusedPatches ==
    {[Blank EXCEPT !.amount_cents = 0],
     [Blank EXCEPT !.payer_id = 3],
     [Blank EXCEPT !.split = Outside],
     [Blank EXCEPT !.description = ""]}

AllPatches == GoodPatches \cup RefusedPatches

\* These instances are among those the theorems about the sum speak of.
ASSUME MCNoOverflow == NoOverflow

=============================================================================
