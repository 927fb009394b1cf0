--------------------------- MODULE Recurring_proofs ---------------------------
(***************************************************************************)
(* What the worker guarantees for any number of workers, templates and     *)
(* groups and any bounds: no occurrence is skipped, nothing follows a      *)
(* deletion, and the worker implements Schedule.                           *)
(*                                                                         *)
(* The inductive invariant says that a claim is never stale                *)
(* (ClaimIsCurrent), and that a claimed template which a tick is done with *)
(* has an expense for the occurrence the schedule still points at.         *)
(***************************************************************************)
EXTENDS Recurring, TLAPS

\* A row is locked exactly by the worker that claimed it, so a claimed row is
\* still live and still due at the time the worker read: nothing a tick holds
\* in memory is stale when it uses it.
ClaimIsCurrent ==
    \A w \in Workers, t \in Templates :
        /\ rowLock[t] = w <=> t \in DOMAIN claim[w]
        /\ t \in DOMAIN claim[w] => status[t] = "live" /\ claim[w][t] = next[t]
        /\ t \in DOMAIN claim[w] => pc[w] \in {"claimed", "inserted"}
        /\ t \in todo[w] => t \in DOMAIN claim[w]

\* The occurrence t points at has an expense.
Covered(t) == copies[t][next[t]] > 0

\* What a tick has already done is committed before its schedule moves.
DoneIsCovered ==
    \A w \in Workers :
        /\ \A t \in DOMAIN claim[w] \ todo[w] : Covered(t)
        /\ pc[w] = "inserted" => current[w] \in todo[w] /\ Covered(current[w])

IInv == TypeOK /\ ClaimIsCurrent /\ DoneIsCovered /\ NoSkip

-----------------------------------------------------------------------------
(* Claims *)

\* A claim gives times to some of the templates, and every such function is one.
LEMMA ClaimShape ==
    /\ \A c \in Claims : DOMAIN c \in SUBSET Templates /\ c \in [DOMAIN c -> Times]
    /\ \A C \in SUBSET Templates : \A c \in [C -> Times] : c \in Claims /\ DOMAIN c = C
BY DEF Claims

\* The empty claim of an idle worker is a claim.
LEMMA NoClaimShape == NoClaim \in Claims /\ DOMAIN NoClaim = {}
<1>1. NoClaim \in [{} -> Times] /\ DOMAIN NoClaim = {}
  BY DEF NoClaim
<1> QED BY <1>1, ClaimShape

\* Counting one more expense of an occurrence leaves counters.
LEMMA CountOneMore ==
    \A c \in [Times -> Nat] : \A n :
        [c EXCEPT ![n] = IF @ < MaxCopies THEN @ + 1 ELSE @] \in [Times -> Nat]
<1> SUFFICES ASSUME NEW c \in [Times -> Nat], NEW n
             PROVE  [c EXCEPT ![n] = IF @ < MaxCopies THEN @ + 1 ELSE @] \in [Times -> Nat]
  OBVIOUS
<1>1. CASE n \in Times
  <2>1. (IF c[n] < MaxCopies THEN c[n] + 1 ELSE c[n]) \in Nat
    BY <1>1
  <2> QED BY <2>1
<1>2. CASE n \notin Times
  BY <1>2
<1> QED BY <1>1, <1>2

\* Whatever a tick claims was due.
LEMMA ClaimsOnlyDue ==
    \A reached, n : \A C \in Earliest(Due \ reached, n) : C \in SUBSET Due
BY DEF Earliest

-----------------------------------------------------------------------------
(* The inductive invariant *)

\* The inductive invariant of the worker holds before its first tick.
THEOREM InitInv == Init => IInv
<1> SUFFICES ASSUME Init PROVE IInv
  OBVIOUS
<1>1. TypeOK
  BY NoClaimShape, RecurringAssumption DEF Init, TypeOK, Times
<1>2. ClaimIsCurrent
  BY NoClaimShape, RecurringAssumption DEF Init, ClaimIsCurrent
<1>3. DoneIsCovered
  BY NoClaimShape DEF Init, DoneIsCovered
<1>4. NoSkip
  BY DEF Init, NoSkip, Times
<1> QED BY <1>1, <1>2, <1>3, <1>4 DEF IInv

\* Every action keeps the types.
LEMMA TypeStep == TypeOK /\ [Next]_vars => TypeOK'
<1> SUFFICES ASSUME TypeOK, [Next]_vars PROVE TypeOK'
  OBVIOUS
<1> USE ClaimShape, NoClaimShape, RecurringAssumption
<1>1. ASSUME NEW w \in Workers, TryLock(w) PROVE TypeOK'
  BY <1>1 DEF TypeOK, TryLock, dbVars, faultVars
<1>2. ASSUME NEW w \in Workers, ClaimDue(w) PROVE TypeOK'
  <2> PICK C \in SUBSET Due : LockAndRead(w, C)
    BY <1>2, ClaimsOnlyDue DEF ClaimDue
  <2>1. C \in SUBSET Templates /\ \A t \in C : next[t] \in Times
    BY DEF Due, TypeOK, Times
  <2>2. [t \in C |-> next[t]] \in Claims
    BY <2>1
  <2> QED BY <1>2, <2>1, <2>2 DEF TypeOK, ClaimDue, LockAndRead, dbVars, faultVars
<1>3. ASSUME NEW w \in Workers, NEW t \in Templates, Insert(w, t) PROVE TypeOK'
  <2> DEFINE made == [copies[t] EXCEPT ![claim[w][t]] = IF @ < MaxCopies THEN @ + 1 ELSE @]
  <2>1. made \in [Times -> Nat]
    <3>1. copies[t] \in [Times -> Nat]
      BY DEF TypeOK
    <3>2. \A n : [copies[t] EXCEPT ![n] = IF @ < MaxCopies THEN @ + 1 ELSE @] \in [Times -> Nat]
      BY <3>1, CountOneMore
    <3> QED BY <3>2
  <2>2. copies' = [copies EXCEPT ![t] = made]
    BY <1>3 DEF Insert
  <2>3. copies' \in [Templates -> [Times -> Nat]]
    BY <2>1, <2>2 DEF TypeOK
  <2> QED BY <1>3, <2>3 DEF TypeOK, Insert, faultVars
<1>4. ASSUME NEW w \in Workers, Advance(w) PROVE TypeOK'
  BY <1>4 DEF TypeOK, Advance, dbVars, faultVars
<1>5. ASSUME NEW w \in Workers, Commit(w) PROVE TypeOK'
  <2>1. claim[w] \in Claims
    BY DEF TypeOK
  <2>2. next' \in [Templates -> 0..(MaxTime + 1)]
    BY <1>5, <2>1 DEF TypeOK, Commit, Times
  <2> QED BY <1>5, <2>2 DEF TypeOK, Commit, EndClaim, faultVars
<1>6. ASSUME NEW w \in Workers, Finish(w) PROVE TypeOK'
  BY <1>6 DEF TypeOK, Finish, Unlock, dbVars, faultVars
<1>7. ASSUME NEW w \in Workers, NEW t \in Templates, InsertFails(w, t) PROVE TypeOK'
  BY <1>7 DEF TypeOK, InsertFails, EndClaim, Unlock, dbVars, faultVars
<1>8. ASSUME NEW w \in Workers, Crash(w) PROVE TypeOK'
  <2>1. /\ advisory' \in Workers \cup {Nil} /\ crashes' \in Nat
        /\ pc' \in [Workers -> {"idle", "ticking", "claimed", "inserted", "draining"}]
    BY <1>8 DEF TypeOK, Crash, Unlock
  <2> QED BY <1>8, <2>1 DEF TypeOK, Crash, EndClaim, dbVars
<1>9. ASSUME NEW w \in Workers, LoseLock(w) PROVE TypeOK'
  BY <1>9 DEF TypeOK, LoseLock, dbVars
<1>10. ASSUME NEW t \in Templates, Create(t) \/ DeleteTemplate(t) PROVE TypeOK'
  <2>1. status' \in [Templates -> {"none", "live", "deleted", "gone"}]
    <3>1. CASE Create(t)
      BY <3>1 DEF TypeOK, Create
    <3>2. CASE DeleteTemplate(t)
      BY <3>2 DEF TypeOK, DeleteTemplate
    <3> QED BY <1>10, <3>1, <3>2
  <2> QED BY <1>10, <2>1 DEF TypeOK, Create, DeleteTemplate, faultVars
<1>11. ASSUME NEW g \in Groups,
              GroupDeleteBegin(g) \/ GroupDeleteCommit(g) \/ GroupDeleteCancel(g)
       PROVE TypeOK'
  <2>1. CASE GroupDeleteBegin(g)
    BY <2>1 DEF TypeOK, GroupDeleteBegin, faultVars
  <2>2. CASE GroupDeleteCommit(g)
    BY <2>2 DEF TypeOK, GroupDeleteCommit, faultVars
  <2>3. CASE GroupDeleteCancel(g)
    BY <2>3 DEF TypeOK, GroupDeleteCancel, faultVars
  <2> QED BY <1>11, <2>1, <2>2, <2>3
<1>12. CASE TimePasses
  BY <1>12 DEF TypeOK, TimePasses, Times, faultVars
<1>13. CASE UNCHANGED vars
  BY <1>13 DEF TypeOK, vars
<1> QED
  BY <1>1, <1>2, <1>3, <1>4, <1>5, <1>6, <1>7, <1>8, <1>9, <1>10, <1>11, <1>12, <1>13
  DEF Next, TickStep

\* A claim stays current: what would make it stale waits for its row locks.
LEMMA CurrentStep == TypeOK /\ ClaimIsCurrent /\ [Next]_vars => ClaimIsCurrent'
<1> SUFFICES ASSUME TypeOK, ClaimIsCurrent, [Next]_vars PROVE ClaimIsCurrent'
  OBVIOUS
<1> USE RecurringAssumption
<1>1. ASSUME NEW w \in Workers, TryLock(w) PROVE ClaimIsCurrent'
  BY <1>1 DEF TypeOK, ClaimIsCurrent, TryLock, dbVars
<1>2. ASSUME NEW w \in Workers, ClaimDue(w) PROVE ClaimIsCurrent'
  <2> PICK C \in SUBSET Due : LockAndRead(w, C)
    BY <1>2, ClaimsOnlyDue DEF ClaimDue
  <2>1. C \in SUBSET Templates /\ \A t \in C : status[t] = "live" /\ rowLock[t] = Nil
    BY DEF Due
  <2> QED BY <1>2, <2>1 DEF TypeOK, ClaimIsCurrent, ClaimDue, LockAndRead, dbVars
<1>3. ASSUME NEW w \in Workers, NEW t \in Templates, Insert(w, t) PROVE ClaimIsCurrent'
  BY <1>3 DEF TypeOK, ClaimIsCurrent, Insert
<1>4. ASSUME NEW w \in Workers, Advance(w) PROVE ClaimIsCurrent'
  BY <1>4 DEF TypeOK, ClaimIsCurrent, Advance, dbVars
<1>5. ASSUME NEW w \in Workers,
             EndClaim(w),
             UNCHANGED status,
             \A v \in Workers : v # w => pc'[v] = pc[v],
             \A t \in Templates : rowLock[t] # w => next'[t] = next[t]
      PROVE ClaimIsCurrent'
  BY <1>5, NoClaimShape DEF TypeOK, ClaimIsCurrent, EndClaim
<1>6. ASSUME NEW w \in Workers, Commit(w) PROVE ClaimIsCurrent'
  <2>1. \A t \in Templates : rowLock[t] # w => next'[t] = next[t]
    BY <1>6 DEF Commit, ClaimIsCurrent
  <2> QED BY <1>5, <1>6, <2>1 DEF Commit, TypeOK
<1>7. ASSUME NEW w \in Workers, Finish(w) PROVE ClaimIsCurrent'
  BY <1>7 DEF TypeOK, ClaimIsCurrent, Finish, Unlock, dbVars
<1>8. ASSUME NEW w \in Workers, NEW t \in Templates, InsertFails(w, t) PROVE ClaimIsCurrent'
  BY <1>5, <1>8 DEF TypeOK, InsertFails, Unlock, dbVars
<1>9. ASSUME NEW w \in Workers, Crash(w) PROVE ClaimIsCurrent'
  BY <1>5, <1>9 DEF TypeOK, Crash, Unlock, dbVars
<1>10. ASSUME NEW w \in Workers, LoseLock(w) PROVE ClaimIsCurrent'
  BY <1>10 DEF ClaimIsCurrent, LoseLock, dbVars
<1>11. ASSUME NEW t \in Templates, Create(t) \/ DeleteTemplate(t) PROVE ClaimIsCurrent'
  BY <1>11 DEF TypeOK, ClaimIsCurrent, Create, DeleteTemplate
<1>12. ASSUME NEW g \in Groups, GroupDeleteBegin(g) PROVE ClaimIsCurrent'
  BY <1>12 DEF ClaimIsCurrent, GroupDeleteBegin
<1>13. ASSUME NEW g \in Groups, GroupDeleteCommit(g) PROVE ClaimIsCurrent'
  BY <1>13 DEF TypeOK, ClaimIsCurrent, GroupDeleteCommit, TemplatesOf
<1>14. ASSUME NEW g \in Groups, GroupDeleteCancel(g) PROVE ClaimIsCurrent'
  BY <1>14 DEF ClaimIsCurrent, GroupDeleteCancel
<1>15. CASE TimePasses
  BY <1>15 DEF ClaimIsCurrent, TimePasses
<1>16. CASE UNCHANGED vars
  BY <1>16 DEF ClaimIsCurrent, vars
<1> QED
  BY <1>1, <1>2, <1>3, <1>4, <1>6, <1>7, <1>8, <1>9, <1>10, <1>11, <1>12, <1>13, <1>14,
     <1>15, <1>16
  DEF Next, TickStep

\* Expenses and schedule positions are only ever added to, except by Commit.
LEMMA CopiesStay ==
    ASSUME TypeOK, ClaimIsCurrent, [Next]_vars
    PROVE  /\ \A t \in Templates, n \in Times : copies'[t][n] >= copies[t][n]
           /\ next' # next => \E w \in Workers : Commit(w)
<1>1. ASSUME NEW w \in Workers, NEW t \in Templates, Insert(w, t)
      PROVE  \A u \in Templates, n \in Times : copies'[u][n] >= copies[u][n]
  BY <1>1 DEF TypeOK, Insert
<1>2. \/ copies' = copies
      \/ \E w \in Workers, t \in Templates : Insert(w, t)
  BY DEF Next, TickStep, TryLock, ClaimDue, Advance, Commit, Finish, InsertFails, Crash,
         LoseLock, Create, DeleteTemplate, GroupDeleteBegin, GroupDeleteCommit, GroupDeleteCancel,
         TimePasses, dbVars, vars
<1>3. \/ next' = next
      \/ \E w \in Workers : Commit(w)
  BY DEF Next, TickStep, TryLock, ClaimDue, Advance, Insert, Finish, InsertFails, Crash,
         LoseLock, Create, DeleteTemplate, GroupDeleteBegin, GroupDeleteCommit, GroupDeleteCancel,
         TimePasses, dbVars, vars
<1> QED BY <1>1, <1>2, <1>3 DEF TypeOK

\* An occurrence is left behind only by a commit, of templates that are done.
LEMMA NoSkipStep ==
    TypeOK /\ ClaimIsCurrent /\ DoneIsCovered /\ NoSkip /\ [Next]_vars => NoSkip'
<1> SUFFICES ASSUME TypeOK, ClaimIsCurrent, DoneIsCovered, NoSkip, [Next]_vars,
                    NEW t \in Templates, NEW n \in Times, n < next'[t]
             PROVE  copies'[t][n] > 0
  BY DEF NoSkip
<1>1. copies'[t][n] >= copies[t][n] /\ copies[t][n] \in Nat /\ copies'[t][n] \in Nat
  BY CopiesStay, TypeStep DEF TypeOK
<1>2. CASE n < next[t]
  BY <1>1, <1>2 DEF NoSkip
<1>3. CASE ~(n < next[t])
  <2> PICK w \in Workers : Commit(w)
    BY <1>3, CopiesStay
  <2>1. t \in DOMAIN claim[w] /\ next'[t] = next[t] + 1
    BY <1>3 DEF Commit, ClaimIsCurrent
  <2>2. n = next[t]
    BY <1>3, <2>1 DEF TypeOK, Times
  <2>3. Covered(t)
    BY <2>1 DEF Commit, DoneIsCovered
  <2> QED BY <1>1, <2>2, <2>3 DEF Covered
<1> QED BY <1>2, <1>3

\* A covered template that stays claimed stays covered.
LEMMA CoveredStays ==
    ASSUME TypeOK, ClaimIsCurrent, [Next]_vars,
           NEW w \in Workers, NEW t \in Templates,
           t \in DOMAIN claim[w], t \in DOMAIN claim'[w], Covered(t)
    PROVE  Covered(t)'
<1>1. claim[w] \in Claims /\ claim'[w] \in Claims
  BY TypeStep DEF TypeOK
<1>2. claim[w][t] = next[t] /\ next[t] \in Times
  BY <1>1, ClaimShape DEF ClaimIsCurrent
<1>3. next'[t] = next[t]
  <2>1. ASSUME NEW v \in Workers, Commit(v) PROVE next'[t] = next[t]
    <3>1. CASE v = w
      BY <2>1, <3>1, NoClaimShape DEF Commit, EndClaim, TypeOK
    <3>2. CASE v # w
      BY <2>1, <3>2 DEF Commit, ClaimIsCurrent
    <3> QED BY <3>1, <3>2
  <2> QED BY <2>1, CopiesStay
<1>4. copies'[t][next[t]] >= copies[t][next[t]]
  BY <1>2, CopiesStay
<1>5. copies'[t][next[t]] \in Nat /\ copies[t][next[t]] \in Nat
  BY <1>2, TypeStep DEF TypeOK
<1> QED BY <1>3, <1>4, <1>5 DEF Covered

\* Every action keeps the finished templates of a tick covered by an expense.
LEMMA DoneStep == TypeOK /\ ClaimIsCurrent /\ DoneIsCovered /\ [Next]_vars => DoneIsCovered'
<1> SUFFICES ASSUME TypeOK, ClaimIsCurrent, DoneIsCovered, [Next]_vars PROVE DoneIsCovered'
  OBVIOUS
<1> USE RecurringAssumption
<1> DEFINE Done(v) == /\ \A t \in DOMAIN claim[v] \ todo[v] : Covered(t)
                      /\ pc[v] = "inserted" => current[v] \in todo[v] /\ Covered(current[v])
<1>0. ASSUME NEW v \in Workers, UNCHANGED <<claim[v], todo[v], pc[v], current[v]>> PROVE Done(v)'
  <2>1. claim[v] \in Claims /\ todo[v] \in SUBSET Templates
    BY DEF TypeOK
  <2>2. \A t \in DOMAIN claim[v] : Covered(t) => Covered(t)'
    BY <1>0, <2>1, ClaimShape, CoveredStays
  <2>3. \A t \in todo[v] : t \in DOMAIN claim[v]
    BY <2>1 DEF ClaimIsCurrent
  <2> QED BY <1>0, <2>2, <2>3 DEF DoneIsCovered
<1>1. ASSUME NEW w \in Workers, TryLock(w) PROVE DoneIsCovered'
  <2>1. Done(w)'
    <3>1. claim[w] \in Claims /\ pc'[w] = "ticking" /\ claim' = claim
      BY <1>1 DEF TypeOK, TryLock
    <3>2. DOMAIN claim[w] = {}
      BY <1>1, <3>1, ClaimShape DEF TryLock, ClaimIsCurrent
    <3> QED BY <3>1, <3>2
  <2>2. \A v \in Workers \ {w} : UNCHANGED <<claim[v], todo[v], pc[v], current[v]>>
    BY <1>1 DEF TypeOK, TryLock
  <2> QED BY <1>0, <2>1, <2>2 DEF DoneIsCovered
<1>2. ASSUME NEW w \in Workers, ClaimDue(w) PROVE DoneIsCovered'
  <2> PICK C \in SUBSET Due : LockAndRead(w, C)
    BY <1>2, ClaimsOnlyDue DEF ClaimDue
  <2>1. DOMAIN claim'[w] = C /\ todo'[w] = C /\ pc'[w] = "claimed"
    BY <1>2 DEF TypeOK, ClaimDue, LockAndRead
  <2>2. \A v \in Workers \ {w} : UNCHANGED <<claim[v], todo[v], pc[v], current[v]>>
    BY <1>2 DEF TypeOK, ClaimDue, LockAndRead
  <2> QED BY <1>0, <2>1, <2>2 DEF DoneIsCovered
<1>3. ASSUME NEW w \in Workers, NEW t \in Templates, Insert(w, t) PROVE DoneIsCovered'
  <2>1. t \in todo[w] /\ current'[w] = t /\ UNCHANGED <<claim, todo, next>>
    BY <1>3 DEF TypeOK, Insert, First
  <2>2. t \in DOMAIN claim[w] /\ claim[w][t] = next[t] /\ claim[w] \in Claims
    BY <2>1 DEF TypeOK, ClaimIsCurrent
  <2>3. next[t] \in Times
    BY <2>2, ClaimShape
  <2>4. Covered(t)'
    BY <1>3, <2>1, <2>2, <2>3 DEF TypeOK, Insert, Covered
  <2>5. \A u \in DOMAIN claim[w] : Covered(u) => Covered(u)'
    BY <2>1, <2>2, ClaimShape, CoveredStays
  <2>6. Done(w)'
    BY <2>1, <2>4, <2>5 DEF DoneIsCovered
  <2>7. \A v \in Workers \ {w} : UNCHANGED <<claim[v], todo[v], pc[v], current[v]>>
    BY <1>3 DEF TypeOK, Insert
  <2> QED BY <1>0, <2>6, <2>7 DEF DoneIsCovered
<1>4. ASSUME NEW w \in Workers, Advance(w) PROVE DoneIsCovered'
  <2>1. /\ todo'[w] = todo[w] \ {current[w]} /\ pc'[w] = "claimed"
        /\ UNCHANGED <<claim, next, copies>>
    BY <1>4 DEF TypeOK, Advance, dbVars
  <2>2. Covered(current[w])
    BY <1>4 DEF Advance, DoneIsCovered
  <2>3. Done(w)'
    BY <2>1, <2>2 DEF DoneIsCovered, Covered
  <2>4. \A v \in Workers \ {w} : UNCHANGED <<claim[v], todo[v], pc[v], current[v]>>
    BY <1>4 DEF TypeOK, Advance
  <2> QED BY <1>0, <2>3, <2>4 DEF DoneIsCovered
<1>5. ASSUME NEW w \in Workers, EndClaim(w), pc'[w] # "inserted",
             \A v \in Workers \ {w} : pc'[v] = pc[v]
      PROVE  DoneIsCovered'
  <2>1. Done(w)'
    BY <1>5, NoClaimShape DEF TypeOK, EndClaim
  <2>2. \A v \in Workers \ {w} : UNCHANGED <<claim[v], todo[v], pc[v], current[v]>>
    BY <1>5 DEF TypeOK, EndClaim
  <2> QED BY <1>0, <2>1, <2>2 DEF DoneIsCovered
<1>6. ASSUME NEW w \in Workers, Commit(w) PROVE DoneIsCovered'
  BY <1>5, <1>6 DEF TypeOK, Commit
<1>7. ASSUME NEW w \in Workers, Finish(w) PROVE DoneIsCovered'
  <2>1. Done(w)'
    <3>1. claim[w] \in Claims /\ pc'[w] = "idle" /\ claim' = claim
      BY <1>7 DEF TypeOK, Finish, Unlock
    <3>2. DOMAIN claim[w] = {}
      BY <1>7, <3>1, ClaimShape DEF Finish, ClaimIsCurrent
    <3> QED BY <3>1, <3>2
  <2>2. \A v \in Workers \ {w} : UNCHANGED <<claim[v], todo[v], pc[v], current[v]>>
    BY <1>7 DEF TypeOK, Finish, Unlock
  <2> QED BY <1>0, <2>1, <2>2 DEF DoneIsCovered
<1>8. ASSUME NEW w \in Workers, NEW t \in Templates, InsertFails(w, t) PROVE DoneIsCovered'
  BY <1>5, <1>8 DEF TypeOK, InsertFails, Unlock
<1>9. ASSUME NEW w \in Workers, Crash(w) PROVE DoneIsCovered'
  BY <1>5, <1>9 DEF TypeOK, Crash, Unlock
<1>10. CASE UNCHANGED <<claim, todo, pc, current>>
  BY <1>0, <1>10 DEF DoneIsCovered
<1>11. \/ UNCHANGED <<claim, todo, pc, current>>
       \/ \E w \in Workers : TryLock(w) \/ TickStep(w) \/ Crash(w)
  BY DEF Next, LoseLock, Create, DeleteTemplate, GroupDeleteBegin, GroupDeleteCommit,
         GroupDeleteCancel, TimePasses, vars
<1> QED
  BY <1>1, <1>2, <1>3, <1>4, <1>6, <1>7, <1>8, <1>9, <1>10, <1>11 DEF TickStep

\* The inductive invariant is one.
THEOREM StepInv == IInv /\ [Next]_vars => IInv'
BY TypeStep, CurrentStep, DoneStep, NoSkipStep DEF IInv

\* The inductive invariant holds in every reachable state of the worker.
THEOREM AlwaysInv == Spec => []IInv
BY InitInv, StepInv, PTL DEF Spec

-----------------------------------------------------------------------------
(* The theorems *)

\* Every reachable state has the types of TypeOK.
THEOREM TypeCorrect == Spec => []TypeOK
BY AlwaysInv, PTL DEF IInv

\* What a tick holds in memory of its claimed rows is what is committed.
THEOREM ClaimsCurrent == Spec => []ClaimIsCurrent
BY AlwaysInv, PTL DEF IInv

\* No occurrence is passed over, whatever fails and in whatever order.
THEOREM NothingSkipped == Spec => []NoSkip
BY AlwaysInv, PTL DEF IInv

\* A deleted template makes no expense and its schedule stands still.
THEOREM DeletedIsSilent == Spec => NothingAfterDelete
<1> DEFINE Silent == \A t \in Templates :
                        status[t] # "live" => copies'[t] = copies[t] /\ next'[t] = next[t]
<1>1. IInv /\ [Next]_vars => [Silent]_vars
  <2> SUFFICES ASSUME IInv, [Next]_vars, NEW t \in Templates, status[t] # "live"
               PROVE  copies'[t] = copies[t] /\ next'[t] = next[t]
    OBVIOUS
  <2>1. ASSUME NEW w \in Workers, NEW u \in Templates, Insert(w, u)
        PROVE  copies'[t] = copies[t]
    <3>1. u # t
      BY <2>1 DEF IInv, ClaimIsCurrent, Insert, First
    <3> QED BY <2>1, <3>1 DEF IInv, TypeOK, Insert
  <2>2. ASSUME NEW w \in Workers, Commit(w) PROVE next'[t] = next[t]
    BY <2>2 DEF IInv, ClaimIsCurrent, Commit
  <2>3. copies' = copies \/ \E w \in Workers, u \in Templates : Insert(w, u)
    BY DEF Next, TickStep, TryLock, ClaimDue, Advance, Commit, Finish, InsertFails, Crash,
           LoseLock, Create, DeleteTemplate, GroupDeleteBegin, GroupDeleteCommit, GroupDeleteCancel,
           TimePasses, dbVars, vars
  <2>4. next' = next \/ \E w \in Workers : Commit(w)
    BY CopiesStay DEF IInv
  <2> QED BY <2>1, <2>2, <2>3, <2>4
<1> QED BY <1>1, AlwaysInv, PTL DEF Spec, NothingAfterDelete

\* The worker implements Schedule: an insert materializes, a commit advances,
\* a deletion stops, and everything else is invisible.
THEOREM Implements == Spec => KeepsPromise
<1>1. Init => Promise!Init
  BY RecurringAssumption DEF Init, Promise!Init, Promise!Times, Times
<1>2. IInv /\ [Next]_vars => [Promise!Next]_(Promise!vars)
  <2> SUFFICES ASSUME IInv, [Next]_vars
               PROVE  Promise!Next \/ UNCHANGED Promise!vars
    OBVIOUS
  <2> DEFINE Stopped == {t \in Templates : status[t] \in {"deleted", "gone"}}
             Quiet == UNCHANGED <<next, copies, Stopped>>
  <2>1. ASSUME NEW w \in Workers, NEW t \in Templates, Insert(w, t) PROVE Promise!Materialize(t)
    <3>1. t \in DOMAIN claim[w] /\ claim[w] \in Claims /\ claim[w][t] = next[t]
      BY <2>1 DEF IInv, TypeOK, ClaimIsCurrent, Insert, First
    <3>2. next[t] \in Times /\ status[t] = "live"
      BY <3>1, ClaimShape DEF IInv, ClaimIsCurrent
    <3> QED BY <2>1, <3>1, <3>2 DEF Insert, Promise!Materialize, Promise!Times, Times
  <2>2. ASSUME NEW w \in Workers, Commit(w) PROVE Promise!Advance(DOMAIN claim[w])
    <3>1. /\ claim[w] \in Claims /\ DOMAIN claim[w] \in SUBSET Templates
          /\ todo[w] = {}
          /\ \A t \in DOMAIN claim[w] : /\ status[t] = "live" /\ claim[w][t] = next[t]
                                       /\ Covered(t) /\ next[t] \in Times
      BY <2>2, ClaimShape DEF IInv, TypeOK, ClaimIsCurrent, DoneIsCovered, Commit
    <3>2. next' = [t \in Templates |-> IF t \in DOMAIN claim[w] THEN next[t] + 1 ELSE next[t]]
      BY <2>2, <3>1 DEF Commit
    <3> QED BY <2>2, <3>1, <3>2 DEF Commit, Covered, Promise!Advance, Promise!Times, Times
  <2>3. ASSUME NEW t \in Templates, DeleteTemplate(t) PROVE Promise!Stop({t})
    BY <2>3 DEF IInv, TypeOK, DeleteTemplate, Promise!Stop
  <2>4. ASSUME NEW g \in Groups, GroupDeleteCommit(g)
        PROVE  \E S \in SUBSET Templates : Promise!Stop(S)
    <3> DEFINE T == {t \in TemplatesOf(g) : status[t] # "none"}
    <3>1. Stopped' = Stopped \cup T /\ UNCHANGED <<next, copies>>
      BY <2>4 DEF IInv, TypeOK, GroupDeleteCommit, TemplatesOf
    <3>2. PICK S \in SUBSET Templates : S = T
      BY DEF TemplatesOf
    <3>3. Promise!Stop(S)
      BY <3>1, <3>2 DEF Promise!Stop
    <3> QED BY <3>3
  <2>5. \/ Quiet
        \/ \E w \in Workers : Commit(w) \/ \E t \in Templates : Insert(w, t)
        \/ \E t \in Templates : DeleteTemplate(t)
        \/ \E g \in Groups : GroupDeleteCommit(g)
    <3>1. ASSUME NEW t \in Templates, Create(t) PROVE Quiet
      BY <3>1 DEF IInv, TypeOK, Create
    <3> QED
      BY <3>1 DEF Next, TickStep, TryLock, ClaimDue, Advance, Finish, InsertFails, Crash,
         LoseLock, GroupDeleteBegin, GroupDeleteCancel, TimePasses, dbVars, vars
  <2>6. Quiet => UNCHANGED Promise!vars
    BY DEF Promise!vars
  <2>7. \A w \in Workers : Commit(w) => DOMAIN claim[w] \in SUBSET Templates
    BY ClaimShape DEF IInv, TypeOK
  <2>8. \A t \in Templates : DeleteTemplate(t) => Promise!Next
    <3>1. \A t \in Templates : Promise!Stop({t}) => Promise!Next
      BY DEF Promise!Next
    <3> QED BY <2>3, <3>1
  <2>9. \A g \in Groups : GroupDeleteCommit(g) => Promise!Next
    BY <2>4 DEF Promise!Next
  <2>10. \A w \in Workers : /\ Commit(w) => Promise!Next
                            /\ \A t \in Templates : Insert(w, t) => Promise!Next
    BY <2>1, <2>2, <2>7 DEF Promise!Next
  <2> QED BY <2>5, <2>6, <2>8, <2>9, <2>10
<1> QED BY <1>1, <1>2, AlwaysInv, PTL DEF Spec, KeepsPromise, Promise!Spec

-----------------------------------------------------------------------------
(* Copies.  A tick that fails loses what it had made of the occurrence the  *)
(* schedule points at; Made says which templates stand to be made again.    *)

\* A tick under way has committed an expense of t and not yet its schedule.
Made(t) ==
    \E w \in Workers : t \in DOMAIN claim[w] /\ (t \in todo[w] => current[w] = t)

\* An occurrence the schedule has not passed, nor a tick made, has a copy for
\* each failed tick at most; the others have one more.
Failures == crashes + refused

Repeats ==
    \A t \in Templates, n \in Times :
        /\ copies[t][n] <= Failures + 1 /\ copies[t][n] <= MaxCopies
        /\ n >= next[t] /\ (n = next[t] => ~Made(t)) => copies[t][n] <= Failures

\* A tick remembers a template only between its insert and its advance.
OneAtATime == \A w \in Workers : pc[w] # "inserted" => current[w] = Nil

\* What is inductive of the count.
Counted == OneAtATime /\ Repeats

\* Every action keeps current to the time between insert and advance.
LEMMA OneStep == TypeOK /\ OneAtATime /\ [Next]_vars => OneAtATime'
<1> SUFFICES ASSUME TypeOK, OneAtATime, [Next]_vars PROVE OneAtATime'
  OBVIOUS
<1>1. ASSUME NEW w \in Workers, TryLock(w) \/ TickStep(w) \/ Crash(w) \/ LoseLock(w)
      PROVE  OneAtATime'
  BY <1>1 DEF TypeOK, OneAtATime, TickStep, TryLock, ClaimDue, LockAndRead, Insert, Advance,
     Commit, Finish, InsertFails, Crash, LoseLock, EndClaim, Unlock
<1>2. UNCHANGED <<pc, current>> \/ \E w \in Workers :
         TryLock(w) \/ TickStep(w) \/ Crash(w) \/ LoseLock(w)
  BY DEF Next, Create, DeleteTemplate, GroupDeleteBegin, GroupDeleteCommit,
         GroupDeleteCancel, TimePasses, vars
<1> QED BY <1>1, <1>2 DEF OneAtATime

\* A step that makes no expense, moves no schedule and forgets nothing a tick
\* has made keeps the count.
LEMMA NothingForgotten ==
    ASSUME Repeats, UNCHANGED <<next, copies, crashes, refused>>,
           \A t \in Templates : Made(t) => Made(t)'
    PROVE  Repeats'
<1>1. ASSUME NEW t \in Templates, NEW n \in Times
      PROVE  /\ copies'[t][n] <= Failures' + 1 /\ copies'[t][n] <= MaxCopies
             /\ n >= next'[t] /\ (n = next'[t] => ~Made(t)') => copies'[t][n] <= Failures'
  BY DEF Repeats, Failures
<1> QED BY <1>1 DEF Repeats, Failures

\* Every action keeps the count.
LEMMA RepeatsStep ==
    ASSUME IInv, Counted, [Next]_vars
    PROVE  Repeats'
<1> USE RecurringAssumption
<1>0. /\ TypeOK /\ ClaimIsCurrent /\ OneAtATime /\ Repeats
      /\ \A t \in Templates : next[t] \in Nat
      /\ \A t \in Templates, n \in Times : copies[t][n] \in Nat
      /\ crashes \in Nat /\ refused \in 0..MaxCopies
  BY DEF IInv, Counted, TypeOK
<1>1. ASSUME NEW w \in Workers, TryLock(w) \/ Finish(w) \/ LoseLock(w) PROVE Repeats'
  <2>1. UNCHANGED <<next, copies, crashes, refused, claim, todo, current>>
    BY <1>1 DEF TryLock, Finish, LoseLock, dbVars, faultVars
  <2> QED BY <1>0, <2>1, NothingForgotten DEF Made
<1>2. ASSUME NEW w \in Workers, ClaimDue(w) PROVE Repeats'
  <2> PICK C \in SUBSET Due : LockAndRead(w, C)
    BY <1>2, ClaimsOnlyDue DEF ClaimDue
  <2>1. \A t \in Templates : t \notin DOMAIN claim[w]
    BY <1>0, <1>2 DEF ClaimDue, ClaimIsCurrent
  <2>2. \A v \in Workers : v # w => UNCHANGED <<claim[v], todo[v], current[v]>>
    BY <1>0, <1>2 DEF TypeOK, ClaimDue, LockAndRead
  <2>3. \A t \in Templates : Made(t) => Made(t)'
    BY <2>1, <2>2 DEF Made
  <2>4. UNCHANGED <<next, copies, crashes, refused>>
    BY <1>2 DEF ClaimDue, dbVars, faultVars
  <2> QED BY <1>0, <2>3, <2>4, NothingForgotten
<1>3. ASSUME NEW w \in Workers, NEW t \in Templates, Insert(w, t) PROVE Repeats'
  <2>1. /\ t \in todo[w] /\ t \in DOMAIN claim[w] /\ claim[w][t] = next[t]
        /\ current[w] = Nil /\ rowLock[t] = w
    BY <1>0, <1>3 DEF Insert, First, ClaimIsCurrent, OneAtATime, TypeOK
  <2>2. ~Made(t)
    BY <1>0, <2>1 DEF Made, ClaimIsCurrent
  <2>3. /\ UNCHANGED <<next, crashes, refused, claim, todo>> /\ current'[w] = t
        /\ \A v \in Workers \ {w} : current'[v] = current[v]
    BY <1>0, <1>3 DEF Insert, TypeOK, faultVars
  <2>4. Made(t)'
    BY <2>1, <2>3 DEF Made
  <2>5. \A u \in Templates : Made(u) => Made(u)'
    BY <1>0, <2>1, <2>3, <2>4 DEF Made, ClaimIsCurrent
  <2>6. \A u \in Templates, n \in Times :
            IF u = t /\ n = next[t] THEN copies'[u][n] <= copies[u][n] + 1 /\ copies'[u][n] <= MaxCopies
                                   ELSE copies'[u][n] = copies[u][n]
    <3>1. ASSUME NEW u \in Templates, NEW n \in Times
          PROVE  copies'[u][n] = IF u = t /\ n = next[t]
                                 THEN IF copies[u][n] < MaxCopies THEN copies[u][n] + 1 ELSE copies[u][n]
                                 ELSE copies[u][n]
      BY <1>0, <1>3, <2>1 DEF Insert, TypeOK
    <3> QED BY <1>0, <3>1 DEF Repeats
  <2>7. ASSUME NEW u \in Templates, NEW n \in Times
        PROVE  /\ copies'[u][n] <= Failures' + 1 /\ copies'[u][n] <= MaxCopies
               /\ n >= next'[u] /\ (n = next'[u] => ~Made(u)') => copies'[u][n] <= Failures'
    <3>1. CASE u = t /\ n = next[t]
      <4>1. copies[u][n] <= Failures
        BY <1>0, <2>2, <3>1 DEF Repeats, Failures
      <4>2. copies'[u][n] \in Nat
        BY TypeStep, <1>0 DEF TypeOK
      <4> QED BY <1>0, <2>3, <2>4, <2>6, <3>1, <4>1, <4>2 DEF Failures
    <3>2. CASE ~(u = t /\ n = next[t])
      BY <1>0, <2>3, <2>5, <2>6, <3>2 DEF Repeats, Failures
    <3> QED BY <3>1, <3>2
  <2> QED BY <2>7 DEF Repeats, Failures
<1>4. ASSUME NEW w \in Workers, Advance(w) PROVE Repeats'
  <2>1. /\ UNCHANGED <<next, copies, crashes, refused, claim>>
        /\ todo'[w] = todo[w] \ {current[w]}
        /\ \A v \in Workers \ {w} : UNCHANGED <<todo[v], current[v]>>
    BY <1>0, <1>4 DEF Advance, TypeOK, dbVars, faultVars
  <2>2. \A t \in Templates : Made(t) => Made(t)'
    BY <2>1 DEF Made
  <2> QED BY <1>0, <2>1, <2>2, NothingForgotten
<1>5. ASSUME NEW w \in Workers, Commit(w) PROVE Repeats'
  <2>1. /\ UNCHANGED <<copies, crashes, refused>>
        /\ \A v \in Workers \ {w} : UNCHANGED <<claim[v], todo[v], current[v]>>
        /\ todo[w] = {}
    BY <1>0, <1>5 DEF Commit, EndClaim, TypeOK, faultVars
  <2>2. ASSUME NEW t \in Templates, NEW n \in Times
        PROVE  /\ copies'[t][n] <= Failures' + 1 /\ copies'[t][n] <= MaxCopies
               /\ n >= next'[t] /\ (n = next'[t] => ~Made(t)') => copies'[t][n] <= Failures'
    <3>1. CASE t \in DOMAIN claim[w]
      <4>1. next'[t] = next[t] + 1
        BY <1>0, <1>5, <3>1 DEF Commit, ClaimIsCurrent
      <4>2. n \in Nat
        BY DEF Times
      <4> QED BY <1>0, <2>1, <4>1, <4>2 DEF Repeats, Failures
    <3>2. CASE t \notin DOMAIN claim[w]
      <4>1. next'[t] = next[t]
        BY <1>5, <3>2 DEF Commit
      <4>2. Made(t) => Made(t)'
        BY <2>1, <3>2 DEF Made
      <4> QED BY <1>0, <2>1, <4>1, <4>2 DEF Repeats, Failures
    <3> QED BY <3>1, <3>2
  <2> QED BY <2>2 DEF Repeats, Failures
<1>6. ASSUME NEW w \in Workers, Crash(w) PROVE Repeats'
  <2>1. UNCHANGED <<next, copies, refused>> /\ crashes' = crashes + 1
    BY <1>6 DEF Crash, dbVars
  <2>2. ASSUME NEW t \in Templates, NEW n \in Times
        PROVE  copies'[t][n] <= Failures' + 1 /\ copies'[t][n] <= MaxCopies /\ copies'[t][n] <= Failures'
    BY <1>0, <2>1 DEF Repeats, Failures
  <2> QED BY <2>2 DEF Repeats, Failures
<1>7. ASSUME UNCHANGED <<next, copies, crashes, refused, claim, todo, current>> PROVE Repeats'
  BY <1>0, <1>7, NothingForgotten DEF Made
<1>8. \/ UNCHANGED <<next, copies, crashes, refused, claim, todo, current>>
      \/ \E w \in Workers : TryLock(w) \/ TickStep(w) \/ Crash(w) \/ LoseLock(w)
  BY DEF Next, Create, DeleteTemplate, GroupDeleteBegin, GroupDeleteCommit,
         GroupDeleteCancel, TimePasses, faultVars, vars
<1>9. ASSUME NEW w \in Workers, NEW t \in Templates, InsertFails(w, t) PROVE Repeats'
  <2>1. /\ UNCHANGED <<next, copies, crashes>>
        /\ refused' = IF refused < MaxCopies THEN refused + 1 ELSE refused
    BY <1>9 DEF InsertFails, dbVars
  <2>2. ASSUME NEW u \in Templates, NEW n \in Times
        PROVE  copies'[u][n] <= MaxCopies /\ copies'[u][n] <= Failures'
    <3>1. copies[u][n] \in Nat /\ copies[u][n] <= Failures + 1 /\ copies[u][n] <= MaxCopies
      BY <1>0 DEF Repeats
    <3> QED BY <1>0, <2>1, <3>1 DEF Failures
  <2> QED BY <1>0, <2>1, <2>2 DEF Repeats, Failures
<1> QED BY <1>1, <1>2, <1>3, <1>4, <1>5, <1>6, <1>7, <1>8, <1>9 DEF TickStep

\* An occurrence is made twice only because a tick failed, once for each: two
\* workers never make it both, although nothing but row locks keeps them apart.
THEOREM RepeatedByFailure == Spec => []DuplicatesOnlyByFailure
<1>1. Init => Counted
  <2> SUFFICES ASSUME Init PROVE Counted
    OBVIOUS
  <2>1. OneAtATime
    BY DEF Init, OneAtATime
  <2>2. Repeats
    BY RecurringAssumption DEF Init, Repeats, Times, Failures
  <2> QED BY <2>1, <2>2 DEF Counted
<1>2. IInv /\ Counted /\ [Next]_vars => Counted'
  <2> SUFFICES ASSUME IInv, Counted, [Next]_vars PROVE Counted'
    OBVIOUS
  <2>1. Repeats'
    BY RepeatsStep
  <2>2. OneAtATime'
    BY OneStep DEF IInv, Counted
  <2> QED BY <2>1, <2>2 DEF Counted
<1>3. IInv /\ Counted => DuplicatesOnlyByFailure
  <2> SUFFICES ASSUME IInv, Counted, NEW t \in Templates, NEW n \in Times
               PROVE  copies[t][n] <= 1 + crashes + refused
    BY DEF DuplicatesOnlyByFailure
  <2>1. /\ copies[t][n] <= Failures + 1 /\ copies[t][n] \in Nat
        /\ crashes \in Nat /\ refused \in Nat
    BY RecurringAssumption DEF Counted, Repeats, IInv, TypeOK
  <2> QED BY <2>1 DEF Failures
<1> QED BY <1>1, <1>2, <1>3, AlwaysInv, PTL DEF Spec

=============================================================================
