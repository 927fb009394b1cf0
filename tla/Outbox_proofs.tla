---------------------------- MODULE Outbox_proofs ----------------------------
(***************************************************************************)
(* What the outbox guarantees for any number of workers, messages, faults  *)
(* and any limits: types, that no message is marked as sent that the       *)
(* server has not accepted, and how often at most one is tried.            *)
(***************************************************************************)
EXTENDS Outbox, FiniteSetTheorems, TLAPS

\* What a worker is about to record as sent was accepted.
RecordIsTrue == \A w \in Workers : pc[w] = "sent" => delivered[current[w]] > 0

IInv == TypeOK /\ SentWasDelivered /\ RecordIsTrue

\* The steps that try a row, and the steps that leave a tick, keep the types.
LEMMA TakeTypes ==
    ASSUME TypeOK, NEW w \in Workers, NEW m \in Messages, NEW outcome \in {"sent", "failed"},
           Take(w, m, outcome), delivered' \in [Messages -> Nat], faults' \in 0..Faults
    PROVE  TypeOK'
<1>1. m \in queued /\ m # Nil
  BY OutboxAssumption DEF TypeOK, Take
<1>2. batch' \in [Workers -> SUBSET queued] /\ current' \in [Workers -> queued \cup {Nil}]
  BY <1>1 DEF TypeOK, Take
<1>3. \A v \in Workers : current'[v] # Nil <=> pc'[v] \in {"sent", "failed"}
  BY <1>1 DEF TypeOK, Take
<1> QED BY <1>2, <1>3 DEF TypeOK, Take, table

\* A tick that ends leaves its worker idle.
LEMMA LeaveTypes ==
    ASSUME TypeOK, NEW w \in Workers, Leave(w), faults' \in 0..Faults,
           UNCHANGED <<table, delivered, configured>>
    PROVE  TypeOK'
BY DEF TypeOK, Leave, table

\* Recording an outcome, or failing to, leaves the worker to its batch.
LEMMA RecordedTypes ==
    ASSUME TypeOK, NEW w \in Workers, Recorded(w), faults' \in 0..Faults,
           sent' \subseteq queued, due' \subseteq queued, attempts' \in [Messages -> Nat]
    PROVE  TypeOK'
BY DEF TypeOK, Recorded

\* Every action keeps the types.
LEMMA TypeStep == TypeOK /\ [Next]_vars => TypeOK'
<1> SUFFICES ASSUME TypeOK, [Next]_vars PROVE TypeOK'
  OBVIOUS
<1> USE OutboxAssumption
<1>0. faults < Faults => faults + 1 \in 0..Faults
  BY DEF TypeOK
<1>1. ASSUME NEW m \in Messages, Enqueue(m) PROVE TypeOK'
  BY <1>1 DEF TypeOK, Enqueue, worker
<1>2. ASSUME NEW m \in Messages, Elapse(m) PROVE TypeOK'
  BY <1>2 DEF TypeOK, Elapse, worker
<1>3. CASE Configure
  BY <1>3 DEF TypeOK, Configure, table, worker
<1>4. ASSUME NEW w \in Workers, TryLock(w) PROVE TypeOK'
  BY <1>4 DEF TypeOK, TryLock, table
<1>5. ASSUME NEW w \in Workers, Skip(w) \/ Finish(w) \/ Crash(w) PROVE TypeOK'
  BY <1>0, <1>5, LeaveTypes DEF TypeOK, Skip, Finish, Crash
<1>6. ASSUME NEW w \in Workers, ClaimDue(w) PROVE TypeOK'
  <2> PICK B \in Readable : batch' = [batch EXCEPT ![w] = B]
    BY <1>6 DEF ClaimDue
  <2>1. B \subseteq queued
    BY DEF Readable, Pending
  <2> QED BY <1>6, <2>1 DEF TypeOK, ClaimDue, table
<1>7. ASSUME NEW w \in Workers, NEW m \in Messages,
             Send(w, m) \/ SendFails(w, m) \/ SendUnclear(w, m)
      PROVE  TypeOK'
  <2>1. delivered' \in [Messages -> Nat] /\ faults' \in 0..Faults
    BY <1>0, <1>7 DEF TypeOK, Send, SendFails, SendUnclear
  <2> QED BY <1>7, <2>1, TakeTypes DEF Send, SendFails, SendUnclear
<1>8. ASSUME NEW w \in Workers, MarkSent(w) \/ MarkFailed(w) \/ MarkLost(w) PROVE TypeOK'
  <2>1. current[w] \in queued
    BY <1>8 DEF TypeOK, MarkSent, MarkFailed, MarkLost
  <2>2. /\ faults' \in 0..Faults /\ sent' \subseteq queued /\ due' \subseteq queued
        /\ attempts' \in [Messages -> Nat]
    BY <1>0, <1>8, <2>1 DEF TypeOK, MarkSent, MarkFailed, MarkLost
  <2> QED BY <1>8, <2>2, RecordedTypes DEF MarkSent, MarkFailed, MarkLost
<1>9. ASSUME NEW w \in Workers, LoseLock(w) PROVE TypeOK'
  BY <1>0, <1>9 DEF TypeOK, LoseLock, table
<1>10. CASE UNCHANGED vars
  BY <1>10 DEF TypeOK, vars
<1> QED
  BY <1>1, <1>2, <1>3, <1>4, <1>5, <1>6, <1>7, <1>8, <1>9, <1>10 DEF Next, Goes, Drain

\* Deliveries are never forgotten, and a worker is about to record a success
\* only if it has just had one or had one already.
LEMMA DeliveryStep ==
    TypeOK /\ SentWasDelivered /\ RecordIsTrue /\ [Next]_vars => SentWasDelivered' /\ RecordIsTrue'
<1> SUFFICES ASSUME TypeOK, SentWasDelivered, RecordIsTrue, [Next]_vars
             PROVE  SentWasDelivered' /\ RecordIsTrue'
  OBVIOUS
<1>1. ASSUME NEW w \in Workers, MarkSent(w) PROVE SentWasDelivered' /\ RecordIsTrue'
  <2>1. delivered[current[w]] > 0
    BY <1>1 DEF RecordIsTrue, MarkSent
  <2> QED BY <1>1, <2>1 DEF TypeOK, MarkSent, Recorded, SentWasDelivered, RecordIsTrue
<1>2. ASSUME NEW w \in Workers, MarkFailed(w) \/ MarkLost(w)
      PROVE  SentWasDelivered' /\ RecordIsTrue'
  BY <1>2 DEF TypeOK, MarkFailed, MarkLost, Recorded, SentWasDelivered, RecordIsTrue
<1>3. ASSUME NEW w \in Workers, NEW m \in Messages,
             Send(w, m) \/ SendFails(w, m) \/ SendUnclear(w, m)
      PROVE  SentWasDelivered' /\ RecordIsTrue'
  <2>1. /\ \A x \in Messages : delivered[x] > 0 => delivered'[x] > 0
        /\ sent' = sent /\ sent \subseteq Messages
    BY <1>3 DEF TypeOK, Send, SendFails, SendUnclear, Take, table
  <2>2. ASSUME NEW v \in Workers, pc'[v] = "sent" PROVE delivered'[current'[v]] > 0
    <3>1. CASE v = w
      <4>1. Send(w, m)
        BY <1>3, <2>2, <3>1 DEF TypeOK, Send, SendFails, SendUnclear, Take
      <4> QED BY <3>1, <4>1 DEF TypeOK, Send, Take
    <3>2. CASE v # w
      <4>1. pc[v] = "sent" /\ current'[v] = current[v]
        BY <1>3, <2>2, <3>2 DEF TypeOK, Send, SendFails, SendUnclear, Take
      <4>2. current[v] \in Messages /\ delivered[current[v]] > 0
        BY <4>1 DEF TypeOK, RecordIsTrue
      <4> QED BY <2>1, <4>1, <4>2
    <3> QED BY <3>1, <3>2
  <2> QED BY <2>1, <2>2 DEF SentWasDelivered, RecordIsTrue
<1>4. ASSUME UNCHANGED <<sent, delivered>>,
             \A w \in Workers : pc'[w] = "sent" => pc[w] = "sent" /\ current'[w] = current[w]
      PROVE  SentWasDelivered' /\ RecordIsTrue'
  BY <1>4 DEF SentWasDelivered, RecordIsTrue
<1>5. ASSUME NEW w \in Workers,
             TryLock(w) \/ Skip(w) \/ ClaimDue(w) \/ Finish(w) \/ Crash(w) \/ LoseLock(w)
      PROVE  SentWasDelivered' /\ RecordIsTrue'
  BY <1>4, <1>5 DEF TypeOK, TryLock, Skip, ClaimDue, Finish, Crash, LoseLock, Leave, table
<1>6. CASE \/ \E m \in Messages : Enqueue(m) \/ Elapse(m)
           \/ Configure
           \/ UNCHANGED vars
  BY <1>4, <1>6 DEF Enqueue, Elapse, Configure, vars, table, worker
<1> QED BY <1>1, <1>2, <1>3, <1>5, <1>6 DEF Next, Goes, Drain

\* The invariant holds before anything is queued.
LEMMA InitInv == Init => IInv
BY OutboxAssumption DEF Init, IInv, TypeOK, SentWasDelivered, RecordIsTrue

\* The invariant holds in every reachable state.
THEOREM AlwaysInv == Spec => []IInv
<1>1. IInv /\ [Next]_vars => IInv'
  BY TypeStep, DeliveryStep DEF IInv
<1> QED BY <1>1, InitInv, PTL DEF Spec

\* Every reachable state has the types of TypeOK.
THEOREM TypeCorrect == Spec => []TypeOK
BY AlwaysInv, PTL DEF IInv

\* No message is marked as sent that the server has not accepted.
THEOREM NothingLost == Spec => []SentWasDelivered
BY AlwaysInv, PTL DEF IInv

-----------------------------------------------------------------------------
(* How often a row is tried *)

\* Workers in a tick, and those of them that have lost the lock.
Active == {w \in Workers : pc[w] # "idle"}
Strays == {w \in Workers : pc[w] # "idle" /\ advisory # w}

\* Workers that are yet to deliver m; to record that it was accepted; or to try
\* it or record a failure of it.
Holding(m) == {w \in Workers : m \in batch[w]}
Unrecorded(m) == {w \in Workers : pc[w] = "sent" /\ current[w] = m}
Trying(m) == {w \in Workers : m \in batch[w] \/ (pc[w] = "failed" /\ current[w] = m)}

\* The rows a worker has in memory.
Local ==
    \A w \in Workers : /\ pc[w] \in {"idle", "ticking"} => batch[w] = {}
                       /\ current[w] \notin batch[w]

\* Every stray has cost a fault, and so has every delivery that nobody is about
\* to record; once a row is marked, only those who have read it deliver it.
Numbers ==
    \A m \in Messages :
        /\ Cardinality(Strays) <= faults
        /\ attempts[m] + Cardinality(Trying(m)) <= MaxAttempts + faults
        /\ m \notin sent => delivered[m] + Cardinality(Strays) <= faults + Cardinality(Unrecorded(m))
        /\ m \in sent => delivered[m] + Cardinality(Holding(m)) <= faults + 1

\* A set of workers in which only w may have come or gone.
LEMMA OneComesOrGoes ==
    ASSUME NEW S \in SUBSET Workers, NEW T \in SUBSET Workers, NEW w \in Workers,
           S \ {w} = T \ {w}
    PROVE  /\ Cardinality(S) \in Nat /\ Cardinality(T) \in Nat
           /\ Cardinality(T) = Cardinality(S) + (IF w \in T THEN 1 ELSE 0) - (IF w \in S THEN 1 ELSE 0)
<1>1. IsFiniteSet(S) /\ IsFiniteSet(T)
  BY OutboxAssumption, FS_Subset
<1>2. Cardinality(S) \in Nat /\ Cardinality(T) \in Nat
  BY <1>1, FS_CardinalityType
<1>3. /\ Cardinality(S \ {w}) = IF w \in S THEN Cardinality(S) - 1 ELSE Cardinality(S)
      /\ Cardinality(T \ {w}) = IF w \in T THEN Cardinality(T) - 1 ELSE Cardinality(T)
  BY <1>1, FS_RemoveElement
<1> QED
  BY <1>2, <1>3

\* Workers that try or record a message are in a tick, and of those all but one
\* are strays.
LEMMA Sizes ==
    ASSUME TypeOK, Local, NEW m \in Messages
    PROVE  /\ Cardinality(Active) \in Nat /\ Cardinality(Strays) \in Nat
           /\ Cardinality(Holding(m)) \in Nat /\ Cardinality(Unrecorded(m)) \in Nat
           /\ Cardinality(Trying(m)) \in Nat
           /\ Cardinality(Active) <= Cardinality(Strays) + 1
           /\ Cardinality(Holding(m)) + Cardinality(Unrecorded(m)) <= Cardinality(Active)
           /\ \A w \in Active : w \notin Trying(m) => Cardinality(Trying(m)) < Cardinality(Active)
<1>1. \A S \in SUBSET Workers : IsFiniteSet(S) /\ Cardinality(S) \in Nat
  BY OutboxAssumption, FS_Subset, FS_CardinalityType
<1>2. /\ Active \in SUBSET Workers /\ Strays \in SUBSET Workers /\ Holding(m) \in SUBSET Workers
      /\ Unrecorded(m) \in SUBSET Workers /\ Trying(m) \in SUBSET Workers
  BY DEF Active, Strays, Holding, Unrecorded, Trying
<1>3. Cardinality(Active) <= Cardinality(Strays) + 1
  <2>1. CASE advisory \in Active
    <3>1. Strays = Active \ {advisory}
      BY DEF Active, Strays
    <3> QED BY <1>1, <1>2, <2>1, <3>1, FS_RemoveElement
  <2>2. CASE advisory \notin Active
    <3>1. Strays = Active
      BY <2>2 DEF Active, Strays
    <3> QED BY <1>1, <1>2, <3>1
  <2> QED BY <2>1, <2>2
<1>4. Holding(m) \subseteq Active /\ Unrecorded(m) \subseteq Active /\ Trying(m) \subseteq Active
      /\ Holding(m) \cap Unrecorded(m) = {}
  BY DEF Active, Holding, Unrecorded, Trying, Local
<1>5. Cardinality(Holding(m)) + Cardinality(Unrecorded(m)) <= Cardinality(Active)
  <2>1. Cardinality(Holding(m) \cup Unrecorded(m)) = Cardinality(Holding(m)) + Cardinality(Unrecorded(m))
    <3>1. Cardinality(Holding(m) \cap Unrecorded(m)) = 0
      BY <1>4, FS_EmptySet
    <3>2. Cardinality(Holding(m) \cup Unrecorded(m))
              = Cardinality(Holding(m)) + Cardinality(Unrecorded(m)) - Cardinality(Holding(m) \cap Unrecorded(m))
      BY <1>1, <1>2, FS_Union
    <3> QED BY <1>1, <1>2, <3>1, <3>2
  <2>2. Cardinality(Holding(m) \cup Unrecorded(m)) <= Cardinality(Active)
    <3>1. Holding(m) \cup Unrecorded(m) \subseteq Active /\ IsFiniteSet(Active)
      BY <1>1, <1>2, <1>4
    <3> QED BY <3>1, FS_Subset
  <2> QED BY <2>1, <2>2
<1>6. ASSUME NEW w \in Active, w \notin Trying(m) PROVE Cardinality(Trying(m)) < Cardinality(Active)
  <2>1. Trying(m) \subseteq Active \ {w} /\ IsFiniteSet(Active)
    BY <1>1, <1>2, <1>4, <1>6
  <2>2. Cardinality(Active \ {w}) = Cardinality(Active) - 1 /\ IsFiniteSet(Active \ {w})
    BY <2>1, FS_RemoveElement
  <2>3. Cardinality(Trying(m)) <= Cardinality(Active \ {w})
    BY <2>1, <2>2, FS_Subset
  <2> QED BY <1>1, <1>2, <2>2, <2>3
<1> QED
  BY <1>1, <1>2, <1>3, <1>5, <1>6

\* A step of one worker moves only that worker in and out of the sets.
LEMMA OneWorks ==
    ASSUME NEW w \in Workers, NEW m \in Messages,
           \A v \in Workers \ {w} : /\ pc'[v] = pc[v] /\ batch'[v] = batch[v] /\ current'[v] = current[v]
                                    /\ advisory' = v <=> advisory = v
    PROVE  /\ Cardinality(Strays') = Cardinality(Strays) + (IF w \in Strays' THEN 1 ELSE 0)
                                     - (IF w \in Strays THEN 1 ELSE 0)
           /\ Cardinality(Holding(m)') = Cardinality(Holding(m)) + (IF w \in Holding(m)' THEN 1 ELSE 0)
                                     - (IF w \in Holding(m) THEN 1 ELSE 0)
           /\ Cardinality(Unrecorded(m)') = Cardinality(Unrecorded(m))
                                     + (IF w \in Unrecorded(m)' THEN 1 ELSE 0)
                                     - (IF w \in Unrecorded(m) THEN 1 ELSE 0)
           /\ Cardinality(Trying(m)') = Cardinality(Trying(m)) + (IF w \in Trying(m)' THEN 1 ELSE 0)
                                     - (IF w \in Trying(m) THEN 1 ELSE 0)
<1>1. /\ Strays \ {w} = Strays' \ {w}
      /\ Holding(m) \ {w} = Holding(m)' \ {w}
      /\ Unrecorded(m) \ {w} = Unrecorded(m)' \ {w}
      /\ Trying(m) \ {w} = Trying(m)' \ {w}
  BY DEF Strays, Holding, Unrecorded, Trying
<1>2. /\ Strays \in SUBSET Workers /\ Strays' \in SUBSET Workers
      /\ Holding(m) \in SUBSET Workers /\ Holding(m)' \in SUBSET Workers
      /\ Unrecorded(m) \in SUBSET Workers /\ Unrecorded(m)' \in SUBSET Workers
      /\ Trying(m) \in SUBSET Workers /\ Trying(m)' \in SUBSET Workers
  BY DEF Strays, Holding, Unrecorded, Trying
<1> QED
  BY <1>1, <1>2, OneComesOrGoes

\* A worker reads rows only when it holds none, and takes them off as it goes.
LEMMA LocalStep == TypeOK /\ Local /\ [Next]_vars => Local'
<1> SUFFICES ASSUME TypeOK, Local, [Next]_vars PROVE Local'
  OBVIOUS
<1> DEFINE L(v) == /\ pc[v] \in {"idle", "ticking"} => batch[v] = {}
                   /\ current[v] \notin batch[v]
<1>1. ASSUME NEW w \in Workers, L(w)',
             \A v \in Workers \ {w} : pc'[v] = pc[v] /\ batch'[v] = batch[v] /\ current'[v] = current[v]
      PROVE  Local'
  BY <1>1 DEF Local
<1>2. ASSUME NEW w \in Workers, Goes(w) PROVE Local'
  <2>1. CASE TryLock(w) \/ ClaimDue(w) \/ LoseLock(w)
    <3>1. CASE ClaimDue(w)
      <4>1. current[w] = Nil /\ current' = current
        BY <3>1 DEF TypeOK, ClaimDue
      <4>2. PICK B \in Readable : batch' = [batch EXCEPT ![w] = B]
        BY <3>1 DEF ClaimDue
      <4>3. Nil \notin B
        BY OutboxAssumption DEF Readable, Pending, TypeOK
      <4> QED BY <1>1, <3>1, <4>1, <4>2, <4>3 DEF TypeOK, ClaimDue
    <3>2. CASE TryLock(w)
      BY <1>1, <3>2 DEF TypeOK, TryLock, Local
    <3>3. CASE LoseLock(w)
      BY <3>3 DEF LoseLock, Local
    <3> QED BY <2>1, <3>1, <3>2, <3>3
  <2>2. CASE Leave(w)
    BY <1>1, <2>2 DEF TypeOK, Leave
  <2>3. ASSUME NEW m \in Messages, Send(w, m) \/ SendFails(w, m) \/ SendUnclear(w, m) PROVE Local'
    BY <1>1, <2>3 DEF TypeOK, Send, SendFails, SendUnclear, Take
  <2>4. CASE Recorded(w)
    <3>1. Nil \notin batch[w]
      BY OutboxAssumption DEF TypeOK
    <3> QED BY <1>1, <2>4, <3>1 DEF TypeOK, Recorded
  <2> QED
    BY <1>2, <2>1, <2>2, <2>3, <2>4
    DEF Goes, Drain, Skip, Finish, Crash, MarkSent, MarkFailed, MarkLost
<1>3. CASE \/ \E m \in Messages : Enqueue(m) \/ Elapse(m)
           \/ Configure
           \/ UNCHANGED vars
  BY <1>3 DEF Enqueue, Elapse, Configure, vars, worker, Local
<1> QED BY <1>2, <1>3 DEF Next

\* Every fault pays for one more delivery or attempt, and nothing else does.
LEMMA NumbersStep == TypeOK /\ Local /\ Numbers /\ [Next]_vars => Numbers'
<1> SUFFICES ASSUME TypeOK, Local, Numbers, [Next]_vars PROVE Numbers'
  OBVIOUS
<1> USE OutboxAssumption
<1> DEFINE N(m) ==
        /\ Cardinality(Strays) <= faults
        /\ attempts[m] + Cardinality(Trying(m)) <= MaxAttempts + faults
        /\ m \notin sent => delivered[m] + Cardinality(Strays) <= faults + Cardinality(Unrecorded(m))
        /\ m \in sent => delivered[m] + Cardinality(Holding(m)) <= faults + 1
<1>1. ASSUME NEW w \in Workers, Goes(w), NEW m \in Messages
      PROVE  N(m)'
  <2>1. /\ Cardinality(Active) \in Nat /\ Cardinality(Strays) \in Nat
        /\ Cardinality(Holding(m)) \in Nat /\ Cardinality(Unrecorded(m)) \in Nat
        /\ Cardinality(Trying(m)) \in Nat
        /\ Cardinality(Active) <= Cardinality(Strays) + 1
        /\ Cardinality(Holding(m)) + Cardinality(Unrecorded(m)) <= Cardinality(Active)
        /\ w \in Active /\ w \notin Trying(m) => Cardinality(Trying(m)) < Cardinality(Active)
    BY Sizes
  <2>2. N(m)
    BY DEF Numbers
  <2>3. attempts[m] \in Nat /\ delivered[m] \in Nat /\ faults \in Nat /\ MaxAttempts \in Nat
    BY DEF TypeOK
  <2>4. \A v \in Workers \ {w} : /\ pc'[v] = pc[v] /\ batch'[v] = batch[v] /\ current'[v] = current[v]
                                 /\ advisory' = v <=> advisory = v
    BY <1>1 DEF TypeOK, Goes, Drain, TryLock, Skip, ClaimDue, MarkLost, Crash, LoseLock, SendUnclear,
              Send, SendFails, Take, MarkSent, MarkFailed, Finish, Recorded, Leave
  <2>5. /\ Cardinality(Strays') = Cardinality(Strays) + (IF w \in Strays' THEN 1 ELSE 0)
                                     - (IF w \in Strays THEN 1 ELSE 0)
        /\ Cardinality(Holding(m)') = Cardinality(Holding(m)) + (IF w \in Holding(m)' THEN 1 ELSE 0)
                                     - (IF w \in Holding(m) THEN 1 ELSE 0)
        /\ Cardinality(Unrecorded(m)') = Cardinality(Unrecorded(m))
                                     + (IF w \in Unrecorded(m)' THEN 1 ELSE 0)
                                     - (IF w \in Unrecorded(m) THEN 1 ELSE 0)
        /\ Cardinality(Trying(m)') = Cardinality(Trying(m)) + (IF w \in Trying(m)' THEN 1 ELSE 0)
                                     - (IF w \in Trying(m) THEN 1 ELSE 0)
    BY <2>4, OneWorks
  <2>6. /\ w \in Active <=> pc[w] # "idle"
        /\ w \in Strays <=> pc[w] # "idle" /\ advisory # w
        /\ w \in Strays' <=> pc'[w] # "idle" /\ advisory' # w
        /\ w \in Holding(m) <=> m \in batch[w]
        /\ w \in Holding(m)' <=> m \in batch'[w]
        /\ w \in Unrecorded(m) <=> pc[w] = "sent" /\ current[w] = m
        /\ w \in Unrecorded(m)' <=> pc'[w] = "sent" /\ current'[w] = m
        /\ w \in Trying(m) <=> m \in batch[w] \/ (pc[w] = "failed" /\ current[w] = m)
        /\ w \in Trying(m)' <=> m \in batch'[w] \/ (pc'[w] = "failed" /\ current'[w] = m)
    BY DEF Active, Strays, Holding, Unrecorded, Trying
  <2>7. /\ pc[w] \in {"idle", "ticking"} => batch[w] = {}
        /\ current[w] \notin batch[w]
    BY DEF Local
  <2> DEFINE S == Cardinality(Strays)
             H == Cardinality(Holding(m))
             U == Cardinality(Unrecorded(m))
             T == Cardinality(Trying(m))
             A == Cardinality(Active)
  <2>8. CASE TryLock(w)
    <3>1. /\ pc[w] = "idle" /\ pc'[w] = "ticking" /\ advisory = Nil /\ advisory' = w
          /\ UNCHANGED <<batch, current, attempts, delivered, sent, faults>>
      BY <2>8 DEF TypeOK, TryLock, table
    <3> QED BY <2>1, <2>2, <2>3, <2>5, <2>6, <3>1
  <2>9. CASE Leave(w) /\ UNCHANGED <<table, delivered>> /\ faults' \in {faults, faults + 1}
             /\ (pc[w] = "sent" => faults' = faults + 1)
    <3>1. /\ pc'[w] = "idle" /\ batch'[w] = {} /\ current'[w] = Nil
          /\ UNCHANGED <<attempts, delivered, sent>>
      BY <2>9 DEF TypeOK, Leave, table
    <3> QED BY <2>1, <2>2, <2>3, <2>5, <2>6, <2>9, <3>1
  <2>10. CASE ClaimDue(w)
    <3>1. /\ pc[w] = "ticking" /\ pc'[w] = "draining"
          /\ UNCHANGED <<advisory, current, attempts, delivered, sent, faults>>
          /\ batch[w] = {} /\ m \in batch'[w] => m \notin sent /\ attempts[m] < MaxAttempts
      <4>1. PICK B \in Readable : batch' = [batch EXCEPT ![w] = B]
        BY <2>10 DEF ClaimDue
      <4>2. batch'[w] = B
        BY <4>1 DEF TypeOK
      <4>3. m \in B => m \notin sent /\ ~(attempts[m] >= MaxAttempts)
        BY DEF Readable, Pending, GivenUp
      <4> QED BY <2>3, <2>7, <2>10, <4>2, <4>3 DEF TypeOK, ClaimDue, table
    <3> QED BY <2>1, <2>2, <2>3, <2>5, <2>6, <2>7, <3>1
  <2>11. ASSUME NEW x \in Messages, Send(w, x) \/ SendFails(w, x) \/ SendUnclear(w, x)
         PROVE  N(m)'
    <3>1. /\ pc[w] = "draining" /\ pc'[w] \in {"sent", "failed"} /\ x \in batch[w]
          /\ batch'[w] = batch[w] \ {x} /\ current'[w] = x
          /\ UNCHANGED <<advisory, attempts, sent>>
      BY <2>11 DEF TypeOK, Send, SendFails, SendUnclear, Take, table
    <3>2. \/ /\ delivered'[m] = IF m = x THEN delivered[m] + 1 ELSE delivered[m]
             /\ \/ pc'[w] = "sent" /\ faults' = faults
                \/ pc'[w] = "failed" /\ faults' = faults + 1
          \/ delivered' = delivered /\ faults' = faults /\ pc'[w] = "failed"
      BY <2>11 DEF TypeOK, Send, SendFails, SendUnclear, Take
    <3> QED BY <2>1, <2>2, <2>3, <2>5, <2>6, <3>1, <3>2
  <2>12. CASE MarkSent(w)
    <3>1. /\ pc[w] = "sent" /\ pc'[w] = "draining" /\ current'[w] = Nil
          /\ sent' = sent \cup {current[w]}
          /\ UNCHANGED <<advisory, attempts, delivered, faults, batch>>
      BY <2>12 DEF TypeOK, MarkSent, Recorded
    <3> QED BY <2>1, <2>2, <2>3, <2>5, <2>6, <3>1
  <2>13. CASE MarkFailed(w)
    <3>1. /\ pc[w] = "failed" /\ pc'[w] = "draining" /\ current'[w] = Nil
          /\ attempts'[m] = IF m = current[w] THEN attempts[m] + 1 ELSE attempts[m]
          /\ UNCHANGED <<advisory, sent, delivered, faults, batch>>
      BY <2>13 DEF TypeOK, MarkFailed, Recorded
    <3> QED BY <2>1, <2>2, <2>3, <2>5, <2>6, <2>7, <3>1
  <2>14. CASE MarkLost(w)
    <3>1. /\ pc[w] \in {"sent", "failed"} /\ pc'[w] = "draining" /\ current'[w] = Nil
          /\ faults' = faults + 1
          /\ UNCHANGED <<advisory, sent, delivered, attempts, batch>>
      BY <2>14 DEF TypeOK, MarkLost, Recorded
    <3> QED BY <2>1, <2>2, <2>3, <2>5, <2>6, <3>1
  <2>15. CASE LoseLock(w)
    <3>1. /\ advisory = w /\ advisory' = Nil /\ faults' = faults + 1
          /\ UNCHANGED <<pc, batch, current, sent, delivered, attempts>>
      BY <2>15 DEF LoseLock, table
    <3> QED BY <2>1, <2>2, <2>3, <2>5, <2>6, <3>1
  <2>16. CASE Skip(w) \/ Finish(w)
    <3>1. Leave(w) /\ UNCHANGED <<table, delivered, faults>> /\ pc[w] # "sent"
      BY <2>16 DEF Skip, Finish
    <3> QED BY <2>9, <3>1
  <2>17. CASE Crash(w)
    BY <2>9, <2>17 DEF Crash
  <2> QED
    BY <1>1, <2>8, <2>10, <2>11, <2>12, <2>13, <2>14, <2>15, <2>16, <2>17 DEF Goes, Drain
<1>2. ASSUME UNCHANGED <<pc, batch, current, advisory, sent, attempts, delivered, faults>>
      PROVE  Numbers'
  BY <1>2 DEF Numbers, Strays, Trying, Unrecorded, Holding
<1>3. CASE \/ \E m \in Messages : Enqueue(m) \/ Elapse(m)
           \/ Configure
           \/ UNCHANGED vars
  BY <1>2, <1>3 DEF Enqueue, Elapse, Configure, vars, worker, table
<1> QED BY <1>1, <1>3 DEF Next, Numbers

\* The numbers hold before the first tick.
LEMMA NumbersInit == Init => Local /\ Numbers
<1> SUFFICES ASSUME Init PROVE Local /\ Numbers
  OBVIOUS
<1>1. Local
  BY OutboxAssumption DEF Init, Local
<1>2. Strays = {} /\ \A m \in Messages : Trying(m) = {} /\ Unrecorded(m) = {}
  BY OutboxAssumption DEF Init, Strays, Trying, Unrecorded
<1>3. Cardinality({}) = 0
  BY FS_EmptySet
<1> QED BY <1>1, <1>2, <1>3, OutboxAssumption DEF Init, Numbers

\* In every reachable state each stray worker, and each acceptance without its
\* record, has cost a fault.
THEOREM NumbersHold == Spec => [](TypeOK /\ Local /\ Numbers)
<1>1. Init => TypeOK /\ Local /\ Numbers
  BY NumbersInit, InitInv DEF IInv
<1>2. (TypeOK /\ Local /\ Numbers) /\ [Next]_vars => (TypeOK /\ Local /\ Numbers)'
  BY TypeStep, LocalStep, NumbersStep
<1> QED BY <1>1, <1>2, PTL DEF Spec

\* A message goes out again only when something failed, once per failure.
THEOREM TwiceByFault == Spec => []TwiceOnlyByFault
<1>1. TypeOK /\ Local /\ Numbers => TwiceOnlyByFault
  <2> SUFFICES ASSUME TypeOK, Local, Numbers, NEW m \in Messages PROVE delivered[m] <= 1 + faults
    BY DEF TwiceOnlyByFault
  <2>1. delivered[m] \in Nat /\ faults \in Nat
    BY OutboxAssumption DEF TypeOK
  <2> QED BY <2>1, Sizes DEF Numbers
<1> QED BY <1>1, NumbersHold, PTL

\* The attempts on a row pass the limit by no more than the faults.
THEOREM AttemptsEnd == Spec => []AttemptsBounded
<1>1. TypeOK /\ Local /\ Numbers => AttemptsBounded
  <2> SUFFICES ASSUME TypeOK, Local, Numbers, NEW m \in Messages PROVE attempts[m] <= MaxAttempts + faults
    BY DEF AttemptsBounded
  <2>1. attempts[m] \in Nat /\ faults \in Nat /\ MaxAttempts \in Nat
    BY OutboxAssumption DEF TypeOK
  <2> QED BY <2>1, Sizes DEF Numbers
<1> QED BY <1>1, NumbersHold, PTL

-----------------------------------------------------------------------------
(* The dispatchers keep the promise of a mailbox. *)

\* An outbox starts as an empty mailbox.
LEMMA MailInit == Init => Promise!Init
BY DEF Init, Promise!Init

\* Each step is a step of the mailbox or leaves it alone.
LEMMA MailStep ==
    ASSUME IInv, TwiceOnlyByFault', AttemptsBounded', [Next]_vars
    PROVE  [Promise!Next]_(Promise!mail)
<1> USE DEF IInv
<1> DEFINE mailVars == <<queued, sent, attempts, delivered, faults>>
<1>1. UNCHANGED mailVars => [Promise!Next]_(Promise!mail)
  BY DEF Promise!mail
<1>2. ASSUME NEW m \in Messages, Enqueue(m) PROVE Promise!Next
  <2>1. Promise!Enqueue(m)
    BY <1>2 DEF Enqueue, Promise!Enqueue
  <2> QED BY <2>1 DEF Promise!Next
<1>3. ASSUME NEW w \in Workers, NEW m \in Messages, Send(w, m) \/ SendUnclear(w, m)
      PROVE  Promise!Next
  <2>1. m \in queued /\ UNCHANGED <<queued, sent, attempts>>
    BY <1>3 DEF TypeOK, Send, SendUnclear, Take, table
  <2>2. delivered' = [delivered EXCEPT ![m] = @ + 1] /\ faults' \in {faults, faults + 1}
    BY <1>3 DEF Send, SendUnclear
  <2>3. delivered[m] <= faults'
    <3>1. delivered'[m] = delivered[m] + 1 /\ delivered[m] \in Nat /\ faults' \in Nat
      BY <2>2, OutboxAssumption DEF TypeOK
    <3>2. delivered'[m] <= 1 + faults'
      BY DEF TwiceOnlyByFault
    <3> QED BY <3>1, <3>2
  <2>4. Promise!Accept(m)
    BY <2>1, <2>2, <2>3 DEF Promise!Accept
  <2> QED BY <2>4 DEF Promise!Next
<1>4. ASSUME NEW w \in Workers, MarkSent(w) PROVE [Promise!Next]_(Promise!mail)
  <2> DEFINE m == current[w]
  <2>1. m \in queued /\ m \in Messages /\ delivered[m] > 0
    BY <1>4 DEF TypeOK, MarkSent, RecordIsTrue
  <2>2. sent' = sent \cup {m} /\ UNCHANGED <<queued, attempts, delivered, faults>>
    BY <1>4 DEF MarkSent, Recorded
  <2>3. CASE m \in sent
    BY <1>1, <2>2, <2>3
  <2>4. CASE m \notin sent
    <3>1. Promise!Record(m)
      BY <2>1, <2>2, <2>4 DEF Promise!Record
    <3> QED BY <2>1, <3>1 DEF Promise!Next
  <2> QED BY <2>3, <2>4
<1>5. ASSUME NEW w \in Workers, MarkFailed(w) PROVE Promise!Next
  <2> DEFINE m == current[w]
  <2>1. m \in queued /\ m \in Messages
    BY <1>5 DEF TypeOK, MarkFailed
  <2>2. attempts' = [attempts EXCEPT ![m] = @ + 1] /\ UNCHANGED <<queued, sent, delivered, faults>>
    BY <1>5 DEF MarkFailed, Recorded
  <2>3. attempts[m] < MaxAttempts + faults
    <3>1. attempts'[m] = attempts[m] + 1 /\ attempts[m] \in Nat /\ faults \in Nat /\ MaxAttempts \in Nat
      BY <2>1, <2>2, OutboxAssumption DEF TypeOK
    <3>2. attempts'[m] <= MaxAttempts + faults
      BY <2>1, <2>2 DEF AttemptsBounded
    <3> QED BY <3>1, <3>2
  <2>4. Promise!Refuse(m)
    BY <2>1, <2>2, <2>3 DEF Promise!Refuse
  <2> QED BY <2>1, <2>4 DEF Promise!Next
<1>6. ASSUME NEW w \in Workers, MarkLost(w) \/ Crash(w) \/ LoseLock(w) PROVE Promise!Next
  <2>1. Promise!Fault
    BY <1>6 DEF MarkLost, Crash, LoseLock, Recorded, table, Promise!Fault
  <2> QED BY <2>1 DEF Promise!Next
<1>7. ASSUME NEW w \in Workers, TryLock(w) \/ Skip(w) \/ ClaimDue(w) \/ Finish(w)
                               \/ \E m \in Messages : SendFails(w, m)
      PROVE  UNCHANGED mailVars
  BY <1>7 DEF TryLock, Skip, ClaimDue, Finish, SendFails, Take, table
<1>8. ASSUME \/ \E m \in Messages : Elapse(m)
             \/ Configure
             \/ UNCHANGED vars
      PROVE  UNCHANGED mailVars
  BY <1>8 DEF Elapse, Configure, table, vars
<1> QED
  BY <1>1, <1>2, <1>3, <1>4, <1>5, <1>6, <1>7, <1>8 DEF Next, Goes, Drain

\* The dispatchers implement the mailbox: whatever races, dies and is lost, no
\* message is recorded as sent that has not been accepted, and how often it goes
\* out or is tried is paid for.
THEOREM MailKept == Spec => KeepsMail
<1>1. Spec => Promise!Init
  BY MailInit DEF Spec
<1>2. IInv /\ TwiceOnlyByFault' /\ AttemptsBounded' /\ [Next]_vars => [Promise!Next]_(Promise!mail)
  BY MailStep
<1> QED
  BY <1>1, <1>2, AlwaysInv, TwiceByFault, AttemptsEnd, PTL DEF Spec, KeepsMail, Promise!Spec

=============================================================================
