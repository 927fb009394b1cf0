-------------------------- MODULE AdminDesk_proofs --------------------------
(***************************************************************************)
(* Proofs about AdminDesk, for any number of requests and any limit.       *)
(***************************************************************************)
EXTENDS AdminDesk, FiniteSetTheorems, TLAPS

Places == {"idle", "check", "compare", "store", "count", "clear", "refuse", "find",
           "write", "sessions", "audit", "done"}

\* Past the check of the counter, with the password not counted yet.
Passing == {s \in Slots : pc[s] \in {"compare", "store", "count"}}

\* Those of them whose guess was wrong and whose count will tell.
Guessing == {s \in Slots : pc[s] = "store" \/ (pc[s] = "count" /\ req[s].holds)}

\* What is counted, with who may still count, exceeds the limit by no more than
\* the requests there are; and no guess is forgotten.
Counted ==
    /\ counter.count + Cardinality(Passing) <= MaxFails - 1 + Cardinality(Slots)
    /\ guesses <= counter.count + Cardinality(Guessing)
    /\ ~counter.fresh => counter.count = 0

\* A request r at the place l: it knows the user t as it is when it is about to
\* change it, or was overtaken; and what it logged as a success is one.
Sound(l, r, t) ==
    /\ r.honest \/ r.raced
    /\ r.row = "success" => (r.did \/ r.raced) /\ l \in {"sessions", "audit", "done"}
    /\ l \in {"write", "sessions", "audit"} /\ r.op \in OnUser =>
           /\ t # Nil
           /\ l = "write" /\ ~r.raced => ~t.deleted /\ (r.op = "set_role" => r.from = t.role)
    /\ l \in {"check", "compare", "clear", "find", "write"} /\ r.op = "set_role" => r.role \in Roles

Known == \A s \in Slots : Sound(pc[s], req[s], target)

Inv == TypeOK /\ Counted /\ Known

-----------------------------------------------------------------------------
(* A request goes on *)

LEMMA IdleIsRequest == Idle \in Request /\ Idle.honest /\ Idle.row = Nil /\ Idle.op = Nil
BY DEF Idle, Request

LEMMA Parties ==
    /\ IsFiniteSet(Passing) /\ IsFiniteSet(Guessing)
    /\ Cardinality(Slots) \in Nat /\ Cardinality(Passing) \in Nat /\ Cardinality(Guessing) \in Nat
    /\ Guessing \subseteq Passing
    /\ Cardinality(Guessing) <= Cardinality(Passing) /\ Cardinality(Passing) <= Cardinality(Slots)
<1>1. Guessing \subseteq Passing /\ Passing \subseteq Slots
  BY DEF Guessing, Passing
<1>2. IsFiniteSet(Slots)
  BY DeskAssumption
<1>3. IsFiniteSet(Passing) /\ Cardinality(Passing) <= Cardinality(Slots)
  BY <1>1, <1>2, FS_Subset
<1>4. IsFiniteSet(Guessing) /\ Cardinality(Guessing) <= Cardinality(Passing)
  BY <1>1, <1>3, FS_Subset
<1> QED
  BY <1>1, <1>2, <1>3, <1>4, FS_CardinalityType

\* One request goes to another place with another record, and the user stays.
LEMMA Goes ==
    ASSUME Inv, NEW s \in Slots, NEW l \in Places, NEW r \in Request,
           pc' = [pc EXCEPT ![s] = l], req' = [req EXCEPT ![s] = r],
           UNCHANGED target, Sound(l, r, target)
    PROVE  /\ pc' \in [Slots -> Places] /\ req' \in [Slots -> Request]
           /\ Known'
<1>1. pc \in [Slots -> Places] /\ req \in [Slots -> Request]
  BY DEF Inv, TypeOK, Places
<1>2. \A t \in Slots : Sound(pc[t], req[t], target)
  BY DEF Inv, Known
<1>3. \A t \in Slots : pc'[t] = (IF t = s THEN l ELSE pc[t]) /\ req'[t] = (IF t = s THEN r ELSE req[t])
  BY <1>1
<1>4. \A t \in Slots : Sound(pc'[t], req'[t], target')
  BY <1>2, <1>3
<1> QED
  BY <1>1, <1>4 DEF Known, Sound

\* Who neither was nor will be between the check and the count does not matter to it.
LEMMA CountedKept ==
    ASSUME Inv, NEW s \in Slots, NEW l \in Places, NEW r \in Request,
           pc' = [pc EXCEPT ![s] = l], req' = [req EXCEPT ![s] = r],
           pc[s] \notin {"compare", "store", "count"}, l \notin {"compare", "store", "count"},
           UNCHANGED <<counter, guesses>>
    PROVE  Counted'
<1>1. pc \in [Slots -> Places] /\ req \in [Slots -> Request]
  BY DEF Inv, TypeOK, Places
<1>2. Passing' = Passing /\ Guessing' = Guessing
  BY <1>1 DEF Passing, Guessing
<1> QED
  BY <1>2 DEF Inv, Counted

-----------------------------------------------------------------------------
(* Each action keeps the invariant *)

LEMMA InitInv == Init => Inv
<1> SUFFICES ASSUME Init PROVE Inv
  OBVIOUS
<1>1. TypeOK
  <2>1. target \in [role : Roles, deleted : BOOLEAN] \cup {Nil}
    BY DEF Init
  <2>2. counter \in [there : BOOLEAN, count : Nat, fresh : BOOLEAN]
    BY DEF Init, NoCounter
  <2>3. pc \in [Slots -> Places] /\ req \in [Slots -> Request]
    BY IdleIsRequest DEF Init, Places
  <2>4. faults \in 0..MaxFaults /\ guesses \in Nat
    BY DeskAssumption DEF Init
  <2> QED
    BY <2>1, <2>2, <2>3, <2>4 DEF Init, TypeOK, Places
<1>2. Known
  BY IdleIsRequest, DeskAssumption DEF Init, Known, Sound
<1>3. Counted
  <2>1. Passing = {} /\ Guessing = {}
    BY DEF Init, Passing, Guessing
  <2>2. Cardinality(Passing) = 0 /\ Cardinality(Guessing) = 0
    BY <2>1, FS_EmptySet
  <2>3. Cardinality(Slots) \in Nat
    BY Parties
  <2> QED
    BY <2>2, <2>3, DeskAssumption DEF Init, Counted, NoCounter
<1> QED
  BY <1>1, <1>2, <1>3 DEF Inv

\* What most actions are: one request goes on outside the password check.
LEMMA Steps ==
    ASSUME Inv, NEW s \in Slots, NEW l \in Places, NEW r \in Request,
           pc' = [pc EXCEPT ![s] = l], req' = [req EXCEPT ![s] = r],
           pc[s] \notin {"compare", "store", "count"}, l \notin {"compare", "store", "count"},
           Sound(l, r, target), UNCHANGED <<counter, target, guesses>>,
           group' \in BOOLEAN, faults' \in 0..MaxFaults,
           smtp' \in [password : BOOLEAN] \cup {Nil}
    PROVE  Inv'
<1>1. pc' \in [Slots -> Places] /\ req' \in [Slots -> Request] /\ Known'
  BY Goes
<1>2. Counted'
  BY CountedKept
<1>3. TypeOK'
  BY <1>1 DEF Inv, TypeOK, Places
<1> QED
  BY <1>1, <1>2, <1>3 DEF Inv

LEMMA WorldKept ==
    ASSUME Inv, NEW s \in Slots, NEW l \in Places, NEW r \in Request,
           pc' = [pc EXCEPT ![s] = l], req' = [req EXCEPT ![s] = r],
           pc[s] \notin {"compare", "store", "count"}, l \notin {"compare", "store", "count"},
           Sound(l, r, target), UNCHANGED <<counter, world, guesses, faults>>
    PROVE  Inv'
<1>1. UNCHANGED <<target, group, smtp, faults, counter, guesses>>
  BY DEF world
<1>2. group' \in BOOLEAN /\ faults' \in 0..MaxFaults
      /\ smtp' \in [password : BOOLEAN] \cup {Nil}
  BY <1>1 DEF Inv, TypeOK
<1> QED
  BY <1>1, <1>2, Steps

LEMMA ArriveInv ==
    ASSUME Inv, NEW s \in Slots, Arrive(s)
    PROVE  Inv'
<1> DEFINE Goal == \E r \in Request, l \in {"check", "write"} :
        /\ Begin(s, r, l) /\ r.honest /\ r.row = Nil
        /\ r.op = "set_role" => r.role \in Roles
        /\ l = "write" => r.op \in {"create_user", "reveal", "smtp_test"}
<1>1. ASSUME NEW op \in Operations \ {"set_role"}, NEW right \in BOOLEAN, StepUp(s, op, right)
      PROVE  Goal
  <2> DEFINE r == [Idle EXCEPT !.op = op, !.right = right]
  <2>1. r \in Request /\ r.honest /\ r.row = Nil /\ r.op # "set_role"
    BY DEF Idle, Request
  <2>2. Begin(s, r, "check")
    BY <1>1 DEF StepUp
  <2> HIDE DEF r
  <2> QED
    BY <2>1, <2>2
<1>2. ASSUME NEW right \in BOOLEAN, NEW role \in Roles, AdminSetUserRole(s, right, role)
      PROVE  Goal
  <2> DEFINE r == [Idle EXCEPT !.op = "set_role", !.right = right, !.role = role]
  <2>1. r \in Request /\ r.honest /\ r.row = Nil /\ r.role \in Roles
    BY DEF Idle, Request, Operations
  <2>2. Begin(s, r, "check")
    BY <1>2 DEF AdminSetUserRole
  <2> HIDE DEF r
  <2> QED
    BY <2>1, <2>2
<1>3. ASSUME NEW op \in {"create_user", "reveal", "smtp_test"},
             Begin(s, [Idle EXCEPT !.op = op], "write")
      PROVE  Goal
  <2> DEFINE r == [Idle EXCEPT !.op = op]
  <2>1. r \in Request /\ r.honest /\ r.row = Nil /\ r.op = op
    BY DEF Idle, Request, Operations
  <2>2. Begin(s, r, "write")
    BY <1>3
  <2> HIDE DEF r
  <2> QED
    BY <2>1, <2>2
<1>4. Goal
  <2> HIDE DEF Goal
  <2>1. CASE \E right \in BOOLEAN : AdminDeleteUser(s, right)
    BY <2>1, <1>1 DEF AdminDeleteUser, Operations
  <2>2. CASE \E right \in BOOLEAN : AdminResetUserPassword(s, right)
    BY <2>2, <1>1 DEF AdminResetUserPassword, Operations
  <2>3. CASE \E right \in BOOLEAN : AdminDeleteGroup(s, right)
    BY <2>3, <1>1 DEF AdminDeleteGroup, Operations
  <2>4. CASE \E right \in BOOLEAN : ChangeEmailRequest(s, right)
    BY <2>4, <1>1 DEF ChangeEmailRequest, Operations
  <2>5. CASE \E right \in BOOLEAN, role \in Roles : AdminSetUserRole(s, right, role)
    BY <2>5, <1>2
  <2>6. CASE AdminCreateUser(s) \/ AdminRevealSmtpPassword(s) \/ AdminSendSmtpTestEmail(s)
    BY <2>6, <1>3 DEF AdminCreateUser, AdminRevealSmtpPassword, AdminSendSmtpTestEmail
  <2> QED
    BY <2>1, <2>2, <2>3, <2>4, <2>5, <2>6 DEF Arrive
<1>5. PICK r \in Request, l \in {"check", "write"} :
        /\ Begin(s, r, l) /\ r.honest /\ r.row = Nil
        /\ r.op = "set_role" => r.role \in Roles
        /\ l = "write" => r.op \in {"create_user", "reveal", "smtp_test"}
  BY <1>4
<1>6. pc[s] = "idle" /\ pc' = [pc EXCEPT ![s] = l] /\ req' = [req EXCEPT ![s] = r]
  BY <1>5 DEF Begin, Goto
<1>7. Sound(l, r, target)
  BY <1>5, DeskAssumption DEF Sound, OnUser
<1>8. UNCHANGED <<counter, world, guesses, faults>>
  BY DEF Arrive
<1>9. l \in Places /\ l \notin {"compare", "store", "count"}
  BY DEF Places
<1> QED
  BY <1>6, <1>7, <1>8, <1>9, WorldKept

LEMMA UpdateInv ==
    ASSUME Inv, NEW s \in Slots, Update(s)
    PROVE  Inv'
<1>1. PICK u \in SmtpUpdates : AdminUpdateSmtp(s, u)
  BY DEF Update
<1> DEFINE r == [Idle EXCEPT !.op = "update_smtp", !.did = TRUE]
<1>2. r \in Request /\ r.op = "update_smtp" /\ r.honest /\ r.row = Nil
  BY IdleIsRequest DEF Idle, Request, Operations
<1>3. pc[s] = "idle" /\ pc' = [pc EXCEPT ![s] = "audit"] /\ req' = [req EXCEPT ![s] = r]
  BY <1>1 DEF AdminUpdateSmtp, Begin, Goto
<1> HIDE DEF r
<1>4. Sound("audit", r, target)
  BY <1>2, DeskAssumption DEF Sound, OnUser
<1>5. UNCHANGED <<counter, target, group, guesses, faults>>
  BY <1>1 DEF Update, AdminUpdateSmtp
<1>6. smtp' \in [password : BOOLEAN]
  <2> DEFINE left == IF u.password = "leave" THEN smtp # Nil /\ smtp.password ELSE u.password = "set"
  <2>1. smtp' = [password |-> left]
    BY <1>1 DEF AdminUpdateSmtp
  <2>2. left \in BOOLEAN
    BY DEF Inv, TypeOK
  <2> HIDE DEF left
  <2> QED
    BY <2>1, <2>2
<1> QED
  BY <1>2, <1>3, <1>4, <1>5, <1>6, Steps DEF Places, Inv, TypeOK

\* The record of s is one, and sound where s is.
LEMMA Now ==
    ASSUME Inv, NEW s \in Slots
    PROVE  /\ req[s] \in Request /\ pc[s] \in Places /\ Sound(pc[s], req[s], target)
           /\ counter.count \in Nat /\ guesses \in Nat /\ faults \in 0..MaxFaults
BY DEF Inv, TypeOK, Known, Places

\* An answer: the record is kept but for what the operation no longer needs.
LEMMA Told ==
    ASSUME NEW r \in Request, NEW answer \in {Nil, "ok", "error", "refused"},
           r.honest \/ r.raced, r.row = "success" => r.did \/ r.raced
    PROVE  LET q == [Spent(r) EXCEPT !.told = answer]
           IN  q \in Request /\ \A t : Sound("done", q, t)
<1> DEFINE q == [Spent(r) EXCEPT !.told = answer]
<1>1. /\ q \in Request /\ q.honest = r.honest /\ q.raced = r.raced
      /\ q.row = r.row /\ q.did = r.did
  BY DEF Spent, Request
<1> HIDE DEF q
<1>2. \A t : Sound("done", q, t)
  BY <1>1 DEF Sound
<1> QED
  BY <1>1, <1>2 DEF q

LEMMA TellInv ==
    ASSUME Inv, NEW s \in Slots, NEW r \in Request, NEW answer \in {"ok", "error", "refused"},
           Tell(s, r, answer), pc[s] \notin {"compare", "store", "count"},
           r.honest \/ r.raced, r.row = "success" => r.did \/ r.raced,
           UNCHANGED <<counter, world, guesses>>, faults' \in 0..MaxFaults
    PROVE  Inv'
<1> DEFINE q == [Spent(r) EXCEPT !.told = answer]
<1>1. q \in Request /\ Sound("done", q, target)
  BY Told
<1>2. pc' = [pc EXCEPT ![s] = "done"] /\ req' = [req EXCEPT ![s] = q]
  BY DEF Tell, Goto
<1>3. UNCHANGED <<target, group, smtp>>
  BY DEF world
<1>4. group' \in BOOLEAN
      /\ smtp' \in [password : BOOLEAN] \cup {Nil}
  BY <1>3 DEF Inv, TypeOK
<1> HIDE DEF q
<1> QED
  BY <1>1, <1>2, <1>3, <1>4, Steps DEF Places

LEMMA FindInv ==
    ASSUME Inv, NEW s \in Slots, Find(s)
    PROVE  Inv'
<1>1. pc[s] = "find" /\ UNCHANGED <<counter, world, guesses, faults>>
  BY DEF Find
<1>2. req[s] \in Request /\ Sound("find", req[s], target) /\ faults' \in 0..MaxFaults
  BY <1>1, Now
<1>3. CASE Tell(s, req[s], "ok") \/ Tell(s, req[s], "error")
  BY <1>1, <1>2, <1>3, TellInv DEF Sound
<1>4. CASE /\ Found /\ Goto(s, "write")
           /\ req' = [req EXCEPT ![s].from = IF req[s].op = "set_role" THEN target.role ELSE @]
  <2> DEFINE r == [req[s] EXCEPT !.from = IF req[s].op = "set_role" THEN target.role ELSE @]
  <2>1. target # Nil /\ ~target.deleted /\ target.role \in Roles
    BY <1>4 DEF Inv, TypeOK, Found
  <2>2. /\ r \in Request /\ r.op = req[s].op /\ r.honest = req[s].honest /\ r.raced = req[s].raced
        /\ r.row = req[s].row /\ r.did = req[s].did /\ r.role = req[s].role
        /\ r.op = "set_role" => r.from = target.role
    BY <1>2, <2>1 DEF Request
  <2>3. pc' = [pc EXCEPT ![s] = "write"] /\ req' = [req EXCEPT ![s] = r]
    BY <1>4 DEF Goto
  <2> HIDE DEF r
  <2>4. Sound("write", r, target)
    BY <1>2, <2>1, <2>2 DEF Sound
  <2> QED
    BY <1>1, <2>2, <2>3, <2>4, WorldKept DEF Places
<1> QED
  BY <1>3, <1>4 DEF Find

LEMMA WriteTxInv ==
    ASSUME Inv, NEW s \in Slots, WriteTx(s)
    PROVE  Inv'
<1>1. /\ pc[s] = "write" /\ req[s].op \in {"reset_password", "create_user"}
      /\ UNCHANGED <<counter, world, guesses, faults>>
  BY DEF WriteTx
<1>2. req[s] \in Request /\ Sound("write", req[s], target) /\ faults' \in 0..MaxFaults
  BY <1>1, Now
<1>3. CASE smtp = Nil
  <2>1. Tell(s, req[s], "error")
    BY <1>3 DEF WriteTx
  <2> QED
    BY <1>1, <1>2, <2>1, TellInv DEF Sound
<1>4. CASE smtp # Nil
  <2> DEFINE d == req[s].op = "reset_password" => ~target.deleted
             r == [req[s] EXCEPT !.did = d, !.row = "success"]
  <2>1. d \in BOOLEAN /\ (d \/ req[s].raced)
    BY <1>1, <1>2 DEF Sound, OnUser, Inv, TypeOK
  <2>2. IF r.op = "create_user" THEN Tell(s, r, "ok")
        ELSE Goto(s, "sessions") /\ req' = [req EXCEPT ![s] = r]
    BY <1>4 DEF WriteTx
  <2> HIDE DEF d
  <2>3. /\ r \in Request /\ r.honest = req[s].honest /\ r.raced = req[s].raced
        /\ r.did = d /\ r.op = req[s].op
    BY <1>2, <2>1 DEF Request
  <2> HIDE DEF r
  <2>4. (r.honest \/ r.raced) /\ (r.did \/ r.raced) /\ Sound("sessions", r, target)
    BY <1>2, <2>1, <2>3 DEF Sound
  <2>5. CASE Tell(s, r, "ok")
    BY <1>1, <1>2, <2>3, <2>4, <2>5, TellInv
  <2>6. CASE Goto(s, "sessions") /\ req' = [req EXCEPT ![s] = r]
    <3>1. pc' = [pc EXCEPT ![s] = "sessions"]
      BY <2>6 DEF Goto
    <3> QED
      BY <1>1, <2>3, <2>4, <2>6, <3>1, WorldKept DEF Places
  <2> QED
    BY <2>2, <2>5, <2>6
<1> QED
  BY <1>3, <1>4

LEMMA UseInv ==
    ASSUME Inv, NEW s \in Slots, Use(s)
    PROVE  Inv'
<1>1. /\ pc[s] = "write" /\ req[s].op \in {"reveal", "smtp_test", "change_email"}
      /\ UNCHANGED <<counter, world, guesses, faults>>
  BY DEF Use
<1>2. req[s] \in Request /\ Sound("write", req[s], target) /\ faults' \in 0..MaxFaults
  BY <1>1, Now
<1>3. CASE Tell(s, req[s], "error")
  BY <1>1, <1>2, <1>3, TellInv DEF Sound
<1>4. ASSUME NEW did \in BOOLEAN,
             \/ Tell(s, [req[s] EXCEPT !.did = did], "ok") /\ did
             \/ Goto(s, "audit") /\ req' = [req EXCEPT ![s].did = did]
      PROVE  Inv'
  <2> DEFINE r == [req[s] EXCEPT !.did = did]
  <2>1. /\ r \in Request /\ r.honest = req[s].honest /\ r.raced = req[s].raced
        /\ r.row = req[s].row /\ r.did = did /\ r.op = req[s].op
    BY <1>2 DEF Request
  <2>2. \/ Tell(s, r, "ok") /\ did
        \/ pc' = [pc EXCEPT ![s] = "audit"] /\ req' = [req EXCEPT ![s] = r]
    BY <1>4 DEF Goto
  <2> HIDE DEF r
  <2>3. (r.honest \/ r.raced) /\ r.row # "success"
    BY <1>2, <2>1 DEF Sound
  <2>4. CASE Tell(s, r, "ok") /\ did
    BY <1>1, <1>2, <2>1, <2>3, <2>4, TellInv
  <2>5. CASE pc' = [pc EXCEPT ![s] = "audit"] /\ req' = [req EXCEPT ![s] = r]
    <3>1. Sound("audit", r, target)
      BY <1>1, <2>1, <2>3, <2>5 DEF Sound, OnUser
    <3> QED
      BY <1>1, <2>1, <2>5, <3>1, WorldKept DEF Places
  <2> QED
    BY <2>2, <2>4, <2>5
<1> QED
  BY <1>1, <1>2, <1>3, <1>4 DEF Use

LEMMA SessionsInv ==
    ASSUME Inv, NEW s \in Slots, Sessions(s)
    PROVE  Inv'
<1>1. pc[s] = "sessions" /\ UNCHANGED <<counter, world, guesses, faults>>
  BY DEF Sessions
<1>2. req[s] \in Request /\ Sound("sessions", req[s], target) /\ faults' \in 0..MaxFaults
  BY <1>1, Now
<1>3. CASE Tell(s, req[s], "ok")
  BY <1>1, <1>2, <1>3, TellInv DEF Sound
<1>4. CASE Goto(s, "audit") /\ UNCHANGED req
  <2>1. req' = [req EXCEPT ![s] = req[s]] /\ pc' = [pc EXCEPT ![s] = "audit"]
    BY <1>4 DEF Goto, Inv, TypeOK
  <2>2. Sound("audit", req[s], target)
    BY <1>2 DEF Sound
  <2> QED
    BY <1>1, <1>2, <2>1, <2>2, WorldKept DEF Places
<1> QED
  BY <1>3, <1>4 DEF Sessions

LEMMA AuditInv ==
    ASSUME Inv, NEW s \in Slots, Audit(s)
    PROVE  Inv'
<1>1. pc[s] = "audit" /\ UNCHANGED <<counter, world, guesses, faults>>
  BY DEF Audit
<1>2. req[s] \in Request /\ Sound("audit", req[s], target) /\ faults' \in 0..MaxFaults
  BY <1>1, Now
<1>3. CASE Tell(s, req[s], "error")
  BY <1>1, <1>2, <1>3, TellInv DEF Sound
<1>4. CASE Tell(s, [req[s] EXCEPT !.row = IF req[s].did THEN "success" ELSE "failure"], "ok")
  <2> DEFINE r == [req[s] EXCEPT !.row = IF req[s].did THEN "success" ELSE "failure"]
  <2>1. /\ r \in Request /\ r.honest = req[s].honest /\ r.raced = req[s].raced /\ r.did = req[s].did
        /\ r.row = "success" => r.did
    BY <1>2 DEF Request
  <2>2. Tell(s, r, "ok")
    BY <1>4
  <2> HIDE DEF r
  <2>3. (r.honest \/ r.raced) /\ (r.row = "success" => r.did \/ r.raced)
    BY <1>2, <2>1 DEF Sound
  <2> QED
    BY <1>1, <1>2, <2>1, <2>2, <2>3, TellInv
<1> QED
  BY <1>3, <1>4 DEF Audit

LEMMA RefuseInv ==
    ASSUME Inv, NEW s \in Slots, Refuse(s)
    PROVE  Inv'
<1>1. pc[s] = "refuse" /\ UNCHANGED <<counter, world, guesses, faults>>
  BY DEF Refuse
<1>2. req[s] \in Request /\ Sound("refuse", req[s], target) /\ faults' \in 0..MaxFaults
  BY <1>1, Now
<1> DEFINE r == [req[s] EXCEPT !.row = IF req[s].op # "change_email" /\ Insertable(s) THEN "failure" ELSE @]
<1>3. /\ r \in Request /\ r.honest = req[s].honest /\ r.raced = req[s].raced
      /\ r.row # "success"
  BY <1>2 DEF Request, Sound
<1>4. Tell(s, r, "refused")
  BY DEF Refuse
<1> HIDE DEF r
<1>5. r.honest \/ r.raced
  BY <1>2, <1>3 DEF Sound
<1> QED
  BY <1>1, <1>2, <1>3, <1>4, <1>5, TellInv

LEMMA FailInv ==
    ASSUME Inv, NEW s \in Slots, Fail(s)
    PROVE  Inv'
<1>1. PICK answer \in {"ok", "error", "refused"} : Tell(s, [req[s] EXCEPT !.failed = TRUE], answer)
  BY DEF Fail
<1>2. /\ pc[s] \in {"find", "write", "sessions", "audit", "refuse"}
      /\ faults < MaxFaults /\ faults' = faults + 1 /\ UNCHANGED <<counter, world, guesses>>
  BY DEF Fail
<1>3. faults' \in 0..MaxFaults
  BY <1>2, Now, DeskAssumption
<1>4. req[s] \in Request /\ Sound(pc[s], req[s], target)
  BY Now
<1> DEFINE r == [req[s] EXCEPT !.failed = TRUE]
<1>5. /\ r \in Request /\ r.honest = req[s].honest /\ r.raced = req[s].raced
      /\ r.row = req[s].row /\ r.did = req[s].did
  BY <1>4 DEF Request
<1>6. Tell(s, r, answer)
  BY <1>1
<1> HIDE DEF r
<1>7. (r.honest \/ r.raced) /\ (r.row = "success" => r.did \/ r.raced)
  BY <1>4, <1>5 DEF Sound
<1> QED
  BY <1>2, <1>3, <1>5, <1>6, <1>7, TellInv

LEMMA RespondInv ==
    ASSUME Inv, NEW s \in Slots, Respond(s)
    PROVE  Inv'
<1>1. Sound("idle", Idle, target) /\ Idle \in Request
  BY IdleIsRequest, DeskAssumption DEF Sound
<1> QED
  BY <1>1, WorldKept DEF Respond, Goto, Places

LEMMA WriteGroupInv ==
    ASSUME Inv, NEW s \in Slots, WriteGroup(s)
    PROVE  Inv'
<1>1. /\ pc[s] = "write" /\ req[s].op = "delete_group" /\ group' = FALSE
      /\ UNCHANGED <<counter, target, smtp, guesses, faults>>
  BY DEF WriteGroup
<1>2. req[s] \in Request /\ Sound("write", req[s], target) /\ faults' \in 0..MaxFaults
  BY <1>1, Now
<1>3. smtp' \in [password : BOOLEAN] \cup {Nil}
  BY <1>1 DEF Inv, TypeOK
<1>5. ASSUME NEW l \in {"audit", "done"}, NEW r \in Request, Sound(l, r, target),
             pc' = [pc EXCEPT ![s] = l], req' = [req EXCEPT ![s] = r]
      PROVE  Inv'
  BY <1>1, <1>2, <1>3, <1>5, Steps DEF Places
<1>6. CASE group
  <2> DEFINE r == [req[s] EXCEPT !.did = TRUE]
  <2>1. /\ r \in Request /\ r.honest = req[s].honest /\ r.raced = req[s].raced
        /\ r.row = req[s].row /\ r.op = "delete_group"
    BY <1>1, <1>2 DEF Request
  <2>2. pc' = [pc EXCEPT ![s] = "audit"] /\ req' = [req EXCEPT ![s] = r]
    BY <1>6 DEF WriteGroup, Goto
  <2> HIDE DEF r
  <2>3. Sound("audit", r, target)
    BY <1>2, <2>1 DEF Sound, OnUser
  <2> QED
    BY <1>5, <2>1, <2>2, <2>3
<1>7. CASE ~group
  <2> DEFINE r == [Spent(req[s]) EXCEPT !.told = "error"]
  <2>1. r \in Request /\ Sound("done", r, target)
    BY <1>2, Told DEF Sound
  <2>2. pc' = [pc EXCEPT ![s] = "done"] /\ req' = [req EXCEPT ![s] = r]
    BY <1>7 DEF WriteGroup, Tell, Goto
  <2> HIDE DEF r
  <2> QED
    BY <1>5, <2>1, <2>2
<1> QED
  BY <1>6, <1>7

\* Deleting the user or changing the role: whoever is about to write is overtaken.
LEMMA WriteUserInv ==
    ASSUME Inv, NEW s \in Slots, WriteUser(s)
    PROVE  Inv'
<1>1. /\ pc[s] = "write" /\ req[s].op \in {"delete_user", "set_role"}
      /\ UNCHANGED <<counter, group, smtp, guesses, faults>>
  BY DEF WriteUser
<1>2. req[s] \in Request /\ Sound("write", req[s], target) /\ faults' \in 0..MaxFaults
  BY <1>1, Now
<1> target # Nil /\ req[s].op \in OnUser
  BY <1>1, <1>2 DEF Sound, OnUser
<1>3. CASE target.deleted
  <2>1. Tell(s, req[s], "error") /\ UNCHANGED <<counter, world, guesses>>
    BY <1>1, <1>3 DEF WriteUser, world
  <2> QED
    BY <1>1, <1>2, <2>1, TellInv DEF Sound
<1>4. CASE ~target.deleted
  <2> DEFINE h == req[s].op = "set_role" => req[s].from = target.role
             r == [Spent(req[s]) EXCEPT !.did = TRUE, !.honest = h]
             l == IF req[s].op = "delete_user" THEN "sessions" ELSE "audit"
  <2>1. req' = Overtaking(s, r) /\ pc' = [pc EXCEPT ![s] = l]
    BY <1>4 DEF WriteUser, Goto
  <2>2. target' \in [role : Roles, deleted : BOOLEAN] /\ target' # Nil
    <3> SUFFICES target' \in [role : Roles, deleted : BOOLEAN]
      BY DeskAssumption
    <3>1. CASE req[s].op = "delete_user"
      BY <1>4, <3>1 DEF WriteUser, Inv, TypeOK
    <3>2. CASE req[s].op = "set_role"
      <4>1. req[s].role \in Roles
        BY <1>2, <3>2 DEF Sound
      <4> QED
        BY <1>4, <3>2, <4>1 DEF WriteUser, Inv, TypeOK
    <3> QED
      BY <1>1, <3>1, <3>2
  <2>3. h \in BOOLEAN /\ (h \/ req[s].raced)
    BY <1>1, <1>2 DEF Sound
  <2> HIDE DEF h
  <2>4. /\ r \in Request /\ r.did /\ r.honest = h /\ r.raced = req[s].raced
        /\ r.row = req[s].row
    BY <1>2, <2>3 DEF Request, Spent
  <2>5. l \in {"sessions", "audit"}
    OBVIOUS
  <2> HIDE DEF r, l
  <2> DEFINE q(t) == [req[t] EXCEPT !.raced = TRUE]
  <2>6. \A t \in Slots : /\ q(t) \in Request /\ q(t).honest = req[t].honest /\ q(t).raced
                         /\ q(t).row = req[t].row /\ q(t).did = req[t].did
                         /\ q(t).op = req[t].op /\ q(t).role = req[t].role
    <3>1. \A t \in Slots : req[t] \in Request
      BY DEF Inv, TypeOK
    <3> QED
      BY <3>1 DEF Request
  <2>7. \A t \in Slots \ {s} : req'[t] = q(t) \/ req'[t] = req[t]
    BY <2>1 DEF Overtaking
  <2>8. req' \in [Slots -> Request] /\ req'[s] = r
    BY <2>1, <2>4, <2>6 DEF Overtaking, Inv, TypeOK
  <2>9. pc' \in [Slots -> Places] /\ pc'[s] = l /\ \A t \in Slots \ {s} : pc'[t] = pc[t]
    BY <2>1, <2>5 DEF Inv, TypeOK, Places
  <2>10. Sound(l, r, target')
    BY <1>2, <2>2, <2>3, <2>4, <2>5 DEF Sound
  <2>11. ASSUME NEW t \in Slots \ {s}
         PROVE  Sound(pc'[t], req'[t], target')
    <3>1. Sound(pc[t], req[t], target)
      BY DEF Inv, Known
    <3>2. CASE pc[t] = "write" /\ req[t].op \in OnUser
      <4>1. req'[t] = q(t)
        BY <2>1, <3>2 DEF Overtaking
      <4> QED
        BY <2>2, <2>6, <2>9, <3>1, <4>1 DEF Sound
    <3>3. CASE ~(pc[t] = "write" /\ req[t].op \in OnUser)
      <4>1. req'[t] = req[t]
        BY <2>1, <3>3 DEF Overtaking
      <4> QED
        BY <2>2, <2>9, <3>1, <3>3, <4>1 DEF Sound
    <3> QED
      BY <3>2, <3>3
  <2>12. Known'
    <3>1. \A t \in Slots : Sound(pc'[t], req'[t], target')
      BY <2>8, <2>9, <2>10, <2>11
    <3> QED
      BY <3>1 DEF Known, Sound
  <2>13. Counted'
    <3>1. \A t \in Slots : pc[t] \notin {"store", "count"} \/ req'[t] = req[t]
      BY <1>1, <2>1 DEF Overtaking
    <3>2. Passing' = Passing
      BY <1>1, <2>5, <2>9 DEF Passing
    <3>3. Guessing' = Guessing
      BY <1>1, <2>5, <2>9, <3>1 DEF Guessing
    <3> QED
      BY <1>1, <3>2, <3>3 DEF Inv, Counted
  <2>14. TypeOK'
    BY <1>1, <2>2, <2>8, <2>9 DEF Inv, TypeOK, Places
  <2> QED
    BY <2>12, <2>13, <2>14 DEF Inv
<1> QED
  BY <1>3, <1>4

-----------------------------------------------------------------------------
(* The password check *)

\* A request of the password check goes on, or others leave the counter alone:
\* what is left to show is what is counted.
LEMMA Verifies ==
    ASSUME Inv, NEW s \in Slots, NEW l \in Places, NEW r \in Request,
           pc' = [pc EXCEPT ![s] = l], req' = [req EXCEPT ![s] = r],
           UNCHANGED world, Sound(l, r, target),
           counter' \in [there : BOOLEAN, count : Nat, fresh : BOOLEAN],
           guesses' \in Nat, faults' \in 0..MaxFaults, Counted'
    PROVE  Inv'
<1>1. UNCHANGED <<target, group, smtp>>
  BY DEF world
<1>2. pc' \in [Slots -> Places] /\ req' \in [Slots -> Request] /\ Known'
  BY <1>1, Goes
<1>3. TypeOK'
  BY <1>1, <1>2 DEF Inv, TypeOK, Places
<1> QED
  BY <1>2, <1>3 DEF Inv

\* The places of the others, and the sizes of the sets when s joins or leaves.
LEMMA Joins ==
    ASSUME Inv, NEW s \in Slots, NEW l \in Places, NEW r \in Request,
           pc' = [pc EXCEPT ![s] = l], req' = [req EXCEPT ![s] = r]
    PROVE  /\ l \in {"compare", "store", "count"} => Passing' = Passing \cup {s}
           /\ l \notin {"compare", "store", "count"} => Passing' = Passing \ {s}
           /\ l = "store" \/ (l = "count" /\ r.holds) => Guessing' = Guessing \cup {s}
           /\ ~(l = "store" \/ (l = "count" /\ r.holds)) => Guessing' = Guessing \ {s}
           /\ s \in Passing <=> pc[s] \in {"compare", "store", "count"}
           /\ s \in Guessing <=> (pc[s] = "store" \/ (pc[s] = "count" /\ req[s].holds))
           /\ Cardinality(Passing \cup {s}) = IF s \in Passing THEN Cardinality(Passing) ELSE Cardinality(Passing) + 1
           /\ Cardinality(Passing \ {s}) = IF s \in Passing THEN Cardinality(Passing) - 1 ELSE Cardinality(Passing)
           /\ Cardinality(Guessing \cup {s}) = IF s \in Guessing THEN Cardinality(Guessing) ELSE Cardinality(Guessing) + 1
           /\ Cardinality(Guessing \ {s}) = IF s \in Guessing THEN Cardinality(Guessing) - 1 ELSE Cardinality(Guessing)
<1>1. \A t \in Slots : pc'[t] = (IF t = s THEN l ELSE pc[t]) /\ req'[t] = (IF t = s THEN r ELSE req[t])
  BY DEF Inv, TypeOK
<1>2. /\ l \in {"compare", "store", "count"} => Passing' = Passing \cup {s}
      /\ l \notin {"compare", "store", "count"} => Passing' = Passing \ {s}
  BY <1>1 DEF Passing
<1>3. l = "store" \/ (l = "count" /\ r.holds) => Guessing' = Guessing \cup {s}
  BY <1>1 DEF Guessing
<1>4. ~(l = "store" \/ (l = "count" /\ r.holds)) => Guessing' = Guessing \ {s}
  BY <1>1 DEF Guessing
<1>5. /\ s \in Passing <=> pc[s] \in {"compare", "store", "count"}
      /\ s \in Guessing <=> (pc[s] = "store" \/ (pc[s] = "count" /\ req[s].holds))
  BY DEF Passing, Guessing
<1>6. /\ Cardinality(Passing \cup {s}) = IF s \in Passing THEN Cardinality(Passing) ELSE Cardinality(Passing) + 1
      /\ Cardinality(Passing \ {s}) = IF s \in Passing THEN Cardinality(Passing) - 1 ELSE Cardinality(Passing)
  BY Parties, FS_AddElement, FS_RemoveElement
<1>7. /\ Cardinality(Guessing \cup {s}) = IF s \in Guessing THEN Cardinality(Guessing) ELSE Cardinality(Guessing) + 1
      /\ Cardinality(Guessing \ {s}) = IF s \in Guessing THEN Cardinality(Guessing) - 1 ELSE Cardinality(Guessing)
  BY Parties, FS_AddElement, FS_RemoveElement
<1> QED
  BY <1>2, <1>3, <1>4, <1>5, <1>6, <1>7

\* What a step of the check does not touch of a request.
LEMMA Same ==
    ASSUME Inv, NEW s \in Slots, NEW right \in BOOLEAN, NEW holds \in BOOLEAN
    PROVE  LET r == [req[s] EXCEPT !.right = right]
               q == [req[s] EXCEPT !.holds = holds]
           IN  /\ r \in Request /\ r.holds = req[s].holds
               /\ q \in Request /\ q.holds = holds
               /\ \A l \in {"compare", "clear"} :
                      pc[s] \in {"check", "compare"} => Sound(l, r, target)
               /\ \A l \in {"store", "count", "refuse"} :
                      pc[s] \in {"check", "compare", "store", "count"} =>
                          Sound(l, r, target) /\ Sound(l, q, target)
<1> DEFINE r == [req[s] EXCEPT !.right = right]
           q == [req[s] EXCEPT !.holds = holds]
<1>1. req[s] \in Request /\ Sound(pc[s], req[s], target)
  BY Now
<1>2. /\ r \in Request /\ r.holds = req[s].holds /\ r.honest = req[s].honest /\ r.raced = req[s].raced
      /\ r.row = req[s].row /\ r.op = req[s].op /\ r.role = req[s].role
  BY <1>1 DEF Request
<1>3. /\ q \in Request /\ q.holds = holds /\ q.honest = req[s].honest /\ q.raced = req[s].raced
      /\ q.row = req[s].row /\ q.op = req[s].op /\ q.role = req[s].role
  BY <1>1 DEF Request
<1> HIDE DEF r, q
<1>4. \A l \in {"compare", "clear"} : pc[s] \in {"check", "compare"} => Sound(l, r, target)
  BY <1>1, <1>2 DEF Sound
<1>5. \A l \in {"store", "count", "refuse"} :
          pc[s] \in {"check", "compare", "store", "count"} => Sound(l, r, target) /\ Sound(l, q, target)
  BY <1>1, <1>2, <1>3 DEF Sound
<1> QED
  BY <1>2, <1>3, <1>4, <1>5 DEF r, q

LEMMA CheckInv ==
    ASSUME Inv, NEW s \in Slots, Check(s)
    PROVE  Inv'
<1> DEFINE l == IF LockedOut THEN "refuse" ELSE "compare"
           right == req[s].right /\ ~LockedOut
           r == [req[s] EXCEPT !.right = right]
<1>1. /\ pc[s] = "check" /\ pc' = [pc EXCEPT ![s] = l] /\ req' = [req EXCEPT ![s] = r]
      /\ UNCHANGED <<counter, world, guesses, faults>>
  BY DEF Check, Goto
<1>2. right \in BOOLEAN
  OBVIOUS
<1>3. l \in {"refuse", "compare"} /\ l \in Places /\ (l = "compare" => ~LockedOut)
  BY DEF Places
<1> HIDE DEF right, l
<1>4. r \in Request /\ Sound(l, r, target)
  BY <1>1, <1>2, <1>3, Same
<1> HIDE DEF r
<1>5. Counted'
  <2>1. counter.count \in Nat /\ (counter.fresh => counter.count < MaxFails \/ l = "refuse")
    BY <1>3, Now, DeskAssumption DEF LockedOut
  <2>2. Cardinality(Passing') <= Cardinality(Slots)
    <3>1. Passing' \subseteq Slots
      BY DEF Passing
    <3> QED
      BY <3>1, FS_Subset, DeskAssumption
  <2>3. /\ l = "refuse" => Cardinality(Passing') = Cardinality(Passing)
        /\ Cardinality(Guessing') = Cardinality(Guessing)
        /\ Cardinality(Passing') \in Nat
    <3>1. IsFiniteSet(Passing') /\ Guessing' = Guessing \ {s}
          /\ (l = "refuse" => Passing' = Passing \ {s})
          /\ s \notin Passing /\ s \notin Guessing
      <4>1. Passing' \subseteq Slots
        BY DEF Passing
      <4> QED
        BY <1>1, <1>3, <1>4, <4>1, Joins, FS_Subset, DeskAssumption
    <3> QED
      BY <3>1, FS_CardinalityType
  <2>4. counter' = counter /\ guesses' = guesses
    BY <1>1
  <2>5. counter.count + Cardinality(Passing') <= MaxFails - 1 + Cardinality(Slots)
    <3>1. CASE l = "refuse"
      BY <2>3, <3>1 DEF Inv, Counted
    <3>2. CASE l = "compare"
      <4>1. counter.count <= MaxFails - 1
        BY <2>1, <3>2, DeskAssumption DEF Inv, Counted
      <4> QED
        BY <2>1, <2>2, <2>3, <4>1, Parties, DeskAssumption
    <3> QED
      BY <1>3, <3>1, <3>2
  <2> QED
    BY <2>3, <2>4, <2>5 DEF Inv, Counted
<1>6. counter' \in [there : BOOLEAN, count : Nat, fresh : BOOLEAN] /\ guesses' \in Nat /\ faults' \in 0..MaxFaults
  BY <1>1 DEF Inv, TypeOK
<1> QED
  BY <1>1, <1>3, <1>4, <1>5, <1>6, Verifies

LEMMA CompareInv ==
    ASSUME Inv, NEW s \in Slots, Compare(s) \/ Unreadable(s)
    PROVE  Inv'
<1>1. PICK l \in {"clear", "store"} :
        /\ pc[s] = "compare" /\ pc' = [pc EXCEPT ![s] = l]
        /\ req' = [req EXCEPT ![s] = [req[s] EXCEPT !.right = FALSE]]
        /\ l = "clear" => guesses' = guesses
        /\ guesses' \in {guesses, guesses + 1}
        /\ UNCHANGED <<counter, world>> /\ faults' \in 0..MaxFaults
  <2>1. CASE Compare(s)
    <3>1. faults' \in 0..MaxFaults
      BY <2>1, Now DEF Compare
    <3> QED
      BY <2>1, <3>1 DEF Compare, Goto
  <2>2. CASE Unreadable(s)
    <3>1. faults' \in 0..MaxFaults
      BY <2>2, Now, DeskAssumption DEF Unreadable
    <3> QED
      BY <2>2, <3>1 DEF Unreadable, Goto
  <2> QED
    BY <2>1, <2>2
<1> DEFINE r == [req[s] EXCEPT !.right = FALSE]
<1>2. r \in Request /\ Sound(l, r, target) /\ l \in Places
  BY <1>1, Same DEF Places
<1>3. req' = [req EXCEPT ![s] = r]
  BY <1>1
<1> HIDE DEF r
<1>4. guesses' \in Nat /\ counter' \in [there : BOOLEAN, count : Nat, fresh : BOOLEAN]
  BY <1>1 DEF Inv, TypeOK
<1>5. Counted'
  <2>1. counter' = counter /\ counter.count \in Nat /\ guesses \in Nat
    BY <1>1, Now
  <2>2. s \in Passing /\ s \notin Guessing
    BY <1>1 DEF Passing, Guessing
  <2>3. CASE l = "clear"
    <3>1. Passing' = Passing \ {s} /\ Guessing' = Guessing \ {s}
      BY <1>1, <1>2, <1>3, <2>3, Joins
    <3>2. Cardinality(Passing') = Cardinality(Passing) - 1 /\ Cardinality(Guessing') = Cardinality(Guessing)
      BY <1>1, <1>2, <1>3, <2>2, <3>1, Joins
    <3> QED
      BY <1>1, <2>1, <2>3, <3>2, Parties, DeskAssumption DEF Inv, Counted
  <2>4. CASE l = "store"
    <3>1. Passing' = Passing \cup {s} /\ Guessing' = Guessing \cup {s}
      BY <1>1, <1>2, <1>3, <2>4, Joins
    <3>2. Cardinality(Passing') = Cardinality(Passing) /\ Cardinality(Guessing') = Cardinality(Guessing) + 1
      BY <1>1, <1>2, <1>3, <2>2, <3>1, Joins
    <3> QED
      BY <1>1, <2>1, <3>2, Parties, DeskAssumption DEF Inv, Counted
  <2> QED
    BY <2>3, <2>4
<1> QED
  BY <1>1, <1>2, <1>3, <1>4, <1>5, Verifies

LEMMA LoadOrStoreInv ==
    ASSUME Inv, NEW s \in Slots, LoadOrStore(s)
    PROVE  Inv'
<1> DEFINE r == [req[s] EXCEPT !.holds = TRUE]
<1>1. /\ pc[s] = "store" /\ pc' = [pc EXCEPT ![s] = "count"] /\ req' = [req EXCEPT ![s] = r]
      /\ counter' = [counter EXCEPT !.there = TRUE] /\ UNCHANGED <<world, guesses, faults>>
  BY DEF LoadOrStore, Goto
<1>2. r \in Request /\ r.holds /\ Sound("count", r, target) /\ "count" \in Places
  BY <1>1, Same DEF Places
<1> HIDE DEF r
<1>3. /\ counter' \in [there : BOOLEAN, count : Nat, fresh : BOOLEAN]
      /\ counter'.count = counter.count /\ counter'.fresh = counter.fresh
      /\ guesses' = guesses /\ guesses' \in Nat /\ faults' \in 0..MaxFaults
  BY <1>1 DEF Inv, TypeOK
<1>4. Counted'
  <2>1. Passing' = Passing \cup {s} /\ Guessing' = Guessing \cup {s} /\ s \in Passing /\ s \in Guessing
    BY <1>1, <1>2, Joins
  <2>2. Passing' = Passing /\ Guessing' = Guessing
    BY <2>1
  <2> QED
    BY <1>3, <2>2 DEF Inv, Counted
<1> QED
  BY <1>1, <1>2, <1>3, <1>4, Verifies

LEMMA CountInv ==
    ASSUME Inv, NEW s \in Slots, Count(s)
    PROVE  Inv'
<1> DEFINE r == [req[s] EXCEPT !.holds = FALSE]
           n == IF counter.fresh THEN counter.count + 1 ELSE 1
<1>1. /\ pc[s] = "count" /\ pc' = [pc EXCEPT ![s] = "refuse"] /\ req' = [req EXCEPT ![s] = r]
      /\ counter' = IF req[s].holds THEN [counter EXCEPT !.count = n, !.fresh = TRUE] ELSE counter
      /\ UNCHANGED <<world, guesses, faults>>
  BY DEF Count, Goto
<1>2. r \in Request /\ Sound("refuse", r, target) /\ "refuse" \in Places
  BY <1>1, Same DEF Places
<1> HIDE DEF r
<1>3. counter \in [there : BOOLEAN, count : Nat, fresh : BOOLEAN] /\ n \in Nat
      /\ n = counter.count + 1
  BY DEF Inv, TypeOK, Counted
<1> HIDE DEF n
<1>4. /\ counter' \in [there : BOOLEAN, count : Nat, fresh : BOOLEAN]
      /\ req[s].holds => counter'.count = counter.count + 1 /\ counter'.fresh
      /\ ~req[s].holds => counter' = counter
      /\ guesses' = guesses /\ guesses' \in Nat /\ faults' \in 0..MaxFaults
  BY <1>1, <1>3 DEF Inv, TypeOK
<1>5. Counted'
  <2>1. Passing' = Passing \ {s} /\ Guessing' = Guessing \ {s} /\ s \in Passing
        /\ (s \in Guessing <=> req[s].holds)
    BY <1>1, <1>2, Joins
  <2>2. Cardinality(Passing') = Cardinality(Passing) - 1
        /\ Cardinality(Guessing') = IF s \in Guessing THEN Cardinality(Guessing) - 1 ELSE Cardinality(Guessing)
    BY <1>1, <1>2, <2>1, Joins
  <2>3. counter.count \in Nat /\ guesses \in Nat
    BY Now
  <2>4. CASE req[s].holds
    BY <1>4, <2>1, <2>2, <2>3, <2>4, Parties, DeskAssumption DEF Inv, Counted
  <2>5. CASE ~req[s].holds
    BY <1>4, <2>1, <2>2, <2>3, <2>5, Parties, DeskAssumption DEF Inv, Counted
  <2> QED
    BY <2>4, <2>5
<1> QED
  BY <1>1, <1>2, <1>4, <1>5, Verifies

\* Whatever begins the counter anew: nothing is counted, and no more can pass
\* than there are requests.
LEMMA Anew ==
    ASSUME Inv, counter'.count = 0, guesses' = 0
    PROVE  Counted'
<1>1. Passing' \subseteq Slots /\ Guessing' \subseteq Slots
  BY DEF Passing, Guessing
<1>2. IsFiniteSet(Passing') /\ IsFiniteSet(Guessing') /\ Cardinality(Passing') <= Cardinality(Slots)
  BY <1>1, FS_Subset, DeskAssumption
<1>3. Cardinality(Passing') \in Nat /\ Cardinality(Guessing') \in Nat /\ Cardinality(Slots) \in Nat
  BY <1>2, FS_CardinalityType, DeskAssumption
<1> QED
  BY <1>2, <1>3, DeskAssumption DEF Counted

LEMMA ClearInv ==
    ASSUME Inv, NEW s \in Slots, Clear(s)
    PROVE  Inv'
<1> DEFINE l == IF req[s].op \in OnUser THEN "find" ELSE "write"
           q(t) == [req[t] EXCEPT !.holds = FALSE]
<1>1. /\ pc[s] = "clear" /\ pc' = [pc EXCEPT ![s] = l] /\ req' = [t \in Slots |-> q(t)]
      /\ counter' = NoCounter /\ guesses' = 0 /\ UNCHANGED <<world, faults>>
  BY DEF Clear, Goto
<1>2. \A t \in Slots : /\ q(t) \in Request /\ q(t).honest = req[t].honest /\ q(t).raced = req[t].raced
                       /\ q(t).row = req[t].row /\ q(t).did = req[t].did
                       /\ q(t).op = req[t].op /\ q(t).role = req[t].role /\ q(t).from = req[t].from
  <2>1. \A t \in Slots : req[t] \in Request
    BY DEF Inv, TypeOK
  <2> QED
    BY <2>1 DEF Request
<1> HIDE DEF q
<1>3. \A t \in Slots : pc'[t] = (IF t = s THEN l ELSE pc[t]) /\ req'[t] = q(t)
  BY <1>1 DEF Inv, TypeOK
<1>4. \A t \in Slots : Sound(pc[t], req[t], target)
  BY DEF Inv, Known
<1>5. \A t \in Slots : Sound(pc'[t], req'[t], target)
  BY <1>1, <1>2, <1>3, <1>4 DEF Sound
<1>6. Known' /\ target' = target
  BY <1>1, <1>5 DEF Known, Sound, world
<1>7. counter' \in [there : BOOLEAN, count : Nat, fresh : BOOLEAN] /\ counter'.count = 0
  BY <1>1 DEF NoCounter
<1>8. req' \in [Slots -> Request]
  BY <1>1, <1>2
<1>9. pc' \in [Slots -> Places]
  BY <1>1 DEF Inv, TypeOK, Places
<1>10. TypeOK'
  BY <1>1, <1>7, <1>8, <1>9 DEF Inv, TypeOK, world, Places
<1> QED
  BY <1>1, <1>6, <1>7, <1>10, Anew DEF Inv

LEMMA ExpireInv ==
    ASSUME Inv, Expire
    PROVE  Inv'
<1>1. /\ counter' \in [there : BOOLEAN, count : Nat, fresh : BOOLEAN]
      /\ counter'.count = 0 /\ guesses' = 0 /\ UNCHANGED <<world, pc, req, faults>>
  BY DEF Expire, Inv, TypeOK
<1>2. TypeOK' /\ Known'
  BY <1>1 DEF Inv, TypeOK, Known, Sound, world
<1> QED
  BY <1>1, <1>2, Anew DEF Inv

LEMMA RestartInv ==
    ASSUME Inv, Restart
    PROVE  Inv'
<1>1. /\ counter' \in [there : BOOLEAN, count : Nat, fresh : BOOLEAN]
      /\ counter'.count = 0 /\ guesses' = 0 /\ UNCHANGED world
      /\ pc' = [s \in Slots |-> "idle"] /\ req' = [s \in Slots |-> Idle]
  BY DEF Restart, NoCounter
<1>2. faults' \in 0..MaxFaults
  BY Now, DeskAssumption DEF Restart, Inv, TypeOK
<1>3. Known'
  <2>1. \A s \in Slots : Sound(pc'[s], req'[s], target')
    BY <1>1, IdleIsRequest, DeskAssumption DEF Sound
  <2> QED
    BY <2>1 DEF Known, Sound
<1>4. TypeOK'
  BY <1>1, <1>2, IdleIsRequest DEF Inv, TypeOK, world
<1> QED
  BY <1>1, <1>3, <1>4, Anew DEF Inv

-----------------------------------------------------------------------------
(* The invariant, and what follows from it *)

LEMMA NextInv ==
    ASSUME Inv, [Next]_vars
    PROVE  Inv'
<1>1. CASE UNCHANGED vars
  BY <1>1 DEF vars, world, Inv, TypeOK, Counted, Passing, Guessing, Known, Sound
<1>2. ASSUME NEW s \in Slots, Arrive(s) \/ Update(s) PROVE Inv'
  BY <1>2, ArriveInv, UpdateInv
<1>3. ASSUME NEW s \in Slots,
             \/ Check(s) \/ Compare(s) \/ Unreadable(s) \/ LoadOrStore(s) \/ Count(s) \/ Clear(s)
      PROVE Inv'
  BY <1>3, CheckInv, CompareInv, LoadOrStoreInv, CountInv, ClearInv
<1>4. ASSUME NEW s \in Slots,
             \/ Refuse(s) \/ Find(s) \/ WriteUser(s) \/ WriteTx(s) \/ WriteGroup(s) \/ Use(s)
             \/ Sessions(s) \/ Audit(s) \/ Fail(s) \/ Respond(s)
      PROVE Inv'
  BY <1>4, RefuseInv, FindInv, WriteUserInv, WriteTxInv, WriteGroupInv, UseInv, SessionsInv,
     AuditInv, FailInv, RespondInv
<1> QED
  BY <1>1, <1>2, <1>3, <1>4, ExpireInv, RestartInv DEF Next

\* The inductive invariant holds in every reachable state of the desk.
THEOREM Invariance == Spec => []Inv
BY InitInv, NextInv, PTL DEF Spec

\* Every value has its type, for any number of requests and any limit.
THEOREM Typed == Spec => []TypeOK
<1>1. Inv => TypeOK
  BY DEF Inv
<1> QED
  BY Invariance, <1>1, PTL

\* No more passwords are found wrong in one window than the limit and the
\* requests that passed the check with the last of them (VerifyPassword).
THEOREM WrongIsBounded == Spec => []WrongBounded
<1>1. Inv => WrongBounded
  <2> SUFFICES ASSUME Inv PROVE WrongBounded
    OBVIOUS
  <2>1. counter.count \in Nat /\ guesses \in Nat
    BY DEF Inv, TypeOK
  <2> QED
    BY <2>1, Parties, DeskAssumption DEF Inv, Counted, WrongBounded
<1> QED
  BY Invariance, <1>1, PTL

\* What the audit log calls a success was one, or of a request that was overtaken.
THEOREM AuditIsTrue == Spec => []AuditTrue
<1>1. Inv => AuditTrue
  BY DEF Inv, Known, Sound, AuditTrue
<1> QED
  BY Invariance, <1>1, PTL

-----------------------------------------------------------------------------
(* The log is complete *)

\* The record r of a request at the place l, while the group and the user it may
\* name are there or not: it has done nothing before it may log it, and a reset has its row by then.
Accounted(l, r, there, known) ==
    /\ r.did => l \in {"sessions", "audit", "done"}
    /\ l = "sessions" => r.op = "delete_user" \/ r.row # Nil
    /\ l = "done" /\ r.op # "change_email" =>
           \/ r.row # Nil
           \/ r.failed
           \/ r.op = "delete_group" /\ ~there
           \/ r.op \in OnUser /\ ~known /\ r.told = "refused"
           \/ ~r.did /\ r.told # "refused"

AllAccounted == \A s \in Slots : Accounted(pc[s], req[s], group, target # Nil)

\* What Accounted looks at is the same in q as in r.
SameDeeds(r, q) ==
    q.op = r.op /\ q.did = r.did /\ q.failed = r.failed /\ q.row = r.row /\ q.told = r.told

\* One request goes on, the others stay where they are, and neither the group nor
\* the user comes to be.
LEMMA OthersAccounted ==
    ASSUME AllAccounted, NEW s \in Slots, Accounted(pc'[s], req'[s], group', target' # Nil), group' => group,
           target' # Nil => target # Nil,
           \A t \in Slots \ {s} : pc'[t] = pc[t] /\ SameDeeds(req[t], req'[t])
    PROVE  AllAccounted'
<1>1. \A t \in Slots \ {s} : Accounted(pc'[t], req'[t], group', target' # Nil)
  BY DEF AllAccounted, Accounted, SameDeeds
<1> QED
  BY <1>1 DEF AllAccounted, Accounted

\* Requests that a step leaves alone.
LEMMA Alone ==
    ASSUME TypeOK, NEW s \in Slots, NEW l \in Places, NEW r \in Request,
           pc' = [pc EXCEPT ![s] = l], req' = [req EXCEPT ![s] = r]
    PROVE  /\ pc'[s] = l /\ req'[s] = r
           /\ \A t \in Slots \ {s} : pc'[t] = pc[t] /\ SameDeeds(req[t], req'[t])
BY DEF TypeOK, SameDeeds

\* A request that has not done anything yet goes on and still has not.
LEMMA NotYet ==
    ASSUME TypeOK, AllAccounted, NEW s \in Slots, NEW l \in Places \ {"sessions", "done"},
           pc[s] \notin {"sessions", "audit", "done"},
           pc' = [pc EXCEPT ![s] = l],
           \A t \in Slots : SameDeeds(req[t], req'[t]),
           UNCHANGED <<group, target>>
    PROVE  AllAccounted'
<1>1. ~req[s].did /\ ~req'[s].did
  BY DEF AllAccounted, Accounted, SameDeeds
<1>2. pc'[s] = l /\ \A t \in Slots \ {s} : pc'[t] = pc[t]
  BY DEF TypeOK
<1>3. Accounted(pc'[s], req'[s], group', target' # Nil)
  BY <1>1, <1>2 DEF Accounted
<1> QED
  BY <1>2, <1>3, OthersAccounted

\* An answer that the record r accounts for.
LEMMA TellAccounted ==
    ASSUME TypeOK, AllAccounted, NEW s \in Slots, NEW r \in Request,
           NEW answer \in {"ok", "error", "refused"}, Tell(s, r, answer), UNCHANGED <<group, target>>,
           r.op # "change_email" =>
              \/ r.row # Nil
              \/ r.failed
              \/ r.op = "delete_group" /\ ~group
              \/ r.op \in OnUser /\ target = Nil /\ answer = "refused"
              \/ ~r.did /\ answer # "refused"
    PROVE  AllAccounted'
<1> DEFINE q == [Spent(r) EXCEPT !.told = answer]
<1>1. /\ q \in Request /\ q.op = r.op /\ q.did = r.did /\ q.failed = r.failed /\ q.row = r.row
      /\ q.told = answer
  BY DEF Spent, Request
<1>2. pc' = [pc EXCEPT ![s] = "done"] /\ req' = [req EXCEPT ![s] = q]
  BY DEF Tell, Goto
<1> HIDE DEF q
<1>3. pc'[s] = "done" /\ req'[s] = q /\ \A t \in Slots \ {s} : pc'[t] = pc[t] /\ SameDeeds(req[t], req'[t])
  BY <1>1, <1>2, Alone DEF Places
<1>4. Accounted("done", q, group, target # Nil)
  BY <1>1 DEF Accounted
<1> QED
  BY <1>3, <1>4, OthersAccounted

\* Requests begin with nothing done, but for an update of the settings.
LEMMA BeginAccounted ==
    ASSUME TypeOK, AllAccounted, NEW s \in Slots, Arrive(s) \/ Update(s)
    PROVE  AllAccounted'
<1> DEFINE Goal == \E r, l : /\ l \in {"check", "write", "audit"} /\ Begin(s, r, l)
                             /\ l # "audit" => ~r.did
<1>1. ASSUME NEW op, NEW right \in BOOLEAN, StepUp(s, op, right) PROVE Goal
  <2>1. Begin(s, [Idle EXCEPT !.op = op, !.right = right], "check")
    BY <1>1 DEF StepUp
  <2>2. ~[Idle EXCEPT !.op = op, !.right = right].did
    BY DEF Idle
  <2> QED BY <2>1, <2>2
<1>2. ASSUME NEW right \in BOOLEAN, NEW role \in Roles, AdminSetUserRole(s, right, role) PROVE Goal
  <2>1. ~[Idle EXCEPT !.op = "set_role", !.right = right, !.role = role].did
    BY DEF Idle
  <2> QED BY <1>2, <2>1 DEF AdminSetUserRole
<1>3. ASSUME NEW op, Begin(s, [Idle EXCEPT !.op = op], "write") PROVE Goal
  <2>1. ~[Idle EXCEPT !.op = op].did
    BY DEF Idle
  <2> QED BY <1>3, <2>1
<1>4. ASSUME NEW u \in SmtpUpdates, AdminUpdateSmtp(s, u) PROVE Goal
  BY <1>4 DEF AdminUpdateSmtp
<1>5. Goal /\ UNCHANGED <<group, target>>
  <2> HIDE DEF Goal
  <2>1. CASE Arrive(s)
    BY <2>1, <1>1, <1>2, <1>3
    DEF Arrive, AdminDeleteUser, AdminResetUserPassword, AdminDeleteGroup, ChangeEmailRequest,
        AdminCreateUser, AdminRevealSmtpPassword, AdminSendSmtpTestEmail, world
  <2>2. CASE Update(s)
    BY <2>2, <1>4 DEF Update, AdminUpdateSmtp
  <2> QED BY <2>1, <2>2
<1>6. PICK r, l : /\ l \in {"check", "write", "audit"} /\ Begin(s, r, l)
                  /\ l # "audit" => ~r.did
  BY <1>5
<1>7. /\ pc'[s] = l /\ req'[s] = r
      /\ \A t \in Slots \ {s} : pc'[t] = pc[t] /\ SameDeeds(req[t], req'[t])
  BY <1>6 DEF Begin, Goto, TypeOK, SameDeeds
<1>8. Accounted(pc'[s], req'[s], group', target' # Nil)
  BY <1>6, <1>7 DEF Accounted
<1> QED
  BY <1>5, <1>7, <1>8, OthersAccounted

\* The password check does nothing that would have to be logged.
LEMMA CheckAccounted ==
    ASSUME TypeOK, AllAccounted, NEW s \in Slots,
           Check(s) \/ Compare(s) \/ Unreadable(s) \/ LoadOrStore(s) \/ Count(s) \/ Clear(s)
    PROVE  AllAccounted'
<1>1. req \in [Slots -> Request]
  BY DEF TypeOK
<1>2. UNCHANGED <<group, target>> /\ pc[s] \notin {"sessions", "audit", "done"}
  BY DEF Check, Compare, Unreadable, LoadOrStore, Count, Clear, world
<1>3. \E l \in Places \ {"sessions", "done"} : pc' = [pc EXCEPT ![s] = l]
  BY DEF Check, Compare, Unreadable, LoadOrStore, Count, Clear, Goto, Places
<1>4. \A t \in Slots : SameDeeds(req[t], req'[t])
  <2>1. CASE Check(s) \/ Compare(s) \/ Unreadable(s)
    BY <1>1, <2>1 DEF Check, Compare, Unreadable, SameDeeds, Request
  <2>2. CASE LoadOrStore(s) \/ Count(s)
    BY <1>1, <2>2 DEF LoadOrStore, Count, SameDeeds, Request
  <2>3. CASE Clear(s)
    BY <1>1, <2>3 DEF Clear, SameDeeds, Request
  <2> QED BY <2>1, <2>2, <2>3
<1> QED
  BY <1>2, <1>3, <1>4, NotYet

\* The operations, up to their answer or to the row that is still to be written.
LEMMA WorkAccounted ==
    ASSUME TypeOK, Known, AllAccounted, NEW s \in Slots,
           Find(s) \/ WriteUser(s) \/ WriteTx(s) \/ WriteGroup(s) \/ Use(s)
    PROVE  AllAccounted'
<1>1. req \in [Slots -> Request] /\ req[s] \in Request
  BY DEF TypeOK
<1>2. pc[s] \in {"find", "write"} /\ ~req[s].did
  BY DEF Find, WriteUser, WriteTx, WriteGroup, Use, AllAccounted, Accounted
<1>3. ASSUME NEW answer \in {"ok", "error"}, Tell(s, req[s], answer), UNCHANGED <<group, target>>
      PROVE  AllAccounted'
  BY <1>1, <1>2, <1>3, TellAccounted
<1>4. CASE Find(s)
  <2>1. UNCHANGED <<group, target>>
    BY <1>4 DEF Find, world
  <2>2. CASE Goto(s, "write")
             /\ req' = [req EXCEPT ![s].from = IF req[s].op = "set_role" THEN target.role ELSE @]
    <3>1. \A t \in Slots : SameDeeds(req[t], req'[t])
      BY <1>1, <2>2 DEF SameDeeds, Request
    <3> QED BY <1>2, <2>1, <2>2, <3>1, NotYet DEF Goto, Places
  <2> QED BY <1>3, <1>4, <2>1, <2>2 DEF Find
<1>5. CASE WriteUser(s)
  <2>1. UNCHANGED group /\ target # Nil
    <3>1. Sound(pc[s], req[s], target) /\ pc[s] = "write" /\ req[s].op \in OnUser
      BY <1>5 DEF Known, WriteUser, OnUser
    <3> QED BY <1>5, <3>1 DEF WriteUser, Sound
  <2>2. CASE target.deleted
    BY <1>3, <1>5, <2>1, <2>2 DEF WriteUser
  <2>3. CASE ~target.deleted
    <3> DEFINE r == [Spent(req[s]) EXCEPT !.did = TRUE,
                        !.honest = req[s].op = "set_role" => req[s].from = target.role]
    <3>1. req' = Overtaking(s, r) /\ pc' = [pc EXCEPT ![s] = IF req[s].op = "delete_user" THEN "sessions" ELSE "audit"]
      BY <1>5, <2>3 DEF WriteUser, Goto
    <3>2. r.op = req[s].op
      BY <1>1 DEF Spent, Request
    <3> HIDE DEF r
    <3>3. /\ req'[s] = r
          /\ \A t \in Slots \ {s} : SameDeeds(req[t], req'[t])
      BY <1>1, <3>1 DEF Overtaking, SameDeeds, Request
    <3>4. /\ pc'[s] = IF req[s].op = "delete_user" THEN "sessions" ELSE "audit"
          /\ \A t \in Slots \ {s} : pc'[t] = pc[t]
      BY <3>1 DEF TypeOK
    <3>5. Accounted(pc'[s], req'[s], group', target' # Nil)
      BY <3>2, <3>3, <3>4 DEF Accounted
    <3> QED BY <2>1, <3>3, <3>4, <3>5, OthersAccounted
  <2> QED BY <2>2, <2>3
<1>6. CASE WriteTx(s)
  <2>1. UNCHANGED <<group, target>>
    BY <1>6 DEF WriteTx, world
  <2>2. CASE smtp = Nil
    BY <1>3, <1>6, <2>1, <2>2 DEF WriteTx
  <2>3. CASE smtp # Nil
    <3> DEFINE r == [req[s] EXCEPT !.did = req[s].op = "reset_password" => ~target.deleted,
                                   !.row = "success"]
    <3>1. r \in Request /\ r.row = "success" /\ r.op = req[s].op
      BY <1>1 DEF Request, TypeOK
    <3>2. \/ Tell(s, r, "ok")
          \/ pc' = [pc EXCEPT ![s] = "sessions"] /\ req' = [req EXCEPT ![s] = r]
      BY <1>6, <2>3 DEF WriteTx, Goto
    <3> HIDE DEF r
    <3>3. "success" # Nil
      BY DeskAssumption
    <3>4. CASE Tell(s, r, "ok")
      BY <2>1, <3>1, <3>3, <3>4, TellAccounted
    <3>5. CASE pc' = [pc EXCEPT ![s] = "sessions"] /\ req' = [req EXCEPT ![s] = r]
      <4>1. /\ pc'[s] = "sessions" /\ req'[s] = r
            /\ \A t \in Slots \ {s} : pc'[t] = pc[t] /\ SameDeeds(req[t], req'[t])
        BY <3>1, <3>5, Alone DEF Places
      <4>2. Accounted(pc'[s], req'[s], group', target' # Nil)
        BY <3>1, <3>3, <4>1 DEF Accounted
      <4> QED BY <2>1, <4>1, <4>2, OthersAccounted
    <3> QED BY <3>2, <3>4, <3>5
  <2> QED BY <2>2, <2>3
<1>7. CASE WriteGroup(s)
  <2>1. CASE group
    <3>1. /\ pc'[s] = "audit"
          /\ \A t \in Slots \ {s} : pc'[t] = pc[t] /\ SameDeeds(req[t], req'[t])
      BY <1>7, <2>1 DEF WriteGroup, Goto, TypeOK, SameDeeds
    <3>2. Accounted(pc'[s], req'[s], group', target' # Nil)
      BY <3>1 DEF Accounted
    <3>3. UNCHANGED target
      BY <1>7 DEF WriteGroup
    <3> QED BY <2>1, <3>1, <3>2, <3>3, OthersAccounted
  <2>2. CASE ~group
    <3>1. UNCHANGED <<group, target>>
      BY <1>7, <2>2 DEF WriteGroup, TypeOK
    <3> QED BY <1>3, <1>7, <2>2, <3>1 DEF WriteGroup
  <2> QED BY <2>1, <2>2
<1>8. CASE Use(s)
  <2>1. UNCHANGED <<group, target>>
    BY <1>8 DEF Use, world
  <2>2. CASE req[s].op = "change_email"
    <3> DEFINE r == [req[s] EXCEPT !.did = TRUE]
    <3>1. r \in Request /\ r.op = "change_email"
      BY <1>1, <2>2 DEF Request
    <3>2. Tell(s, r, "ok")
      BY <1>8, <2>2 DEF Use
    <3> HIDE DEF r
    <3> QED BY <2>1, <3>1, <3>2, TellAccounted
  <2>3. CASE pc' = [pc EXCEPT ![s] = "audit"] /\ \E sent \in BOOLEAN : req' = [req EXCEPT ![s].did = sent]
    <3>1. /\ pc'[s] = "audit"
          /\ \A t \in Slots \ {s} : pc'[t] = pc[t] /\ SameDeeds(req[t], req'[t])
      BY <2>3 DEF TypeOK, SameDeeds
    <3>2. Accounted(pc'[s], req'[s], group', target' # Nil)
      BY <3>1 DEF Accounted
    <3> QED BY <2>1, <3>1, <3>2, OthersAccounted
  <2> QED BY <1>3, <1>8, <2>1, <2>2, <2>3 DEF Use, Goto
<1> QED
  BY <1>4, <1>5, <1>6, <1>7, <1>8

\* The rows, and the answers without one.
LEMMA EndAccounted ==
    ASSUME TypeOK, Known, AllAccounted, NEW s \in Slots,
           Refuse(s) \/ Sessions(s) \/ Audit(s) \/ Fail(s) \/ Respond(s)
    PROVE  AllAccounted'
<1>1. req[s] \in Request /\ Accounted(pc[s], req[s], group, target # Nil)
  BY DEF TypeOK, AllAccounted
<1>2. UNCHANGED <<group, target>> /\ "failure" # Nil /\ "success" # Nil
  BY DeskAssumption DEF Refuse, Sessions, Audit, Fail, Respond, world
<1>3. CASE Refuse(s)
  <2> DEFINE r == [req[s] EXCEPT !.row = IF req[s].op # "change_email" /\ Insertable(s) THEN "failure" ELSE @]
  <2>1. r \in Request /\ r.op = req[s].op
    BY <1>1 DEF Request
  <2>2. r.op # "change_email" /\ Insertable(s) => r.row = "failure"
    BY <1>1 DEF Request
  <2>3. Tell(s, r, "refused")
    BY <1>3 DEF Refuse
  <2> HIDE DEF r
  <2> QED BY <1>2, <2>1, <2>2, <2>3, TellAccounted DEF Insertable
<1>4. CASE Sessions(s)
  <2>1. CASE req[s].op = "delete_user"
    <3>1. pc' = [pc EXCEPT ![s] = "audit"] /\ req' = [req EXCEPT ![s] = req[s]]
      BY <1>4, <2>1 DEF Sessions, Goto, TypeOK
    <3>2. /\ pc'[s] = "audit"
          /\ \A t \in Slots \ {s} : pc'[t] = pc[t] /\ SameDeeds(req[t], req'[t])
      BY <1>1, <3>1, Alone DEF Places
    <3>3. Accounted(pc'[s], req'[s], group', target' # Nil)
      BY <3>2 DEF Accounted
    <3> QED BY <1>2, <3>2, <3>3, OthersAccounted
  <2>2. CASE req[s].op # "delete_user"
    <3>1. Tell(s, req[s], "ok") /\ req[s].row # Nil
      BY <1>1, <1>4, <2>2 DEF Sessions, Accounted
    <3> QED BY <1>1, <1>2, <3>1, TellAccounted
  <2> QED BY <2>1, <2>2
<1>5. CASE Audit(s)
  <2>1. CASE Insertable(s)
    <3> DEFINE r == [req[s] EXCEPT !.row = IF req[s].did THEN "success" ELSE "failure"]
    <3>1. r \in Request /\ r.row # Nil
      BY <1>1, <1>2 DEF Request
    <3>2. Tell(s, r, "ok")
      BY <1>5, <2>1 DEF Audit
    <3> HIDE DEF r
    <3> QED BY <1>2, <3>1, <3>2, TellAccounted
  <2>2. CASE ~Insertable(s)
    <3>1. Sound(pc[s], req[s], target) /\ pc[s] = "audit" /\ Tell(s, req[s], "error")
      BY <1>5, <2>2 DEF Known, Audit
    <3>2. req[s].op = "delete_group" /\ ~group
      BY <2>2, <3>1 DEF Sound, Insertable
    <3> QED BY <1>1, <1>2, <3>1, <3>2, TellAccounted
  <2> QED BY <2>1, <2>2
<1>6. CASE Fail(s)
  <2> DEFINE r == [req[s] EXCEPT !.failed = TRUE]
  <2>1. r \in Request /\ r.failed
    BY <1>1 DEF Request
  <2>2. \E answer \in {"ok", "error", "refused"} : Tell(s, r, answer)
    BY <1>6 DEF Fail
  <2> HIDE DEF r
  <2> QED BY <1>2, <2>1, <2>2, TellAccounted
<1>7. CASE Respond(s)
  <2>1. /\ pc'[s] = "idle" /\ req'[s] = Idle
        /\ \A t \in Slots \ {s} : pc'[t] = pc[t] /\ SameDeeds(req[t], req'[t])
    BY <1>7, IdleIsRequest, Alone DEF Respond, Goto, Places
  <2>2. Accounted(pc'[s], req'[s], group', target' # Nil)
    BY <2>1 DEF Accounted, Idle
  <2> QED BY <1>2, <2>1, <2>2, OthersAccounted
<1> QED
  BY <1>3, <1>4, <1>5, <1>6, <1>7

\* What an administrator did, and what was refused to one, has its row once it is
\* answered, except where a statement failed, the group of the row is gone or the
\* refused request named no user.
THEOREM LogIsComplete == Spec => []Logged
<1>1. Init => AllAccounted
  BY DEF Init, AllAccounted, Accounted, Idle
<1>2. Inv /\ AllAccounted /\ [Next]_vars => AllAccounted'
  <2> SUFFICES ASSUME Inv, AllAccounted, [Next]_vars PROVE AllAccounted'
    OBVIOUS
  <2>1. CASE UNCHANGED vars
    BY <2>1 DEF vars, world, AllAccounted, Accounted
  <2>2. CASE Expire
    BY <2>2 DEF Expire, world, AllAccounted, Accounted
  <2>3. CASE Restart
    <3>1. \A s \in Slots : pc'[s] = "idle" /\ req'[s] = Idle
      BY <2>3 DEF Restart
    <3> QED BY <3>1 DEF AllAccounted, Accounted, Idle
  <2> QED
    BY <2>1, <2>2, <2>3, BeginAccounted, CheckAccounted, WorkAccounted, EndAccounted DEF Next, Inv
<1>3. AllAccounted => Logged
  BY DEF AllAccounted, Accounted, Logged
<1> QED
  BY <1>1, <1>2, <1>3, Invariance, PTL DEF Spec

=============================================================================
