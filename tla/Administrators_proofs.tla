------------------------ MODULE Administrators_proofs ------------------------
(***************************************************************************)
(* Proofs about Administrators, for any accounts, slots and processes.     *)
(***************************************************************************)
EXTENDS Administrators, FiniteSetTheorems, TLAPS

Places == {"idle", "lock", "bootstrap", "create", "find", "count", "write"}

Request == [op : Operations \cup {Nil}, actor : Users \cup {Nil}, target : Users \cup {Nil},
            role : Roles, token : 0..MaxTokens, seen : SUBSET Users]

-----------------------------------------------------------------------------
(* The invariant *)

\* Registering s holds the advisory lock; a setup s holds the setup row.
HoldsBootstrap(s) == pc[s] = "create" /\ req[s].op \in {"setup", "register"}
HoldsSetup(s) == pc[s] \in {"bootstrap", "create"} /\ req[s].op = "setup"

\* What a handler has, by where it is.
Fits ==
    \A s \in Slots :
        /\ pc[s] = "lock" => req[s].op = "setup"
        /\ pc[s] = "bootstrap" => req[s].op \in {"setup", "register"}
        /\ pc[s] = "create" => req[s].op \in {"setup", "register", "create_user"}
        /\ pc[s] \in {"find", "count"} => req[s].op \in {"set_role", "delete_user"}
        /\ pc[s] = "write" => req[s].op \in {"set_role", "delete_user", "delete_me"}
        /\ pc[s] \in {"find", "count", "write"} => req[s].target \in Users

\* A lock has one holder, and what its holder has read is still so.
Held ==
    /\ \A s, o \in Slots : HoldsSetup(s) /\ HoldsSetup(o) => s = o
    /\ \A s, o \in Slots : HoldsBootstrap(s) /\ HoldsBootstrap(o) => s = o
    /\ \A s \in Slots : HoldsSetup(s) => ~setup.completed
    /\ \A s \in Slots : HoldsSetup(s) /\ pc[s] = "create" => req[s].role = "admin"
    /\ \A s \in Slots : HoldsBootstrap(s) /\ req[s].role = "admin"
                            => bootstrapped \cap Active = {}
    /\ \A s \in Slots : pc[s] \in {"bootstrap", "create"} /\ req[s].op # "setup"
                            => setup.completed

\* Who counted administrators found another one than the target, or the target
\* was none.
Counted ==
    \A s \in Slots : pc[s] = "write" /\ req[s].op # "delete_me" =>
        req[s].target \notin req[s].seen \/ \E u \in req[s].seen : u # req[s].target

\* Who was made an administrator exists, or has existed.
Known == \A u \in bootstrapped : users[u].state # "none"

Inv == TypeOK /\ Fits /\ Held /\ Counted /\ Known /\ SetupOnce /\ OneBootstrap

-----------------------------------------------------------------------------
(* Requests keep their type *)

LEMMA BlankIsRequest == Blank \in Request
BY AdministratorsAssumption DEF Blank, Request, Operations, Roles

-----------------------------------------------------------------------------
(* Each action keeps the invariant *)

\* The inductive invariant holds before setup.
THEOREM InitInv == Init => Inv
<1> SUFFICES ASSUME Init PROVE Inv
  OBVIOUS
<1>1. TypeOK
  BY BlankIsRequest, AdministratorsAssumption DEF Init, TypeOK, Account, Roles, Request
<1>2. Fits /\ Held /\ Counted
  BY DEF Init, Fits, Held, Counted, HoldsBootstrap, HoldsSetup
<1>3. Known /\ SetupOnce /\ OneBootstrap
  BY DEF Init, Known, SetupOnce, OneBootstrap
<1> QED
  BY <1>1, <1>2, <1>3 DEF Inv

\* A process does not look at requests, and touches no more than the token.
LEMMA BootInv ==
    ASSUME Inv, NEW p \in Processes, BootRead(p) \/ BootWrite(p) \/ Stop(p)
    PROVE  Inv'
<1>1. TypeOK'
  BY AdministratorsAssumption DEF Inv, TypeOK, BootRead, BootWrite, Stop
<1>2. setup'.completed = setup.completed
  BY DEF Inv, TypeOK, BootRead, BootWrite, Stop
<1>3. UNCHANGED <<users, pc, req, minted, bootstrapped, aborts>>
  BY DEF BootRead, BootWrite, Stop
<1>4. Fits' /\ Held' /\ Counted'
  BY <1>2, <1>3 DEF Inv, Fits, Held, Counted, HoldsBootstrap, HoldsSetup, Active
<1>5. Known' /\ SetupOnce' /\ OneBootstrap'
  BY <1>2, <1>3 DEF Inv, Known, SetupOnce, OneBootstrap, Active
<1> QED
  BY <1>1, <1>4, <1>5 DEF Inv

\* What a request that has ended, or one that has just begun, holds.
LEMMA ArriveInv ==
    ASSUME Inv, NEW s \in Slots, Arrive(s)
    PROVE  Inv'
<1>0. UNCHANGED <<users, setup, boots, minted, bootstrapped, aborts>>
  BY DEF Arrive, Setup, Register, DeleteMe, CreateUser, DeleteUser, SetUserRole, Starts
<1>1. PICK at \in Places, q \in Request :
        /\ pc' = [pc EXCEPT ![s] = at] /\ req' = [req EXCEPT ![s] = q]
        /\ \/ at = "lock" /\ q.op = "setup"
           \/ at = "bootstrap" /\ q.op = "register" /\ setup.completed
           \/ at = "create" /\ q.op = "create_user" /\ setup.completed
           \/ at = "find" /\ q.op \in {"set_role", "delete_user"} /\ q.target \in Users
           \/ at = "write" /\ q.op = "delete_me" /\ q.target \in Users
  <2>0. 0 \in 0..MaxTokens
    BY AdministratorsAssumption
  <2>1. Admins # {} => setup.completed
    BY DEF Inv, SetupOnce, Admins, Active
  <2>2. setup.token \in 0..MaxTokens /\ Admins \subseteq Users /\ Active \subseteq Users
    BY DEF Inv, TypeOK, Admins, Active
  <2>3. CASE Setup(s)
    <3>1. PICK t \in 1..setup.token : Starts(s, "lock", [Blank EXCEPT !.op = "setup", !.token = t])
      BY <2>3 DEF Setup
    <3> DEFINE q == [Blank EXCEPT !.op = "setup", !.token = t]
    <3>2. t \in 0..MaxTokens
      BY <2>2, AdministratorsAssumption
    <3>3. q \in Request
      BY <2>0, <3>2 DEF Blank, Request, Operations, Roles
    <3>4. pc' = [pc EXCEPT ![s] = "lock"] /\ req' = [req EXCEPT ![s] = q]
      BY <3>1 DEF Starts
    <3>5. q.op = "setup" /\ q.target = Nil
      BY DEF Blank
    <3> HIDE DEF q
    <3> QED
      BY <3>3, <3>4, <3>5 DEF Places
  <2>4. CASE Register(s)
    <3> DEFINE q == [Blank EXCEPT !.op = "register"]
    <3>1. q \in Request
      BY <2>0 DEF Blank, Request, Operations, Roles
    <3>2. /\ setup.completed
          /\ pc' = [pc EXCEPT ![s] = "bootstrap"] /\ req' = [req EXCEPT ![s] = q]
      BY <2>4 DEF Register, Starts
    <3>3. q.op = "register"
      BY DEF Blank
    <3> HIDE DEF q
    <3> QED
      BY <3>1, <3>2, <3>3 DEF Places
  <2>5. CASE \E actor \in Users : DeleteMe(s, actor)
    <3>1. PICK actor \in Users : DeleteMe(s, actor)
      BY <2>5
    <3> DEFINE q == [Blank EXCEPT !.op = "delete_me", !.actor = actor, !.target = actor]
    <3>2. q \in Request
      BY <2>0 DEF Blank, Request, Operations, Roles
    <3>3. pc' = [pc EXCEPT ![s] = "write"] /\ req' = [req EXCEPT ![s] = q]
      BY <3>1 DEF DeleteMe, Starts
    <3>4. q.op = "delete_me" /\ q.target = actor
      BY DEF Blank
    <3> HIDE DEF q
    <3> QED
      BY <3>2, <3>3, <3>4 DEF Places
  <2>6. CASE \E actor \in Users, role \in Roles : CreateUser(s, actor, role)
    <3>1. PICK actor \in Users, role \in Roles : CreateUser(s, actor, role)
      BY <2>6
    <3> DEFINE q == [Blank EXCEPT !.op = "create_user", !.actor = actor, !.role = role]
    <3>2. q \in Request
      BY <2>0 DEF Blank, Request, Operations, Roles
    <3>3. pc' = [pc EXCEPT ![s] = "create"] /\ req' = [req EXCEPT ![s] = q]
      BY <3>1 DEF CreateUser, Starts
    <3>4. q.op = "create_user" /\ q.target = Nil
      BY DEF Blank
    <3>5. setup.completed
      BY <2>1, <3>1 DEF CreateUser, Admins
    <3> HIDE DEF q
    <3> QED
      BY <3>2, <3>3, <3>4, <3>5 DEF Places
  <2>7. CASE \E actor, target \in Users : DeleteUser(s, actor, target)
    <3>1. PICK actor \in Users, target \in Users : DeleteUser(s, actor, target)
      BY <2>7
    <3> DEFINE q == [Blank EXCEPT !.op = "delete_user", !.actor = actor, !.target = target]
    <3>2. q \in Request
      BY <2>0 DEF Blank, Request, Operations, Roles
    <3>3. pc' = [pc EXCEPT ![s] = "find"] /\ req' = [req EXCEPT ![s] = q]
      BY <3>1 DEF DeleteUser, Starts
    <3>4. q.op = "delete_user" /\ q.target = target
      BY DEF Blank
    <3> HIDE DEF q
    <3> QED
      BY <3>2, <3>3, <3>4 DEF Places
  <2>8. CASE \E actor, target \in Users, role \in Roles : SetUserRole(s, actor, target, role)
    <3>1. PICK actor \in Users, target \in Users, role \in Roles :
              SetUserRole(s, actor, target, role)
      BY <2>8
    <3> DEFINE q == [Blank EXCEPT !.op = "set_role", !.actor = actor, !.target = target, !.role = role]
    <3>2. q \in Request
      BY <2>0 DEF Blank, Request, Operations, Roles
    <3>3. pc' = [pc EXCEPT ![s] = "find"] /\ req' = [req EXCEPT ![s] = q]
      BY <3>1 DEF SetUserRole, Starts
    <3>4. q.op = "set_role" /\ q.target = target
      BY DEF Blank
    <3> HIDE DEF q
    <3> QED
      BY <3>2, <3>3, <3>4 DEF Places
  <2> QED
    BY <2>3, <2>4, <2>5, <2>6, <2>7, <2>8 DEF Arrive
<1>2. TypeOK'
  BY <1>0, <1>1 DEF Inv, TypeOK, Places, Request
<1>3. Fits'
  BY <1>1 DEF Inv, Fits, TypeOK
<1>4. Held'
  BY <1>0, <1>1 DEF Inv, Held, TypeOK, HoldsBootstrap, HoldsSetup, Active
<1>5. Counted'
  BY <1>1 DEF Inv, Counted, TypeOK
<1>6. Known' /\ SetupOnce' /\ OneBootstrap'
  BY <1>0 DEF Inv, Known, SetupOnce, OneBootstrap, Active
<1> QED
  BY <1>2, <1>3, <1>4, <1>5, <1>6 DEF Inv

\* A slot that ends holds nothing.
LEMMA EndInv ==
    ASSUME Inv, NEW s \in Slots, Ends(s), UNCHANGED <<users, setup, boots, minted, bootstrapped>>,
           aborts' \in 0..MaxAborts
    PROVE  Inv'
<1>1. pc' = [pc EXCEPT ![s] = "idle"] /\ req' = [req EXCEPT ![s] = Blank]
  BY DEF Ends
<1>2. TypeOK'
  BY <1>1, BlankIsRequest DEF Inv, TypeOK, Places, Request
<1>3. Fits' /\ Counted'
  BY <1>1 DEF Inv, Fits, Counted, TypeOK
<1>4. Held'
  BY <1>1 DEF Inv, Held, TypeOK, HoldsBootstrap, HoldsSetup, Active
<1>5. Known' /\ SetupOnce' /\ OneBootstrap'
  BY DEF Inv, Known, SetupOnce, OneBootstrap, Active
<1> QED
  BY <1>2, <1>3, <1>4, <1>5 DEF Inv

LEMMA SetupLockInv ==
    ASSUME Inv, NEW s \in Slots, SetupLock(s)
    PROVE  Inv'
<1>1. CASE Ends(s)
  BY <1>1, EndInv DEF SetupLock, Inv, TypeOK
<1>2. CASE ~Ends(s)
  <2>1. /\ pc[s] = "lock" /\ ~SetupLocked /\ ~setup.completed
        /\ pc' = [pc EXCEPT ![s] = "bootstrap"]
        /\ UNCHANGED <<users, setup, boots, req, minted, bootstrapped, aborts>>
    BY <1>2 DEF SetupLock, GoesOn
  <2>2. TypeOK'
    BY <2>1 DEF Inv, TypeOK, Places
  <2>3. Fits' /\ Counted'
    BY <2>1 DEF Inv, Fits, Counted, TypeOK
  <2>4. Held'
    BY <2>1 DEF Inv, Held, Fits, TypeOK, HoldsBootstrap, HoldsSetup, SetupLocked, Active
  <2>5. Known' /\ SetupOnce' /\ OneBootstrap'
    BY <2>1 DEF Inv, Known, SetupOnce, OneBootstrap, Active
  <2> QED
    BY <2>2, <2>3, <2>4, <2>5 DEF Inv
<1> QED
  BY <1>1, <1>2

LEMMA BootstrapInv ==
    ASSUME Inv, NEW s \in Slots, Bootstrap(s)
    PROVE  Inv'
<1> DEFINE role == IF Active = {} THEN "admin" ELSE "user"
<1>1. /\ pc[s] = "bootstrap" /\ ~BootstrapLocked
      /\ pc' = [pc EXCEPT ![s] = "create"]
      /\ req' = [req EXCEPT ![s] = [req[s] EXCEPT !.role = role]]
      /\ UNCHANGED <<users, setup, boots, minted, bootstrapped, aborts>>
  BY DEF Bootstrap, GoesOn
<1>2. role \in Roles /\ req[s] \in Request
  BY DEF Roles, Inv, TypeOK, Request
<1>3. /\ [req[s] EXCEPT !.role = role] \in Request
      /\ [req[s] EXCEPT !.role = role].op = req[s].op
      /\ [req[s] EXCEPT !.role = role].role = role
  BY <1>2 DEF Request
<1>4. TypeOK'
  BY <1>1, <1>3 DEF Inv, TypeOK, Places, Request
<1>5. Fits' /\ Counted'
  BY <1>1, <1>3 DEF Inv, Fits, Counted, TypeOK
<1>6. HoldsSetup(s) => Active = {}
  BY DEF Inv, Held, SetupOnce, Active
<1>7. Held'
  BY <1>1, <1>3, <1>6 DEF Inv, Held, Fits, TypeOK, HoldsBootstrap, HoldsSetup, BootstrapLocked, Active
<1>8. Known' /\ SetupOnce' /\ OneBootstrap'
  BY <1>1 DEF Inv, Known, SetupOnce, OneBootstrap, Active
<1> QED
  BY <1>4, <1>5, <1>7, <1>8 DEF Inv

\* Who is created was in nobody's way, and ends the transaction it was in.
LEMMA CreateInv ==
    ASSUME Inv, NEW s \in Slots, Create(s)
    PROVE  Inv'
<1>1. PICK u \in Users :
        /\ users[u].state = "none"
        /\ users' = [users EXCEPT ![u] = [state |-> "active", role |-> req[s].role]]
        /\ minted' = IF req[s].op = "setup" THEN minted \cup {u} ELSE minted
        /\ bootstrapped' = IF req[s].op # "create_user" /\ req[s].role = "admin"
                           THEN bootstrapped \cup {u} ELSE bootstrapped
  BY DEF Create
<1>2. /\ pc[s] = "create" /\ UNCHANGED <<boots, aborts>>
      /\ setup' = IF req[s].op = "setup" THEN [setup EXCEPT !.completed = TRUE] ELSE setup
      /\ pc' = [pc EXCEPT ![s] = "idle"] /\ req' = [req EXCEPT ![s] = Blank]
  BY DEF Create, Ends
<1>3. req[s].op \in {"setup", "register", "create_user"} /\ req[s].role \in Roles
  BY <1>2 DEF Inv, TypeOK, Fits
<1>4. TypeOK'
  <2>1. users' \in [Users -> Account]
    BY <1>1, <1>3 DEF Inv, TypeOK, Account
  <2>2. setup' \in [token : 0..MaxTokens, completed : BOOLEAN]
    BY <1>2 DEF Inv, TypeOK
  <2> QED
    BY <1>1, <1>2, <2>1, <2>2, BlankIsRequest DEF Inv, TypeOK, Places, Request
<1>5. Fits' /\ Counted'
  BY <1>2 DEF Inv, Fits, Counted, TypeOK
<1>6. u \notin bootstrapped /\ Active' = Active \cup {u}
  BY <1>1, <1>3 DEF Inv, Known, TypeOK, Active
<1>7. req[s].op # "setup" => setup.completed
  BY <1>2 DEF Inv, Held
<1>8. setup'.completed
  BY <1>2, <1>7 DEF Inv, TypeOK
<1>9. Held'
  <2>1. \A o \in Slots : pc'[o] # "idle" => o # s /\ pc'[o] = pc[o] /\ req'[o] = req[o]
    BY <1>2 DEF Inv, TypeOK
  <2>2. req[s].op = "setup" => \A o \in Slots : ~HoldsSetup(o)' /\ ~HoldsBootstrap(o)'
    BY <1>2, <2>1 DEF Inv, Held, HoldsSetup, HoldsBootstrap
  <2>3. req[s].op = "register" => \A o \in Slots : ~HoldsBootstrap(o)'
    BY <1>2, <2>1 DEF Inv, Held, HoldsSetup, HoldsBootstrap
  <2>4. req[s].op # "setup" => \A o \in Slots : ~HoldsSetup(o)'
    BY <1>7, <2>1 DEF Inv, Held, HoldsSetup
  <2>5. req[s].op = "create_user" => bootstrapped' \cap Active' = bootstrapped \cap Active
    BY <1>1, <1>6
  <2>6. \A p, o \in Slots : HoldsBootstrap(p)' /\ HoldsBootstrap(o)' => p = o
    BY <2>1 DEF Inv, Held, HoldsBootstrap
  <2>7. \A o \in Slots : HoldsBootstrap(o)' /\ req'[o].role = "admin"
                            => bootstrapped' \cap Active' = {}
    BY <1>3, <2>1, <2>2, <2>3, <2>5 DEF Inv, Held, HoldsBootstrap
  <2> QED
    BY <1>8, <2>2, <2>4, <2>6, <2>7 DEF Held
<1>10. Known'
  BY <1>1 DEF Inv, Known, TypeOK
<1>11. SetupOnce'
  <2>1. CASE req[s].op = "setup"
    <3>1. HoldsSetup(s)
      BY <1>2, <2>1 DEF HoldsSetup
    <3>2. minted = {} /\ req[s].role = "admin"
      BY <1>2, <3>1 DEF Inv, Held, SetupOnce
    <3> QED
      BY <1>1, <1>8, <2>1, <3>2 DEF SetupOnce
  <2>2. CASE req[s].op # "setup"
    BY <1>1, <1>7, <1>8, <2>2 DEF Inv, SetupOnce
  <2> QED
    BY <2>1, <2>2
<1>12. OneBootstrap'
  <2>1. CASE req[s].op # "create_user" /\ req[s].role = "admin"
    <3>1. bootstrapped \cap Active = {}
      BY <1>2, <1>3, <2>1 DEF Inv, Held, HoldsBootstrap
    <3>2. bootstrapped' \cap Active' = {u}
      BY <1>1, <1>6, <2>1, <3>1
    <3> QED
      BY <3>2 DEF OneBootstrap
  <2>2. CASE ~(req[s].op # "create_user" /\ req[s].role = "admin")
    <3>1. bootstrapped' \cap Active' = bootstrapped \cap Active
      BY <1>1, <1>6, <2>2
    <3> QED
      BY <3>1 DEF Inv, OneBootstrap
  <2> QED
    BY <2>1, <2>2
<1> QED
  BY <1>4, <1>5, <1>9, <1>10, <1>11, <1>12 DEF Inv

\* Where more than one is counted there is somebody else.
LEMMA SomebodyElse ==
    ASSUME Inv, NEW u, ~(Cardinality(Admins) <= 1)
    PROVE  \E v \in Admins : v # u
<1> SUFFICES ASSUME \A v \in Admins : v = u PROVE FALSE
  OBVIOUS
<1>1. Admins \subseteq {u}
  OBVIOUS
<1>2. IsFiniteSet({u}) /\ Cardinality({u}) = 1
  BY FS_Singleton
<1>3. Cardinality(Admins) <= Cardinality({u})
  BY <1>1, <1>2, FS_Subset
<1> QED
  BY <1>2, <1>3

\* A handler that goes on takes along whom it saw.
LEMMA SeenInv ==
    ASSUME Inv, NEW s \in Slots, NEW at \in {"count", "write"}, pc[s] \in {"find", "count"},
           pc' = [pc EXCEPT ![s] = at], req' = [req EXCEPT ![s].seen = Admins],
           at = "write" => \/ req[s].target \notin Admins
                           \/ \E u \in Admins : u # req[s].target,
           UNCHANGED <<users, setup, boots, minted, bootstrapped, aborts>>
    PROVE  Inv'
<1> DEFINE q == [req[s] EXCEPT !.seen = Admins]
<1>1. req[s] \in Request /\ Admins \subseteq Users
  BY DEF Inv, TypeOK, Request, Admins, Active
<1>2. q \in Request /\ q.op = req[s].op /\ q.target = req[s].target /\ q.seen = Admins
  BY <1>1 DEF Request
<1>3. req' = [req EXCEPT ![s] = q]
  OBVIOUS
<1> HIDE DEF q
<1>4. TypeOK'
  BY <1>2, <1>3 DEF Inv, TypeOK, Places, Request
<1>5. req[s].op \in {"set_role", "delete_user"} /\ req[s].target \in Users
  BY DEF Inv, Fits
<1>6. Fits' /\ Counted'
  BY <1>2, <1>3, <1>5 DEF Inv, Fits, Counted, TypeOK
<1>7. Held'
  BY <1>2, <1>3 DEF Inv, Held, TypeOK, HoldsBootstrap, HoldsSetup, Active
<1>8. Known' /\ SetupOnce' /\ OneBootstrap'
  BY DEF Inv, Known, SetupOnce, OneBootstrap, Active
<1> QED
  BY <1>4, <1>6, <1>7, <1>8 DEF Inv

LEMMA CountInv ==
    ASSUME Inv, NEW s \in Slots, Find(s) \/ CountAdmins(s)
    PROVE  Inv'
<1>1. CASE Ends(s)
  BY <1>1, EndInv DEF Find, CountAdmins, Inv, TypeOK
<1>2. CASE Find(s) /\ ~Ends(s)
  <2> DEFINE at == IF users[req[s].target].role = "admin" THEN "count" ELSE "write"
  <2>1. /\ pc[s] = "find" /\ pc' = [pc EXCEPT ![s] = at]
        /\ req' = [req EXCEPT ![s].seen = Admins]
        /\ UNCHANGED <<users, setup, boots, minted, bootstrapped, aborts>>
    BY <1>2 DEF Find, GoesOn
  <2>2. at = "write" => req[s].target \notin Admins
    BY DEF Admins
  <2>3. at \in {"count", "write"}
    OBVIOUS
  <2> HIDE DEF at
  <2> QED
    BY <2>1, <2>2, <2>3, SeenInv
<1>3. CASE CountAdmins(s) /\ ~Ends(s)
  <2>1. /\ pc[s] = "count" /\ pc' = [pc EXCEPT ![s] = "write"]
        /\ req' = [req EXCEPT ![s].seen = Admins] /\ ~(Cardinality(Admins) <= 1)
        /\ UNCHANGED <<users, setup, boots, minted, bootstrapped, aborts>>
    BY <1>3 DEF CountAdmins, GoesOn
  <2>2. \E u \in Admins : u # req[s].target
    BY <2>1, SomebodyElse
  <2> QED
    BY <2>1, <2>2, SeenInv
<1> QED
  BY <1>1, <1>2, <1>3

\* A change of a role and a deletion touch one account that is active.
LEMMA WriteInv ==
    ASSUME Inv, NEW s \in Slots, Write(s)
    PROVE  Inv'
<1>1. /\ pc[s] = "write" /\ UNCHANGED <<setup, boots, minted, bootstrapped, aborts>>
      /\ pc' = [pc EXCEPT ![s] = "idle"] /\ req' = [req EXCEPT ![s] = Blank]
      /\ users' = IF req[s].target \in Active
                  THEN [users EXCEPT ![req[s].target] = Written(req[s])] ELSE users
  BY DEF Write, Ends
<1>2. req[s].target \in Active =>
        Written(req[s]) \in Account /\ Written(req[s]).state \in {"active", "deleted"}
  BY DEF Written, Account, Active, Inv, TypeOK
<1>3. /\ users' \in [Users -> Account] /\ Active' \subseteq Active
      /\ \A u \in Users : users'[u].state = "none" <=> users[u].state = "none"
  BY <1>1, <1>2 DEF Inv, TypeOK, Active
<1>4. TypeOK'
  BY <1>1, <1>3, BlankIsRequest DEF Inv, TypeOK, Places, Request
<1>5. Fits' /\ Counted'
  BY <1>1 DEF Inv, Fits, Counted, TypeOK
<1>6. Held'
  BY <1>1, <1>3 DEF Inv, Held, TypeOK, HoldsBootstrap, HoldsSetup
<1>7. Known' /\ SetupOnce' /\ OneBootstrap'
  BY <1>1, <1>3 DEF Inv, TypeOK, Known, SetupOnce, OneBootstrap
<1> QED
  BY <1>4, <1>5, <1>6, <1>7 DEF Inv

\* Every step of every request keeps the inductive invariant.
THEOREM StepInv == Inv /\ [Next]_vars => Inv'
<1> SUFFICES ASSUME Inv, [Next]_vars PROVE Inv'
  OBVIOUS
<1>1. ASSUME NEW p \in Processes, BootRead(p) \/ BootWrite(p) \/ Stop(p) PROVE Inv'
  BY <1>1, BootInv
<1>2. ASSUME NEW s \in Slots, Arrive(s) PROVE Inv'
  BY <1>2, ArriveInv
<1>3. ASSUME NEW s \in Slots, Step(s) PROVE Inv'
  <2>1. CASE SetupLock(s)
    BY <2>1, SetupLockInv
  <2>2. CASE Bootstrap(s)
    BY <2>2, BootstrapInv
  <2>3. CASE Create(s)
    BY <2>3, CreateInv
  <2>4. CASE Find(s) \/ CountAdmins(s)
    BY <2>4, CountInv
  <2>5. CASE Write(s)
    BY <2>5, WriteInv
  <2> QED
    BY <1>3, <2>1, <2>2, <2>3, <2>4, <2>5 DEF Step
<1>4. ASSUME NEW s \in Slots, Abort(s) PROVE Inv'
  <2>1. Ends(s) /\ UNCHANGED <<users, setup, boots, minted, bootstrapped>>
    BY <1>4 DEF Abort
  <2>2. aborts' \in 0..MaxAborts
    BY <1>4, AdministratorsAssumption DEF Abort, Inv, TypeOK
  <2> QED
    BY <2>1, <2>2, EndInv
<1>5. CASE UNCHANGED vars
  BY <1>5 DEF vars, Inv, TypeOK, Fits, Held, HoldsSetup, HoldsBootstrap, Counted, Known,
     SetupOnce, OneBootstrap, Active
<1> QED
  BY <1>1, <1>2, <1>3, <1>4, <1>5 DEF Next

-----------------------------------------------------------------------------
(* What a step may not do *)

\* Only Create and Write change the users table.
LEMMA WhoWrites ==
    ASSUME [Next]_vars, users' # users
    PROVE  \E s \in Slots : Create(s) \/ Write(s)
<1>1. ASSUME NEW p \in Processes, BootRead(p) \/ BootWrite(p) \/ Stop(p) PROVE users' = users
  BY <1>1 DEF BootRead, BootWrite, Stop
<1>2. ASSUME NEW s \in Slots, Arrive(s) PROVE users' = users
  BY <1>2 DEF Arrive, Setup, Register, DeleteMe, CreateUser, DeleteUser, SetUserRole, Starts
<1>3. ASSUME NEW s \in Slots, SetupLock(s) \/ Bootstrap(s) \/ Find(s) \/ CountAdmins(s) \/ Abort(s)
      PROVE  users' = users
  BY <1>3 DEF SetupLock, Bootstrap, Find, CountAdmins, Abort
<1> QED
  BY <1>1, <1>2, <1>3 DEF Next, Step, vars

\* Only a process that boots and a setup change the setup row, and they find
\* it uncompleted.
LEMMA SetupWritten ==
    ASSUME Inv, [Next]_vars, setup.completed
    PROVE  setup' = setup
<1>1. ASSUME NEW p \in Processes, BootRead(p) \/ BootWrite(p) \/ Stop(p) PROVE setup' = setup
  BY <1>1 DEF BootRead, BootWrite, Stop
<1>2. ASSUME NEW s \in Slots, Arrive(s) PROVE setup' = setup
  BY <1>2 DEF Arrive, Setup, Register, DeleteMe, CreateUser, DeleteUser, SetUserRole, Starts
<1>3. ASSUME NEW s \in Slots, Create(s) PROVE setup' = setup
  <2>1. ~HoldsSetup(s)
    BY <1>3 DEF Inv, Held
  <2> QED
    BY <1>3, <2>1 DEF Create, HoldsSetup
<1>4. ASSUME NEW s \in Slots,
             SetupLock(s) \/ Bootstrap(s) \/ Find(s) \/ CountAdmins(s) \/ Write(s) \/ Abort(s)
      PROVE  setup' = setup
  BY <1>4 DEF SetupLock, Bootstrap, Find, CountAdmins, Write, Abort
<1> QED
  BY <1>1, <1>2, <1>3, <1>4 DEF Next, Step, vars

\* A new account takes nothing from those that exist.
LEMMA CreateAdds ==
    ASSUME Inv, NEW s \in Slots, Create(s), NEW v \in Users, users[v].state # "none"
    PROVE  users'[v] = users[v]
BY DEF Create, Inv, TypeOK

\* A write that leaves no administrator did not see who was one.
LEMMA LastOne ==
    ASSUME Inv, NEW s \in Slots, Write(s), Admins # {}, Admins' = {}
    PROVE  req[s].op = "delete_me" \/ req[s].seen # Admins
<1> SUFFICES ASSUME req[s].op # "delete_me", req[s].seen = Admins PROVE FALSE
  OBVIOUS
<1>1. pc[s] = "write" /\ users' = IF req[s].target \in Active
                                 THEN [users EXCEPT ![req[s].target] = Written(req[s])] ELSE users
  BY DEF Write
<1>2. req[s].target \notin Admins \/ \E u \in Admins : u # req[s].target
  BY <1>1 DEF Inv, Counted
<1>3. PICK u \in Admins : u # req[s].target
  BY <1>2
<1>4. u \in Users /\ users'[u] = users[u]
  BY <1>1, <1>3 DEF Inv, TypeOK, Admins, Active
<1>5. u \in Admins'
  BY <1>4 DEF Admins, Active
<1> QED
  BY <1>5

-----------------------------------------------------------------------------
(* Results *)

\* However many requests are served and processes boot, the invariant holds:
\* what a lock guards is as its holder has read it.
THEOREM Inductive == Spec => []Inv
BY InitInv, StepInv, PTL DEF Spec

\* Every value has its type.
THEOREM Typed == Spec => []TypeOK
<1>1. Inv => TypeOK
  BY DEF Inv
<1> QED
  BY <1>1, Inductive, PTL

\* Setup succeeds once, on an instance without accounts, and what it creates
\* is an administrator.
THEOREM SetupSucceedsOnce == Spec => []SetupOnce
<1>1. Inv => SetupOnce
  BY DEF Inv
<1> QED
  BY <1>1, Inductive, PTL

\* Two registrations on an empty instance do not both become administrators.
THEOREM OneBootstraps == Spec => []OneBootstrap
<1>1. Inv => OneBootstrap
  BY DEF Inv
<1> QED
  BY <1>1, Inductive, PTL

\* A boot that races a setup writes no token after it.
THEOREM CompletedStays == Spec => CompletedIsFinal
<1>1. Inv /\ [Next]_vars => [setup.completed => UNCHANGED setup]_setup
  BY SetupWritten
<1> QED
  BY <1>1, Inductive, PTL DEF Spec, CompletedIsFinal

\* The last administrator is lost to the own deletion or to a race, and in no
\* other way.
THEOREM LastAdminKept == Spec => LastAdminLost
<1> DEFINE Lost == \E s \in Slots : /\ pc[s] = "write" /\ pc'[s] = "idle"
                                    /\ req[s].op = "delete_me" \/ req[s].seen # Admins
<1>1. ASSUME Inv, [Next]_vars, users' # users, Admins # {}, Admins' = {} PROVE Lost
  <2>1. PICK s \in Slots : Create(s) \/ Write(s)
    BY <1>1, WhoWrites
  <2>2. CASE Create(s)
    <3>1. PICK v \in Admins : TRUE
      BY <1>1
    <3>2. v \in Users /\ users[v].state = "active" /\ users[v].role = "admin"
      BY <3>1 DEF Admins, Active
    <3>3. users'[v] = users[v]
      BY <1>1, <2>2, <3>2, CreateAdds
    <3>4. v \in Admins'
      BY <3>2, <3>3 DEF Admins, Active
    <3> QED
      BY <1>1, <3>4
  <2>3. CASE Write(s)
    <3>1. req[s].op = "delete_me" \/ req[s].seen # Admins
      BY <1>1, <2>3, LastOne
    <3>2. pc[s] = "write" /\ pc'[s] = "idle"
      BY <1>1, <2>3 DEF Write, Ends, Inv, TypeOK
    <3> QED
      BY <3>1, <3>2
  <2> QED
    BY <2>1, <2>2, <2>3
<1>2. Inv /\ [Next]_vars => [Admins # {} /\ Admins' = {} => Lost]_users
  BY <1>1
<1> QED
  BY <1>2, Inductive, PTL DEF Spec, LastAdminLost

\* No request, however late it writes, touches a deleted account.
THEOREM DeletedStaysDeleted == Spec => DeletedStays
<1>1. ASSUME Inv, [Next]_vars, NEW u \in Users, users[u].state = "deleted"
      PROVE  users'[u] = users[u]
  <2>1. CASE users' = users
    BY <2>1
  <2>2. CASE users' # users
    <3>1. PICK s \in Slots : Create(s) \/ Write(s)
      BY <1>1, <2>2, WhoWrites
    <3>2. CASE Create(s)
      BY <1>1, <3>2, CreateAdds
    <3>3. CASE Write(s)
      BY <1>1, <3>3 DEF Write, Active, Inv, TypeOK
    <3> QED
      BY <3>1, <3>2, <3>3
  <2> QED
    BY <2>1, <2>2
<1>2. Inv /\ [Next]_vars =>
        [\A u \in Users : users[u].state = "deleted" => users'[u] = users[u]]_users
  BY <1>1
<1> QED
  BY <1>2, Inductive, PTL DEF Spec, DeletedStays

=============================================================================
