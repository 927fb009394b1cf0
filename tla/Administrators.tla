--------------------------- MODULE Administrators ---------------------------
(***************************************************************************)
(* First-run setup, and who is an administrator ever after                 *)
(* (service/setup.go, repo/setup.go, Register and RegisterTx of            *)
(* service/auth.go, the roles of service/admin.go, service/me.go).         *)
(*                                                                         *)
(* Only setup and registration hold a transaction over what they check and *)
(* what they write.  Changes of roles and deletions read, count and write  *)
(* in statements of their own.                                             *)
(*                                                                         *)
(* External: PostgreSQL's locks, of the setup row (FOR UPDATE) and of the  *)
(* advisory key 'admin_bootstrap', each held until COMMIT.  Addresses are  *)
(* left out: a new account takes the next free identity.                   *)
(***************************************************************************)
EXTENDS Integers, FiniteSets

CONSTANTS
    Users,      \* identities, of accounts that exist and will
    Slots,      \* requests served at one time
    Processes,  \* API processes, each of which boots
    MaxTokens,  \* bound: setup tokens written
    MaxAborts,  \* bound: requests that fail half-way
    Nil

Roles == {"user", "admin"}

Account == [state : {"none", "active", "deleted"}, role : Roles]

Operations == {"setup", "register", "create_user", "set_role", "delete_user", "delete_me"}

ASSUME AdministratorsAssumption ==
    /\ IsFiniteSet(Users) /\ Nil \notin Users
    /\ MaxTokens \in Nat \ {0} /\ MaxAborts \in Nat

VARIABLES
    users,         \* the users table
    setup,         \* the row of app_setup; its token is 0 while there is no row
    boots,         \* where each process is in EnsureToken
    pc,            \* where each slot is
    req,           \* what it serves and what its handler has read
    minted,        \* history: who was created by setup
    bootstrapped,  \* history: who became an administrator by registering first
    aborts

vars == <<users, setup, boots, pc, req, minted, bootstrapped, aborts>>

Blank == [op |-> Nil, actor |-> Nil, target |-> Nil, role |-> "user", token |-> 0,
          seen |-> {}]

Init ==
    /\ users = [u \in Users |-> [state |-> "none", role |-> "user"]]
    /\ setup = [token |-> 0, completed |-> FALSE]
    /\ boots = [p \in Processes |-> "down"]
    /\ pc = [s \in Slots |-> "idle"]
    /\ req = [s \in Slots |-> Blank]
    /\ minted = {} /\ bootstrapped = {}
    /\ aborts = 0

-----------------------------------------------------------------------------
(* What the statements read, and the locks *)

Active == {u \in Users : users[u].state = "active"}

\* CountActiveAdmins counts these.
Admins == {u \in Active : users[u].role = "admin"}

\* A setup that has read its row FOR UPDATE and not ended.
SetupLocked == \E s \in Slots : pc[s] \in {"bootstrap", "create"} /\ req[s].op = "setup"

\* A transaction that has taken the advisory lock in RegisterTx.
BootstrapLocked == \E s \in Slots : pc[s] = "create" /\ req[s].op \in {"setup", "register"}

-----------------------------------------------------------------------------
(* How a handler moves *)

Starts(s, at, q) ==
    /\ pc[s] = "idle"
    /\ pc' = [pc EXCEPT ![s] = at]
    /\ req' = [req EXCEPT ![s] = q]
    /\ UNCHANGED <<users, setup, boots, minted, bootstrapped, aborts>>

GoesOn(s, at) == pc' = [pc EXCEPT ![s] = at]

Ends(s) == pc' = [pc EXCEPT ![s] = "idle"] /\ req' = [req EXCEPT ![s] = Blank]

-----------------------------------------------------------------------------
(* Boot: EnsureToken reads the row, and writes a new token in a statement   *)
(* of its own                                                               *)

BootRead(p) ==
    /\ boots[p] = "down"
    /\ boots' = [boots EXCEPT ![p] = IF setup.completed THEN "up" ELSE "read"]
    /\ UNCHANGED <<users, setup, pc, req, minted, bootstrapped, aborts>>

\* Mutant of BootWrite: Upsert without completed_at IS NULL.
BootWriteAnyway(p) ==
    /\ boots[p] = "read" /\ ~SetupLocked /\ setup.token < MaxTokens
    /\ setup' = [setup EXCEPT !.token = @ + 1]
    /\ boots' = [boots EXCEPT ![p] = "up"]
    /\ UNCHANGED <<users, pc, req, minted, bootstrapped, aborts>>

\* Upsert waits for a setup that holds the row, and then looks at it again.
BootWrite(p) ==
    /\ boots[p] = "read" /\ ~SetupLocked
    /\ \/ setup.completed /\ UNCHANGED setup
       \/ /\ ~setup.completed /\ setup.token < MaxTokens
          /\ setup' = [setup EXCEPT !.token = @ + 1]
    /\ boots' = [boots EXCEPT ![p] = "up"]
    /\ UNCHANGED <<users, pc, req, minted, bootstrapped, aborts>>

Stop(p) ==
    /\ boots[p] # "down"
    /\ boots' = [boots EXCEPT ![p] = "down"]
    /\ UNCHANGED <<users, setup, pc, req, minted, bootstrapped, aborts>>

-----------------------------------------------------------------------------
(* New accounts: CompleteWithToken, Register, CreateUser *)

\* With any token that was printed since the instance exists.
Setup(s) ==
    \E t \in 1..setup.token :
        Starts(s, "lock", [Blank EXCEPT !.op = "setup", !.token = t])

\* Mutant of SetupLock: the row is read without FOR UPDATE.
SetupLockPlain(s) ==
    /\ pc[s] = "lock"
    /\ IF setup.completed \/ setup.token # req[s].token
       THEN Ends(s) ELSE GoesOn(s, "bootstrap") /\ UNCHANGED req
    /\ UNCHANGED <<users, setup, boots, minted, bootstrapped, aborts>>

SetupLock(s) ==
    /\ pc[s] = "lock" /\ ~SetupLocked
    /\ IF setup.completed \/ setup.token # req[s].token
       THEN Ends(s) ELSE GoesOn(s, "bootstrap") /\ UNCHANGED req
    /\ UNCHANGED <<users, setup, boots, minted, bootstrapped, aborts>>

Register(s) ==
    /\ setup.completed
    /\ Starts(s, "bootstrap", [Blank EXCEPT !.op = "register"])

\* Mutant of Bootstrap: RegisterTx without the advisory lock.
BootstrapUnlocked(s) ==
    /\ pc[s] = "bootstrap"
    /\ req' = [req EXCEPT ![s].role = IF Active = {} THEN "admin" ELSE "user"]
    /\ GoesOn(s, "create")
    /\ UNCHANGED <<users, setup, boots, minted, bootstrapped, aborts>>

\* RegisterTx takes the advisory lock, and counts whom it then sees.
Bootstrap(s) ==
    /\ pc[s] = "bootstrap" /\ ~BootstrapLocked
    /\ req' = [req EXCEPT ![s].role = IF Active = {} THEN "admin" ELSE "user"]
    /\ GoesOn(s, "create")
    /\ UNCHANGED <<users, setup, boots, minted, bootstrapped, aborts>>

Create(s) ==
    /\ pc[s] = "create"
    /\ \E u \in Users :
        /\ users[u].state = "none"
        /\ users' = [users EXCEPT ![u] = [state |-> "active", role |-> req[s].role]]
        /\ minted' = IF req[s].op = "setup" THEN minted \cup {u} ELSE minted
        /\ bootstrapped' = IF req[s].op # "create_user" /\ req[s].role = "admin"
                           THEN bootstrapped \cup {u} ELSE bootstrapped
    /\ setup' = IF req[s].op = "setup" THEN [setup EXCEPT !.completed = TRUE] ELSE setup
    /\ Ends(s)
    /\ UNCHANGED <<boots, aborts>>

-----------------------------------------------------------------------------
(* Administration: RequireAdmin reads the actor, then SetUserRole and       *)
(* DeleteUser read the target, count administrators, and write              *)

CreateUser(s, actor, role) ==
    /\ actor \in Admins
    /\ Starts(s, "create", [Blank EXCEPT !.op = "create_user", !.actor = actor, !.role = role])

SetUserRole(s, actor, target, role) ==
    /\ actor \in Admins /\ actor # target /\ users[target].state # "none"
    /\ Starts(s, "find", [Blank EXCEPT !.op = "set_role", !.actor = actor,
                                       !.target = target, !.role = role])

DeleteUser(s, actor, target) ==
    /\ actor \in Admins /\ actor # target /\ users[target].state # "none"
    /\ Starts(s, "find", [Blank EXCEPT !.op = "delete_user", !.actor = actor,
                                       !.target = target])

\* The target is read; only who takes an administrator away goes on to count.
Find(s) ==
    LET target == users[req[s].target]
        refused == \/ target.state = "deleted"
                   \/ req[s].op = "set_role" /\ target.role = req[s].role
    IN  /\ pc[s] = "find"
        /\ IF refused THEN Ends(s)
           ELSE /\ GoesOn(s, IF target.role = "admin" THEN "count" ELSE "write")
                /\ req' = [req EXCEPT ![s].seen = Admins]
        /\ UNCHANGED <<users, setup, boots, minted, bootstrapped, aborts>>

\* Mutant of CountAdmins: the limit is off by one.
CountAdminsOffByOne(s) ==
    /\ pc[s] = "count"
    /\ IF Cardinality(Admins) < 1
       THEN Ends(s) ELSE GoesOn(s, "write") /\ req' = [req EXCEPT ![s].seen = Admins]
    /\ UNCHANGED <<users, setup, boots, minted, bootstrapped, aborts>>

CountAdmins(s) ==
    /\ pc[s] = "count"
    /\ IF Cardinality(Admins) <= 1
       THEN Ends(s) ELSE GoesOn(s, "write") /\ req' = [req EXCEPT ![s].seen = Admins]
    /\ UNCHANGED <<users, setup, boots, minted, bootstrapped, aborts>>

\* MeService.SoftDelete: whoever has a session, and nobody is counted.
DeleteMe(s, actor) ==
    /\ actor \in Active
    /\ Starts(s, "write", [Blank EXCEPT !.op = "delete_me", !.actor = actor, !.target = actor])

Written(q) == IF q.op = "set_role" THEN [users[q.target] EXCEPT !.role = q.role]
                                   ELSE [users[q.target] EXCEPT !.state = "deleted"]

\* SetRole or SoftDelete, of a row that is still active.
Write(s) ==
    /\ pc[s] = "write"
    /\ users' = IF req[s].target \in Active
                THEN [users EXCEPT ![req[s].target] = Written(req[s])] ELSE users
    /\ Ends(s)
    /\ UNCHANGED <<setup, boots, minted, bootstrapped, aborts>>

\* A statement fails or the client goes away; an open transaction is rolled back.
Abort(s) ==
    /\ pc[s] # "idle" /\ aborts < MaxAborts
    /\ aborts' = aborts + 1
    /\ Ends(s)
    /\ UNCHANGED <<users, setup, boots, minted, bootstrapped>>

-----------------------------------------------------------------------------
Arrive(s) ==
    \/ Setup(s) \/ Register(s)
    \/ \E actor \in Users :
        \/ DeleteMe(s, actor)
        \/ \E role \in Roles : CreateUser(s, actor, role)
        \/ \E target \in Users : \/ DeleteUser(s, actor, target)
                                 \/ \E role \in Roles : SetUserRole(s, actor, target, role)

Step(s) ==
    \/ SetupLock(s) \/ Bootstrap(s) \/ Create(s)
    \/ Find(s) \/ CountAdmins(s) \/ Write(s)

Next ==
    \/ \E p \in Processes : BootRead(p) \/ BootWrite(p) \/ Stop(p)
    \/ \E s \in Slots : Arrive(s) \/ Step(s) \/ Abort(s)

Spec == Init /\ [][Next]_vars

-----------------------------------------------------------------------------
(* Properties *)

TypeOK ==
    /\ users \in [Users -> Account]
    /\ setup \in [token : 0..MaxTokens, completed : BOOLEAN]
    /\ boots \in [Processes -> {"down", "read", "up"}]
    /\ pc \in [Slots -> {"idle", "lock", "bootstrap", "create", "find", "count", "write"}]
    /\ req \in [Slots -> [op : Operations \cup {Nil}, actor : Users \cup {Nil},
                          target : Users \cup {Nil}, role : Roles, token : 0..MaxTokens,
                          seen : SUBSET Users]]
    /\ minted \subseteq Users /\ bootstrapped \subseteq Users
    /\ aborts \in 0..MaxAborts

\* However many setups race, and whoever boots meanwhile, setup succeeds once:
\* before that there are no accounts, and the one it creates is an
\* administrator (service/setup.go:75-95).
SetupOnce ==
    IF setup.completed
    THEN \E u \in Users : minted = {u} /\ u \in bootstrapped
    ELSE minted = {} /\ \A u \in Users : users[u].state = "none"

\* A process that read the row before setup was completed does not give it a
\* new token afterwards (repo/setup.go:43-56).
CompletedIsFinal == [][setup.completed => UNCHANGED setup]_setup

\* Of the accounts that exist one at most was made an administrator for being
\* the first (service/auth.go:242-247).
OneBootstrap == \A u, v \in bootstrapped \cap Active : u = v

\* The last administrator goes only by deleting the own account, or if who is
\* an administrator has changed since the request looked
\* (service/admin.go:123-132, 275-284; service/me.go:205).
LastAdminLost ==
    [][Admins # {} /\ Admins' = {} =>
        \E s \in Slots : /\ pc[s] = "write" /\ pc'[s] = "idle"
                         /\ req[s].op = "delete_me" \/ req[s].seen # Admins]_users

\* A deleted account stays as it is, whatever was under way
\* (deleted_at IS NULL in SetRole and SoftDelete, repo/user.go).
DeletedStays ==
    [][\A u \in Users : users[u].state = "deleted" => users'[u] = users[u]]_users

=============================================================================
