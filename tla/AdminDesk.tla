------------------------------ MODULE AdminDesk ------------------------------
(***************************************************************************)
(* What one administrator does to a user, a group and the SMTP settings,   *)
(* with several requests at a time in one server process: the step-up      *)
(* password check with its counter in memory (service/auth.go), the        *)
(* operation itself, and the row of the audit log (handlers/admin.go,      *)
(* service/admin.go, repo/audit.go, service/smtp.go).                      *)
(*                                                                         *)
(* Statements of a request run one by one; others run between them.  The   *)
(* guards that keep an administrator are in Administrators, the sessions   *)
(* and codes of a reset in Account: here both operations succeed or are    *)
(* refused.  A counter is told from one that was deleted while a request   *)
(* still held it, which nobody reads.  Left out: malformed requests, which *)
(* change nothing, and reading lists.                                      *)
(***************************************************************************)
EXTENDS Integers, FiniteSets

CONSTANTS
    Slots,       \* requests in progress
    MaxFails,    \* stepUpMaxFails
    MaxFaults,   \* bound: statements that fail, and restarts
    Nil

Roles == {"user", "admin"}

ASSUME DeskAssumption ==
    /\ IsFiniteSet(Slots) /\ Slots # {}
    /\ MaxFails \in Nat \ {0}
    /\ MaxFaults \in Nat
    /\ Nil \notin {"success", "failure"}
    /\ Nil \notin [role : Roles, deleted : BOOLEAN]

VARIABLES
    counter,   \* the entry of stepUpFails for the administrator; fresh: its window is open
    target,    \* the user whose id the requests name, Nil if there is none with it
    group,     \* the group they are about exists
    smtp,      \* the row of smtp_config, Nil before it is written
    pc,        \* where the request is
    req,       \* the request, and what it did so far
    guesses,   \* history: passwords found wrong since the counter last began anew
    faults

world == <<target, group, smtp>>

vars == <<counter, world, pc, req, guesses, faults>>

NoCounter == [there |-> FALSE, count |-> 0, fresh |-> FALSE]

\* right: the password is; holds: it has the counter; did: the operation took
\* effect; honest: from is the role that was replaced; raced: another request
\* changed the user after this one read it; failed: a statement did.
Idle == [op |-> Nil, right |-> FALSE, role |-> Nil, from |-> Nil, holds |-> FALSE,
         did |-> FALSE, honest |-> TRUE, raced |-> FALSE, failed |-> FALSE,
         row |-> Nil, told |-> Nil]

Init ==
    /\ counter = NoCounter
    /\ target \in [role : Roles, deleted : {FALSE}] \cup {Nil}
    /\ group = TRUE
    /\ smtp = Nil
    /\ pc = [s \in Slots |-> "idle"]
    /\ req = [s \in Slots |-> Idle]
    /\ guesses = 0
    /\ faults = 0

Goto(s, l) == pc' = [pc EXCEPT ![s] = l]

\* What a request no longer needs once its operation has been tried.
Spent(r) == [r EXCEPT !.role = Nil, !.from = Nil]

\* The request ends with an answer of the handler.
Tell(s, r, answer) == Goto(s, "done") /\ req' = [req EXCEPT ![s] = [Spent(r) EXCEPT !.told = answer]]

Begin(s, r, l) == pc[s] = "idle" /\ Goto(s, l) /\ req' = [req EXCEPT ![s] = r]

-----------------------------------------------------------------------------
(* The handlers.  Some ask for the password first.                         *)

\* What is done to the user that the request names.
OnUser == {"delete_user", "reset_password", "set_role"}

\* Server.stepUp, as far as the check of the password.  Whether the id in the
\* request is anybody's is looked up only behind it.
StepUp(s, op, right) == Begin(s, [Idle EXCEPT !.op = op, !.right = right], "check")

AdminDeleteUser(s, right) == StepUp(s, "delete_user", right)
AdminResetUserPassword(s, right) == StepUp(s, "reset_password", right)
AdminDeleteGroup(s, right) == StepUp(s, "delete_group", right)
AdminSetUserRole(s, right, role) ==
    Begin(s, [Idle EXCEPT !.op = "set_role", !.right = right, !.role = role], "check")

\* The same counter, but nothing is logged.
ChangeEmailRequest(s, right) == StepUp(s, "change_email", right)

AdminCreateUser(s) == Begin(s, [Idle EXCEPT !.op = "create_user"], "write")

AdminRevealSmtpPassword(s) == Begin(s, [Idle EXCEPT !.op = "reveal"], "write")

AdminSendSmtpTestEmail(s) == Begin(s, [Idle EXCEPT !.op = "smtp_test"], "write")

\* What is asked of the SMTP settings: a user name, the stored password left
\* alone, cleared or set, no TLS, and consent to credentials without it.
SmtpUpdates == [user : BOOLEAN, password : {"leave", "clear", "set"}, plain : BOOLEAN, allow : BOOLEAN]

\* validateSmtp: a user name or a password makes credentials.
Allowed(u) == ~(u.plain /\ (u.user \/ u.password = "set") /\ ~u.allow)

\* SmtpService.Update up to the upsert; validation and the write are one step.
AdminUpdateSmtp(s, u) ==
    /\ Begin(s, [Idle EXCEPT !.op = "update_smtp", !.did = TRUE], "audit")
    /\ Allowed(u)
    /\ smtp' = [password |-> IF u.password = "leave" THEN smtp # Nil /\ smtp.password
                             ELSE u.password = "set"]
    /\ UNCHANGED <<target, group>>

-----------------------------------------------------------------------------
(* AuthService.VerifyPassword *)

LockedOut == counter.fresh /\ counter.count >= MaxFails

\* Who is locked out is refused before the password is looked at.
Check(s) ==
    /\ pc[s] = "check"
    /\ Goto(s, IF LockedOut THEN "refuse" ELSE "compare")
    /\ req' = [req EXCEPT ![s].right = @ /\ ~LockedOut]
    /\ UNCHANGED <<counter, world, guesses, faults>>

\* The stored hash is read and the password compared, which takes long.
Compare(s) ==
    /\ pc[s] = "compare"
    /\ Goto(s, IF req[s].right THEN "clear" ELSE "store")
    /\ guesses' = IF req[s].right THEN guesses ELSE guesses + 1
    /\ req' = [req EXCEPT ![s].right = FALSE]
    /\ UNCHANGED <<counter, world, faults>>

\* An account that cannot be read counts as a failure, too.
Unreadable(s) ==
    /\ pc[s] = "compare" /\ faults < MaxFaults
    /\ Goto(s, "store")
    /\ req' = [req EXCEPT ![s].right = FALSE]
    /\ faults' = faults + 1
    /\ UNCHANGED <<counter, world, guesses>>

\* Mutant of LoadOrStore: a new counter replaces the one that is there.
StoreAlways(s) ==
    /\ pc[s] = "store"
    /\ counter' = [NoCounter EXCEPT !.there = TRUE]
    /\ req' = [t \in Slots |-> [req[t] EXCEPT !.holds = (t = s)]]
    /\ Goto(s, "count")
    /\ UNCHANGED <<world, guesses, faults>>

\* recordStepUpFailure: the counter is found or made ...
LoadOrStore(s) ==
    /\ pc[s] = "store"
    /\ counter' = [counter EXCEPT !.there = TRUE]
    /\ req' = [req EXCEPT ![s].holds = TRUE]
    /\ Goto(s, "count")
    /\ UNCHANGED <<world, guesses, faults>>

\* ... and counts one more under its lock; a closed window opens anew.
Count(s) ==
    /\ pc[s] = "count"
    /\ counter' = IF req[s].holds
                  THEN [counter EXCEPT !.count = IF counter.fresh THEN @ + 1 ELSE 1, !.fresh = TRUE]
                  ELSE counter
    /\ req' = [req EXCEPT ![s].holds = FALSE]
    /\ Goto(s, "refuse")
    /\ UNCHANGED <<world, guesses, faults>>

\* clearStepUpFailures; who holds the counter goes on with one nobody reads.
Clear(s) ==
    /\ pc[s] = "clear"
    /\ counter' = NoCounter /\ guesses' = 0
    /\ req' = [t \in Slots |-> [req[t] EXCEPT !.holds = FALSE]]
    /\ Goto(s, IF req[s].op \in OnUser THEN "find" ELSE "write")
    /\ UNCHANGED <<world, faults>>

\* stepUpWindow passes.
Expire ==
    /\ counter.fresh
    /\ counter' = [counter EXCEPT !.fresh = FALSE, !.count = 0]
    /\ guesses' = 0
    /\ UNCHANGED <<world, pc, req, faults>>

\* A row of the log names a user or a group, which must exist; a deleted user
\* still does.
Insertable(s) ==
    /\ req[s].op = "delete_group" => group
    /\ req[s].op \in OnUser => target # Nil

\* LogStepUpFailure, whose own failure nobody sees, and the answer.
Refuse(s) ==
    /\ pc[s] = "refuse"
    /\ Tell(s, [req[s] EXCEPT !.row = IF req[s].op # "change_email" /\ Insertable(s) THEN "failure" ELSE @],
            "refused")
    /\ UNCHANGED <<counter, world, guesses, faults>>

-----------------------------------------------------------------------------
(* The operations of AdminService *)

\* Mutant of Find: a deleted user is found as well.
FindDeleted(s) ==
    /\ pc[s] = "find"
    /\ \/ target = Nil /\ Tell(s, req[s], "error")
       \/ /\ target # Nil /\ req[s].op = "set_role" /\ target.role = req[s].role
          /\ Tell(s, req[s], "ok")
       \/ /\ target # Nil /\ (req[s].op = "set_role" => target.role # req[s].role)
          /\ Goto(s, "write")
          /\ req' = [req EXCEPT ![s].from = IF req[s].op = "set_role" THEN target.role ELSE @]
    /\ UNCHANGED <<counter, world, guesses, faults>>

\* FindByID has a row.
Found == target # Nil /\ ~target.deleted

\* The user is read: unknown or deleted, or has the role already, or must stay
\* an administrator (Administrators), or may be changed.
Find(s) ==
    /\ pc[s] = "find"
    /\ \/ ~Found /\ Tell(s, req[s], "error")
       \/ /\ Found /\ req[s].op = "set_role" /\ target.role = req[s].role
          /\ Tell(s, req[s], "ok")
       \/ /\ Found /\ target.role = "admin"
          /\ req[s].op = "delete_user" \/ req[s].role = "user"
          /\ Tell(s, req[s], "error")
       \/ /\ Found /\ (req[s].op = "set_role" => target.role # req[s].role)
          /\ Goto(s, "write")
          /\ req' = [req EXCEPT ![s].from = IF req[s].op = "set_role" THEN target.role ELSE @]
    /\ UNCHANGED <<counter, world, guesses, faults>>

\* The requests, now that s has changed the user, to its next place.
Overtaking(s, r) ==
    [t \in Slots |-> IF t = s THEN r
                     ELSE IF pc[t] = "write" /\ req[t].op \in OnUser
                     THEN [req[t] EXCEPT !.raced = TRUE] ELSE req[t]]

\* UserRepo.SoftDelete and SetRole touch no deleted row.
WriteUser(s) ==
    /\ pc[s] = "write" /\ req[s].op \in {"delete_user", "set_role"}
    /\ IF target.deleted
       THEN Tell(s, req[s], "error") /\ UNCHANGED target
       ELSE /\ target' = IF req[s].op = "delete_user" THEN [target EXCEPT !.deleted = TRUE]
                         ELSE [target EXCEPT !.role = req[s].role]
            /\ req' = Overtaking(s, [Spent(req[s]) EXCEPT !.did = TRUE,
                          !.honest = req[s].op = "set_role" => req[s].from = target.role])
            /\ Goto(s, IF req[s].op = "delete_user" THEN "sessions" ELSE "audit")
    /\ UNCHANGED <<counter, group, smtp, guesses, faults>>

\* ResetUserPassword and CreateUser: one transaction with the row of the log,
\* refused while there is no SMTP.  The update of the hash may find no row.
WriteTx(s) ==
    /\ pc[s] = "write" /\ req[s].op \in {"reset_password", "create_user"}
    /\ IF smtp = Nil
       THEN Tell(s, req[s], "error")
       ELSE LET r == [req[s] EXCEPT !.did = req[s].op = "reset_password" => ~target.deleted,
                                    !.row = "success"]
            IN  IF r.op = "create_user" THEN Tell(s, r, "ok")
                ELSE Goto(s, "sessions") /\ req' = [req EXCEPT ![s] = r]
    /\ UNCHANGED <<counter, world, guesses, faults>>

\* GroupRepo.Delete.
WriteGroup(s) ==
    /\ pc[s] = "write" /\ req[s].op = "delete_group"
    /\ IF group THEN Goto(s, "audit") /\ req' = [req EXCEPT ![s].did = TRUE]
       ELSE Tell(s, req[s], "error")
    /\ group' = FALSE
    /\ UNCHANGED <<counter, target, smtp, guesses, faults>>

\* The stored password is read; a mail is sent, or cannot be; the new address
\* is written down (Account).
Use(s) ==
    /\ pc[s] = "write" /\ req[s].op \in {"reveal", "smtp_test", "change_email"}
    /\ IF req[s].op = "change_email" THEN Tell(s, [req[s] EXCEPT !.did = TRUE], "ok")
       ELSE IF smtp = Nil \/ (req[s].op = "reveal" /\ ~smtp.password) THEN Tell(s, req[s], "error")
       ELSE \E sent \in BOOLEAN :
                /\ req[s].op = "reveal" => sent
                /\ req' = [req EXCEPT ![s].did = sent]
                /\ Goto(s, "audit")
    /\ UNCHANGED <<counter, world, guesses, faults>>

\* Mutant of Sessions: a deletion ends without its row.
SessionsLast(s) ==
    /\ pc[s] = "sessions"
    /\ Tell(s, req[s], "ok")
    /\ UNCHANGED <<counter, world, guesses, faults>>

\* DeleteAllForUser, after the change is committed.
Sessions(s) ==
    /\ pc[s] = "sessions"
    /\ IF req[s].op = "delete_user" THEN Goto(s, "audit") /\ UNCHANGED req
       ELSE Tell(s, req[s], "ok")
    /\ UNCHANGED <<counter, world, guesses, faults>>

\* AuditRepo.Insert in a statement of its own; the row of a group that was just
\* deleted would refer to nothing and is refused.
Audit(s) ==
    /\ pc[s] = "audit"
    /\ IF Insertable(s)
       THEN Tell(s, [req[s] EXCEPT !.row = IF req[s].did THEN "success" ELSE "failure"], "ok")
       ELSE Tell(s, req[s], "error")
    /\ UNCHANGED <<counter, world, guesses, faults>>

\* A statement fails, or the caller has gone.  What SMTP handlers and stepUp
\* log they log without looking at the outcome.
Fail(s) ==
    /\ pc[s] \in {"find", "write", "sessions", "audit", "refuse"} /\ faults < MaxFaults
    /\ faults' = faults + 1
    /\ \E answer \in {"ok", "error", "refused"} :
        /\ answer = "ok" => pc[s] = "audit" /\ req[s].op \in {"update_smtp", "reveal", "smtp_test"}
        /\ answer = "error" => pc[s] # "refuse" /\ ~(pc[s] = "audit" /\ req[s].op \in {"reveal", "smtp_test"})
        /\ (answer = "refused") = (pc[s] = "refuse")
        /\ Tell(s, [req[s] EXCEPT !.failed = TRUE], answer)
    /\ UNCHANGED <<counter, world, guesses>>

\* The process is restarted: requests end without an answer, counters are gone.
Restart ==
    /\ faults < MaxFaults
    /\ faults' = faults + 1
    /\ counter' = NoCounter /\ guesses' = 0
    /\ pc' = [s \in Slots |-> "idle"] /\ req' = [s \in Slots |-> Idle]
    /\ UNCHANGED world

Respond(s) ==
    /\ pc[s] = "done"
    /\ Goto(s, "idle") /\ req' = [req EXCEPT ![s] = Idle]
    /\ UNCHANGED <<counter, world, guesses, faults>>

-----------------------------------------------------------------------------
Arrive(s) ==
    /\ \/ \E right \in BOOLEAN :
            \/ AdminDeleteUser(s, right) \/ AdminResetUserPassword(s, right)
            \/ AdminDeleteGroup(s, right) \/ ChangeEmailRequest(s, right)
            \/ \E role \in Roles : AdminSetUserRole(s, right, role)
       \/ AdminCreateUser(s) \/ AdminRevealSmtpPassword(s) \/ AdminSendSmtpTestEmail(s)
    /\ UNCHANGED <<counter, world, guesses, faults>>

Update(s) ==
    /\ \E u \in SmtpUpdates : AdminUpdateSmtp(s, u)
    /\ UNCHANGED <<counter, guesses, faults>>

Next ==
    \/ \E s \in Slots :
        \/ Arrive(s) \/ Update(s)
        \/ Check(s) \/ Compare(s) \/ Unreadable(s) \/ LoadOrStore(s) \/ Count(s) \/ Clear(s) \/ Refuse(s)
        \/ Find(s) \/ WriteUser(s) \/ WriteTx(s) \/ WriteGroup(s) \/ Use(s) \/ Sessions(s) \/ Audit(s)
        \/ Fail(s) \/ Respond(s)
    \/ Expire
    \/ Restart

Spec == Init /\ [][Next]_vars

-----------------------------------------------------------------------------
(* Properties *)

Operations == {"delete_user", "reset_password", "delete_group", "set_role", "change_email",
               "create_user", "reveal", "smtp_test", "update_smtp"}

Request == [op : Operations \cup {Nil}, right : BOOLEAN, role : Roles \cup {Nil}, from : Roles \cup {Nil},
            holds : BOOLEAN, did : BOOLEAN, honest : BOOLEAN, raced : BOOLEAN, failed : BOOLEAN,
            row : {Nil, "success", "failure"}, told : {Nil, "ok", "error", "refused"}]

TypeOK ==
    /\ counter \in [there : BOOLEAN, count : Nat, fresh : BOOLEAN]
    /\ target \in [role : Roles, deleted : BOOLEAN] \cup {Nil} /\ group \in BOOLEAN
    /\ smtp \in [password : BOOLEAN] \cup {Nil}
    /\ pc \in [Slots -> {"idle", "check", "compare", "store", "count", "clear", "refuse", "find",
                         "write", "sessions", "audit", "done"}]
    /\ req \in [Slots -> Request]
    /\ guesses \in Nat
    /\ faults \in 0..MaxFaults

\* However many requests guess at once, and whatever resets the counter, no more
\* passwords are found wrong before the next success, or the end of the window,
\* than the limit and those that passed the check with the last one
\* (service/auth.go:67-77, 406-463).
WrongBounded == guesses <= MaxFails - 1 + Cardinality(Slots)

\* An answered request of an administrator that took effect left a row in the
\* log, and so did a refused password, unless a statement failed; but the
\* deletion of a group never leaves one, nor does a refusal over the id of no
\* user: rows that would refer to nothing.  A user's own change of address asks
\* the same counter and is not meant to be logged
\* (service/admin.go:22-25, 419-434, handlers/admin.go:18-40).
Logged ==
    \A s \in Slots : pc[s] = "done" /\ req[s].op # "change_email" =>
        \/ req[s].row # Nil
        \/ req[s].failed
        \/ req[s].op = "delete_group" /\ ~group
        \/ req[s].op \in OnUser /\ target = Nil /\ req[s].told = "refused"
        \/ ~req[s].did /\ req[s].told # "refused"

\* What the log says succeeded took effect, and replaced the role it says;
\* only a request that another one overtook, changing the user after it was
\* read, may have logged what was no longer so (service/admin.go:103-363).
AuditTrue ==
    \A s \in Slots : req[s].row = "success" => (req[s].did /\ req[s].honest) \/ req[s].raced

=============================================================================
