------------------------------ MODULE Account ------------------------------
(***************************************************************************)
(* One account: its password, the codes that are mailed for it, and its    *)
(* sessions (service/auth.go, service/verification.go, service/me.go,      *)
(* the password and deletion parts of service/admin.go, and their          *)
(* repositories).                                                          *)
(*                                                                         *)
(* Addresses, password bytes and code digits are left out: a submitted     *)
(* code is right or wrong, and a session is "current" or "stale" as the    *)
(* password its request knew is still the account's or not.  Codes are     *)
(* numbered by created_at, which is when their transaction began.          *)
(*                                                                         *)
(* External: PostgreSQL at READ COMMITTED.  An UPDATE waits for the open   *)
(* transaction that has updated its row, and touches only rows committed   *)
(* when it started.  pgxpool: an open transaction keeps a connection, and  *)
(* each statement outside it takes another.                                *)
(***************************************************************************)
EXTENDS Integers, FiniteSets

CONSTANTS
    Slots,        \* requests served at one time
    Ops,          \* the operations they ask for
    Connections,  \* size of the connection pool
    MaxAttempts,  \* wrong submissions after which a code is refused (5)
    MaxCodes,     \* bound: codes issued
    MaxAborts,    \* bound: requests that fail half-way
    Nil

Submissions == {"verify", "confirm_change", "confirm_reset"}
Issuances   == {"resend", "request_change", "request_reset", "admin_reset"}
Others      == {"login", "change_password", "delete", "admin_delete"}

Codes    == 1..MaxCodes
Purposes == {"register", "change_email", "password_reset"}
CodeType == [purpose : Purposes, attempts : Nat, consumed : BOOLEAN, expired : BOOLEAN]

ASSUME AccountAssumption ==
    /\ IsFiniteSet(Slots)
    /\ Ops \subseteq Submissions \cup Issuances \cup Others
    /\ Connections \in Nat \ {0} /\ MaxAttempts \in Nat \ {0}
    /\ MaxCodes \in Nat \ {0} /\ MaxAborts \in Nat
    /\ Nil \notin Slots \cup Submissions \cup Issuances \cup Others
    /\ Nil \notin CodeType

Purpose(op) == CASE op \in {"verify", "resend"}                 -> "register"
                 [] op \in {"confirm_change", "request_change"} -> "change_email"
                 [] OTHER                                       -> "password_reset"

VARIABLES
    user,      \* the users row
    codes,     \* email_verification_tokens, Nil until committed
    sessions,  \* which kinds of session exist
    issued,    \* transactions that have begun to issue a code
    pc,        \* where each slot is
    req,       \* what it serves and what its handler holds
    used,      \* history: how often each code has taken effect
    calm,      \* history: no two requests have overlapped and none has aborted
    aborts

vars == <<user, codes, sessions, issued, pc, req, used, calm, aborts>>

Blank == [op |-> Nil, code |-> 0, session |-> "current", snapshot |-> {}]

Request(op) == [Blank EXCEPT !.op = op]

Code(purpose) == [purpose |-> purpose, attempts |-> 0, consumed |-> FALSE, expired |-> FALSE]

\* Registered with a mailer, the account is unverified and has a code; without,
\* it is verified and has a session; by an admin, it is verified and has a code
\* to set its password with.
Init ==
    /\ \E by \in {"mailer", "no_mailer", "admin"} :
        /\ user = [password |-> IF by = "admin" THEN "scrambled" ELSE "chosen",
                   verified |-> by # "mailer", deleted |-> FALSE]
        /\ codes = [t \in Codes |->
                       IF t # 1 \/ by = "no_mailer" THEN Nil
                       ELSE Code(IF by = "admin" THEN "password_reset" ELSE "register")]
        /\ sessions = IF by = "no_mailer" THEN {"current"} ELSE {}
        /\ issued = IF by = "no_mailer" THEN 0 ELSE 1
    /\ pc = [s \in Slots |-> "idle"]
    /\ req = [s \in Slots |-> Blank]
    /\ used = [t \in Codes |-> 0]
    /\ calm = TRUE
    /\ aborts = 0

-----------------------------------------------------------------------------
(* Codes *)

Open(purpose) ==
    {t \in Codes : codes[t] # Nil /\ codes[t].purpose = purpose /\ ~codes[t].consumed}

\* The newest open code that has not expired.
FindActive(purpose) ==
    {t \in Open(purpose) : /\ ~codes[t].expired
                           /\ \A o \in Open(purpose) : codes[o].expired \/ o <= t}

Expire(t) ==
    /\ codes[t] # Nil /\ ~codes[t].expired /\ ~codes[t].consumed
    /\ codes' = [codes EXCEPT ![t].expired = TRUE]
    /\ UNCHANGED <<user, sessions, issued, pc, req, used, calm, aborts>>

-----------------------------------------------------------------------------
(* Transactions, row locks and connections *)

InTransaction(s) ==
    \/ pc[s] \in {"consume", "commit", "scramble", "configured", "invalidate", "insert"}
    \/ pc[s] = "rewrite" /\ req[s].op = "confirm_reset"

Free == Cardinality({s \in Slots : InTransaction(s)}) < Connections

\* A reset has consumed the code and not committed.
CodeLocked(t) ==
    \E s \in Slots : /\ pc[s] \in {"rewrite", "commit"} /\ req[s].op = "confirm_reset"
                     /\ req[s].code = t

\* Mutant of UserLocked: a reset updates the users row in its own transaction too.
UserLockedByReset ==
    /\ ~user.deleted
    /\ \E s \in Slots : \/ /\ pc[s] \in {"configured", "invalidate", "insert"}
                           /\ req[s].op = "admin_reset"
                        \/ pc[s] = "rewrite" /\ req[s].op = "confirm_reset"

\* An admin's reset has scrambled the password and not committed.
UserLocked ==
    /\ ~user.deleted
    /\ \E s \in Slots : /\ pc[s] \in {"configured", "invalidate", "insert"}
                        /\ req[s].op = "admin_reset"

\* Does the transaction of s wait for a row, or for a second connection?
WaitsForRow(s) ==
    \/ pc[s] = "consume" /\ CodeLocked(req[s].code)
    \/ pc[s] = "insert"  /\ \E t \in req[s].snapshot : CodeLocked(t)
    \/ pc[s] \in {"scramble", "rewrite", "erase"} /\ UserLocked
    \/ pc[s] = "consume" /\ req[s].op # "confirm_reset" /\ UserLocked

WaitsForConnection(s) ==
    ~Free /\ pc[s] \notin {"consume", "commit", "scramble", "invalidate", "insert"}

At(s, at) == pc[s] = at /\ ~WaitsForRow(s) /\ ~WaitsForConnection(s)

-----------------------------------------------------------------------------
(* How a handler moves *)

Authenticated == ~user.deleted /\ sessions # {}

Starts(s, at, q) ==
    /\ At(s, "idle") /\ q.op \in Ops
    /\ pc' = [pc EXCEPT ![s] = at]
    /\ req' = [req EXCEPT ![s] = q]
    /\ calm' = (calm /\ \A o \in Slots \ {s} : pc[o] = "idle")
    /\ UNCHANGED <<user, codes, sessions, used, aborts>>

GoesOn(s, at) == pc' = [pc EXCEPT ![s] = at] /\ UNCHANGED req

Ends(s) == pc' = [pc EXCEPT ![s] = "idle"] /\ req' = [req EXCEPT ![s] = Blank]

Keeps == UNCHANGED <<issued, calm, aborts>>

\* A password is set: the sessions, and what other requests know of it, are stale.
Rewritten(s, at) ==
    /\ sessions' = IF sessions = {} THEN {} ELSE {"stale"}
    /\ pc' = [pc EXCEPT ![s] = at]
    /\ req' = [o \in Slots |->
                  CASE o = s          -> [req[o] EXCEPT !.session = "current"]
                    [] pc[o] = "idle" -> req[o]
                    [] OTHER          -> [req[o] EXCEPT !.session = "stale"]]

-----------------------------------------------------------------------------
(* Submitting a code: VerifyEmail, ConfirmEmailChange, ConfirmPasswordReset *)

MaySubmit(op) == CASE op = "verify"         -> ~user.verified /\ ~user.deleted
                   [] op = "confirm_change" -> Authenticated
                   [] op = "confirm_reset"  -> ~user.deleted

\* Mutant of Submit: the limit of attempts is not looked at.
SubmitUncounted(s, op, right) ==
    /\ MaySubmit(op)
    /\ \E t \in FindActive(Purpose(op)) :
        Starts(s, IF right THEN "begin" ELSE "miss", [Request(op) EXCEPT !.code = t])
    /\ UNCHANGED issued

Submit(s, op, right) ==
    /\ MaySubmit(op)
    /\ \E t \in FindActive(Purpose(op)) :
        /\ codes[t].attempts < MaxAttempts
        /\ Starts(s, IF right THEN "begin" ELSE "miss", [Request(op) EXCEPT !.code = t])
    /\ UNCHANGED issued

Miss(s) ==
    /\ At(s, "miss")
    /\ codes' = [codes EXCEPT ![req[s].code].attempts = @ + 1]
    /\ Ends(s)
    /\ UNCHANGED <<user, sessions, used>> /\ Keeps

Begin(s) ==
    /\ At(s, "begin")
    /\ GoesOn(s, "consume")
    /\ UNCHANGED <<user, codes, sessions, used>> /\ Keeps

Consumed(s) == codes' = [codes EXCEPT ![req[s].code].consumed = TRUE]

Used(s) == used' = [used EXCEPT ![req[s].code] = @ + 1]

\* Another request has consumed the code: ErrNotFound.
ConsumeFails(s) ==
    /\ At(s, "consume") /\ codes[req[s].code].consumed
    /\ Ends(s)
    /\ UNCHANGED <<user, codes, sessions, used>> /\ Keeps

\* Mutant of ConsumeVerify: Consume without consumed_at IS NULL.
ConsumeVerifyAgain(s) ==
    /\ At(s, "consume") /\ req[s].op = "verify"
    /\ Consumed(s) /\ Used(s)
    /\ user' = [user EXCEPT !.verified = user.verified \/ ~user.deleted]
    /\ GoesOn(s, "issue")
    /\ UNCHANGED sessions /\ Keeps

\* VerifyEmail's transaction; the update of a deleted user's row is no error.
ConsumeVerify(s) ==
    /\ At(s, "consume") /\ req[s].op = "verify" /\ ~codes[req[s].code].consumed
    /\ Consumed(s) /\ Used(s)
    /\ user' = [user EXCEPT !.verified = user.verified \/ ~user.deleted]
    /\ GoesOn(s, "issue")
    /\ UNCHANGED sessions /\ Keeps

\* ConfirmEmailChange's; UpdateEmail fails if the user is deleted, and perhaps
\* because another account has the address by now.
ConsumeChange(s) ==
    /\ At(s, "consume") /\ req[s].op = "confirm_change" /\ ~codes[req[s].code].consumed
    /\ \/ ~user.deleted /\ Consumed(s) /\ Used(s) /\ GoesOn(s, "revoke")
       \/ Ends(s) /\ UNCHANGED <<codes, used>>
    /\ UNCHANGED <<user, sessions>> /\ Keeps

\* ConfirmPasswordReset's has more steps: the password is written outside it.
ConsumeReset(s) ==
    /\ At(s, "consume") /\ req[s].op = "confirm_reset" /\ ~codes[req[s].code].consumed
    /\ GoesOn(s, "rewrite")
    /\ UNCHANGED <<user, codes, sessions, used>> /\ Keeps

\* Mutant of Rewrite: UpdatePasswordHash without deleted_at IS NULL.
RewriteDeleted(s) ==
    /\ At(s, "rewrite")
    /\ user' = [user EXCEPT !.password = "chosen"]
    /\ IF req[s].op = "confirm_reset"
       THEN Used(s) /\ Rewritten(s, "commit")
       ELSE UNCHANGED used /\ Rewritten(s, "revoke")
    /\ UNCHANGED codes /\ Keeps

\* UpdatePasswordHash, of a reset or of ChangePassword, through the pool.
Rewrite(s) ==
    /\ At(s, "rewrite")
    /\ IF user.deleted
       THEN Ends(s) /\ UNCHANGED <<user, sessions, used>>
       ELSE /\ user' = [user EXCEPT !.password = "chosen"]
            /\ IF req[s].op = "confirm_reset"
               THEN Used(s) /\ Rewritten(s, "commit")
               ELSE UNCHANGED used /\ Rewritten(s, "revoke")
    /\ UNCHANGED codes /\ Keeps

CommitReset(s) ==
    /\ At(s, "commit")
    /\ Consumed(s)
    /\ GoesOn(s, "revoke")
    /\ UNCHANGED <<user, sessions, used>> /\ Keeps

-----------------------------------------------------------------------------
(* Issuing a code: ResendVerification, RequestEmailChange,                  *)
(* RequestPasswordReset and the admin's ResetUserPassword                   *)

MayIssue(op) == CASE op = "resend"         -> ~user.verified /\ ~user.deleted
                  [] op = "request_change" -> Authenticated /\ user.password = "chosen"
                  [] OTHER                 -> ~user.deleted

BeginIssue(s, op) ==
    /\ MayIssue(op) /\ issued < MaxCodes
    /\ issued' = issued + 1
    /\ Starts(s, CASE op = "admin_reset"   -> "scramble"
                   [] op = "request_reset" -> "configured"
                   [] OTHER                -> "invalidate",
              [Request(op) EXCEPT !.code = issued + 1])

Scramble(s) ==
    /\ At(s, "scramble")
    /\ GoesOn(s, "configured")
    /\ UNCHANGED <<user, codes, sessions, used>> /\ Keeps

\* IsConfigured takes a second connection; without a mailer, all is rolled back.
Configured(s) ==
    /\ At(s, "configured")
    /\ GoesOn(s, "invalidate") \/ Ends(s)
    /\ UNCHANGED <<user, codes, sessions, used>> /\ Keeps

\* The statement of InvalidateAll starts, and sees the codes committed by now.
Invalidate(s) ==
    /\ At(s, "invalidate")
    /\ pc' = [pc EXCEPT ![s] = "insert"]
    /\ req' = [req EXCEPT ![s].snapshot = Open(Purpose(req[s].op))]
    /\ UNCHANGED <<user, codes, sessions, used>> /\ Keeps

\* It has the rows; the new code is inserted, and the transaction commits.
Insert(s) ==
    /\ At(s, "insert")
    /\ codes' = [t \in Codes |->
                    CASE t = req[s].code        -> Code(Purpose(req[s].op))
                      [] t \in req[s].snapshot  -> [codes[t] EXCEPT !.consumed = TRUE]
                      [] OTHER                  -> codes[t]]
    /\ IF req[s].op # "admin_reset" THEN Ends(s) /\ UNCHANGED <<user, sessions>>
       ELSE IF user.deleted         THEN GoesOn(s, "revoke") /\ UNCHANGED <<user, sessions>>
       ELSE /\ user' = [user EXCEPT !.password = "scrambled"]
            /\ Rewritten(s, "revoke")
    /\ UNCHANGED used /\ Keeps

-----------------------------------------------------------------------------
(* Passwords, sessions and deletion                                         *)

Login(s) ==
    /\ user.password = "chosen" /\ user.verified
    /\ Starts(s, "issue", Request("login"))
    /\ UNCHANGED issued

ChangePassword(s) ==
    /\ Authenticated /\ user.password = "chosen"
    /\ Starts(s, "rewrite", Request("change_password"))
    /\ UNCHANGED issued

\* MeService.SoftDelete and AdminService.DeleteUser.
Delete(s, op) ==
    /\ IF op = "delete" THEN Authenticated ELSE ~user.deleted
    /\ Starts(s, "erase", Request(op))
    /\ UNCHANGED issued

Erase(s) ==
    /\ At(s, "erase")
    /\ IF user.deleted
       THEN Ends(s) /\ UNCHANGED <<user, sessions>>
       ELSE /\ user' = [user EXCEPT !.deleted = TRUE, !.password = "erased"]
            /\ Rewritten(s, "revoke")
    /\ UNCHANGED <<codes, used>> /\ Keeps

\* Mutant of Revoke: older sessions are left alone.
RevokeNone(s) ==
    /\ At(s, "revoke")
    /\ IF req[s].op \in {"confirm_change", "confirm_reset", "change_password"}
       THEN GoesOn(s, "issue") ELSE Ends(s)
    /\ UNCHANGED <<user, codes, sessions, used>> /\ Keeps

\* DeleteAllForUser; who holds an account goes on with a fresh session.
Revoke(s) ==
    /\ At(s, "revoke")
    /\ sessions' = {}
    /\ IF req[s].op \in {"confirm_change", "confirm_reset", "change_password"}
       THEN GoesOn(s, "issue") ELSE Ends(s)
    /\ UNCHANGED <<user, codes, used>> /\ Keeps

Issue(s) ==
    /\ At(s, "issue")
    /\ sessions' = sessions \cup {req[s].session}
    /\ Ends(s)
    /\ UNCHANGED <<user, codes, used>> /\ Keeps

\* One session of its kind, perhaps the last.
Logout(kind) ==
    /\ kind \in sessions /\ Free
    /\ sessions' = sessions \ {kind}
    /\ UNCHANGED <<user, codes, issued, pc, req, used, calm, aborts>>

\* The client goes away, or a statement fails: what is open is rolled back.
Abort(s) ==
    /\ pc[s] # "idle" /\ aborts < MaxAborts
    /\ aborts' = aborts + 1 /\ calm' = FALSE
    /\ Ends(s)
    /\ UNCHANGED <<user, codes, sessions, issued, used>>

-----------------------------------------------------------------------------
Step(s) ==
    \/ Miss(s) \/ Begin(s)
    \/ ConsumeFails(s) \/ ConsumeVerify(s) \/ ConsumeChange(s) \/ ConsumeReset(s)
    \/ Rewrite(s) \/ CommitReset(s)
    \/ Scramble(s) \/ Configured(s) \/ Invalidate(s) \/ Insert(s)
    \/ Erase(s) \/ Revoke(s) \/ Issue(s)

Arrive(s) ==
    \/ \E op \in Submissions, right \in BOOLEAN : Submit(s, op, right)
    \/ \E op \in Issuances : BeginIssue(s, op)
    \/ Login(s) \/ ChangePassword(s)
    \/ \E op \in {"delete", "admin_delete"} : Delete(s, op)

Next ==
    \/ \E s \in Slots : Step(s) \/ Arrive(s) \/ Abort(s)
    \/ \E t \in Codes : Expire(t)
    \/ \E kind \in {"current", "stale"} : Logout(kind)

Spec == Init /\ [][Next]_vars

-----------------------------------------------------------------------------
(* Properties *)

TypeOK ==
    /\ user \in [password : {"chosen", "scrambled", "erased"}, verified : BOOLEAN,
                 deleted : BOOLEAN]
    /\ codes \in [Codes -> CodeType \cup {Nil}]
    /\ sessions \subseteq {"current", "stale"}
    /\ issued \in 0..MaxCodes
    /\ pc \in [Slots -> {"idle", "begin", "miss", "consume", "rewrite", "commit", "scramble",
                         "configured", "invalidate", "insert", "erase", "revoke", "issue"}]
    /\ req \in [Slots -> [op : Submissions \cup Issuances \cup Others \cup {Nil},
                          code : 0..MaxCodes, session : {"current", "stale"},
                          snapshot : SUBSET Codes]]
    /\ used \in [Codes -> Nat]
    /\ calm \in BOOLEAN
    /\ aborts \in 0..MaxAborts

\* A code takes effect once: of requests that submit it together one goes on.
\* Only where the code's consumption is rolled back under a password that has
\* been written can it take effect again (repo/verification.go:81-95).
CodeOnce == \A t \in Codes : used[t] <= 1 + aborts

\* However many wrong submissions race with the count, each slot adds one at
\* most (service/verification.go:74-78, 289-293, 471-475).
AttemptsBounded ==
    \A t \in Codes : codes[t] # Nil => codes[t].attempts < MaxAttempts + Cardinality(Slots)

\* Nothing under way when an account is deleted gives it back a password or
\* verifies it (deleted_at IS NULL in every update of repo/user.go).
DeletedIsFinal == [][user.deleted => user' = user]_user

\* Requests served one after the other leave one usable code for a purpose, no
\* session that knows an older password, and none of a deleted account
\* (service/verification.go:133, 506-508; service/me.go:122, 207).
CalmAccount ==
    calm /\ (\A s \in Slots : pc[s] = "idle") =>
        /\ "stale" \notin sessions
        /\ user.deleted => sessions = {}
        /\ \A purpose \in Purposes : Cardinality(Open(purpose)) <= 1

\* An admin's reset holds the user's row and waits for the code's; the user's
\* reset holds the code's and waits for the user's on its second connection.
WaitForEachOther ==
    \E a, r \in Slots :
        /\ pc[a] = "insert"  /\ req[a].op = "admin_reset"   /\ req[r].code \in req[a].snapshot
        /\ pc[r] = "rewrite" /\ req[r].op = "confirm_reset"

\* Every connection is held by a transaction that waits.
PoolDry == ~Free /\ \A s \in Slots : InTransaction(s) => WaitsForRow(s) \/ WaitsForConnection(s)

\* Requests hold each other up for good in two ways only: the two resets wait
\* for each other, or the pool is dry (service/verification.go:360, 493).
HeldUp ==
    (\E s \in Slots : pc[s] # "idle") =>
        (ENABLED \E s \in Slots : Step(s)) \/ WaitForEachOther \/ PoolDry

=============================================================================
