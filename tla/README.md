# TLA+ verification of dothesplit

dothesplit is a self-hosted expense splitter: a Go API (`src/api`), a worker
process built from the same code, a PostgreSQL database and a server-rendered
web front end (`src/web`).  All durable state is in PostgreSQL; the API keeps
only caches.  Requests run concurrently, several API processes and several
workers may run, and every service method reads some rows, decides, and then
writes through a repository.  Most reads and writes are separate transactions,
so what can go wrong lives between them.

This directory models that code in TLA+, checks the models with TLC on small
instances, and proves the main results with TLAPS for every instance.
Source paths below are relative to `src/api/internal/` unless they start with
`src/` or `docs/`.

## 1. Inventory

| Component | State | Operations | Talks to |
|---|---|---|---|
| Split arithmetic (`service/expense.go` resolveSplits, `repo/expense.go` rescaleSplits) | none | resolve a request into cents per member; rescale stored shares | Expenses |
| Expenses (`service/expense.go`, `repo/expense.go`) | expenses, expense_splits, expense_revisions | Create, Update, Delete, Get, List, ListRevisions | Groups (membership), Categories, Notifications |
| Recurring templates and the worker (`service/recurring.go`, `repo/recurring.go`, `src/api/cmd/worker/main.go`) | recurring_expenses, the advisory lock | Create, List, Delete, Tick | Expenses, Groups (foreign keys), Outbox (drained after a tick) |
| Groups and memberships (`service/group.go`, `repo/group.go`) | groups, group_members | Create, Update (name, currency, default split, owner), AddMember, RemoveMember, Delete | Balances (leave gate), Expenses (currency lock) |
| Settlements (`service/settlement.go`, `repo/settlement.go`) | settlements | Create, Delete, List | Groups, Notifications |
| Balances and debt simplification (`service/balance.go`, `repo/balance.go`) | none (derived) | Get, Simplify | Expenses, Settlements |
| Outbox and mailer (`service/mailer.go`, `repo/email_outbox.go`, `service/notifications.go`) | email_outbox | Enqueue, ClaimDue, DispatchOutbox, MarkSent, MarkFailed, SendNow | SMTP server, the worker |
| Verification (`service/verification.go`, `repo/verification.go`) | email_verification_tokens, users | VerifyEmail, ResendVerification, RequestEmailChange, ConfirmEmailChange, RequestPasswordReset, ConfirmPasswordReset | Outbox, Sessions |
| Accounts and sessions (`service/auth.go`, `service/me.go`, `repo/user.go`, `repo/session.go`) | users, sessions, the in-memory step-up counter | Register, Login, Logout, Resolve, ChangePassword, SoftDelete, VerifyPassword | Verification, Setup |
| Administration (`service/admin.go`, `handlers/admin.go`, `repo/audit.go`) | users.role, admin_audit | SetUserRole, CreateUser, DeleteUser, ResetUserPassword, DeleteGroup, each after the actor's password; the rows of the audit log | Accounts (step-up), Outbox, Groups |
| SMTP settings (`service/smtp.go`, `repo/smtp.go`) | the row of smtp_config | Update, RevealPassword, SendTest, TestConnection, IsConfigured | Administration, Outbox |
| First-run setup (`service/setup.go`, `repo/setup.go`) | app_setup | EnsureToken, CompleteWithToken | Accounts |
| Activity feed (`service/activity.go`, `repo/activity.go`) | none (a cursor in the caller's hands) | List | Expenses, Settlements |
| Categories (`service/category.go`) | cache of seeded rows | List, Resolve | Expenses |
| HTTP layer, cryptography, configuration, web front end, generated types | configuration only | - | - |

What is hard in each of them, and what makes it correct:

* **Split arithmetic.**  Every cent is handed out, once; nobody is charged less
  than the floor of their share or more than a cent above it; repeated
  rescaling keeps the sum; `int64` wraps.
* **Expenses.**  A request is checked on rows read without a lock and then
  writes the whole row.  No edit may be lost or escape the history; a deleted
  expense stays as it is; the shares sum to the amount; the row lock is always
  given back.
* **Recurring.**  An expense is committed by one transaction and the schedule by
  another: a failure between them must not lose an occurrence, and two workers
  must not multiply one.  A deleted template must fall silent.  A tick must end.
* **Groups.**  Membership, the default split, the owner and the currency are
  each checked in one statement and changed in another, while members join and
  leave: the owner must be a member, the default split must name exactly the
  members, a member with a balance must not be removed, the currency must not
  change under the amounts that were entered in it.
* **Outbox.**  A message may be delivered before the process dies without
  recording it; a retry must end; two dispatchers must not send the same row.
* **Verification.**  A token works once, for one account, for a limited time and
  number of attempts; a password reset ends every session, and a login that
  raced it must not survive it.
* **Administration and setup.**  Some active administrator always remains, and
  setup is completed once, whatever requests race.  Guesses at the password that
  is asked for before an operation stay limited while requests guess at once, and
  the log says what was done, and all of it but what its foreign keys refuse.
* **SMTP settings.**  An update may leave the stored password as it is; revealing it
  and sending a test mail work on whatever row is there then.
* **Balances.**  A simplified list of transfers settles the balance of every member,
  up to what people who have left took with them, whatever the order the others pay
  in: no transfer of it moves a balance past zero.
* **Activity feed.**  Pages are put together from several statements while the
  ledger changes: they neither repeat nor skip an entry that stayed where it was,
  also among equal timestamps, and a scroll ends.

## 2. Plan

Modules, most important behaviour first.  Those marked done are described in
section 3; the last point is the work ahead.

1. `Splits` (done): the arithmetic of shares, as constant operators.
2. `ExpenseEdit` (done) extends `Splits`: concurrent edits and deletes of one
   expense.  Proofs in `ExpenseEdit_proofs` (done).
3. `Schedule` (done): what a recurring template promises, abstractly.
   `Recurring` (done): the worker, shown to implement `Schedule`.  Proofs in
   `Recurring_proofs` (done).
4. `Groups` (done): members, default split, ownership, currency and the balance
   gate, with expenses and settlements reduced to the balances they move.
   Proofs in `Groups_proofs` (done).
5. `Mailbox` (done): what the outbox promises of a message, abstractly.  `Outbox`
   (done): enqueue, claim, send and mark, with dispatchers that crash or lose their
   lock, shown to implement `Mailbox`.  Proofs in `Outbox_proofs` (done).
6. `Account` (done): codes, attempts, password changes, sessions and deletion of one
   account, with row locks and the connection pool.  Proofs in `Account_proofs`
   (done).
7. `Administrators` (done): first-run setup, registrations, roles, deletions and the
   last administrator.  Proofs in `Administrators_proofs` (done).
8. `Balances` and `Cadence` (done): net balances and the greedy list of transfers,
   and the calendar behind the occurrences of `Recurring`, as constant operators.
   `Ledger` (done) is a bench for them and `Splits`.  Proofs in
   `ExpenseEdit_proofs` (done), which need the same arithmetic.
9. `ActivityFeed` (done): the keyset pagination, statement by statement, against
   what a scroll promises.  Proofs in `ActivityFeed_proofs` (done).
10. `AdminDesk` (done): the step-up password check with its counter, the operations
    behind it and their rows of the audit log, and the SMTP settings.  Proofs in
    `AdminDesk_proofs` (done).
11. More theorems (done): the order of an undisturbed account, what a group loses to races only, the counts
    of the outbox, the copies of an occurrence, torn reads; the sums of shares and
    of balances, the loop of `Simplify`, the calendar; the history of rescaled splits,
    balances of people who have left, templates that are always refused, the
    refinement of `Mailbox`, and the standstills of `HeldUp`.  What is left is liveness
    and what is ENABLED, which are out of the prover's reach.

## 3. Modules and the code they model

### Splits

Constant operators, one per step of the Go code.  `ResolveSplits` is
`resolveSplits` in its four modes; an error or a panic (a leftover longer than
the slice, a zero weight sum) yields `NoShares`.  `RescaleSplits` is
`rescaleSplits`, whose leftover is handed out round-robin in `ORDER BY user_id`,
hence users are positive integers.  `Wrap` gives Go's `int64` its wrap-around at
any `Width`; `Quo` is Go's truncating division.  `Fits` says of a request that none
of its products and sums wraps.

### Balances

Constant operators.  `NetBalances` is the query of `BalanceRepo.NetBalances`: paid
and paid out, less owed and received, one row for each of `members`, who are those of
`group_members` (`repo/balance.go:53`); whoever has left has no row.  `Simplify` is the function of that name:
`Creditors` and `Debtors` are its two sorted lists (`Before` is the order, ties by
id), `Pair` its loop, in which `Consume` takes the settled cents off the head of a
list and drops the head once nothing is left.  `Sorted` puts an entry behind as many
as come before it, and `Pair` is a recursive function on pairs of lists, so that
both can be proved about.

### Cadence

`AdvanceCadence` is `advanceCadence`.  Dates are years, months and days; the time of
day is left out, because `AddDate` keeps it and templates are in UTC.  External:
`AddDate` with `Normal`, which is what `time.Date` does with a day that the month
does not have.

### Ledger

The bench for the three modules above.  A behaviour is one of three exercises.

| Code | Model |
|---|---|
| the mode and splits of a creation; the expenses row's amount with its splits | `asked`; `bill` |
| settlements; the cadence and `next_run_at` of a template | `settlements`; `template` |
| `ExpenseService.Create`, from resolving to the rows | `RecordExpense` |
| the amount of `ExpenseRepo.Update`, without new splits | `EditAmount` |
| the rows of `group_members`; the balances of the page | `household`; `Nets` |
| `SettlementService.Create`, with a transfer the balances page shows, in any order | `SettleUp` |
| `GroupService.RemoveMember` of oneself, at any balance | `Leave` |
| the schedule of `RecurringService.runOnce` | `ComesDue` |

`drifts` is history: how often the template's day of the month has changed.  The first
member owns the group and cannot leave.  Members leave in the exercise about
settling, where that is to the point; `AllNets` are the balances with a row for
everybody, `Abandoned` the sum of those that `Nets` has dropped.

### ExpenseEdit

One expense, created once, and a set of requests that each edit or delete it.

| Code | Model |
|---|---|
| the expenses row, its splits, its revisions | `row`, `splits`, `revisions` (by field, in commit order) |
| `SELECT ... FOR UPDATE` in `ExpenseRepo.Update` | `lock` |
| what a handler holds in memory | `req[r]`: the actor, the patch, the amount it read (`seen`), the splits it resolved, the rows it read under the lock (`base`) |
| `ExpenseService.Create` | `Create` |
| `ExpenseService.Update` up to the repository call | `UpdateRefused`, `UpdateChecked` |
| `ExpenseRepo.Update`: BEGIN, lock and read; compare, write and COMMIT | `UpdateLock`, `UpdateCommit` |
| `ExpenseService.Delete`, `ExpenseRepo.SoftDelete` | `DeleteChecked`, `SoftDelete` |
| rollback on an error, a cancelled context or a dying process | `Abort` |

The service reads the row and the memberships in statements of their own; they
are one step here because within them nothing the service keeps can change
what it later does: the group's members are constant in this module, and the
amount is read once.  The writes of a transaction are one step because nobody
sees them before COMMIT and the row lock is held from the read on.

### Schedule and Recurring

`Schedule` says what templates promise: occurrences become expenses in order and
the schedule moves past one only after it has.  `Recurring` is the worker.

| Code | Model |
|---|---|
| `next_run_at`, `deleted_at`, the cascade from groups | `next` (in occurrences), `status`, `group` |
| expenses made of an occurrence | `copies` |
| row locks of the outer transaction; the advisory lock | `rowLock`, `advisory` |
| where `runOnce` is, and what `Tick` holds in memory | `pc`, `claim`, `todo`, `current` |
| `pg_try_advisory_lock`; `ClaimDue`; the insert; `UpdateNextRunTx`; COMMIT; drain and unlock | `TryLock`, `ClaimDue`, `Insert`, `Advance`, `Commit`, `Finish` |
| an insert the database refuses | `InsertFails` |
| a dying process or a failing statement; a dropped lock connection | `Crash`, `LoseLock` |
| `RecurringService.Create`, `Delete`; `GroupRepo.Delete` and its cascade | `Create`, `DeleteTemplate`; `GroupDeleteBegin`, `GroupDeleteCommit`, `GroupDeleteCancel` |

`Failing` holds the templates whose insert can never succeed: `Create` does not
check that the users of `split_template` exist, so such rows are reachable.
`crashes` and `refused` are history: the ticks that died, and those that a refused
insert has ended.
Row locks matter in both directions: an insert takes a share lock on its group
through the foreign key, and a deletion of the group takes the template rows.

### Groups

One group and the requests that slots serve, one after the other, statement by
statement: no method of `GroupService` or `SettlementService` opens a
transaction around what it checks and what it writes.

| Code | Model |
|---|---|
| the groups row, group_members | `group` (Nil once deleted), `members` |
| expenses, each one share of it, and settlements: who paid how much for whom, or to whom, in which currency | `ledger` (a `Payment` each; `own` is history: it was entered in a currency the request or template named) |
| recurring_expenses: the payment a template makes | `templates` |
| `BalanceRepo.NetForUser`, `GroupRepo.HasActivity` | `Net`, `HasActivity` |
| where a handler is, the request, what it read earlier and uses later | `pc`, `req`, `seen` |
| `AddMember`: membership check; INSERT; read back and count; clear the split | `AddBegin`, `AddRow`, `AddCount`, `ClearSplit` |
| `RemoveMember`: read the group; permissions and balance; DELETE; count; clear | `RemoveBegin`, `RemoveCheck`, `RemoveRow`, `RemoveCount`, `ClearSplit` |
| `Update`: membership; each field's check; one UPDATE with COALESCE | `UpdateBegin`, `UpdateCheck` (one step per field), `UpdateWrite` |
| `Delete`, and the administrator's deletion, with the cascade | `DeleteBegin`, `DeleteRow` |
| creation of an expense, in the currency the request names or else in the group's, or of a settlement | `EnterBegin`, `CheckFrom`, `CheckTo`, `EnterRow` |
| an edit of who paid, who shares and how much: members are asked about where it names them, and the row is changed as it is by then | `EditBegin`, `CheckFrom`, `CheckTo`, `ChangeRow` (`Amended`) |
| deletion of an expense or settlement | `EraseBegin`, `ChangeRow` |
| `RecurringService.Create` and `Delete` | `ScheduleBegin`, `ScheduleRow`, `UnscheduleBegin`, `UnscheduleRow` |
| `Tick`'s insert of an expense of a template, which asks nobody | `Materialize` |
| a failing statement or a dying process | `Abort` |

Within a check the reads that follow each other and lead to nothing but a
refusal are one step.  `alone` is a history variable: nothing else has run since the
request of a slot began, no other request and not the worker.  An expense has one
share because whose balance it moves is what matters here; its shares are the subject
of `Splits` and `ExpenseEdit`, and when a template is due is that of `Recurring`, which
also shows that no deletion of the group can come between the claim of a template and
the insert.

### Mailbox and Outbox

`Mailbox` says what is promised of a message, without workers, locks or settings: it
is recorded as sent once it has been accepted, and stays so; every acceptance but
the first is paid for by a fault, and so is every attempt beyond the limit.
`Outbox` is the dispatcher.

| Code | Model |
|---|---|
| email_outbox: existence, `sent_at`, `attempts`, whether `next_attempt_at` has passed | `queued`, `sent`, `attempts`, `due` |
| what the SMTP server has accepted (external) | `delivered` |
| the row of SMTP settings as `IsConfigured` sees it | `configured` |
| the advisory lock, where `runOnce` is, the rows read, the row at hand | `advisory`, `pc`, `batch`, `current` |
| `MailerService.Enqueue` and its INSERT; a backoff that ends | `Enqueue`, `Elapse` |
| `runOnce`: try the lock; a tick that never gets to the outbox | `TryLock`, `Skip` |
| `DispatchOutbox`: settings and `ClaimDue` | `ClaimDue` |
| `sendOne`: accepted; refused (or a recipient that cannot be decrypted); accepted with its answer lost | `Send`, `SendFails`, `SendUnclear` |
| `MarkSent`, `MarkFailed`, either of them failing with its error ignored | `MarkSent`, `MarkFailed`, `MarkLost` |
| the end of the batch and the deferred unlock | `Finish` |
| a dying worker; a dropped lock connection | `Crash`, `LoseLock` |

How long a backoff lasts is left out: `Elapse` ends it at any time.

### Account

One account from its registration on, and the requests that slots serve for it.

| Code | Model |
|---|---|
| the users row: whose password it holds, `email_verified_at`, `deleted_at` | `user` |
| email_verification_tokens, numbered by `created_at` | `codes` |
| sessions, by whether their request knew the account's latest password | `sessions` |
| where a handler is; the code it submits or issues, what InvalidateAll has read | `pc`, `req` |
| `Register` and `AdminService.CreateUser`, as far as they leave an account | `Init` |
| `FindActive`; a code's `expires_at` passing | `FindActive`, `Expire` |
| `VerifyEmail`, `ConfirmEmailChange`, `ConfirmPasswordReset` up to the comparison; a wrong code | `Submit`; `Miss` |
| their transactions: BEGIN; `Consume` and what follows | `Begin`; `ConsumeFails`, `ConsumeVerify`, `ConsumeChange`, `ConsumeReset` |
| `UpdatePasswordHash`, through the pool; COMMIT of the reset | `Rewrite`, `CommitReset` |
| `ResendVerification`, `RequestEmailChange`, `RequestPasswordReset`, `ResetUserPassword` up to BEGIN | `BeginIssue` |
| the admin's UPDATE of the password; `IsConfigured`; `InvalidateAll` starting; having its rows, inserting, COMMIT | `Scramble`; `Configured`; `Invalidate`; `Insert` |
| `Login`, `ChangePassword`, `SoftDelete` and `DeleteUser` up to their first write; the deletion | `Login`, `ChangePassword`, `Delete`; `Erase` |
| `DeleteAllForUser`; `issueSession`; `Logout` | `Revoke`; `Issue`; `Logout` |
| a failing statement, a client that goes away | `Abort` |

External, and modelled from how the code uses it: PostgreSQL at READ COMMITTED, where
an UPDATE waits for the open transaction that has updated the row (`CodeLocked`,
`UserLocked`, `WaitsForRow`), and pgxpool, where a transaction keeps a connection
and every statement outside it takes another one (`InTransaction`, `Free`,
`WaitsForConnection`).  The reads before the first write of a handler are one step
with each other and with BEGIN: they lead to a refusal or to the transaction.
The writes of `VerifyEmail` and `ConfirmEmailChange` are one step with their
COMMIT, because nobody sees them before and nothing else is waited for between
them that would not be waited for before.  A right guess is not told from a code
that was read in a mail.

### Administrators

Who exists and who is an administrator, from the first boot on.

| Code | Model |
|---|---|
| the users table | `users` (state and role) |
| the row of `app_setup` | `setup` (its token numbered by writes, 0 for no row) |
| where `EnsureToken` of each process is | `boots` |
| where a request is, and what its handler has read | `pc`, `req` |
| `EnsureToken`: `SetupRepo.Get`; `SetupRepo.Upsert` | `BootRead`; `BootWrite` |
| `CompleteWithToken`: the request; the row `FOR UPDATE` | `Setup`; `SetupLock` |
| `Register` past `Locked` | `Register` |
| `RegisterTx`: the advisory lock and the count | `Bootstrap` |
| `CreateWithRole`, `SetupRepo.Complete`, COMMIT | `Create` |
| `RequireAdmin`, and the start of `CreateUser`, `SetUserRole`, `DeleteUser` | `CreateUser`, `SetUserRole`, `DeleteUser` |
| `FindByID` of the target; `CountActiveAdmins`; `SetRole` or `SoftDelete` | `Find`; `CountAdmins`; `Write` |
| `MeService.SoftDelete` | `DeleteMe`, `Write` |
| a failing statement, a client that goes away | `Abort` |

External: the locks of the setup row and of the advisory key, both until COMMIT
(`SetupLocked`, `BootstrapLocked`).  The insert of an account and the completion of
setup are one step with their COMMIT, because nobody sees them before.  `seen`
is who was an administrator when the handler last looked; it is history, and
`LastAdminLost` reads it.  Addresses are left out: a new account takes an identity
that is free.  The step-up password, asked for before a request begins, changes
nothing here; `AdminDesk` has it.

### ActivityFeed

One caller who scrolls through the feed of a group and reads its expenses, while
the ledger changes between any two statements.

| Code | Model |
|---|---|
| live expenses and settlements: place in the feed, revision of row and splits | `ledger` |
| the cursor in the caller's hands, and that there is none any more | `cursor`, `done` |
| what `ActivityService.List` holds between its statements | `pc`, `limit`, `rows`, `more`, `found`, `shares` |
| `List` with its limit clamped; `ActivityRepo.ListByGroup` with one row more | `Ask`; `Index` |
| `ExpenseRepo.FindByIDs`: the rows; their splits | `FindExpenses`; `FindSplits` |
| `SettlementRepo.FindByIDs`, items, NextCursor | `Answer` |
| `ExpenseService.List` and `Get` with the rows; the splits; the answer | `ListExpenses`, `GetExpense`; `FindSplits`; `AnswerList` |
| a statement that fails, a caller that goes away | `Fail` |
| expenses and settlements created, edited, re-dated, deleted by others | `Enter`, `Revise`, `Redate`, `Remove` |

Dates are ticks of what the database keeps; `Second` ticks make a second, the
precision below which an edit does not move a date.  `created_at` is any stamp,
since it is when a transaction began and not when it is seen.  `count` is on how
many pages an entry has been, and `moved` who was added, re-dated or deleted since
the first page; both are history.

### AdminDesk

One administrator with several requests at a time in one server process; the
counter of wrong passwords is in its memory.

| Code | Model |
|---|---|
| the entry of `stepUpFails`, and whether its window is open | `counter` |
| the user the requests name, who may be none, and the group; the row of smtp_config | `target`, `group`, `smtp` |
| where a request is, and what it has read and done | `pc`, `req` |
| the handlers that ask for the password; those that do not | `AdminDeleteUser`, `AdminResetUserPassword`, `AdminDeleteGroup`, `AdminSetUserRole`, `ChangeEmailRequest`; `AdminCreateUser`, `AdminUpdateSmtp`, `AdminRevealSmtpPassword`, `AdminSendSmtpTestEmail` |
| `VerifyPassword`: `lockedOut`; the hash read and compared; unreadable | `Check`; `Compare`; `Unreadable` |
| `recordStepUpFailure`: `LoadOrStore`; the increment under the mutex | `LoadOrStore`; `Count` |
| `clearStepUpFailures`; `stepUpWindow` passing | `Clear`; `Expire` |
| `LogStepUpFailure`, and the 423 of who is locked out or the 401 | `Refuse` |
| `FindByID` of the target; `SetRole`, `SoftDelete`; the transactions of a reset and a creation; `GroupRepo.Delete` | `Find`; `WriteUser`; `WriteTx`; `WriteGroup` |
| `RevealPassword`, the test mail, the email change | `Use` |
| `DeleteAllForUser`; `AuditRepo.Insert` outside a transaction | `Sessions`; `Audit` |
| a failing statement; a restart, which forgets the counters | `Fail`; `Restart` |

A counter that was deleted while a request still holds it is not told from none:
nobody reads it again.  The guard of the last administrator is a refusal that may
happen here (`Administrators` has it), sessions and codes are those of `Account`.
`validateSmtp` and the upsert are one step, because the validation reads only the
request.

## 4. Runs

| Run | Shows |
|---|---|
| `splits` | The arithmetic, in three exercises.  For every request over three users, amounts 1 to 100, small weights and basis points, and any later amount edits: shares sum to the amount and are not negative, nobody is charged outside the floor and the floor plus one cent, leftover cents go to a prefix, and an edit keeps proportions.  For five members with any small debts to the first, of whom all but the first may leave at any balance, the transfers shown settle everybody who is still a member, save that what those who left owed or were owed stays with the members, all of it on one side; they are fewer than the members with a balance, and each of them alone, paid before the others, brings balances closer to zero and never past it.  For every date of two years and every cadence, a template keeps its distance in days, or its day of the month until it meets, once, a month without it. |
| `expense` | Three concurrent requests that edit the amount, the splits, everything or nothing, or delete: each revision starts where the previous one ended and none records a value that stayed, the history of the splits has no more gaps than the amount has revisions, a deleted expense is final, one delete succeeds, every admitted request ends, and the shares leave the amount in one way only, a commit of splits that were resolved against an amount somebody else changed meanwhile. |
| `recurring` | Two workers, one tick that may die, and three templates of which one is always refused: each of the others moves on in the end unless the refused one is due with it, and does so once that one is deleted, whatever the refused ticks have left. |
| `recurring_poisoned` | With a template that is always refused, one tick that may die, one lost advisory lock, and deletions of a template and of a group: nothing is skipped, copies beyond the first are paid for by ticks that failed, a deleted template is silent, and the worker implements `Schedule`. |
| `recurring_stuck` (violation) | The worker and a deletion of a group wait for each other, in a cycle PostgreSQL cannot see. |
| `groups` | Any sequence of joins, removals, leaves, settings, transfers, deletions, expenses with and without a currency, edits of who shares them, settlements, and a template from which the worker makes expenses, two requests at a time and one of them failing half-way: nothing outlives a deleted group; the owner stops being a member in two ways only, a pinned split comes to fit no more in three, an amount leaves the currency of the group in two, and a balance of somebody who is no longer a member arises in four.  Each of these ways occurs. |
| `groups_split` (violation) | The split is not always cleared: it is checked, a third member joins and clears it, and then it is written. |
| `outbox` | Two workers whose deliveries, answers, records, locks and processes fail: the dispatchers implement `Mailbox`, so a row marked sent was delivered; a message is delivered again only once per fault, the attempts stay bounded, and every row is settled while a server is configured. |
| `account` | Requests of every kind on one account, two at a time on a pool of two connections, one of them failing half-way: a code takes effect once, attempts stay bounded, deletion is final, requests that do not overlap leave one open code for a purpose and no session of an older password, and requests hold each other up in two ways only. |
| `administrators` | On an instance that begins empty, two requests of any kind and a process that boots, one request failing half-way: setup succeeds once, and nobody reopens it; one registration at most makes an administrator; the last administrator is lost in two ways only. |
| `feed` | A scroll with pages of one and two rows over an expense and two settlements with equal times, all of which are added, re-dated, edited and deleted between any two statements, and lists of expenses beside it: pages neither repeat nor skip what stayed where it was, an amount is shown with the splits of a newer revision at worst, and the scroll ends. |
| `desk` | Two requests at a time, of all kinds and with right and wrong passwords, about a user who is there, deleted meanwhile or unknown, a window that may close at any moment, one failing statement or a restart: wrong passwords stay within the limit and the requests in flight, what an administrator did and what was refused to one is logged, except group deletions and refusals over the id of no user, and what the log says is true unless another request overtook. |

The types are checked by the proofs and not by the runs.

### Bounds

* `Width = 30`, so that products of the small inputs never wrap and the
  properties are about rounding.  TLC evaluates that, as the assumption `MCLedgerFits`.
* Three requests on one expense: two edits that conflict and a third that
  deletes, or sees the result.  The history property relates neighbours, which
  three writers can put in every order.  No symmetry is used, because the run
  checks liveness too.
* Five members, who have paid the first up to three cents or received up to two: both
  lists have two entries and more, with ties, entries that are settled at once
  and entries that are not; four of the five may leave, with something owed on either
  side, before and after some of the others have paid.  Starts in 2023 and 2024, and years up to 2028, so
  that 29 February, 31 January and the end of each month occur, and the next
  leap year after them.
* Three entries and pages of one or two rows, so that a page can end inside a run of
  equal times, be full, and be short; dates of the same second and of another
  one; one revision and one failure.
* Two guesses stand for five (`stepUpMaxFails`); two requests, of which one can pass
  the check while the other makes the last guess, or delete the counter it holds;
  one fault.  Slots are symmetric.
* `Members` leaves one user out so that refusals and outsiders occur.
* Two workers, because the advisory lock is about a second one; two templates in
  two groups, because a batch matters as soon as one can fail after another; a third
  for liveness, so that a batch that waits holds two which can be inserted beside the
  one that cannot.  Occurrences 0 to 2 (0 and 1 for liveness), so that a schedule moves
  more than once.  No template exists at the start: one created late is due for
  occurrences that have passed.  `Crashes` and `LockLosses` bound the faults at one
  each (the liveness run has no lost lock).  A refused template is refused on every
  tick without bound; `MaxCopies` caps what is counted of copies and of refused
  ticks, three in the poisoned run and two in the liveness run.  The cap hides
  nothing from `DuplicatesOnlyByFailure` below it, and the theorem has none.
* Three users in a group, because the default split is about the step from two
  members to three; two slots, because each race is of one request against
  another; one expense and one settlement that offset each other, so that the
  balance gate opens and closes; the expense is entered in the currency of the group,
  in a named one, or by the worker from the one template, and an edit gives its share
  to a third.  The slots are interchangeable, hence the symmetry set; the properties
  of these runs are invariants and action properties.  `Aborts` is one.
* Two messages in two workers' batches; two attempts stand for five, two faults
  allow a lost lock followed by a lost record or a crash.  The limit of a batch
  is two, so it holds all rows: what the limit cuts off is read at a later tick.
* Two slots on one account and a pool of two connections: a race is of one
  request against another, and the pool can run dry.  One wrong submission
  stands for five, and still two can pass the check together.  Two codes, so
  that an issue meets an open code or another issue; one aborted request.  Slots
  are symmetric.
* Three accounts, because the last administrator goes with a second one that
  demotes, or is deleted, meanwhile, and a third one is left without any; two
  slots and one process that boots again and again, since each race is of two;
  two tokens, so that one is stale; one aborted request.  Accounts and slots are
  symmetric.
* Deadlock checking is on for the desk, where a request can always be made.
  It is off elsewhere because requests end, time is bounded, a worker
  may have nothing to do, and a deleted account is left alone; `HeldUp` states
  for accounts what deadlock checking would.

### Fairness

* `ExpenseEdit!FairSpec`: a request that was admitted runs on, and PostgreSQL
  gives a lock that was released to one of its waiters; weak fairness on each
  request's own steps.  Nothing makes a request arrive.
* `Recurring!FairSpec`: time passes and the ticker fires (weak fairness); a tick
  whose next statement can run again and again does run (strong fairness,
  because an insert is disabled while somebody deletes the group and enabled
  again when they give up; PostgreSQL queues lock waiters); a group deletion
  whose locks are free completes.  Crashes, deletions and cancellations are
  never forced.
* `Outbox!FairSpec`: backoffs end and the ticker fires (weak fairness); of the
  ticks that take the lock with a server configured not all fail before they
  read the outbox (strong fairness, because ticks that are cut short and
  settings that go away disable `ClaimDue` again and again); the loop over a batch
  runs on.
  Delivery may be refused every time, and faults are never forced.  `Settles`
  asks nothing of a system in which no server stays configured.
* `ActivityFeed!FairSpec`: a request that is served runs on (weak fairness), and the
  caller goes on asking for pages while there is a cursor, whatever lists they ask
  for in between (strong fairness).  The ledger may change for ever.

## 5. Proofs

Liveness under fairness stays with TLC, and so does what is ENABLED; every other
property of a passing run is proved for every value of the constants under the
named assumptions `ExpenseEditAssumption`, `WidthAssumption`, `LedgerAssumption`,
`RecurringAssumption`, `GroupsAssumption`, `OutboxAssumption`, `AccountAssumption`,
`AdministratorsAssumption`, `FeedAssumption` with `NilAssumption`, and `DeskAssumption`.

### ExpenseEdit_proofs

The inductive invariant is `Facts`: the types, what is known of each request
(`RequestsOK`: an admitted request was made by a member, and its payer and
split users are members), `LockedIsFresh` (a request past its locking read
holds the lock, and what it read is still the committed row and splits) and
`HistoryOK` (a history exists only once the expense does).  `LockedIsFresh` is
the heart of it: without it a commit could overwrite a row it has not seen, and
the history could not chain.  One lemma per action shows that it keeps `Facts`;
actions that leave the database alone share the lemma `QuietFacts`.  From it:

* `TypeCorrect`: `Spec => []TypeOK`, with payers, split users and editors members.
* `HistoryKept`: `Spec => []FieldHistory`.  `ChainStep` shows that appending one
  revision, from what is shown now to what will be shown, extends a chain;
  `NoSpuriousStep`, that a revision never leads from a value to itself.
* `SplitsAccounted`: `Spec => []SplitHistory`.  A commit that records new splits leaves
  the gaps as they are (`GapsOfReplaced`), for its revision starts where a reader
  before it was; any other opens a gap behind the last revision only, and only
  beside a revision of the amount (`GapsOfRescaled`), which pays for it.
* `DeletedStays`: `Spec => DeletedIsFinal`; `OneDeleter`: `Spec => []OneDelete`,
  with the set of requests that were told they deleted as the extra state.
* `SumLost`: `NoOverflow /\ Spec => SumLostOnlyToStaleAmount`.  `AmountsOK` is what it
  needs beside `Facts`: the amount of the row, and the one an admitted request has
  read, are positive and among those that requests carry, the splits are finitely
  many, and what a request holds as its splits is what resolving gave for the
  amount it brought or read.

The module also proves what `Ledger` states, on the same arithmetic.  It is built up
in layers:

* Induction.  The library's induction theorems take an operator, so each induction
  here is over the set of numbers, or of subsets of a finite set, for which a claim
  holds (`NatInduct`, `FiniteInduct`): a least number outside of it (`LeastNatural`) has
  a predecessor inside, which contradicts the step.
* Sums.  `SumFunction` is a fold of the community modules, whose recursive function
  is shown to exist (`SumsDefined`, from its approximations on subsets) before
  `SumStep` can take one element off.  Then `SumPlus`, `SumTimes`, `SumMonotone`,
  `SumReindex`, `SumConcat` and, for double sums, `SumSwap`.
* The machine.  `PowerDoubles` gives 2^(n+1) = 2 * 2^n from counting; below `Limit` a
  number does not wrap (`WrapFits`), and truncating division is the floor.
* Shares.  Floors lose less than a cent each, so the cents left over are fewer than
  the entries (`FlooredRest`) and a prefix takes them all (`WeightedAdds`):
  `ResolvedSums`, for any mode.  `RescaledSums` is the same for stored rows, whose
  order is a rank (`RankCounts`).
* Balances.  Each cent of an expense or settlement is added to one balance and taken
  from another, so the balances of everybody ever named sum to zero (`NetsOfAll`) and
  those of the members to minus what those who have left are owed, less what they owe
  (`NetsAddUp`).  `SimplifySettles`: for any balances, whatever they sum to, the loop
  ends with transfers that settle the side with the smaller sum, both if the sums are
  equal, move nobody past zero, and are fewer than the members with a balance.  The
  induction is on the length of the two lists: a round takes the same from both sums
  and shortens one of the lists or both (`PairStep`, `PairSettles`), and a list of
  positive entries is empty just when its sum is 0 (`NoCents`).
* The calendar.  `MonthLengths`, `DaysLater`, `MonthLater` and `YearLater`, by cases on the
  month.

From these, with `TemplateOK` (dates are real ones, and once the day of a template in
months has changed it is one of the first three) and `LedgerFacts` (the shares sum to
the amount, settlements are payments within the household, as every transfer the page
shows is, and the members are some of it):

* `LedgerSharesSum`: `LedgerFits /\ LedgerSpec => []SharesSumToAmount`; `CreatedIsFair` and
  `RescaledIsFair`, for any number of members and any sequence of edits.
* `ShownSettles`: `LedgerFits /\ LedgerSpec => []SettlesAll`, for any household and
  whoever leaves it.  Members pay one another, so what those who left took with them
  stays as it is (`AbandonedAfter`), and is what the transfers shown leave
  (`RestIsAbandoned`).
* `DayKept`: `LedgerSpec => KeepsDay`, for every date and cadence.

`NoOverflow` and `LedgerFits` say that no product or sum of the numbers that requests
carry overflows.  They are hypotheses and not assumptions on the constants, because
the code does not guarantee them (section 6); the constants of the runs satisfy them.

### Recurring_proofs

The inductive invariant `IInv` is `TypeOK`, `ClaimIsCurrent` (rows are locked by
exactly the worker that claimed them and are still what it read),
`DoneIsCovered` (a claimed template that is no longer to do has an expense of
the claimed occurrence) and `NoSkip`.  `DoneIsCovered` is what makes `NoSkip`
inductive: the commit moves the schedule of every claimed template at once, and
must know that each of them was inserted.  From it:

* `TypeCorrect`, `ClaimsCurrent`, `NothingSkipped`: the conjuncts as invariants.
* `DeletedIsSilent`: `Spec => NothingAfterDelete`.
* `Implements`: `Spec => KeepsPromise`, the refinement of `Schedule`, in which an
  insert is a `Materialize`, a commit an `Advance` of all its templates, a
  deletion a `Stop`, and everything else stutters.
* `RepeatedByFailure`: `Spec => []DuplicatesOnlyByFailure`, whichever templates are
  refused.  `Repeats` makes it inductive: an occurrence the schedule points at, and
  that no tick under way has made, has at most one copy for each tick that died or
  was ended by a refused insert; the end of such a tick is what takes `Made` back, a
  commit moves the schedule past what was made.

### Groups_proofs

The inductive invariant `Facts` is the types, that what a slot holds fits where
its handler is (`Fits`: a removal has read an owner and, past its check, does not
remove them; a split that is about to be pinned has two members), and `GoneIsEmpty`.
`AloneInv`, inductive under it, says of a request beside which nothing else has run
that it is the only one, and that what it has checked is still so where it is
(`Placed`).  From them:

* `TypeCorrect`: `Spec => []TypeOK`.
* `NothingOutlives`: `Spec => []GoneIsEmpty`: the foreign keys are enough,
  however many requests are on their way when the group goes.
* `OwnerKept`: `Spec => OwnerLostOnlyToRace`: of all steps of all requests only a
  transfer whose target has left, and a removal by an owner that is no longer
  the owner read, can leave the group with an owner who is not a member.
* `SplitKept`: `Spec => SplitLostOnlyToRace`.  A change of the membership that makes a
  pinned split wrong also makes the count of the same request find it, and a clean-up
  that is due stays due while others move, unless they change the membership again
  (`Miscounted`); so of the writes only that of a split which was checked on other
  members is left, and of the failures those before a clean-up.
* `CurrencyKept`: `Spec => CurrencyLostOnlyToRace`.  The currency of an entry is written
  once, edits keep it, and templates name their own.
* `LeftBehind`: `Spec => BalanceLeftBehind`.  The balance of somebody is a sum over the
  entries that name them (`NetFrame`), so only a step on such an entry, or on their
  membership, matters; and a removal, an entry or an edit that is alone writes on the
  balance and the members it has checked (`Placed` again).

### Outbox_proofs

`IInv` is `TypeOK`, `SentWasDelivered` and `RecordIsTrue`: a worker that is about
to record a row as sent holds a row that was accepted.  The last one is needed
because acceptance and record are two steps with a crash possible in between.

* `TypeCorrect`: `Spec => []TypeOK`; `NothingLost`: `Spec => []SentWasDelivered`.

Two properties count, and so does their invariant.  `Numbers` says that every worker
in a tick without the lock (a stray) has cost a fault, and that so has every
acceptance beyond the first, less the workers that are about to record one; for the
attempts on a row likewise, with those about to add one.  `Local` says what a worker
has in memory.  The counts are cardinalities, which is why `OutboxAssumption` has
finitely many workers; `OneComesOrGoes` and `Sizes` say how they move.

* `TwiceByFault`: `Spec => []TwiceOnlyByFault`; `AttemptsEnd`: `Spec => []AttemptsBounded`.
* `MailKept`: `Spec => KeepsMail`, the refinement of `Mailbox`, with the counts of both
  ends of a step: an accepted delivery is an `Accept`, also when its answer is lost
  (then it is a fault at once); the record of an outcome is a `Record` or a `Refuse`, or
  a stutter if the row has been recorded by another; a death, a lost lock or a lost
  record is a `Fault`; locks, batches, backoffs and settings stutter.

### Account_proofs

The inductive invariant `Inv` is `Types` (`TypeOK`), `CodesInv` and `UsedInv`.
`CodesInv` says which codes exist: a slot that submits holds an existing one, and
issues under way have numbers of their own that have not been inserted, so that
an insert never overwrites a code.  `UsedInv` counts: a code that is not consumed
has taken effect at most as often as requests were aborted, unless a reset stands
between writing the password and COMMIT; and at most one reset holds the row of
a code, which is then not consumed.  It is why `CodeOnce` is inductive: an effect
consumes the code in the same step, or is covered by the reset that holds the
row until that commits, or until its abort is counted.

* `Typed`: `Spec => []TypeOK`; `CodesWorkOnce`: `Spec => []CodeOnce`.
* `DeletedStaysDeleted`: `Spec => DeletedIsFinal`.
* `AttemptsAreBounded`: `Spec => []AttemptsBounded`, from `MissInv`: the attempts on a
  code and the slots that are about to add one are together below the bound.
* `CalmIsOrderly`: `Spec => []CalmAccount`.  Its invariant `Order` says, of requests that
  did not overlap and were not cut short, that at most one is under way; that each
  purpose has one open code at most; that a session is stale, or the account of one
  deleted, only while that request is about to revoke it; and what the request may
  count on (`Knows`).  Beside it, a deleted account has no password.
* `Standstills`: `Spec => []Standstill`, what `HeldUp` says without ENABLED: the guard of
  some request's next step holds, or it is one of the two standstills.  If a
  connection is left, whoever waits for a code waits for a reset that waits for the
  user's row, and whoever holds that row waits for a code: `WaitForEachOther`
  (`NobodyElseWaits`).  That such a guard means an enabled step is left to `HeldUp`.

### Administrators_proofs

The inductive invariant `Inv` is `TypeOK`, `SetupOnce`, `OneBootstrap` and what
they rest on.  `Fits` says which requests are at which statement.  `Held` says
that a lock has one holder and that what the holder has read is still so: setup
is not completed while a setup holds its row, and who is about to be created as
the first administrator still finds nobody.  `Known` says that who became an
administrator by being the first exists or has existed, so that a new account is
none of them.  `Counted` says that a request past the count saw an administrator
other than its target, or that its target is none.

* `Typed`, `SetupSucceedsOnce`, `OneBootstraps`: the conjuncts as invariants.
* `CompletedStays`: `Spec => CompletedIsFinal`, because whoever writes the setup row
  holds it, or looks at it again.
* `LastAdminKept`: `Spec => LastAdminLost`, from `Counted`: if who is an administrator
  has not changed since, the one that was seen remains.
* `DeletedStaysDeleted`: `Spec => DeletedStays`.

### ActivityFeed_proofs

The inductive invariant `Inv` is `TypeOK`, `Placed` (where a request can be),
`PagesComplete` and two statements about a page that is being put together.
`PageInv`: its rows are ahead of the cursor, those of entries that did not move are
as the ledger has them, and an entry ahead of the cursor that did not move is among
them or comes after all of them, on another page.  `FoundInv`: the expenses of the
page that did not move were found.  They are needed because a page is counted in
the step that answers it, on what several earlier steps have read.

* `Typed`: `Spec => []TypeOK`; `PagesAreComplete`: `Spec => []PagesComplete`, for any
  ledger, any times and any sequence of page sizes.
* `TornEnds`: `Spec => []TornIsSuperseded`.  `Superseded` orders what was read by when:
  the row that was found, its splits if they were read, and the ledger; a live
  expense has the splits of its row, and an entry that was seen never comes back
  with a lower revision.

### AdminDesk_proofs

The inductive invariant `Inv` is `TypeOK`, `Counted` and `Known`.  `Counted` is a potential: the counter and the requests past
the check are together at most the limit less one and the number of slots, and the
wrong guesses so far are at most the counter and the guesses about to be counted.
`Known` says of every request that it knows the user as it is when it is about to
change it, or was overtaken, and that there is a user by then.

* `Typed`: `Spec => []TypeOK`; `WrongIsBounded`: `Spec => []WrongBounded`.
* `AuditIsTrue`: `Spec => []AuditTrue`.
* `LogIsComplete`: `Spec => []Logged`, for which every operation that took effect is
  followed from its write to its row of the log or to what kept the row from it.

### Only model-checked

`HeldUp` (it is about what is ENABLED; `Standstills` proves the rest of it), and the
liveness properties `RequestsEnd`, `DueAdvances`, `Settles` and `ScrollEnds`.

## 6. What the models say about the code

The findings are listed in `PROJECT.json` with the line and the text they
disagree with.  Beside them:

* A template that is refused each time holds up the others that are due with it
  (`Poisoned` in `DueAdvances`): they are inserted again on every tick and never move
  on, and the outbox, which is drained only after a successful tick, stands still,
  until somebody deletes that template; from then on they must move on again.
* A tick that fails after an insert makes that expense again: the expense commits
  by itself and the schedule with the rest of the batch
  (`service/recurring.go:150-156`).  `DuplicatesOnlyByFailure` bounds the copies
  by the ticks that failed; with a template that is refused every time there is one
  copy a minute.
* Splits are resolved against an amount that was read before the row was locked
  (`service/expense.go:204-222`), so a splits edit that races an amount edit stores
  shares that do not sum to the amount, although the comment on `resolveSplits`
  (`service/expense.go:263-265`) states that sum.  `SumLostOnlyToStaleAmount` says that
  this is the only way.
* `Simplify` does not find "the minimum number of pairwise transfers" of its comment
  (`service/balance.go:47`): for the balances +4, +3, -3, -2, -2 it shows four transfers
  where three do.  It never shows as many as there are members with a balance, which
  is what `SettlesAll` states.  Nor does paying one of the transfers always shorten
  the list: for +10, +8, +6, +6, -13, -11, -7 it shows five, and six once the member
  who owes 13 has paid 3 to the one who is owed 8.  What does hold is that no
  payment moves a balance away from zero or past it.
* A template of the 31st of a month is next due on the 2nd or 3rd of the month after
  the next short one, and stays there: 31 January, 3 March, 3 April.  One of
  29 February is next due on 1 March, also in leap years.
* The deletion of a group by an administrator is never logged.  The row of the log
  names the group, which is gone by then (`service/admin.go:405-416`); the foreign key
  refuses it, and the administrator is answered with an error although the group is
  deleted.  According to the comment on `AdminService` (`service/admin.go:23-25`)
  "destructive ops happen in a single transaction with the audit row".  `Logged`
  names this exception.
* A wrong password sent with the id of no user is logged nowhere.  `stepUp` asks for
  the password before the user is looked up (`handlers/admin.go:98-107`, `126-137`,
  `173-190`), and the row that `LogStepUpFailure` then writes names a user who must
  exist (`migrations/0001_init.up.sql:216`); the foreign key refuses it, and what the
  insert returns is not looked at (`service/admin.go:419-434`).  `Logged` names this
  exception, too.
* "Five bad" passwords (`service/auth.go:70`) is the limit for requests one after the
  other.  All that have passed the check before the last one is counted are
  compared too: `WrongBounded` has the number of requests in progress on top.
* The log says which role was replaced as it was read; two changes of one role that
  overlap may both say the same.  `AuditTrue` allows it to a request that was
  overtaken.
* An amount edit rescales the splits without a revision of them
  (`repo/expense.go:315-320`): after an amount edit a splits edit records old
  splits that nothing recorded before, while docs/FEATURES.md:70-71 promises "the
  full edit history ... including per-member split diffs".  `FieldHistory` therefore
  leaves the splits out; `SplitHistory` says how much is missing at most, one change
  for each revision of the amount.
* Nothing bounds the weights of the `shares` mode.  Weights that sum past 2^63
  wrap, and the shares of such a request need not sum to the amount.  The `splits`
  run keeps below the overflow on purpose, and the theorems about shares have
  `NoOverflow` or `LedgerFits` as a hypothesis.
* Revisions are listed by `edited_at`, which is the time a transaction began.  An
  edit that waited for the row lock is listed before the edit it waited for.
* The balances page shows current members only (`repo/balance.go:53`), and leaving a
  group is not gated on a balance, by design (`service/group.go:306-311`).  Once
  somebody has left with a balance, those of the members need not sum to zero, and
  the transfers shown cannot settle everybody.  What remains in the end is exactly
  what those who left took with them, all of it owed by the members or all of it owed
  to them: `SettlesAll`.  The comment on `NetForUser`
  (`repo/balance.go:77-80`) gives just this as the reason for the gate: "a non-zero net
  would silently disappear from the ledger if we let the user leave".
* A member may leave with a balance: `RemoveMember` asks for a settled balance only
  when somebody else removes them (docs/openapi.yaml says the balance must be
  zero).  An expense may be edited or deleted later, which moves the balance of people
  who have left: an edit asks only about the payer and the shares it names itself.
  And the worker goes on to make expenses of a template for people who have left, or
  never were members: neither it nor `RecurringService.Create` asks about them
  (`service/recurring.go:58-61`, `139-152`).  `BalanceLeftBehind` says that, beside
  races, there is no other way.
* The currency is locked once there is something in the ledger
  (`service/group.go:107-118`), but an expense may be entered in any other: a request
  may name one (`service/expense.go:70-76`), and a template keeps the one it was made
  with.  Balances add all of them up.  `CurrencyLostOnlyToRace` is about the expenses
  that name none.
* A request that adds or removes a member and fails before it has cleared the
  default split leaves a split that does not fit, and nothing repairs it
  (`service/group.go:295`): `CutShort` in `SplitLostOnlyToRace`.
* A member who is added and removed at the same time can leave a stale default
  split behind, since each counts the members the other leaves (`Miscounted`).
* `HeldUp` names two standstills.  A user's reset holds the row of its code and waits
  for the users row on a second connection; an admin's reset of the same user
  holds the users row and waits for the code's.  PostgreSQL sees no cycle, since
  the first transaction is idle.  And transactions that ask for a second
  connection (`IsConfigured` in `EnqueuePasswordResetTx`, `UpdatePasswordHash` in
  `ConfirmPasswordReset`) wait for ever once they hold all of the pool, unless a
  client gives up.
* A password reset writes the password through the pool while its transaction
  consumes the code (`service/verification.go:490-493`).  When COMMIT fails the
  password has changed, the code is still good and no session was revoked; with
  such an abort the code takes effect twice, although repo/verification.go:81
  says that a consumed token "can't be reused".  `CodeOnce` allows one more effect for
  each abort for this reason.
* "The last active admin cannot be demoted" (service/admin.go:100-102) holds as
  long as the administrators do not change while a request is under way.  Two who
  demote or delete each other each count two, and none is left.  And nobody counts
  when the last administrator deletes the own account (service/me.go:205).
  `RegisterTx` makes an administrator only if there is no active user, and setup is
  completed, so an instance whose last administrator went this way has none until
  all its users have left.
* Two issues of a code that overlap leave two open codes, since `InvalidateAll` does
  not see what the other has not committed: when the newer is consumed or
  expires the older one works.  And a login whose password was checked before a
  reset, and whose session is inserted after it, keeps that session.  Hence
  `CalmAccount` speaks of requests that do not overlap.
* A password reset neither asks for nor sets `email_verified_at` and issues a
  session, so an account that was never verified can have one, while
  docs/openapi.yaml:144-146 asks for `/v1/auth/verify` first; a login is refused
  to it all the same.

## 7. What is not modelled, and why

The categories (a cache of rows that never change), the connection to an SMTP
server and its test (network I/O), the HTTP layer beyond the handlers of section
3 (decoding, and the mapping of errors to status codes; the rate limiters count in
a library), cryptography and configuration (pure functions of bytes), the web front
end (pages over the API) and the generated API types.  In the modelled components
these are left out: display names and profile data,
notifications after a commit (best effort, an outbox row), the preferences that
decide on them, the cadence the feed guesses for an expense, and other reads whose
result is only shown.
