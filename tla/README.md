# Student leader portal: a verification project

TLA+ models of the portal's core, the TLC configurations that check them on small
instances, and TLAPS proofs that hold for instances of any size. Every definition
that models code is mapped to its lines in `PROJECT.json` ("map"); sources are named below
relative to `src/`.

    tlc -workers 2 -config Merch.cfg MerchMC      # one run; the table of runs is in section 4
    tlapm MerchProofs.tla                         # proofs; the other *Proofs modules have the rest

1. [The system](#1-the-system)
2. [Modules](#2-modules)
3. [Correspondence with the code](#3-correspondence-with-the-code)
4. [Runs, bounds and fairness](#4-runs-bounds-and-fairness)
5. [What disagrees with the documents](#5-what-disagrees-with-the-documents)
6. [Proofs](#6-proofs)
7. [Plan](#7-plan)
8. [Not modelled](#8-not-modelled)

## 1. The system

A web portal for student leadership contests. The backend is one Go process
(`backend/cmd/api`) over PostgreSQL and an S3 store; the frontend is a React application.
`cmd/worker` is an empty skeleton: the one background job, the outbox dispatcher, is a
goroutine of the API process. Nothing is shared in memory between requests apart from the
evaluation hub; what keeps two requests apart is PostgreSQL: transactions under READ
COMMITTED, row locks, unique indexes and the row counts that the code tests. Many operations
are several statements without a transaction, and most of what is hard here is between them.

| component (under `backend/internal/modules/` unless it says otherwise) | state | operations | what is hard | what makes it correct |
|---|---|---|---|---|
| merch | products with stock and reserved quantity, saving targets, orders with items | create, edit, activate, hide, delete; save for; reserve, issue, reject, cancel | two people and the last unit, edits under waiting orders, retries with a key, lock order | stock and reserved agree with the orders; a waiting order can be issued; terms of an order are fixed |
| points | append-only ledger, holds | adjust; credits and charges of the other modules; balance | balance is summed by statements; corrections downwards | no point is held or spent twice; holds and entries follow the order |
| submissions | the work, its revisions, files, links, objects in S3 | open, save, submit, upload, delete | overlapping tabs, two stores and no common transaction | revisions complete and final; a listed file exists |
| outbox | `outbox_events` | claim, render, send, settle, release stale | a stop between sending and recording; failures and backoff | nothing is lost; every event settles; a result stands |
| evaluation, scores (with `frontend/src/entities/evaluation/score-sync.ts`) | queue in IndexedDB; sheets, values with revisions, receipts, history, totals; schemes and criteria | edit, flush, retry; set, override, reset; edit scheme and criteria | offline queue, lost answers, late requests; totals summed under concurrent writes | a mutation counts once; an older edit never replaces a newer one; the queue drains; total and scores agree |
| evaluation, live session and hub | session state, phase, timer, revision; performances; draw; subscribers | start, select, phases, pause, finish, reset, draw; publish, stream | commands racing, writes outside a transaction, dropped events | a command is saved over what it read; timer and state agree; a watcher catches up |
| evaluation, lives and questions | question keys, marks, life events | mark, unmark, take and restore a life, key, plan | look, count and insert in three statements; a key replaced under marks | lives never below zero; a new key brings the marks in step |
| evaluation, standings | (computed) | places, combined ranking | ties, contestants without a score, zero sums | places follow scores; ties share; the last to fall is ahead |
| auth (with `middleware`) | users, sessions, refresh tokens | log in, refresh, log out, revoke, change password | two uses of one token; a revocation racing a refresh or a login | one live token of a chain; what is revoked stays so |
| useradmin, eventpermissions, contest people | accounts, roles, permissions, owners | create, block, grant, revoke, set password, transfer | a check made before the write; revocation as a last statement that may fail | a role that is gone is not in a new token; nobody grants outside their realm |
| contests, challenges | status; form, versions, snapshots; briefings, files | life cycle, edit fields, publish, copy, brief | unconditional writes after a check; version, snapshot and status in three statements | the newest version is the form; what is listed can be opened |
| eventparticipants | participants, directions, their sessions | list, block, import; log in by name, card, VK | a login or an import racing a block or an edit | a blocked participant starts over; an import keeps what it knew |
| lectures, eventtasks | codes, attendance; tasks, attempts, images | scan; send, cancel, decide | two scans of one code; two requests or two moderators and one attempt | a reward is credited once; attempts are admitted and decided one by one |
| audit | log | append | a foreign key's lock | |
| `platform`, `config` | | connections, presigned URLs, hashing | | |

Interactions: merch reads contests and participants and writes holds and ledger entries;
lectures and eventtasks write ledger entries; submissions read challenges and their form
versions and write outbox events in the transaction of a revision, and the dispatcher reads
submissions again to render them; the score queue talks to evaluation over HTTP and to nothing
else; evaluation publishes to the hub after its writes; the hub's subscribers fetch the session
again when told. Useradmin changes what auth gives out and revokes its sessions; participants have
sessions of their own. Every module writes `audit_logs`.

The hazards, each at its line and with the properties that cover it or the reason why none
does, are in `PROJECT.json`.

## 2. Modules

| module | models | uses |
|---|---|---|
| `Merch` | the shop and its points, a transaction per action: also the abstract specification of `MerchTx` | |
| `MerchTx` | the same requests as statements and row locks of several sessions | EXTENDS `Merch`; instantiates it as `Serial` |
| `Submissions` | one contestant's work, revisions, files and their objects, with several requests at a time | |
| `Outbox` | the events and the dispatcher | |
| `ScoreSync` | one jury score: browser queue, pages, network, handler, administrator | |
| `Standings` | the tables computed from results, as pure operators | |
| `Sheet` | one score sheet in the database: mutations, corrections, totals, scheme and criteria, reset | EXTENDS `Standings` |
| `LiveSession` | the live session of a challenge: commands, draw, reset, hub and event stream | |
| `Lives` | questions, marks and life events of that session; the specification of both | EXTENDS `LiveSession` |
| `Attendance` | lectures, QR codes and scans, statement by statement, with the points they credit | |
| `TaskReview` | tasks, attempts with their images, decisions and their points | |
| `Sessions` | accounts, logins, refresh tokens, revocation, admission of requests | |
| `Staff` | what organisers do with accounts, roles, permissions and owners; the specification of both | EXTENDS `Sessions` |
| `Contest` | a contest's status and the pool of requests about it | |
| `Challenges` | challenges, forms and versions, briefings and files | EXTENDS `Contest` |
| `Participants` | participants, import, logins and their sessions | EXTENDS `Contest` |
| `Event` | the composition: one contest, its challenges and participants | EXTENDS `Challenges`, `Participants` |
| `MerchProofs` | theorems about the shop, as transactions and as statements | EXTENDS `MerchTx` |
| `SubmissionProofs` | about the work and its delivery | EXTENDS `Submissions`, `Outbox` |
| `LiveProofs` | about evaluation: the live session, lives, the score queue | EXTENDS `Lives`, `ScoreSync` |
| `StandingsProofs` | about score sheets and standings | EXTENDS `Sheet` |
| `AttendanceProofs` | about lectures, and about a contest with its challenges and participants | EXTENDS `Attendance`, `Event` |
| `TaskProofs`, `SessionProofs` | about tasks; about accounts and sessions | EXTEND `TaskReview`, `Staff` |
| `SumTheorems` | sums over finite sets, which balances, prices and totals are | |
| `*MC` | symmetry sets and values for the cfg files; `SheetMC` also compares `Standings` with reference definitions on small inputs | |

Conventions. A definition keeps its source's name where it can. An action is a whole handler,
or, where the code does not run it as one transaction, a step of it, and the record of the
request (`session`, `request`, `page`, `stage`, `scan`) says how far it has come and what it has
read. A refused request that writes nothing is a stutter and has no disjunct. A request may stop
after any step where the code's next statement may fail. Definitions marked "a
mutant" are faulty variants of the definition that follows them; no specification uses them,
and `PROJECT.json` says which property each of them breaks.

## 3. Correspondence with the code

### Merch and MerchTx (`merch/repo.go`, `points/repo.go`)

| variable | table |
|---|---|
| `product` | `merch_products`: status, price, stock_quantity, reserved_quantity |
| `target` | `merch_saving_targets` |
| `order` | `merch_orders` with `merch_order_items`, by idempotency key, which is unique in a contest |
| `hold` | `points_holds`, one per order |
| `ledger` | `points_ledger` by idempotency key: `merch-purchase:<order>` and the adjustments' keys |
| `active`, `open` | `event_participants.status`, `contests.status` |

The effective price (the discount, when there is one) stands for the two columns it is computed
from, and one order total for the sum over items. `Cost` and the ledger sums are sums over
functions. `Reserve` takes a key that has made no order: with a used one the code answers
with the order or a conflict and writes nothing. `UpdateProduct` and `Activate` set the status
by `OnSale`, `IssueUnits` and `ReleaseUnits` are the CASE expressions of the UPDATE
statements.

`MerchTx` gives each session a request and a stage. `lock` has the exclusive row and advisory
locks; the KEY SHARE lock that an insert into `points_ledger` or `audit_logs` takes on a
participant through its foreign key is a condition on the write (`Wants`). Rows are written under
their lock, so the writes of a transaction appear at its commit. `LockProduct` takes products in
the order of their ids, as `ORDER BY id FOR UPDATE` does. A rollback is possible before the commit;
`Reply` is the read of the order after it. `DeadlockAbort` is what PostgreSQL does to a cycle of
waits. One-statement requests (catalogue, adjustment, status) wait for the row they write;
saving targets, which nothing else reads under a lock, are left to `Merch`.

### Submissions (`submissions/service*.go`, `repo_write.go`)

Every handler begins with `Admit`: `loadForWrite` inserts the missing draft, then the window is
checked. `SaveDraft` writes the answers whatever the status. `Submit` computes the next revision
number from the work read at the beginning, lists the files, and commits revision, work and outbox
event in one transaction, which the unique number lets fail. An upload stores the object, then
inserts row and link, and removes the object if the insert is answered as failed; a deletion finds the
row, soft-deletes it with its link, then removes the object and drops the error. `Abandon` ends
a request at any step. Answers are opaque; the form is taken to have a required field for files.

A file stands for its key: work, request id and name (`service_files.go:58`). The id is the one the client sends as
X-Request-ID (`httpserver/middleware.go:32`), or a new one, so the same key may come again: the upload then
overwrites the object, its insert fails on the unique key (deleted rows keep theirs), and the clean-up removes
the object of the first row. An insert may also be committed and answered as failed. The history `doubtful` notes both,
and no guard reads it.

### Outbox (`outbox/dispatcher.go`, `repo.go`)

`due` is the sequence of events whose `available_at` has passed, in that order: the only role
of time. `Tick` releases stale locks, `Claim` takes the first `Batch` due PENDING events (locked
or not: the query does not look at `locked_at`), `Send` renders and posts one, `MarkSent` and
`MarkFailed` record it with the attempts read at the claim, `MarkLost` is a failed statement. A
failed post may have been delivered. `Stop` is a crash, a restart or a shutdown.

### ScoreSync (`score-sync.ts`, `repo_scores.go`, `service_scores.go`)

The queue has one record per score (`slot`); a page's flush is followed through each of its
IndexedDB transactions: `Flush` (read), `MarkSyncing` (write, and the request leaves), the server's
`Admit` (`scoringEditable`, `EnsureScoreSheet`) and `ApplyScoreMutation` (one transaction under the
sheet's advisory lock), then `Acknowledge` with `ReadReplacement` and `RebaseReplacement`, or
`ReadFailed` and `WriteFailed`. `pen` is `doEnqueue` between its read and its write. `listContext`
and the `getMutation` right after it are one read. `NetworkFails` covers every way not to get an
answer, and moves a request that may still arrive to `late`. `Reply` and `Effect` give the answer
and the effect of one request: a receipt, a success at the base revision, a conflict, or the
failure that follows a deleted sheet. A second `JuryScoreSync` (another tab, or `stop` and `start`
of the scorecard) is a second page. `saved`, `applied`, `regressed` and `wiped` are history
variables: no guard reads them.

### Attendance (`lectures/repo.go`, `service.go`, `code.go`)

`lecture`, `code` and `attendance` are the tables; `credited` sums the LECTURE_ATTENDANCE entries of
`points_ledger` for a lecture and a participant; `scan` follows each `ScanAttendance` from
`BeginScan` (`Verify`, which fixes the moment the whole scan judges by) through its statements:
`LockLecture` (FOR SHARE), `LockCode` (FOR UPDATE), `CheckNew` (the look for an attendance and at
`used_at`), `Insert` or, when ON CONFLICT finds a row, `InsertNothing`, and `Commit`. `Pending` is the wait
at the unique index for a row that is not committed. Locks and writes end with `Commit` or
`EndScan`, which is every refusal and every failure. An edit of a lecture waits for the scans that share
it (`Shared`). `IssueCode` is `CreateCode` with its purge of codes expired a day ago. The attendance
window, directions and the statuses of participant and contest only decide refusals and are left
to the choice of `EndScan`.

### TaskReview (`eventtasks/repo.go`, `service.go`, `service_files.go`)

| variable | table |
|---|---|
| `task` | `event_tasks`: status, allowed kinds of evidence, window, cover |
| `submission`, `attempt` | `event_task_submissions` and its attempts, each with the one asset that matters |
| `ledger` | the number of `points_ledger` entries with the key `task-reward:<submission>` |
| `stored`, `admitted` | objects in storage; participants who are ACTIVE in an ACTIVE contest |
| `clock` | now, in as many instants as windows can tell apart |

`ParticipantSubmit` begins a request that fixes its moment; `CheckTask` and `CheckExisting` are the
reads before the upload, `PutImage` the upload; `LockTask` (FOR SHARE), `LockSubmission` (FOR UPDATE)
and `CommitAttempt` are the transaction, which checks again; `Answer` is the read after the commit, and
`RemoveUploaded` the clean-up of every failure, that of the read after the commit included. `Moderate`
begins a decision, `LockDecision` takes the submission, `Approve` and `Reject` write it with its
credit. A catalogue edit waits for the transactions that share the task (`Shared`). The cover is replaced
by an upload, the look at the old key (`ReadCover`), `SetImage` and the removal of what is not named any
more. `SetImage` may take effect and be answered as failed: the clean-up then removes the image the row names, which
`unsure`, a history variable, notes. `Fail` is an error of the statement at hand, `Crash` the end of the process.

### LiveSession and Lives (`evaluation/service_live.go`, `repo_live.go`, `hub.go`, `service_lives.go`, `repo_lives.go`)

`session` is the row of `evaluation_sessions` with `running` and `paused` for its two timestamps, `performance` the
performances' statuses, `order` the draw. `Command` reads and copies the session and decides on the copy. Then come
the statements the command runs outside the saved row, one step each and in no transaction: the time of a speech
(`RecordSpeech`), the performances (`FinishOpenPerformances`, `UpsertFinished`, `ListLiveContestants`, `UpsertLive`,
`EnsureReady`), and a restart's `RestartPerformances`, `CutLifeEvents`, `DeleteLifeEvents` and `DeleteAnswerMarks`.
`FirstStatement` says where a command begins. A command may stop between any two, and what it has written stays.
`SaveSession` writes the decided copy (`Written`) if the revision is still the base the client sent, `Publish` tells
the hub. `ReplaceDraw` looks whether a draw is still allowed; `StoreDraw`, `SetCurrentContestant` and
`BumpSessionRevision` are its three statements; `ResetRuntime` is the reset's transaction. A watcher's channel holds
`Buffer` events; `Subscribe` puts it into the hub before the hello is written; `Receive` is a client that reads one
event and fetches the session again. `Crash` empties the hub and ends every request.

`mark`, `event` and `key` are the lives tables; an event has the id of its row (`rows` is the newest). A jury request
looks for an open miss and at the lives left (`LookWrong`, `LookRestore`) and inserts (`InsertLifeEvent`) in separate
steps; setting an answer writes the mark and goes on to `SyncLifeForMark`; a new key or plan writes keys and count, lists the
operator's marks and brings them in step one by one (`SyncNext`). Nothing serialises these requests, and nothing does in the
model: any number may overlap with each other, with commands and with resets. An insert that reverses an event whose row
is gone fails on its foreign key. The reads of one check (key, open miss, events) are one step, and every step of another
request may come between it and the insert. That is an abstraction: the code reads them one after another. What a restore
reverses is decided by the open miss alone and whether a life is left by the events, read last; what changes between the
reads is for the code a change between check and insert, and for the properties the same exception (a crossing, a touch),
but the model has no step there.
`ViewerLives` is the sum the checks use, `ApplyLifeEvents` the fold the board shows.

Two histories, which no guard reads, say when a promise cannot hold. `crossed` has the authors and contestants
whose events changed while a request had decided on them and not inserted yet, or lost some of their number or a
link (a restart that stopped or came twice); deleting all events empties it. `stirred` has, for each
request that brings a question in step, the contestants about whom another request has changed a key, a mark or an event
of the operator's since the marks were listed.

### Sheet and Standings (`evaluation/repo_scores.go`, `service_scores.go`, `service_override.go`, `service.go`, `service_numeric.go`, `service_stage.go`, `lives.go`)

`value`, `sheet` and `receipt` are `score_values`, `score_sheets` and the mutations' receipts;
`page` is what the jury's screen last saw, `sent` what a mutation id was first sent with.
`JurySetScore` is the handler's checks; then one transaction under the sheet's advisory lock: the
receipt (`ExistingScoreReceipt`), a conflict of revisions (`RevisionConflict`), the score
(`WriteScore`), the sum read (`SumTotal`) and the total written with the commit
(`ApplyScoreMutation`). A correction is `OverrideCriterion`, `ReplaceScore`, `SumTotal` and
`RefreshSheetTotal`, each committed alone. `EditCriterion` and `UpsertScheme` change the scheme under them, and
`ResetChallengeRuntime` deletes sheets and keeps receipts. `adrift` is a history variable: it notes the steps
after which nothing promises that the total is right.

`Standings` has no state: places by score, places of a knock-out, the boards of the scheme types and
the combined ranking of a stage and its remote part, as functions of a table. `SheetMC` compares them with
second definitions on all small tables when its run begins (`OlympicPlaces`, `UnscoredLeftOut`,
`FromTheEnd`, `BothStagesCount`, `SheetsAddUp`, `LivesEnd`).

### Sessions and Staff (`auth`, `middleware`, `useradmin`, `eventpermissions`, contests' people)

`account`, `roles`, `session` and `token` are `users`, `user_roles`, `auth_sessions` and `refresh_tokens`; `access` is
what refreshes have signed, `dropped` the accounts whose revocation failed (the code drops that error). `Login` is the
password check, `RolesByUser` and `IssueSession` the statements after it. `Refresh` is one transaction,
`RotateRefreshAtomically`: a token that was used ends its session, one whose session is over is refused; the role is
read afterwards (`PrimaryRole`: the account's rows; `MintTokenPair`: whether it is a remote juror), in statements of
their own. Either read may fail, and the error is dropped (`auth/service.go:118`, `:125-131`): without rows the role
is CONTESTANT, or JURY when the other read answers yes; a failed second read counts as no. Who is a remote juror
(`remoteJury`) is data of the evaluation that changes at any time and revokes nothing (`ChangeRemoteJury`). The
history `unsure` has the sessions that met one of these. A revocation (`SeeSessions`, `FinishRevoking`) sees the
sessions and tokens there are when its statement begins and takes effect later, after the rotations it waited for.

In `Staff` an operation is the organiser's check (`CanManageUser`, `EnsureCanGrant`,
`EnsureCanPermit`, `CanAttachExisting`), then its write (`SetPassword`, `StoreStatus`,
`StoreRole`, `DeleteRole`, `DeletePermissions` with `InsertPermissions`, `AttachContestant`), then, where
the code has it, the revocation. Whether a MEGA_ADMIN made a grant is kept with it, for the property only.

### Contest, Challenges, Participants and Event (`contests`, `challenges`, `eventparticipants`)

`Contest` has the status, `allowedTransitions`, and the pool of requests: a request is a kind, the next
statement, what it has read and what it was given. `Challenges` adds the form (`form`), its versions
(`snapshot`) and the briefings. An edit of a field is `BeginEdit` (which reads the challenge),
`WriteField`, and, when the challenge was PUBLISHED as read, `BumpSchemaVersion`, `SchemaJSON` and
`SaveSnapshot`; a publication is `BeginStatus`, `SetChallengeStatus`, `SchemaJSON` and
`SaveSnapshot`; a copy is a row and then field by field. A briefing's file is an object (`PutBriefingFile`),
its row (`InsertBriefingFile`; `filed` has the keys that have one, which are unique) and the link to the briefing
(`LinkBriefingFile`), and `RemoveObject` is the clean-up; a deletion takes the link and then the object. A key is the
challenge's and made of the client's X-Request-ID, size and name (`handlers_briefing.go:156-160`), so it may come again, as
in `Submissions`; `doubtful` notes it, and a link that was made and answered as failed. `ensureContestantChallenge` is the
rule for one challenge and `ListForContestant` the query that lists them. `loose` notes the
challenges whose form was changed by a request that keeps no version of it (it read a status other than PUBLISHED).

`Participants` adds the list, the import (`BeginImport` finds the row as `FindByCard` and `FindByNameBirth`
do, `UpdateImported` writes it with `keepKnown`), signing in by name, card or VK profile, and
sessions. `SetPersonStatus` writes the status and ends the sessions in one transaction. `Event` is the
composition: one contest, its challenges, its participants, one pool of requests.

## 4. Runs, bounds and fairness

| run | instance | states | shows |
|---|---|---|---|
| `merch` | 2 participants, 1 product, 2 orders, 2 adjustments, quantity up to 2, stock up to 3 | 242 066 | stock, holds and ledger in step with the orders (`StockAccounting`, `PointsFollowOrder`), no overspending (`NoOverspend`), waiting orders can be issued, statuses show the stock, terms are fixed |
| `merch_tx` | 2 sessions, 1 participant, 2 products, 2 keys | 1 271 484 | `Serialisable`: every interleaving of statements is a behaviour of `Merch`; `ChecksStillHold` at the write |
| `submissions` | 3 requests, 2 answers, 1 key of files, 2 revisions | 167 558 | `RevisionsComplete`, `RevisionsImmutable`; `ShownFilesStored` of the keys that are not `doubtful` |
| `outbox` | 2 events, batches of 1, 3 attempts, 2 restarts | 24 642 | `SentWasDelivered`, and that every event settles |
| `score_sync` | 1 page, 2 edits, 2 rebases, 1 correction, 1 reset, 1 late request | 95 272 | `AppliedOnce`, `AcknowledgedWasApplied`, `OrderKept`, `Drains` |
| `sheet` | 2 requests at a time, 3 in all, 2 criteria, 2 mutations, 1 reset | 6 576 156 | `TotalsAgree`, `ReplacesWhatItSaw`, and `Standings` against its second definitions |
| `attendance` | 2 lectures, 2 participants, 3 codes, 2 organisers, 2 values of points | 1 564 595 | `CreditedOnce`, `CodesShowAttendance`, `AttendedWhileOpen` |
| `tasks` | 1 task, 1 participant, 2 requests, 2 objects, 2 attempts | 4 433 100 | `RewardedOnce`, `AttemptsAgree`, `AttemptAdmitted`, and `CoverStored` unless `unsure` |
| `live` | 2 contestants, 2 requests, 1 watcher with a channel of 1, 4 revisions | 7 477 349 | `CommandsSerialise`, `TimerMatchesState`, `WatcherWillSee` |
| `lives` | 1 contestant, 1 jury member who is the operator, 2 questions, 3 life events, 2 requests, with the commands of `Commands`: the step to another question and the reset | 5 858 871 | `BoardMatchesChecks` unless `crossed`, `SyncSettles` unless `stirred` or `crossed` |
| `staff` | 1 account, 1 session, 3 tokens, 2 organisers, 2 requests, 2 operations | 3 848 505 | `OneLiveToken`, `OverStaysOver`, `RefreshedRoleCurrent` (within what failed reads can sign), `RealmsApart` |
| `events` | 2 challenges, 2 fields, 2 participants, 2 requests, 3 changes | 2 360 839 | `SnapshotCurrent`, `AccessibleIsListed`, `LinkedFileStored` of the keys that are not `doubtful`, `BlockedStartsOver`, `ImportKeepsKnown` |

The type invariants of `Merch`, `Attendance`, `TaskReview`, `Staff` and `Submissions` are proved
(section 6); each of the others is a definition that holds when it is added to the INVARIANTS of its cfg.

**Bounds.** Shop: `MaxQty` is the largest quantity considered (99 in the code): 2 units suffice for two different
carts, a sold-out shelf, a shelf with one unit left, and a balance too small for the second order. Two orders and two
participants are the least with which somebody takes a unit or a point somebody else counted on; two products with two
sessions give every order of row locks. Submissions: `MaxRevision` 2 gives SUBMIT, RESUBMIT and two requests for one
number, and three requests an upload and a deletion in the middle; one key is what requests can meet on (files never
look at each other's keys). Outbox: `MaxAttempts` 3 (6 in the code) separates the first, a middle and the last
failure; `MaxCrashes` bounds restarts so that fairness can speak of the time after the last; a batch of one with two
events makes one wait behind the other. ScoreSync: `MaxEdits` 2 is an edit and its replacement, `MaxRebases` 2 (5 in
the code) a conflict that is rebased and one that is given up (the counter stops at the limit, which changes nothing
that reads it), `MaxOverrides`, `MaxResets` and `MaxLate` one thing each that another actor does in between.
Attendance: three codes and two participants give two codes of one person, scanned at once, beside a third, and two
lectures a place to show a used code again.

Sheet: `MaxStarted` 3 gives two overlapping requests and one after them, of the jury, of a corrector or about the
scheme; two criteria are what a sum can miss one of, two mutations a repeat beside a newer one. TaskReview:
`MaxAttempt` 2 is an attempt after a rejection, `MaxClock` 1 a window that has ended when a request is checked and one
that has not; two objects give a replacement. LiveSession: `Buffer` 1 (8 in the code) is the smallest channel, so that
an event is dropped as soon as two come; `MaxRevision` 4 gives two commands after one another with two that fail to
save between them; two contestants give a next one; `OldPages` FALSE says that a command's page shows the revision the
command reads, and the configuration with TRUE is in section 5. Lives: `MaxEvents` 3 is a miss, its reversal and
another miss; `Commands` are the commands that requests about lives meet in a run. With all the others the states are
too many for one run; a restart's statements are in `live`, and the theorems of section 6 are about every command.
Staff: `MaxFailed` 1 (the code's limit is larger) makes a lock reachable, three tokens are two rotations of a chain,
one account is one user with a MEGA_ADMIN and a SUPER_ADMIN, who has a realm, and `MaxChanges` 2 lets one organiser's
operation overlap another's. Event: `MaxChanges` 3 is a creation and two requests that overlap over it, `MaxVersion` 3
the versions these can make, `MaxClock` 1 a briefing published before and after its time, `MaxBriefingFiles` 1 a full
briefing.

Symmetry is declared only over sets whose members nothing tells apart, and only in runs without liveness.

`CHECK_DEADLOCK FALSE` is said where everything may be over: a finished contest with all orders
decided, all events settled, an empty queue with no edit left, deleted lectures and expired codes, a session
or a contest whose bound of revisions or changes is used up. In `Submissions` the window always
may move, so the check stays on.

**Fairness.** Safety properties need none. `Outbox`: weak fairness of the dispatcher's steps (the
ticker fires and the goroutine runs), of `Start` (pm2 restarts the process) and of the end of a
backoff; strong fairness of `Claim`, `MarkSent` and `MarkFailed` of each event: a database that
fails statements does not fail the same one every time it is tried. `Tick` is fair only while
Telegram is enabled, so `EveryEventSettles` assumes that it stays enabled. `ScoreSync`: weak fairness
of `Flush` (the page's timer; after a reload the page is opened again) and of each step of a flush;
strong fairness of those that a reload or a failure of the network can cut off, since neither
happens every time. There is none for edits, corrections, resets, opening the scoring, the retry
button or late requests: these may never happen. Nothing else is driven by the system itself: every other
request is somebody's, who may give up, so no other module states fairness.

## 5. What disagrees with the documents

Each of the following configurations is kept beside the runs and ends in a counterexample.

| configuration | property | what disagrees |
|---|---|---|
| `MerchDeadlock.cfg` (`MerchTxMC`) | `NoDeadlock` | `work_user_func.md:457-458` asks for a stable lock order. `Reserve` locks the participant, then the products; `Issue` locks the products, then (by foreign key) the participant. PostgreSQL aborts one of the two; nothing is corrupted |
| `SubmissionsFiles.cfg` (`SubmissionsMC`) | `RevisionFilesKept` | `SITE.md:752` says a file of an old revision does not disappear. `DeleteFile` removes the object whatever revisions name it |
| `OutboxTwice.cfg` (`Outbox`) | `NotSentTwice` | `docs/ADR/0005-outbox.md:8` says an event must not be lost or duplicated. It is not lost; it can be sent twice, when the process stops or `MarkSent` fails after the post |
| `ScoreLostEdit.cfg` (`ScoreSync`) | `LastEditKept` | `cursor_competition_evaluation_live_spec.md:995-997` says an unsynchronised local value must not be lost. A flush reads the record and writes it back in two IndexedDB transactions; an edit stored between them is overwritten by the one before it and never sent |
| `ScoreReset.cfg` (`ScoreSync`) | `RetryIsAnswered` | `repo_scores.go:20` keeps a receipt for offline retries. A reset deletes sheets and keeps receipts; the repeat of a mutation applied before it is answered with 500 for ever, and the record stays in the queue |
| `LiveOldPage.cfg` (`LivesMC`) | `OldPageChangesNothing` | `cursor_competition_evaluation_live_spec.md:2549-2561` has a command with an old base revision end in a conflict. It does, at the save; the performances and life events it has written by then stay |
| `EventImport.cfg` (`EventMC`) | `ImportClearsNothing` | the comment at `service_import.go:158` says an empty cell does not clear what is known. It does not clear what the import read; what an edit stored between the read and the write is lost |

Three more show why a property of section 4 has an exception:

| configuration | property | what happens |
|---|---|---|
| `SubmissionsRepeat.cfg` (`SubmissionsMC`) | `AllShownFilesStored` | an upload is repeated with the same X-Request-ID and name. The second insert fails on the unique key and `submissions/service_files.go:81` removes the object of the row that is shown. The portal's own pages send no X-Request-ID, but the server takes whatever comes |
| `EventRepeat.cfg` (`EventMC`) | `AllLinkedFilesStored` | the same for a briefing's file, at `challenges/service_briefing.go:209` |
| `LivesOverlap.cfg` (`LivesMC`) | `AllBoardsMatchChecks` | two requests of a jury member decide on the same events and both take a life: the sum the checks use goes below zero, the board stops there, and after a life is given back they disagree |

`AttemptImagesStored` of `TaskReview` fails too, against `0014_event_tasks.up.sql:101`: when the read after
the commit (`repo.go:282`) fails, the clean-up removes the images of the attempt that was just committed.

The two of `ScoreSync` are why `OrderKept` speaks of steps before `regressed` and `wiped`:
after a lost edit, or when a deleted score begins again at revision 1, an older edit can replace a newer
one. `Drains` likewise assumes that results are not reset.

Met while modelling, and part of the models without a property that says otherwise:

- Live: the draw's three statements can interleave with `Start`; `SetQuestionCount` keeps the revision, so a command's
  save can undo it. A command that stops between its statements, or ends in a conflict, leaves those it ran.
- Lives: a restart that stops after its first statement, or a second one that comes after new events, leaves events whose
  links are cut, so that a mistake that was given back can be given back again. An operator's mark that overlaps
  a new key may be left out of step by both.
- Tasks: when the statement that writes a cover takes effect and its answer is lost, the image that is named is
  removed (`eventtasks/service_files.go:168`).
- Sheet: a correction's total can be older than a mutation it overlapped, a new weight refreshes no total, a deleted
  criterion still counts in cached totals (`adrift`); a score deleted and set again restarts its
  revisions (`lapsed`). Switching a challenge to REMOTE_CRITERIA makes its jurors remote jury of the whole contest.
- Standings: in SCORE_SUM a knock-out counts lives only, so the order of elimination is lost; when all are out, the last
  to fall share the place that is their number, and nobody is first.
- Accounts: a login that had passed its check gets a session after a block or a new password has revoked the others; a
  lost answer of `/refresh` logs the user out at the next use; a failed read of the roles signs a token that says
  CONTESTANT or JURY whatever the account has; who stops being a remote juror keeps the role until the next refresh;
  concurrent replacements of permissions are merged, a removed STAFF role leaves its permissions; `AddContestant` can
  stop half way.
- Contests: the status is written without a second look, so overlapping transitions can bring an archived contest
  back. A form edited while CLOSED and published again keeps the snapshot it had under that version.
  `UploadBriefingFile` can overwrite a concurrent hide and exceed `MaxBriefingFiles`; clearing an override leaves its
  objects in storage; a copy can stop half way.

## 6. Proofs

Every invariant and every action property that a run checks is also a theorem. Each holds for any sets
and bounds that satisfy the named ASSUMEs of the modules it is about, which TLC evaluates in the runs.

| module | theorem | property |
|---|---|---|
| `MerchProofs` | `ShopCorrect` (with `TypeCorrect`) | the inductive invariant `ShopInv` |
| | `StockSafe`, `PointsSafe`, `ReferencesSafe`, `StatusSafe` | `StockAccounting`, `PointsFollowOrder`, `ReferencesStand`, `StatusShowsStock` |
| | `Fulfillable`, `TermsFixed` | `ReservedCanBeIssued`, `OrderTermsFixed` |
| | `NeverOverspent` | `NoOverspend` |
| | `TxCorrect` (with `TxTypeCorrect`) | the inductive invariant `TxInv` of the statements |
| | `ChecksHold` | `ChecksStillHold` |
| | `SerialisableTx` | `Serialisable`: `TxSpec` implements `Merch`'s `Spec` |
| | `TxNeverOverspent`, `TxStockSafe` | the shop's invariants, for the statements |
| `SubmissionProofs` | `WorkCorrect` (with `WorkTyped`) | the inductive invariant `WorkInv` |
| | `RevisionsSafe`, `ShownSafe`, `ImmutableSafe` | `RevisionsComplete`, `ShownFilesStored`, `RevisionsImmutable` |
| | `DispatchCorrect` | the inductive invariant `DispatchInv` of the outbox |
| | `SentSafe`, `DeadSafe`, `SettledSafe` | `SentWasDelivered`, `DeadGaveUp`, `SettledStays` |
| `LiveProofs` | `LiveCorrect` | the inductive invariant `LiveInv` of the session |
| | `TimerSafe`, `WatcherSafe`, `SavedSerially` | `TimerMatchesState`, `WatcherWillSee`, `CommandsSerialise` |
| | `LivesCorrect` | the inductive invariant `LivesInv` of the lives, for any number of overlapping requests |
| | `BoardSafe`, `SyncSafe` | `BoardMatchesChecks`, `SyncSettles` |
| | `QueueCorrect` | the inductive invariant `QueueInv` of the score queue |
| | `OnceSafe`, `LeavingSafe`, `OrderSafe` | `AppliedOnce`, `AcknowledgedWasApplied`, `OrderKept` |
| `StandingsProofs` | `SheetCorrect` (with `SheetTypeCorrect`) | the inductive invariant `SheetInv` |
| | `TotalsStandFirm`, `NothingUnseenReplaced` | `TotalsAgree`, `ReplacesWhatItSaw` |
| | `PlacesInRange`, `PlacesFollowScores`, `SharedPlacesSkip`, `MorePointsNoWorsePlace` | of `competitionRanks` |
| | `StandingAheadOfOut`, `LastedLongerStandsAhead`, `MoreLivesStandAhead` | of `eliminationRanks` |
| | `MoreInBothStagesIsAhead`, `HigherInBothStagesIsAhead` | of `combineStandings` |
| `AttendanceProofs` | `ScansCorrect` (with `AttendanceTyped`) | the inductive invariant `ScanInv` |
| | `CreditSafe`, `CodesSafe`, `OpenSafe` | `CreditedOnce`, `CodesShowAttendance`, `AttendedWhileOpen` |
| | `VersionsAreCurrent`, `FilesDownload`, `OpenIsListed` | `SnapshotCurrent`, `LinkedFileStored`, `AccessibleIsListed` |
| | `BlockedStartOver`, `ImportKeeps` | `BlockedStartsOver`, `ImportKeepsKnown` |
| `TaskProofs` | `ReviewCorrect` (with `TaskTyped`) | the inductive invariant `ReviewInv` |
| | `RewardSafe`, `AttemptsSafe`, `AdmittedSafe`, `CoverSafe` | `RewardedOnce`, `AttemptsAgree`, `AttemptAdmitted`, `CoverStored` |
| `SessionProofs` | `StaffCorrect` (with `StaffTyped`) | the inductive invariant `StaffInv` |
| | `ChainSafe`, `OverSafe`, `RolesSafe`, `RealmsSafe` | `OneLiveToken`, `OverStaysOver`, `RefreshedRoleCurrent`, `RealmsApart` |

**Sums.** A balance, a price and a total are sums over a finite set by the library's fold, which takes one
element away at a time. `SumTheorems` proves what the others need: a sum changes by what one summand changes by,
is not larger when no summand is, does not depend on what is not summed. The induction is over the
subsets of the set. The library's induction theorems take an operator for the property, which the provers cannot
instantiate; `SetInduction` takes the set of subsets that have it, and `WFMin`'s smallest counterexample does
the rest. The board of lives is a fold of the same kind (`BoardsAgree`).

**The shop.** Assumptions: finite sets of keys and products (the tables are finite), positive prices and natural
stocks (the handlers' validation), fresh names for "none". `TypeCorrect` is inductive by itself, once
the guards on row counts are seen to keep quantities natural (`RowShapes`).

The other invariants are not inductive one by one. `StockAccounting` alone does not say that a product an
order waits for still exists, so `CreateProduct` could set `reserved` to 0 under a waiting order:
`ReferencesStand` excludes that. `StatusShowsStock` needs the reserved units to fit the stock, or
a status computed by comparing the two for equality says nothing. `ShopInv` joins types, `Shelves`
(stock accounting and statuses, shelf by shelf), `PointsFollowOrder` and `ReferencesStand`. `UnitsHeld`
writes the promised units as a set of pairs, so that the argument about stock is one about
cardinalities: a reservation adds a disjoint interval of pairs, a decision removes one, and a
waiting order's own units are a subset of all (hence it can be issued). There is a lemma per
action and invariant, then the temporal step.

Points are sums. `NoOverspend` needs its twin: `Solvent` also bounds the balance by what was earned and not spent, because that
is the number a reservation compares its price with. A correction downwards lowers the balance
and leaves what was earned; an issue moves an order's points from the holds to what is spent.

**The shop's statements.** `TxInv` says at which stage which locks are held (`LocksHeld`), and that what a transaction has read
under them is still so (`ReadingsHold`): the order is still waiting, the participant is active, the
balance and the stock suffice. Every other session's write is excluded by a lock it would need, by the
KEY SHARE that its foreign key would need, or leaves that row alone. `ChecksHold` is then immediate, and a commit is an
action of `Merch`. The refinement maps every variable to itself but `open`: a reservation
that saw the contest open may commit after it was closed, so in the order in which `Merch` sees things the
contest closes after the last of these. Every other statement maps to a stutter.

**Submissions.** Nothing is locked, so `WorkInv` says what survives without a lock. The revision a request counted
from is not larger than the work's (`Staged`): with `RevisionsComplete` this makes the number the insert tries either
taken, and then the transaction fails, or the next one. A file being uploaded has no row and is in one request's hands
(`UploadsApart`) unless its key is `doubtful`, and the object a deletion removes belongs to a deleted row. `WorkMove`,
`FileMove` and `CommitStep` are the three ways a step can change the state; each action is shown to be one of them.

**Outbox.** `MarkFailed` writes the attempts that were read at the claim. `HeldOnce` says why that is right: what is
in the batch or in hand is still PENDING with the attempts it was claimed with, each event once. Were there two
dispatchers it would not hold.

**Live session.** `CopiesKept` says of a copy that waits to be saved that timer and state agree in it (`OneStory`), that its
command was allowed in its state, and that it is still the session, in all that commands decide on, as long as the
revision is the one it has (`Current`). So what is saved is a session whose timer and state agree again. `LiveInv` joins it
with the watchers' property.

**Lives.** Nothing is assumed of how requests overlap. `EventsRight`: ids are unique, and a reversal is of the same
author and contestant. `BoardRight`, of an author and a contestant that are not `crossed`: the minuses are the pluses
and the mistakes not given back, never more than the lives, and the board's fold agrees (`AddUp`); and whatever a
request is about to insert still fits (`Fits`). A step that inserts for them while another request is due makes them
crossed, and so does one that cuts a link, so every other insert meets the events it was decided on. `SyncInv`: while
a question is brought in step, the operator's marks about a contestant nobody has touched are settled, about to be, or
still on the list (`Syncs`), and each contestant has one mark (`MarksOne`). `CrossedHave` says that only pairs with
events are crossed: a deletion of all events ends the exception.

**Score queue.** `AppliedOnce` holds because a receipt is written with the effect (`ReceiptsRight`). `OrderKept` does
not follow from the state of the table: it is about requests that may arrive later. `Overtaken` says of every request
that a page waits for or that still travels that, when a newer edit has been applied, its base is behind the table's
revision, so that it ends in a conflict. When a request leaves, no newer edit is known: the page has just put its
record into the queue, and putting back one that is behind `saved` is what `regressed` notes. A correction by an
administrator only raises the revision, and a deletion, which starts revisions again, is `wiped`. An answer "ok" comes
only with the effect or its receipt, which gives `AcknowledgedWasApplied`. The proofs hold for any number of pages.

**Score sheets.** `SheetInv` follows the sheet's advisory lock: at most one request has an uncommitted score
(`OneWriter`), and a sum it has read is the sum still (`SumsStand`), unless a correction, which takes no lock, has
been crossed by another write, which the model notes (`crossed`, `adrift`). So the cached total is the sum unless
`adrift` (`TotalStands`). What a mutation was based on is what its page saw (`ViewsFresh`, `BaseHolds`);
`RevisionsPaid` keeps revisions from running out of the model's numbers: each was paid for by a request.

**Standings.** A place is one more than the cardinality of a set of contestants, so each theorem compares two
sets: a contestant with more is ahead of a larger one. Assumptions: `NoneIsNoNumber`, finitely many contestants,
positive weights.

**Attendance.** `CreditedOnce` says nothing of scans that have inserted and not committed, so it does not survive a
commit by itself. `ScanInv` adds what a scan in progress may rely on: the lecture it has locked is as
it read it (`ScansSeeLectures`: why an edit must wait), its code is kept, unused and in no
attendance (`ScansHold`), and no two scans hold one code or have inserted for one participant and
lecture (`ScansApart`: the row lock and the unique index). `ScanMove` states once what the new state of
a scan must satisfy, and each statement of `ScanAttendance` is shown to satisfy it; `CodeUsed` is what
`InsertNothing` and `Commit` share.

**A contest's requests.** All kinds of request share one pool, so first `RequestsRight`: a request stands at a
statement of its own kind. A step of one kind (`OnlyOf`) then leaves the claims of the others alone, and each property
has an invariant of its own. `FileInv`: unless the key is `doubtful`, the object a request is about to link is stored
and in nobody else's hands, and what it is about to remove nothing links. `RowsInv`: the columns the listing reads
agree with those the rule reads. `PeopleInv`: whoever is about to write a row or make a session names somebody, and a
live session is somebody's. `VersionsInv`: a published challenge's newest version is the form, or a request is under
way that has not read the form yet or has read it as it is (`Held`), or is about to raise the version (`Bumping`), or
the form was changed by a request that keeps no version (`loose`).

**Tasks.** The argument is in two parts. `ReviewInv` is about rows: what a request with a lock has checked still holds
(`LocksRight`, `SharesRight`), no two hold one submission, a submission without attempts has no status
(`SubmissionsRight`), attempts follow it (`AttemptsFollow`), and rewards follow approvals. `KeysInv` is about
objects: the key a request has stored is in no other request and in no task (`OwnKeys`), the old cover it will
remove is no task's by then (`PreviousKeys`, `CoversApart`), what a failed request takes back is named by `unsure`
tasks only (`UndoneKeys`), and what a row is about to name is stored (`UploadedFirst`), whence `CoverStored`.

**Accounts.** `RequestsRight` says of each request at each stage what its checks have established and nothing can have
taken back (`Staged`, `Realm`). `RolesFollow` is `RefreshedRoleCurrent` with the requests that have read a role and
not signed it yet (`Awaits`): the argument that reading the role after the rotation, and revoking after the write,
leaves no gap. A session in `unsure` may tell any role of `RolesHeld`, which the failed reads and a changed remote
jury can make of the account's rows, and no other. `AccountsFirst` and `SessionsFirst`: nothing is known of what was
not created. Adding somebody to a contest gives the role CONTESTANT and revokes nothing; `ContestantIsLowest` is why
no token becomes wrong by it.

**Model-checked only.** The two liveness properties, `EveryEventSettles` and `Drains`: the prover does not do ENABLED,
which fairness is made of. The comparison of `Standings` with its second definitions (`SheetMC`) over small tables;
the theorems above are about the first definitions alone. The counterexamples of section 5.

## 7. Plan

Done: the shop as transactions and as statements with the refinement between them; points; submissions; the outbox; the
score queue and the sheet it reaches; standings; the live session with its hub; lives; accounts, sessions and organisers; contests,
challenges and participants as one composition; lectures; tasks. Proved: everything of section 6.

Left, in order of importance:

1. `Outbox` composed with the commit of `Submissions`, so that "a revision is announced" is one liveness property
over both. 2. `Merch` as the abstract side of the credits of lectures and tasks: one set of rewards that only grows,
refined by `Attendance` and    `TaskReview`. 3. Several contestants in `Lives` and the operators' handover; the stage
link and numeric results as state, not only as tables.

## 8. Not modelled

`PROJECT.json` lists every component with its status. Not modelled at all: rendering and plain API calls of
the frontend, HTTP plumbing, configuration, hashing, presigned URLs and rate limiters (no protocol of their own);
the contents of the audit log (appends); deployment and backup scripts (run by hand).

A statement or commit that takes effect though its answer is lost is modelled where a clean-up or a repeat follows from it:
`Submissions` and `Challenges` (uploads), `TaskReview` (covers, and the read after an attempt's commit), `Outbox`
(`MarkLost`, and a failed post that was delivered), `ScoreSync` (`NetworkFails`). In the other modules such a request ends as a
success nobody hears of, which is the state after its commit: nothing in their code acts on the failure, and `Merch` answers the
repeat from its idempotency key.

Left out of a modelled part: product images and listings; saving targets in `MerchTx`; administrators' lists and
downloads of submissions; the history and the correction log of scores; signing in by Telegram (its statements are
those of VK); parsing of imported files (a row is a value); signatures of lecture codes; icons of tasks (as covers);
the operations of the stage link and of numeric results, of which the last write wins; the length of speeches; file
contents and types everywhere. The balance a participant is shown is summed by two statements outside a transaction
and can be torn for a moment; nothing is decided from it.
