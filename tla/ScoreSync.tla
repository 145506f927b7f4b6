------------------------------ MODULE ScoreSync ------------------------------
(***************************************************************************)
(* One score of one jury member on its way from the screen to the table    *)
(* score_values: the queue kept in the browser's IndexedDB, the pages that *)
(* empty it (frontend/src/entities/evaluation/score-sync.ts), the network, *)
(* and the handler that applies a mutation                                 *)
(* (backend/internal/modules/evaluation/service_scores.go, repo_scores.go).*)
(*                                                                         *)
(* The queue holds one record per score, so one record is modelled.  Each  *)
(* edit is a new mutation with an id and a value of its own: edits are     *)
(* numbered in the order they are made, 0 is no edit.  A page reads a      *)
(* record in one IndexedDB transaction and writes it in another.           *)
(***************************************************************************)
EXTENDS Naturals, FiniteSets

CONSTANTS
  Pages,          \* JuryScoreSync instances that can be alive at the same time
  MaxEdits,       \* bound on the edits the jury member makes
  MaxRebases,     \* conflicts after which a mutation is given up (5 in the code)
  MaxOverrides,   \* bound on the administrator's corrections
  MaxResets,      \* bound on the resets of the challenge's results
  MaxLate         \* bound on the requests still travelling that nobody waits for

ASSUME QueueBoundsNat == {MaxEdits, MaxRebases, MaxOverrides, MaxResets, MaxLate} \subseteq Nat

VARIABLES
  slot,       \* the record in IndexedDB
  made,       \* edits made so far
  pen,        \* the edit doEnqueue is about to write
  saved,      \* the newest edit IndexedDB has confirmed
  page,       \* what the flush of each page is doing
  late,       \* requests whose page no longer waits for them
  value,      \* the row of score_values
  sheet,      \* the row of score_sheets: which one, and whether it exists
  receipt,    \* evaluation_score_mutations by mutation_id
  open,       \* scoring is open
  overrides,  \* corrections made so far
  applied,    \* how often each mutation has changed the score
  regressed,  \* an edit in IndexedDB has been put back over a newer one
  wiped       \* an administrator has deleted the score, so its revisions begin again

queueVars == <<slot, made, pen, saved, page, late, value, sheet, receipt, open, overrides,
               applied, regressed, wiped>>
client == <<slot, made, pen, saved, regressed>>
server == <<value, sheet, receipt, open, overrides, applied, wiped>>

Edits == 1 .. MaxEdits
Revisions == 0 .. MaxEdits + MaxOverrides
Epochs == 0 .. MaxResets
Unadmitted == MaxResets + 1

NoRecord == [id |-> 0, base |-> 0, status |-> "NONE", rebases |-> 0]
Record == [id: 0 .. MaxEdits, base: Revisions,
           status: {"NONE", "PENDING", "SYNCING", "CONFLICT", "REJECTED"}, rebases: 0 .. MaxRebases]
Request == [id: Edits, base: Revisions, epoch: Epochs \cup {Unadmitted}]
NoAnswer == [kind |-> "none", revision |-> 0]
Ok(r) == [kind |-> "ok", revision |-> r]
Conflict(r) == [kind |-> "conflict", revision |-> r]
Closed == [kind |-> "closed", revision |-> 0]
Failure == [kind |-> "error", revision |-> 0]       \* HTTP 5xx
Silence == [kind |-> "silence", revision |-> 0]     \* no answer: NETWORK_ERROR
IdlePage == [at |-> "idle", mine |-> NoRecord, epoch |-> Unadmitted, answer |-> NoAnswer]
NoReceipt == [revision |-> 0, epoch |-> 0]
NoValue == [score |-> 0, revision |-> 0]            \* score 0: not a jury member's edit

QueueTypeOK ==
  /\ {slot, pen} \subseteq Record /\ {made, saved} \subseteq 0 .. MaxEdits
  /\ page \in [Pages ->
       [at: {"idle", "mark", "wait", "admitted", "answered", "replace", "put", "fail", "retry"},
        mine: Record, epoch: Epochs \cup {Unadmitted},
        answer: [kind: {"none", "ok", "conflict", "closed", "error", "silence"}, revision: Revisions]]]
  /\ late \subseteq Request
  /\ value \in [score: 0 .. MaxEdits, revision: Revisions]
  /\ sheet \in [epoch: Epochs, there: BOOLEAN]
  /\ receipt \in [Edits -> [revision: Revisions, epoch: Epochs]]
  /\ {open, regressed, wiped} \subseteq BOOLEAN
  /\ overrides \in 0 .. MaxOverrides /\ applied \in [Edits -> 0 .. 2]

QueueInit ==
  /\ slot = NoRecord /\ pen = NoRecord /\ made = 0 /\ saved = 0
  /\ page = [p \in Pages |-> IdlePage] /\ late = {}
  /\ value = NoValue /\ sheet = [epoch |-> 0, there |-> FALSE]
  /\ receipt = [e \in Edits |-> NoReceipt] /\ applied = [e \in Edits |-> 0]
  /\ open = TRUE /\ overrides = 0 /\ regressed = FALSE /\ wiped = FALSE

-----------------------------------------------------------------------------
(* The browser: edits. *)

Put(record) ==
  /\ slot' = record
  /\ regressed' = (regressed \/ record.id < saved)

\* getMutation of doEnqueue.  The scorecard gives a revision it has fetched before.
Edit ==
  /\ made < MaxEdits /\ pen = NoRecord
  /\ made' = made + 1
  /\ \E seen \in 0 .. value.revision :
       pen' = [id |-> made + 1, base |-> IF slot.id # 0 THEN slot.base ELSE seen,
               status |-> "PENDING", rebases |-> 0]
  /\ UNCHANGED <<slot, saved, page, late, regressed, server>>

\* putMutation of doEnqueue
Enqueue ==
  /\ pen # NoRecord
  /\ slot' = pen /\ saved' = pen.id /\ pen' = NoRecord
  /\ UNCHANGED <<made, page, late, regressed, server>>

-----------------------------------------------------------------------------
(* The browser: one page's flush. *)

PageGoes(p, stage) == page' = [page EXCEPT ![p].at = stage]
Reads(p, stage) == page' = [page EXCEPT ![p] = [@ EXCEPT !.at = stage, !.mine = slot]]
Rest(p) == page' = [page EXCEPT ![p] = IdlePage]

\* a mutant: a record whose page was closed while sending is taken for sent
FlushPending(p) ==
  /\ page[p].at = "idle" /\ slot.status = "PENDING"
  /\ Reads(p, "mark")
  /\ UNCHANGED <<client, late, server>>

\* listContext, then getMutation: the record is still the one listed
Flush(p) ==
  /\ page[p].at = "idle" /\ slot.status \in {"PENDING", "SYNCING"}
  /\ Reads(p, "mark")
  /\ UNCHANGED <<client, late, server>>

\* the record as it was read, whatever is stored by now; then the request leaves
MarkSyncing(p) ==
  /\ page[p].at = "mark"
  /\ Put([page[p].mine EXCEPT !.status = "SYNCING"])
  /\ page' = [page EXCEPT ![p] =
       [@ EXCEPT !.at = "wait", !.mine = [page[p].mine EXCEPT !.status = "NONE", !.rebases = 0]]]
  /\ UNCHANGED <<made, pen, saved, late, server>>

RequestOf(p) == [id |-> page[p].mine.id, base |-> page[p].mine.base, epoch |-> page[p].epoch]
Answer(p, answer) == page' = [page EXCEPT ![p] = [@ EXCEPT !.at = "answered", !.answer = answer]]

\* no answer arrives: the request or the answer is lost, or the request is still on its way
NetworkFails(p) ==
  /\ page[p].at \in {"wait", "admitted", "answered"} /\ page[p].answer # Silence
  /\ late' \in {late} \cup IF page[p].at = "answered" THEN {} ELSE {late \cup {RequestOf(p)}}
  /\ Cardinality(late') <= MaxLate
  /\ Answer(p, Silence)
  /\ UNCHANGED <<client, server>>

\* a mutant: the record is deleted without comparing its mutation_id
AcknowledgeAny(p) ==
  /\ page[p].at = "answered" /\ page[p].answer.kind = "ok"
  /\ slot' = NoRecord /\ Rest(p)
  /\ UNCHANGED <<made, pen, saved, regressed, late, server>>

\* deleteMutationIfCurrent, in one transaction; a newer record is looked at next
Acknowledge(p) ==
  /\ page[p].at = "answered" /\ page[p].answer.kind = "ok"
  /\ IF slot.id = page[p].mine.id THEN slot' = NoRecord /\ Rest(p)
     ELSE UNCHANGED slot /\ PageGoes(p, "replace")
  /\ UNCHANGED <<made, pen, saved, regressed, late, server>>

ReadReplacement(p) ==
  /\ page[p].at = "replace"
  /\ IF slot.id = 0 THEN Rest(p)
     ELSE Reads(p, "put")
  /\ UNCHANGED <<client, late, server>>

\* the replacement builds on the revision just acknowledged
RebaseReplacement(p) ==
  /\ page[p].at = "put"
  /\ Put([page[p].mine EXCEPT !.base = page[p].answer.revision, !.status = "PENDING"])
  /\ Rest(p)
  /\ UNCHANGED <<made, pen, saved, late, server>>

\* getMutation of handleSendError
ReadFailed(p) ==
  /\ page[p].at = "answered" /\ page[p].answer.kind # "ok"
  /\ IF slot.id # page[p].mine.id THEN Rest(p)
     ELSE Reads(p, "fail")
  /\ UNCHANGED <<client, late, server>>

\* counted up to the limit: more makes no difference
Rebased(n) == IF n < MaxRebases THEN n + 1 ELSE MaxRebases

Failed(record, answer) ==
  CASE answer.kind = "conflict" ->
         [record EXCEPT !.base = answer.revision, !.rebases = Rebased(@),
            !.status = IF Rebased(record.rebases) = MaxRebases THEN "CONFLICT" ELSE "PENDING"]
    [] answer.kind \in {"error", "silence"} -> [record EXCEPT !.status = "PENDING"]
    [] answer.kind = "closed" -> [record EXCEPT !.status = "REJECTED"]

\* putMutation of handleSendError
WriteFailed(p) ==
  /\ page[p].at = "fail"
  /\ Put(Failed(page[p].mine, page[p].answer))
  /\ Rest(p)
  /\ UNCHANGED <<made, pen, saved, late, server>>

\* retryFailed, at the jury member's request: a read and a write again
ReadRetry(p) ==
  /\ page[p].at = "idle" /\ slot.status \in {"CONFLICT", "REJECTED"}
  /\ Reads(p, "retry")
  /\ UNCHANGED <<client, late, server>>

WriteRetry(p) ==
  /\ page[p].at = "retry"
  /\ Put([page[p].mine EXCEPT !.status = "PENDING", !.rebases = 0])
  /\ Rest(p)
  /\ UNCHANGED <<made, pen, saved, late, server>>

\* the browser closes or reloads: what was not in IndexedDB is gone
Reload ==
  /\ pen # NoRecord \/ \E p \in Pages : page[p].at # "idle"
  /\ late' \in {late, late \cup {RequestOf(p) : p \in {q \in Pages : page[q].at \in {"wait", "admitted"}}}}
  /\ Cardinality(late') <= MaxLate
  /\ page' = [p \in Pages |-> IdlePage] /\ pen' = NoRecord
  /\ UNCHANGED <<slot, made, saved, regressed, server>>

-----------------------------------------------------------------------------
(* The server: JurySetScore checks and makes the score sheet in statements  *)
(* of their own, then ApplyScoreMutation is one transaction.                *)

EnsureScoreSheet == sheet' = [sheet EXCEPT !.there = TRUE]
Exists(epoch) == sheet.there /\ sheet.epoch = epoch
\* a mutant: receipts are not looked up
ReceivedNever(q) == FALSE
Received(q) == receipt[q.id] # NoReceipt

\* the row found under the sheet the request has been given
FoundRevision(q) == IF Exists(q.epoch) THEN value.revision ELSE 0
\* a mutant: the base revision is not compared
SucceedsOnAnyBase(q) == ~Received(q) /\ Exists(q.epoch)
Succeeds(q) == ~Received(q) /\ Exists(q.epoch) /\ q.base = value.revision

\* A receipt is read together with the total of its sheet, and fails if that is gone;
\* so does a value inserted for a sheet that is gone.
Reply(q) ==
  CASE Received(q) -> IF Exists(receipt[q.id].epoch) THEN Ok(receipt[q.id].revision) ELSE Failure
    [] Succeeds(q) -> Ok(value.revision + 1)
    [] OTHER -> IF q.base # FoundRevision(q) THEN Conflict(FoundRevision(q)) ELSE Failure

Effect(q) ==
  IF Succeeds(q)
  THEN /\ value' = [score |-> q.id, revision |-> value.revision + 1]
       /\ receipt' = [receipt EXCEPT ![q.id] = [revision |-> value.revision + 1, epoch |-> q.epoch]]
       /\ applied' = [applied EXCEPT ![q.id] = @ + 1]
  ELSE UNCHANGED <<value, receipt, applied>>

Admit(p) ==
  /\ page[p].at = "wait"
  /\ IF open
     THEN /\ EnsureScoreSheet
          /\ page' = [page EXCEPT ![p] = [@ EXCEPT !.at = "admitted", !.epoch = sheet.epoch]]
     ELSE UNCHANGED sheet /\ Answer(p, Closed)
  /\ UNCHANGED <<client, late, value, receipt, open, overrides, applied, wiped>>

ApplyScoreMutation(p) ==
  /\ page[p].at = "admitted"
  /\ Effect(RequestOf(p)) /\ Answer(p, Reply(RequestOf(p)))
  /\ UNCHANGED <<client, late, sheet, open, overrides, wiped>>

\* the same for a request nobody waits for
AdmitLate(q) ==
  /\ q.epoch = Unadmitted
  /\ IF open THEN EnsureScoreSheet /\ late' = (late \ {q}) \cup {[q EXCEPT !.epoch = sheet.epoch]}
     ELSE UNCHANGED sheet /\ late' = late \ {q}
  /\ UNCHANGED <<client, page, value, receipt, open, overrides, applied, wiped>>

ApplyLate(q) ==
  /\ q.epoch # Unadmitted
  /\ Effect(q) /\ late' = late \ {q}
  /\ UNCHANGED <<client, page, sheet, open, overrides, wiped>>

-----------------------------------------------------------------------------
(* The administrator. *)

\* UpsertScoreValue: a statement outside the jury's transactions, which counts on
OverrideScore ==
  /\ overrides < MaxOverrides
  /\ overrides' = overrides + 1
  /\ EnsureScoreSheet
  /\ value' = [score |-> 0, revision |-> value.revision + 1]
  /\ UNCHANGED <<client, page, late, receipt, open, applied, wiped>>

\* DeleteScoreValue: a score set after it starts from revision 1
OverrideWithNothing ==
  /\ overrides < MaxOverrides /\ value # NoValue
  /\ overrides' = overrides + 1
  /\ value' = NoValue /\ wiped' = TRUE
  /\ UNCHANGED <<client, page, late, sheet, receipt, open, applied>>

\* the receipts stay
ResetResults ==
  /\ sheet.epoch < MaxResets
  /\ sheet' = [epoch |-> sheet.epoch + 1, there |-> FALSE]
  /\ value' = NoValue /\ wiped' = TRUE
  /\ UNCHANGED <<client, page, late, receipt, open, overrides, applied>>

\* the session is finished, or put back to work
SwitchScoring ==
  /\ open' = ~open
  /\ UNCHANGED <<client, page, late, value, sheet, receipt, overrides, applied, wiped>>

-----------------------------------------------------------------------------
FlushStep(p) ==
  MarkSyncing(p) \/ Acknowledge(p) \/ ReadReplacement(p) \/ RebaseReplacement(p)
    \/ ReadFailed(p) \/ WriteFailed(p) \/ WriteRetry(p)

QueueNext ==
  \/ Edit \/ Enqueue \/ Reload
  \/ \E p \in Pages : Flush(p) \/ FlushStep(p) \/ ReadRetry(p) \/ NetworkFails(p)
                        \/ Admit(p) \/ ApplyScoreMutation(p)
  \/ \E q \in late : AdmitLate(q) \/ ApplyLate(q)
  \/ OverrideScore \/ OverrideWithNothing \/ ResetResults \/ SwitchScoring

QueueSpec == QueueInit /\ [][QueueNext]_queueVars

\* A page is open again in the end and its timer fires; it is not always closed before
\* its next step; the network does not lose every request, or every answer of one kind.
Fairness ==
  /\ WF_queueVars(\E p \in Pages : Flush(p))
  /\ \A p \in Pages :
       /\ WF_queueVars(FlushStep(p))
       /\ SF_queueVars(MarkSyncing(p))
       /\ SF_queueVars(Admit(p)) /\ SF_queueVars(ApplyScoreMutation(p)) /\ SF_queueVars(Acknowledge(p))
       /\ \A kind \in {"conflict", "closed"} :
            SF_queueVars(ReadFailed(p) /\ page[p].answer.kind = kind)
              /\ SF_queueVars(WriteFailed(p) /\ page[p].answer.kind = kind)

FairSpec == QueueSpec /\ Fairness
-----------------------------------------------------------------------------
(* Properties. *)

\* However often a mutation is sent, late or twice, it changes the score once: "a repeat
\* of one mutation must not change the value twice" (evaluation spec, 23).
AppliedOnce == \A e \in Edits : applied[e] <= 1

\* A record leaves the queue only when its own value has reached the server.
AcknowledgedWasApplied ==
  [][slot.id # 0 /\ slot'.id = 0 => applied[slot.id] > 0]_queueVars

\* As long as IndexedDB itself has not gone back, an older edit never replaces a newer
\* one in the table, whatever the network delays and the pages repeat.
OrderKept ==
  [][~regressed /\ ~wiped /\ value'.score # 0 => value'.score >= value.score]_queueVars

\* A queued edit is sent, or the jury member is told of a conflict or a refusal; nothing
\* waits for ever, as long as the results are not reset.
Drains ==
  [](sheet.epoch = 0) =>
    (slot.status \in {"PENDING", "SYNCING"} ~> slot.status \notin {"PENDING", "SYNCING"})

\* "The pending local value is not overwritten" (evaluation spec, 22 and 99): the newest
\* edit IndexedDB has taken is still queued there or has been applied.
LastEditKept == saved # 0 => slot.id = saved \/ applied[saved] > 0

\* "A durable idempotency receipt for offline retries" (repo_scores.go): a repeat of a
\* mutation that has been applied does not go unanswered for ever.
RetryIsAnswered ==
  \A e \in Edits :
    slot.id = e /\ applied[e] > 0 ~> slot.id # e \/ slot.status \in {"CONFLICT", "REJECTED"}
=============================================================================
