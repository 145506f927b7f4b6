------------------------------- MODULE Outbox -------------------------------
(***************************************************************************)
(* The delivery of submission events to Telegram: the table outbox_events  *)
(* and the one dispatcher that polls it, a goroutine of the API process    *)
(* (backend/internal/modules/outbox, backend/internal/app/background.go).  *)
(*                                                                         *)
(* Sending cannot be undone and nothing ties it to the row: the process    *)
(* may stop, or a statement fail, between any two steps.  Time is the      *)
(* order in which events become due.                                       *)
(***************************************************************************)
EXTENDS Integers, Sequences, FiniteSets, SequencesExt

CONSTANTS
  Events,        \* rows of outbox_events
  Nothing,       \* no event in hand
  Batch,         \* events taken by one tick (10)
  MaxAttempts,   \* failures after which an event is DEAD (6)
  MaxCrashes     \* bound on the restarts of the process

ASSUME NothingFresh == Nothing \notin Events
ASSUME BatchPositive == Batch \in Nat \ {0}
ASSUME MaxAttemptsPositive == MaxAttempts \in Nat \ {0}
ASSUME MaxCrashesNat == MaxCrashes \in Nat

VARIABLES
  event,       \* status, attempts and locked_at of each row
  due,         \* events whose available_at has passed, by available_at
  delivered,   \* messages in the chat about each event: none, one or more
  stage,       \* where the dispatcher is
  todo,        \* what the batch holds still: event ids with attempts as claimed
  hand,        \* the event being processed
  enabled,     \* Telegram is switched on and configured
  crashes

outboxVars == <<event, due, delivered, stage, todo, hand, enabled, crashes>>

Absent == [status |-> "NONE", attempts |-> 0, locked |-> FALSE]
Pending == [status |-> "PENDING", attempts |-> 0, locked |-> FALSE]
Claimed == [id: Events, attempts: 0 .. MaxAttempts]
None == [id |-> Nothing, attempts |-> 0]

OutboxTypeOK ==
  /\ event \in [Events -> [status: {"NONE", "PENDING", "SENT", "DEAD"},
                           attempts: 0 .. MaxAttempts, locked: BOOLEAN]]
  /\ due \in Seq(Events)
  /\ delivered \in [Events -> 0 .. 2]
  /\ stage \in {"down", "wait", "claim", "batch", "sent", "failed"}
  /\ todo \subseteq Claimed
  /\ hand \in Claimed \cup {None}
  /\ enabled \in BOOLEAN
  /\ crashes \in 0 .. MaxCrashes

OutboxInit ==
  /\ event = [e \in Events |-> Absent]
  /\ due = <<>>
  /\ delivered = [e \in Events |-> 0]
  /\ stage = "wait" /\ todo = {} /\ hand = None
  /\ enabled \in BOOLEAN
  /\ crashes = 0

-----------------------------------------------------------------------------
\* written in the transaction of the submission
Enqueue(e) ==
  /\ event[e] = Absent
  /\ event' = [event EXCEPT ![e] = Pending]
  /\ due' = Append(due, e)
  /\ UNCHANGED <<delivered, stage, todo, hand, enabled, crashes>>

\* now() reaches the available_at a failure has set
BackoffOver(e) ==
  /\ event[e].status # "NONE" /\ ~Contains(due, e)
  /\ due' = Append(due, e)
  /\ UNCHANGED <<event, delivered, stage, todo, hand, enabled, crashes>>

-----------------------------------------------------------------------------
(* One tick. *)

\* ReleaseStale drops the locks that are old enough; which ones, time decides
Tick ==
  /\ stage = "wait" /\ enabled
  /\ \E stale \in SUBSET {e \in Events : event[e].status = "PENDING" /\ event[e].locked} :
       event' = [e \in Events |-> IF e \in stale THEN [event[e] EXCEPT !.locked = FALSE]
                                  ELSE event[e]]
  /\ stage' = "claim"
  /\ UNCHANGED <<due, delivered, todo, hand, enabled, crashes>>

\* status = 'PENDING' AND available_at <= now(): locked_at is not looked at
PendingDue == {i \in DOMAIN due : event[due[i]].status = "PENDING"}

\* the first Batch of them
Taken == {e \in Events : \E i \in PendingDue :
            due[i] = e /\ Cardinality(PendingDue \cap 1 .. i - 1) < Batch}

Lock(ids) == [e \in Events |-> IF e \in ids THEN [event[e] EXCEPT !.locked = TRUE] ELSE event[e]]

Claim ==
  /\ stage = "claim"
  /\ event' = Lock(Taken)
  /\ todo' = {[id |-> e, attempts |-> event[e].attempts] : e \in Taken}
  /\ stage' = "batch"
  /\ UNCHANGED <<due, delivered, hand, enabled, crashes>>

\* the statement fails, or it commits and its rows never arrive
ClaimFails ==
  /\ stage = "claim"
  /\ event' \in {event, Lock(Taken)}
  /\ stage' = "wait"
  /\ UNCHANGED <<due, delivered, todo, hand, enabled, crashes>>

More(n) == IF n = 2 THEN 2 ELSE n + 1

\* Render and Send: the text is read from the database, then posted.  A failure to
\* render delivers nothing; one to post may hide a delivery (a timeout after it).
Send ==
  /\ stage = "batch"
  /\ \E c \in todo :
       /\ hand' = c /\ todo' = todo \ {c}
       /\ \/ stage' = "sent" /\ delivered' = [delivered EXCEPT ![c.id] = More(@)]
          \/ stage' = "failed" /\ delivered' \in {delivered, [delivered EXCEPT ![c.id] = More(@)]}
  /\ UNCHANGED <<event, due, enabled, crashes>>

NextInBatch == hand' = None /\ stage' = "batch"

MarkSent ==
  /\ stage = "sent"
  /\ event' = [event EXCEPT ![hand.id].status = "SENT", ![hand.id].locked = FALSE]
  /\ NextInBatch
  /\ UNCHANGED <<due, delivered, todo, enabled, crashes>>

\* a mutant: a failure is recorded without attempts, so the event never dies
MarkFailedUncounted ==
  /\ stage = "failed"
  /\ event' = [event EXCEPT ![hand.id].locked = FALSE]
  /\ due' = Remove(due, hand.id)
  /\ NextInBatch
  /\ UNCHANGED <<delivered, todo, enabled, crashes>>

\* a mutant: every failure is taken for a success
MarkFailedAsSent ==
  /\ stage = "failed"
  /\ event' = [event EXCEPT ![hand.id].status = "SENT", ![hand.id].locked = FALSE]
  /\ NextInBatch
  /\ UNCHANGED <<due, delivered, todo, enabled, crashes>>

MarkFailed ==
  /\ stage = "failed"
  /\ event' = [event EXCEPT ![hand.id] =
       [status |-> IF hand.attempts + 1 >= MaxAttempts THEN "DEAD" ELSE "PENDING",
        attempts |-> hand.attempts + 1, locked |-> FALSE]]
  /\ due' = Remove(due, hand.id)
  /\ NextInBatch
  /\ UNCHANGED <<delivered, todo, enabled, crashes>>

\* the error of either statement is logged and the batch goes on
MarkLost ==
  /\ stage \in {"sent", "failed"}
  /\ NextInBatch
  /\ UNCHANGED <<event, due, delivered, todo, enabled, crashes>>

EndTick ==
  /\ stage = "batch" /\ todo = {}
  /\ stage' = "wait"
  /\ UNCHANGED <<event, due, delivered, todo, hand, enabled, crashes>>

-----------------------------------------------------------------------------
\* a crash, or a shutdown: its cancelled context fails every call still to come
Stop ==
  /\ stage # "down" /\ crashes < MaxCrashes
  /\ stage' = "down" /\ crashes' = crashes + 1
  /\ todo' = {} /\ hand' = None
  /\ UNCHANGED <<event, due, delivered, enabled>>

\* the configuration is read again
Start ==
  /\ stage = "down"
  /\ stage' = "wait"
  /\ enabled' \in BOOLEAN
  /\ UNCHANGED <<event, due, delivered, todo, hand, crashes>>

Dispatch == Tick \/ Claim \/ Send \/ EndTick

OutboxNext ==
  \/ \E e \in Events : Enqueue(e) \/ BackoffOver(e)
  \/ Dispatch \/ ClaimFails \/ MarkSent \/ MarkFailed \/ MarkLost
  \/ Stop \/ Start

OutboxSpec == OutboxInit /\ [][OutboxNext]_outboxVars

\* The ticker fires, the runtime runs the goroutine, pm2 restarts the process, backoffs
\* end; a database that fails statements does not fail the same one for ever.
Fairness ==
  /\ WF_outboxVars(Dispatch) /\ WF_outboxVars(Start)
  /\ \A e \in Events : WF_outboxVars(BackoffOver(e))
  /\ SF_outboxVars(Claim)
  /\ \A e \in Events : SF_outboxVars(MarkSent /\ hand.id = e) /\ SF_outboxVars(MarkFailed /\ hand.id = e)

FairSpec == OutboxSpec /\ Fairness
-----------------------------------------------------------------------------
(* Properties. *)

\* An event counts as sent only when its message is in the chat: no stop and no lost
\* statement loses one.
SentWasDelivered == \A e \in Events : event[e].status = "SENT" => delivered[e] > 0

\* An event is given up after MaxAttempts recorded failures and not before.
DeadGaveUp ==
  \A e \in Events : IF event[e].status = "DEAD" THEN event[e].attempts = MaxAttempts
                    ELSE event[e].attempts < MaxAttempts

\* A result once recorded stands: no later tick takes the event again.
SettledStays ==
  [][\A e \in Events : event[e].status \in {"SENT", "DEAD"} =>
       event'[e].status = event[e].status]_outboxVars

\* Once notifications stay on, every event is sent or given up, whatever fails before
\* it in its batch and however often the process restarts.
EveryEventSettles ==
  <>[]enabled => \A e \in Events :
    event[e].status = "PENDING" ~> event[e].status \in {"SENT", "DEAD"}

\* "an event must not be lost or duplicated" (ADR 0005)
NotSentTwice == \A e \in Events : delivered[e] < 2
=============================================================================
