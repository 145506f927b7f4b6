------------------------------ MODULE Contest ------------------------------
(***************************************************************************)
(* A contest, and the requests that work on what belongs to it             *)
(* (backend/internal/modules/contests).                                    *)
(*                                                                         *)
(* A request reads, decides on what it read and writes in a later          *)
(* statement: other requests run in between.  Challenges and Participants  *)
(* extend this module with the requests of their own parts.                *)
(***************************************************************************)
EXTENDS Naturals, FiniteSets

CONSTANTS
  Requests,     \* requests that can be in progress at the same time
  None,         \* nothing
  MaxChanges    \* bound on the requests that change something

ASSUME MaxChangesNat == MaxChanges \in Nat

VARIABLES
  contest,      \* contests.status
  request,      \* what each request is doing and what it has read
  changes       \* how many changing requests were accepted

contestVars == <<contest, request, changes>>

ContestStatus == {"DRAFT", "ACTIVE", "FINISHED", "ARCHIVED"}

Idle == [op |-> "none", at |-> "idle", on |-> None, seen |-> None, arg |-> None]

\* a request of kind op on something, at its next statement, with what it has read and was given
Doing(op, at, on, seen, arg) == [op |-> op, at |-> at, on |-> on, seen |-> seen, arg |-> arg]

Free(r) == request[r].at = "idle"
At(r, op, at) == request[r].op = op /\ request[r].at = at
Quiet == \A r \in Requests : Free(r)

Becomes(r, doing) == request' = [request EXCEPT ![r] = doing]
Done(r) == Becomes(r, Idle)

\* a changing request is accepted
Accepted == changes < MaxChanges /\ changes' = changes + 1

allowedTransitions == [s \in ContestStatus |->
  CASE s = "DRAFT" -> {"ACTIVE", "ARCHIVED"}
    [] s = "ACTIVE" -> {"FINISHED", "ARCHIVED"}
    [] s = "FINISHED" -> {"ARCHIVED"}
    [] OTHER -> {}]

\* the status is read; the same target changes nothing and a forbidden one is refused
Transition(r, target) ==
  /\ Free(r) /\ Accepted
  /\ target \in allowedTransitions[contest]
  /\ Becomes(r, Doing("contest", "status", None, contest, target))
  /\ UNCHANGED contest

\* the status is written without looking at it again
SetStatus(r) ==
  /\ At(r, "contest", "status")
  /\ contest' = request[r].arg
  /\ Done(r)
  /\ UNCHANGED changes

\* the connection fails or the process stops: what was committed stays
Stop(r) == ~Free(r) /\ Done(r) /\ UNCHANGED <<contest, changes>>
=============================================================================
