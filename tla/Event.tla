------------------------------- MODULE Event -------------------------------
(***************************************************************************)
(* A contest as its administrators work on it: its status, its challenges  *)
(* and its participants, with one pool of requests (backend/internal/app   *)
(* /router.go).                                                            *)
(***************************************************************************)
EXTENDS Challenges, Participants

eventVars == <<contestVars, challengeVars, participantVars>>

EventTypeOK == ChallengesTypeOK /\ ParticipantsTypeOK /\ changes \in 0 .. MaxChanges

EventInit ==
  /\ contest = "ACTIVE" /\ changes = 0
  /\ request = [r \in Requests |-> Idle]
  /\ ChallengesInit
  /\ ParticipantsInit

ContestNext ==
  \E r \in Requests :
    \/ \E target \in ContestStatus : Transition(r, target) /\ UNCHANGED <<challengeVars, participantVars>>
    \/ SetStatus(r) /\ UNCHANGED <<challengeVars, participantVars>>
    \/ request[r].op = "contest" /\ Stop(r) /\ UNCHANGED <<challengeVars, participantVars>>

EventNext ==
  \/ ContestNext
  \/ ChallengesNext /\ UNCHANGED participantVars
  \/ ParticipantsNext /\ UNCHANGED challengeVars

EventSpec == EventInit /\ [][EventNext]_eventVars
=============================================================================
