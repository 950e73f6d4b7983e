-------------------------- MODULE PublisherHistory --------------------------
(***************************************************************************)
(* CachePublisher with history variables, for what can only be said about  *)
(* several steps: how often an ERD is sent, and how much while paused.     *)
(***************************************************************************)
EXTENDS CachePublisher

VARIABLES wait,  \* per ERD: ticks to go until it may be sent again
          late   \* messages sent since publishing was paused, 0 .. 2

histVars == <<wait, late>>
allVars == <<vars, histVars>>

HistoryInit == /\ Init
               /\ wait = [k \in Key |-> 0]
               /\ late = 0

Sent == PublishSent
SentKey == entries[slot].key

WaitNext == wait' = IF Sent THEN [wait EXCEPT ![SentKey] = MaxCooldown]
                    ELSE IF TickCooldowns
                    THEN [k \in Key |-> IF wait[k] > 0 THEN wait[k] - 1 ELSE 0]
                    ELSE IF MarkAllUpdated THEN [k \in Key |-> 0]
                    ELSE wait

LateNext == late' = IF ~paused THEN 0
                    ELSE IF Sent /\ late < 2 THEN late + 1 ELSE late

HistoryNext == Next /\ WaitNext /\ LateNext

HistorySpec == HistoryInit /\ [][HistoryNext]_allVars

-----------------------------------------------------------------------------
(* After an ERD is sent, at least throttle_rate_seconds ticks pass before  *)
(* it is sent again, whatever readings, refusals and reconnects do in      *)
(* between; only the full republish after a long outage lifts the limit.   *)
RateLimited == [][PublishSent => wait[SentKey] = 0]_allVars

(* Pausing for discovery does not stop a message the task has already      *)
(* taken, but at most that one is sent until publishing resumes.           *)
AtMostOneLatePublish == late <= 1
=============================================================================
