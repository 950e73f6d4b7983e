--------------------------- MODULE SubscribeBridge ---------------------------
(***************************************************************************)
(* The subscription bridge of erd_bridge_subscribe.cpp, a state machine in *)
(* the main loop driven by the GEA client, its retry/retention timer and   *)
(* its quiet timer, and the main loop's fallback to polling                *)
(* (GeappliancesBridge::handle_subscription_failed).  A step is one signal *)
(* with every transition and entry action it leads to.                     *)
(***************************************************************************)
EXTENDS Naturals, BridgeStates

CONSTANTS Erd,
          ValidErd,     \* what the ERD registry lets through; Erd if unset
          ClientQueue,  \* requests the GEA client can hold
          AutoMode      \* BRIDGE_MODE_AUTO: fall back when the bridge failed

ASSUME SubscribeConstants == /\ ValidErd \subseteq Erd
                             /\ ClientQueue \in Nat \ {0}
                             /\ AutoMode \in BOOLEAN

VARIABLES
    current_state, subscribe_failure_count, erd_set,
    timer,       \* "off"; "once": resubscribe; "periodic": retention
    quiet_timer,
    requests,    \* subscribe and retain requests the client has not answered
    cached       \* ERDs with a value in the ERD cache

vars == <<current_state, subscribe_failure_count, erd_set, timer, quiet_timer,
          requests, cached>>

SubscribeTypeOK ==
    /\ current_state \in {"none", "subscribing", "subscribed", "steady", "failed"}
    /\ subscribe_failure_count \in 0 .. 3
    /\ erd_set \subseteq Erd /\ cached \subseteq Erd
    /\ timer \in {"off", "once", "periodic"} /\ quiet_timer \in BOOLEAN
    /\ requests \in 0 .. ClientQueue

-----------------------------------------------------------------------------
(* Entry actions, as conjuncts on the primed variables.                    *)

\* Mutant: the timers keep running.
EnterFailedTimed == current_state' = "failed" /\ UNCHANGED <<timer, quiet_timer>>

EnterFailed == /\ current_state' = "failed"
               /\ timer' = "off" /\ quiet_timer' = FALSE

\* Mutant: no quiet period.
EnterSubscribedUntimed == /\ current_state' = "subscribed"
                          /\ subscribe_failure_count' = 0
                          /\ timer' = "periodic" /\ UNCHANGED quiet_timer

\* The retention timer is armed anew, the quiet period starts.
EnterSubscribed == /\ current_state' = "subscribed"
                   /\ subscribe_failure_count' = 0
                   /\ timer' = "periodic" /\ quiet_timer' = TRUE

\* The retention timer keeps running.
EnterSteady == /\ current_state' = "steady"
               /\ quiet_timer' = FALSE
               /\ UNCHANGED <<timer, subscribe_failure_count>>

\* Mutant: no retry is scheduled.
SubscribeOnce(pending, old_timer) ==
    /\ requests' \in {pending} \cup ({pending + 1} \cap 0 .. ClientQueue)
    /\ timer' = old_timer

\* tiny_gea3_erd_client_subscribe with `pending` requests outstanding.  The
\* client's queue also holds the reads and writes of the other bridges, so it
\* may be full at any time; then another attempt is due in a second.
Subscribe(pending, old_timer) ==
    \/ /\ pending < ClientQueue
       /\ requests' = pending + 1
       /\ timer' = old_timer
    \/ /\ requests' = pending
       /\ timer' = "once"

\* Mutant: one failure too many is allowed.
CountFailureLate(pending, old_timer) ==
    /\ subscribe_failure_count' = subscribe_failure_count + 1
    /\ \/ /\ subscribe_failure_count + 1 > 3
          /\ EnterFailed
          /\ requests' = pending
       \/ /\ subscribe_failure_count + 1 <= 3
          /\ current_state' = "subscribing"
          /\ quiet_timer' = FALSE
          /\ Subscribe(pending, old_timer)

\* signal_subscription_failed in state_subscribing, and what falls through to
\* it: the entry action, which disarms the timer first.  The quiet timer does
\* not run in this state; leaving state_subscribed stops it.
CountFailure(pending, old_timer) ==
    /\ subscribe_failure_count' = subscribe_failure_count + 1
    /\ \/ /\ subscribe_failure_count + 1 >= 3
          /\ EnterFailed
          /\ requests' = pending
       \/ /\ subscribe_failure_count + 1 < 3
          /\ current_state' = "subscribing"
          /\ quiet_timer' = FALSE
          /\ Subscribe(pending, old_timer)

Init == /\ current_state = "subscribing" /\ subscribe_failure_count = 1
        /\ erd_set = {} /\ quiet_timer = FALSE /\ cached = {}
        /\ \/ requests = 1 /\ timer = "off"
           \/ requests = 0 /\ timer = "once"

-----------------------------------------------------------------------------
(* Signals of the GEA client for this host address.                        *)

Active == current_state # "none"

\* The answer to a subscribe or to a retain request: either is taken for the
\* subscription while subscribing, and ignored in every other state.
SubscriptionAdded ==
    /\ requests > 0
    /\ requests' = requests - 1
    /\ \/ /\ current_state = "subscribing"
          /\ EnterSubscribed
       \/ /\ current_state # "subscribing"
          /\ UNCHANGED <<current_state, subscribe_failure_count, timer, quiet_timer>>
    /\ UNCHANGED <<erd_set, cached>>

SubscribeFailed ==
    /\ requests > 0
    /\ \/ /\ current_state = "subscribing"
          /\ CountFailure(requests - 1, timer)
       \/ /\ current_state # "subscribing"
          /\ requests' = requests - 1
          /\ UNCHANGED <<current_state, subscribe_failure_count, timer, quiet_timer>>
    /\ UNCHANGED <<erd_set, cached>>

\* Handled by the top state, whatever the current one: a new ERD leads to
\* state_subscribed, with a new quiet period.
Publication(erd) ==
    /\ Active /\ erd \in ValidErd
    /\ cached' = cached \cup {erd}
    /\ erd_set' = erd_set \cup {erd}
    /\ \/ erd \notin erd_set /\ EnterSubscribed
       \/ /\ erd \in erd_set
          /\ UNCHANGED <<current_state, subscribe_failure_count, timer, quiet_timer>>
    /\ UNCHANGED requests

\* Mutant: handled by the top state, which state_failed leaves it to.
HostCameOnlineAnyState ==
    /\ Active
    /\ erd_set' = IF current_state = "subscribing" THEN {} ELSE erd_set
    /\ CountFailure(requests, "off")
    /\ UNCHANGED cached

\* The appliance restarted.  Only state_subscribing forgets the ERDs seen.
HostCameOnline ==
    /\ \/ current_state = "subscribing" /\ erd_set' = {}
       \/ current_state \in {"subscribed", "steady"} /\ UNCHANGED erd_set
    /\ CountFailure(requests, "off")
    /\ UNCHANGED cached

-----------------------------------------------------------------------------
(* Timers and the main loop.                                               *)

ResubscribeTimer ==
    /\ timer = "once" /\ current_state = "subscribing"
    /\ Subscribe(requests, "off")
    /\ UNCHANGED <<current_state, subscribe_failure_count, erd_set, quiet_timer,
                   cached>>

RetentionTimer ==
    /\ timer = "periodic" /\ Active
    /\ requests' \in {requests} \cup ({requests + 1} \cap 0 .. ClientQueue)
    /\ UNCHANGED <<current_state, subscribe_failure_count, erd_set, timer,
                   quiet_timer, cached>>

QuietPeriodExpired ==
    /\ quiet_timer
    /\ \/ erd_set = {} /\ EnterFailed /\ UNCHANGED subscribe_failure_count
       \/ erd_set # {} /\ EnterSteady
    /\ UNCHANGED <<erd_set, requests, cached>>

\* run_protocol_stack_ sees the failed state: the bridge is destroyed and
\* the polling bridge takes over.
FallBackToPolling ==
    /\ AutoMode /\ current_state = "failed"
    /\ current_state' = "none"
    /\ timer' = "off" /\ quiet_timer' = FALSE
    /\ UNCHANGED <<subscribe_failure_count, erd_set, requests, cached>>

Next == \/ SubscriptionAdded \/ SubscribeFailed
        \/ \E erd \in Erd : Publication(erd)
        \/ HostCameOnline
        \/ ResubscribeTimer \/ RetentionTimer \/ QuietPeriodExpired
        \/ FallBackToPolling

Spec == Init /\ [][Next]_vars

\* The client answers its requests, one-shot timers fire, loop() runs, and
\* the client's queue has room again and again.
FairSpec == /\ Spec
            /\ WF_vars(SubscriptionAdded \/ SubscribeFailed)
            /\ WF_vars(ResubscribeTimer)
            /\ SF_vars(ResubscribeTimer /\ requests' > requests)
            /\ WF_vars(QuietPeriodExpired)
            /\ WF_vars(FallBackToPolling)

-----------------------------------------------------------------------------
(* A bridge that waits for its subscription has a request at the client or *)
(* a retry due: whatever answers to old requests, retries and restarts of  *)
(* the appliance did, it is not left waiting for nothing.                  *)
AttemptOutstanding == current_state = "subscribing" => requests > 0 \/ timer = "once"

(* "Continuous 30-second retention without gaps": the retention timer runs *)
(* in every state that relies on the subscription, and in no other one.    *)
RetentionRuns == (timer = "periodic") <=> (current_state \in {"subscribed", "steady"})

(* The quiet period is always decided: the bridge does not stay in         *)
(* state_subscribed, nor in state_subscribing, for ever.                   *)
SubscriptionDecided ==
    /\ current_state = "subscribing" ~> current_state # "subscribing"
    /\ current_state = "subscribed" ~> current_state # "subscribed"

(* The rest of the program, the fallback aside, sees the state machine of  *)
(* BridgeStates.                                                           *)
SubscribeSteps ==
    [][current_state' # current_state /\ ~FallBackToPolling =>
           current_state' \in SubscribeNext[current_state]]_vars
=============================================================================
