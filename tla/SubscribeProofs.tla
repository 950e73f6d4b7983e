--------------------------- MODULE SubscribeProofs ---------------------------
(***************************************************************************)
(* The safety properties of SubscribeBridge, for every set of ERDs and     *)
(* every length of the client's queue.                                     *)
(***************************************************************************)
EXTENDS SubscribeBridge, TLAPS

\* While subscribing there is room for another failure; a subscription
\* starts counting anew.
FailuresLeft ==
    /\ current_state = "subscribing" => subscribe_failure_count < 3
    /\ current_state \in {"subscribed", "steady"} => subscribe_failure_count = 0

\* Whatever leaves state_subscribed stops the quiet timer.
QuietWhenSubscribed == quiet_timer => current_state = "subscribed"

SubscribeInv == /\ SubscribeTypeOK /\ FailuresLeft /\ QuietWhenSubscribed
                /\ RetentionRuns /\ AttemptOutstanding

-----------------------------------------------------------------------------
(* A subscribe request, accepted or refused, leaves an attempt outstanding *)
(* and does not start the retention timer.                                 *)
LEMMA SubscribeAttempts ==
    ASSUME NEW pending \in 0 .. ClientQueue, NEW old_timer \in {"off", "once"},
           Subscribe(pending, old_timer)
    PROVE  /\ requests' \in 0 .. ClientQueue
           /\ timer' \in {"off", "once"}
           /\ requests' > 0 \/ timer' = "once"
BY SubscribeConstants DEF Subscribe

(* A counted failure restores the whole invariant, from any state that     *)
(* still has failures left: it ends in a new attempt or in state_failed.   *)
LEMMA FailureCounted ==
    ASSUME SubscribeTypeOK, subscribe_failure_count < 3,
           NEW pending \in 0 .. ClientQueue, NEW old_timer \in {"off", "once"},
           CountFailure(pending, old_timer),
           erd_set' \subseteq Erd, cached' \subseteq Erd
    PROVE  SubscribeInv'
<1>1. subscribe_failure_count \in 0 .. 3
  BY DEF SubscribeTypeOK
<1>2. CASE subscribe_failure_count + 1 >= 3
  <2>1. /\ EnterFailed /\ requests' = pending
        /\ subscribe_failure_count' = subscribe_failure_count + 1
    BY <1>1, <1>2 DEF CountFailure
  <2>2. QuietWhenSubscribed' /\ quiet_timer' \in BOOLEAN
    BY <2>1, Zenon DEF EnterFailed, QuietWhenSubscribed
  <2> QED
    BY <1>1, <1>2, <2>1, <2>2 DEF EnterFailed, SubscribeInv, SubscribeTypeOK,
       FailuresLeft, RetentionRuns, AttemptOutstanding
<1>3. CASE subscribe_failure_count + 1 < 3
  <2>1. /\ current_state' = "subscribing" /\ quiet_timer' = FALSE
        /\ Subscribe(pending, old_timer)
        /\ subscribe_failure_count' = subscribe_failure_count + 1
    BY <1>1, <1>3 DEF CountFailure
  <2>2. /\ requests' \in 0 .. ClientQueue /\ timer' \in {"off", "once"}
        /\ requests' > 0 \/ timer' = "once"
    BY <2>1, SubscribeAttempts
  <2>3. QuietWhenSubscribed' /\ quiet_timer' \in BOOLEAN
    BY <2>1, Zenon DEF QuietWhenSubscribed
  <2> QED
    BY <1>1, <1>3, <2>1, <2>2, <2>3 DEF SubscribeInv, SubscribeTypeOK, FailuresLeft,
       RetentionRuns, AttemptOutstanding
<1> QED
  BY <1>1, <1>2, <1>3

(* So does entering state_subscribed.                                      *)
LEMMA SubscribedEntered ==
    ASSUME EnterSubscribed, requests' \in 0 .. ClientQueue,
           erd_set' \subseteq Erd, cached' \subseteq Erd
    PROVE  SubscribeInv'
BY DEF EnterSubscribed, SubscribeInv, SubscribeTypeOK, FailuresLeft,
   QuietWhenSubscribed, RetentionRuns, AttemptOutstanding

(* The invariant is inductive.                                             *)
LEMMA SubscribeInductive == SubscribeInv /\ [Next]_vars => SubscribeInv'
<1> SUFFICES ASSUME SubscribeInv, [Next]_vars PROVE SubscribeInv'
  OBVIOUS
<1>0. /\ SubscribeTypeOK /\ FailuresLeft /\ QuietWhenSubscribed
      /\ RetentionRuns /\ AttemptOutstanding
  BY DEF SubscribeInv
<1> USE SubscribeConstants
<1>1. CASE SubscriptionAdded
  <2>1. /\ requests' \in 0 .. ClientQueue /\ erd_set' \subseteq Erd
        /\ cached' \subseteq Erd
    BY <1>0, <1>1 DEF SubscriptionAdded, SubscribeTypeOK
  <2>2. CASE current_state = "subscribing"
    BY <1>1, <2>1, <2>2, SubscribedEntered DEF SubscriptionAdded
  <2>3. CASE current_state # "subscribing"
    BY <1>0, <1>1, <2>1, <2>3 DEF SubscriptionAdded, SubscribeInv, SubscribeTypeOK,
       FailuresLeft, QuietWhenSubscribed, RetentionRuns, AttemptOutstanding
  <2> QED
    BY <2>2, <2>3
<1>2. CASE SubscribeFailed
  <2>1. /\ requests - 1 \in 0 .. ClientQueue /\ erd_set' \subseteq Erd
        /\ cached' \subseteq Erd
    BY <1>0, <1>2 DEF SubscribeFailed, SubscribeTypeOK
  <2>2. CASE current_state = "subscribing"
    <3>1. timer \in {"off", "once"} /\ subscribe_failure_count < 3
      BY <1>0, <2>2 DEF RetentionRuns, SubscribeTypeOK, FailuresLeft
    <3>2. CountFailure(requests - 1, timer)
      BY <1>2, <2>2 DEF SubscribeFailed
    <3> QED
      BY <1>0, <2>1, <3>1, <3>2, FailureCounted
  <2>3. CASE current_state # "subscribing"
    BY <1>0, <1>2, <2>1, <2>3 DEF SubscribeFailed, SubscribeInv, SubscribeTypeOK,
       FailuresLeft, QuietWhenSubscribed, RetentionRuns, AttemptOutstanding
  <2> QED
    BY <2>2, <2>3
<1>3. ASSUME NEW erd \in Erd, Publication(erd) PROVE SubscribeInv'
  <2>1. /\ requests' \in 0 .. ClientQueue /\ erd_set' \subseteq Erd
        /\ cached' \subseteq Erd
    BY <1>0, <1>3 DEF Publication, SubscribeTypeOK
  <2>2. CASE erd \notin erd_set
    BY <1>3, <2>1, <2>2, SubscribedEntered DEF Publication
  <2>3. CASE erd \in erd_set
    BY <1>0, <1>3, <2>1, <2>3 DEF Publication, SubscribeInv, SubscribeTypeOK,
       FailuresLeft, QuietWhenSubscribed, RetentionRuns, AttemptOutstanding
  <2> QED
    BY <2>2, <2>3
<1>4. CASE HostCameOnline
  <2>1. /\ requests \in 0 .. ClientQueue /\ erd_set' \subseteq Erd
        /\ cached' \subseteq Erd /\ subscribe_failure_count < 3
    BY <1>0, <1>4 DEF HostCameOnline, SubscribeTypeOK, FailuresLeft
  <2>2. CountFailure(requests, "off")
    BY <1>4 DEF HostCameOnline
  <2> QED
    BY <1>0, <2>1, <2>2, FailureCounted
<1>5. CASE ResubscribeTimer
  <2>1. /\ requests' \in 0 .. ClientQueue /\ timer' \in {"off", "once"}
        /\ requests' > 0 \/ timer' = "once"
    BY <1>0, <1>5, SubscribeAttempts DEF ResubscribeTimer, SubscribeTypeOK
  <2> QED
    BY <1>0, <1>5, <2>1 DEF ResubscribeTimer, SubscribeInv, SubscribeTypeOK,
       FailuresLeft, QuietWhenSubscribed, RetentionRuns, AttemptOutstanding
<1>6. CASE RetentionTimer
  BY <1>0, <1>6 DEF RetentionTimer, SubscribeInv, SubscribeTypeOK, FailuresLeft,
     QuietWhenSubscribed, RetentionRuns, AttemptOutstanding
<1>7. CASE QuietPeriodExpired
  BY <1>0, <1>7 DEF QuietPeriodExpired, EnterFailed, EnterSteady, SubscribeInv,
     SubscribeTypeOK, FailuresLeft, QuietWhenSubscribed, RetentionRuns,
     AttemptOutstanding
<1>8. CASE FallBackToPolling
  BY <1>0, <1>8 DEF FallBackToPolling, SubscribeInv, SubscribeTypeOK, FailuresLeft,
     QuietWhenSubscribed, RetentionRuns, AttemptOutstanding
<1>9. CASE UNCHANGED vars
  BY <1>0, <1>9 DEF vars, SubscribeInv, SubscribeTypeOK, FailuresLeft,
     QuietWhenSubscribed, RetentionRuns, AttemptOutstanding
<1> QED
  BY <1>1, <1>2, <1>3, <1>4, <1>5, <1>6, <1>7, <1>8, <1>9 DEF Next

(* The invariant holds in every reachable state.                           *)
LEMMA SubscribeInvariant == Spec => []SubscribeInv
<1>1. Init => SubscribeInv
  <2> SUFFICES ASSUME Init PROVE SubscribeInv
    OBVIOUS
  <2>1. QuietWhenSubscribed /\ quiet_timer \in BOOLEAN
    BY Zenon DEF Init, QuietWhenSubscribed
  <2> QED
    BY <2>1, SubscribeConstants DEF Init, SubscribeInv, SubscribeTypeOK, FailuresLeft,
       RetentionRuns, AttemptOutstanding
<1> QED
  BY <1>1, SubscribeInductive, PTL DEF Spec

-----------------------------------------------------------------------------
(* The failure count never passes 3 and the client's queue never           *)
(* overflows, whatever the appliance and the queue's other users do.       *)
THEOREM SubscribeTypeCorrect == Spec => []SubscribeTypeOK
<1>1. SubscribeInv => SubscribeTypeOK
  BY DEF SubscribeInv
<1> QED
  BY <1>1, SubscribeInvariant, PTL

(* The retention timer, which is also the retry timer, runs exactly in the *)
(* states that rely on the subscription.                                   *)
THEOREM RetentionAlwaysRuns == Spec => []RetentionRuns
<1>1. SubscribeInv => RetentionRuns
  BY DEF SubscribeInv
<1> QED
  BY <1>1, SubscribeInvariant, PTL

(* A bridge that is subscribing has a request at the client or a retry     *)
(* due: it never waits for nothing.                                        *)
THEOREM AttemptAlwaysOutstanding == Spec => []AttemptOutstanding
<1>1. SubscribeInv => AttemptOutstanding
  BY DEF SubscribeInv
<1> QED
  BY <1>1, SubscribeInvariant, PTL

(* The bridge takes only the steps that BridgeStates, and with it          *)
(* StartupBridge, relies on; the quiet timer decides state_subscribed only.*)
THEOREM SubscribeStepsHold == Spec => SubscribeSteps
<1>1. SubscribeInv /\ [Next]_vars =>
          [current_state' # current_state /\ ~FallBackToPolling =>
               current_state' \in SubscribeNext[current_state]]_vars
  <2> SUFFICES ASSUME SubscribeInv, Next,
                      current_state' # current_state, ~FallBackToPolling
               PROVE  current_state' \in SubscribeNext[current_state]
    OBVIOUS
  <2>0. SubscribeTypeOK /\ QuietWhenSubscribed /\ FailuresLeft
    BY DEF SubscribeInv
  <2>1. CASE SubscriptionAdded
    BY <2>0, <2>1 DEF SubscriptionAdded, EnterSubscribed, SubscribeNext
  <2>2. CASE SubscribeFailed
    BY <2>0, <2>2 DEF SubscribeFailed, CountFailure, EnterFailed, SubscribeNext
  <2>3. ASSUME NEW erd \in Erd, Publication(erd)
        PROVE  current_state' \in SubscribeNext[current_state]
    BY <2>0, <2>3 DEF Publication, Active, EnterSubscribed, SubscribeTypeOK, SubscribeNext
  <2>4. CASE HostCameOnline
    <3>1. /\ current_state \in {"subscribing", "subscribed", "steady"}
          /\ CountFailure(requests, "off")
      BY <2>4 DEF HostCameOnline
    <3>2. current_state' \in {"subscribing", "failed"}
      BY <3>1, Zenon DEF CountFailure, EnterFailed
    <3>3. current_state = "steady" => current_state' = "subscribing"
      <4> SUFFICES ASSUME current_state = "steady" PROVE current_state' = "subscribing"
        OBVIOUS
      <4>1. subscribe_failure_count = 0
        BY <2>0 DEF FailuresLeft
      <4>2. ~(subscribe_failure_count + 1 >= 3)
        BY <4>1
      <4> QED
        BY <3>1, <4>2, Zenon DEF CountFailure
    <3> QED
      BY <2>0, <3>1, <3>2, <3>3 DEF SubscribeNext
  <2>5. CASE QuietPeriodExpired
    <3>1. current_state = "subscribed"
      BY <2>0, <2>5, Zenon DEF QuietPeriodExpired, QuietWhenSubscribed
    <3>2. current_state' \in {"failed", "steady"}
      BY <2>5, Zenon DEF QuietPeriodExpired, EnterFailed, EnterSteady
    <3> QED
      BY <3>1, <3>2 DEF SubscribeNext
  <2> QED
    BY <2>1, <2>2, <2>3, <2>4, <2>5 DEF Next, ResubscribeTimer, RetentionTimer
<1> QED
  BY <1>1, SubscribeInvariant, PTL DEF Spec, SubscribeSteps
=============================================================================
