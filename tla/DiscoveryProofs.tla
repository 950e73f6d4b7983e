--------------------------- MODULE DiscoveryProofs ---------------------------
(***************************************************************************)
(* Proofs about DiscoveryUpdate and the cleanup in it, for every set of    *)
(* topics and builds, every size of the cleanup's buffer and any number of *)
(* troubles, losses and outages.                                           *)
(***************************************************************************)
EXTENDS DiscoveryUpdate, TLAPS, SequenceTheorems

-----------------------------------------------------------------------------
(* The type invariant.  It is inductive with what a flush relies on.       *)

FlushInv == /\ flushing # "" => cleanup_state = "cleaning" /\ subscribed
            /\ subscribing => cleanup_state = "cleaning" /\ ~subscribed
            /\ flushing = "end_pass" => subscribed_long
            /\ cleanup_state = "cleaning" => clean_passes < 2
            /\ cleanup_state = "done" => clean_passes = 2
            /\ cleanup_state # "idle" => disturbed_passes <= clean_passes
            /\ ota_cleanup_in_progress <=> cleanup_state # "idle"

TypeInv == UpdateTypeOK /\ FlushInv

\* A step of the cleanup or of what surrounds it, between two main loop parts.
CleanupStep == (CleanupRun \/ CleanupEnvironment) /\ UNCHANGED updateVars

LEMMA BufSizeType == BufSize \in Nat /\ 0 <= BufSize
  BY CleanupConstants

\* A field of faults that counts up to its bound.
LEMMA FaultType ==
  ASSUME faults \in 0 .. MaxFaults,
         faults' = faults \/ (faults' = faults + 1 /\ faults < MaxFaults)
  PROVE  faults' \in 0 .. MaxFaults
  BY CleanupConstants

LEMMA MaxFaultsType == MaxFaults \in Nat /\ 0 \in 0 .. MaxFaults
  BY CleanupConstants

LEMMA InitTypeInv == Init => TypeInv
<1> SUFFICES ASSUME Init PROVE TypeInv
  OBVIOUS
<1>1. CleanupTypeOK
  <2>1. broker \in [Topic -> Payload \cup {NoPayload}]
    BY UpdateConstants DEF Init, PublishedBy
  <2>2. topic_buf = <<>> /\ saved = <<>> /\ flushing = ""
    BY DEF Init, CleanupInit
  <2>3. topic_buf \in Seq(Topic) /\ saved \in Seq(Topic)
        /\ Len(topic_buf) = 0 /\ Len(saved) = 0
    BY <2>2, EmptySeq, Zenon
  <2>4. /\ cleanup_state = "idle" /\ inbound = {} /\ faults = 0 /\ clean_passes = 0
        /\ disturbed_passes = 0
        /\ {subscribed, flushed_once, pass_found_topics, draining,
            subscribed_long, quiet, late_activity, subscribing, online,
            disturbed} \subseteq BOOLEAN
    BY DEF Init, CleanupInit
  <2>5. Len(topic_buf) <= BufSize /\ Len(saved) <= BufSize
        /\ {clean_passes, disturbed_passes} \subseteq 0 .. 2 /\ faults \in 0 .. MaxFaults
    BY <2>3, <2>4, CleanupConstants
  <2>6. inbound \subseteq Topic /\ (flushing = "" <=> saved = <<>>)
        /\ flushing \in {"", "return", "flushed", "end_pass"}
    BY <2>2, <2>4
  <2> QED BY <2>1, <2>3, <2>4, <2>5, <2>6 DEF CleanupTypeOK
<1>2. UpdateTypeOK
  <2>1. /\ config \in Config /\ record = NoRecord /\ cleanup_trigger = "NONE"
        /\ ha_state = "idle" /\ unpublished = {} /\ lost = {}
        /\ trouble = 0 /\ failed_run = "no"
    BY DEF Init
  <2>2. {ota_cleanup_needed, ota_cleanup_in_progress, ota_discovery_publishing,
         ota_reboot_pending, discovery_refresh_in_progress,
         initial_discovery_needed, availability, ready} \subseteq BOOLEAN
    BY DEF Init
  <2> QED BY <1>1, <2>1, <2>2, UpdateConstants DEF UpdateTypeOK
<1>3. FlushInv
  BY DEF Init, CleanupInit, FlushInv
<1> QED BY <1>2, <1>3 DEF TypeInv

\* What run() does after a flush keeps the pass variables in their ranges.
LEMMA AfterFlushType ==
  ASSUME TypeInv, cleanup_state = "cleaning", subscribed,
         NEW then \in {"return", "flushed", "end_pass"}, AfterFlush(then)
  PROVE  /\ cleanup_state' \in {"cleaning", "done"}
         /\ subscribed' \in BOOLEAN /\ flushed_once' \in BOOLEAN
         /\ draining' \in BOOLEAN /\ late_activity' \in BOOLEAN
         /\ clean_passes' \in 0 .. 2 /\ disturbed_passes' \in 0 .. 2
         /\ disturbed_passes' <= clean_passes'
         /\ cleanup_state' = "cleaning" => clean_passes' < 2
         /\ cleanup_state' = "done" => clean_passes' = 2
<1>1. /\ cleanup_state = "cleaning" /\ clean_passes \in {0, 1}
      /\ disturbed_passes \in {0, 1} /\ disturbed_passes <= clean_passes
      /\ subscribed \in BOOLEAN /\ flushed_once \in BOOLEAN
      /\ draining \in BOOLEAN /\ late_activity \in BOOLEAN
  <2>1. clean_passes \in 0 .. 2 /\ clean_passes < 2
    BY DEF TypeInv, UpdateTypeOK, CleanupTypeOK, FlushInv
  <2>2. disturbed_passes \in 0 .. 2 /\ disturbed_passes <= clean_passes
    BY DEF TypeInv, UpdateTypeOK, CleanupTypeOK, FlushInv
  <2>3. clean_passes \in {0, 1} /\ disturbed_passes \in {0, 1}
    BY <2>1, <2>2
  <2> QED BY <2>2, <2>3 DEF TypeInv, UpdateTypeOK, CleanupTypeOK
<1>2. CASE then = "return"
  BY <1>1, <1>2 DEF AfterFlush, passVars
<1>3. CASE then = "flushed"
  BY <1>1, <1>3 DEF AfterFlush
<1>4. CASE then = "end_pass"
  <2>1. EndPass
    BY <1>4 DEF AfterFlush
  <2>2. /\ clean_passes' \in 0 .. 2
        /\ cleanup_state' = IF clean_passes' = 2 THEN "done" ELSE "cleaning"
        /\ disturbed_passes' \in 0 .. 2 /\ disturbed_passes' <= clean_passes'
    BY <1>1, <2>1 DEF EndPass
  <2>3. /\ subscribed' \in BOOLEAN /\ flushed_once' \in BOOLEAN
        /\ draining' \in BOOLEAN /\ late_activity' \in BOOLEAN
    BY <1>1, <2>1 DEF EndPass
  <2>4. /\ cleanup_state' \in {"cleaning", "done"}
        /\ cleanup_state' = "cleaning" => clean_passes' < 2
        /\ cleanup_state' = "done" => clean_passes' = 2
    BY <2>2
  <2> QED BY <2>2, <2>3, <2>4
<1> QED BY <1>2, <1>3, <1>4

\* A refused message leaves a queue of topics that still fits.
LEMMA UnmovedType ==
  ASSUME topic_buf \in Seq(Topic), saved \in Seq(Topic)
  PROVE  Unmoved \in Seq(Topic) /\ Len(Unmoved) = Len(saved)
  BY DEF Unmoved

\* So does a callback.
LEMMA AppendedType ==
  ASSUME NEW t \in Topic, topic_buf \in Seq(Topic), Len(topic_buf) <= BufSize
  PROVE  Appended(t) \in Seq(Topic) /\ Len(Appended(t)) <= BufSize
  BY CleanupConstants DEF Appended

\* What the type invariant says of the cleanup, conjunct by conjunct.
LEMMA CleanupTypes ==
  ASSUME TypeInv
  PROVE  /\ cleanup_state \in {"idle", "cleaning", "done"}
         /\ topic_buf \in Seq(Topic) /\ Len(topic_buf) <= BufSize
         /\ subscribed \in BOOLEAN /\ flushed_once \in BOOLEAN
         /\ pass_found_topics \in BOOLEAN /\ draining \in BOOLEAN
         /\ subscribed_long \in BOOLEAN /\ quiet \in BOOLEAN
         /\ late_activity \in BOOLEAN /\ subscribing \in BOOLEAN
         /\ online \in BOOLEAN /\ disturbed \in BOOLEAN
         /\ clean_passes \in 0 .. 2 /\ disturbed_passes \in 0 .. 2
         /\ flushing \in {"", "return", "flushed", "end_pass"}
         /\ saved \in Seq(Topic) /\ Len(saved) <= BufSize
         /\ flushing = "" <=> saved = <<>>
         /\ broker \in [Topic -> Payload \cup {NoPayload}]
         /\ inbound \subseteq Topic /\ faults \in 0 .. MaxFaults
  BY DEF TypeInv, UpdateTypeOK, CleanupTypeOK

\* A flush takes the head of a queue that is not empty.
LEMMA FlushTakeType ==
  ASSUME TypeInv, FlushTake
  PROVE  /\ topic_buf' \in Seq(Topic) /\ Len(topic_buf') <= BufSize
         /\ saved' \in Seq(Topic) /\ Len(saved') <= BufSize /\ saved' # <<>>
         /\ flushing' \in {"return", "flushed", "end_pass"}
         /\ flushing' = "end_pass" => subscribed_long
<1>1. topic_buf \in Seq(Topic) /\ Len(topic_buf) <= BufSize /\ topic_buf # <<>>
  BY CleanupTypes DEF FlushTake
<1>2. Tail(topic_buf) \in Seq(Topic) /\ Len(Tail(topic_buf)) = Len(topic_buf) - 1
  BY <1>1
<1>3. topic_buf' = Tail(topic_buf) /\ saved' = topic_buf
  BY DEF FlushTake
<1>4. Len(topic_buf) \in Nat /\ BufSize \in Nat
  BY <1>1, CleanupConstants
<1>5. Len(topic_buf') <= BufSize
  BY <1>1, <1>2, <1>3, <1>4
<1>6. /\ flushing' \in {"return", "flushed", "end_pass"}
      /\ flushing' = "end_pass" => subscribed_long
  BY DEF FlushTake, RunPhase
<1> QED BY <1>1, <1>2, <1>3, <1>5, <1>6

\* The end of a flush, whatever became of its message.
LEMMA FlushReturnsType ==
  ASSUME TypeInv, flushing # "", FlushReturns
  PROVE  /\ cleanup_state' \in {"cleaning", "done"}
         /\ subscribed' \in BOOLEAN /\ flushed_once' \in BOOLEAN
         /\ draining' \in BOOLEAN /\ late_activity' \in BOOLEAN
         /\ clean_passes' \in 0 .. 2 /\ disturbed_passes' \in 0 .. 2
         /\ disturbed_passes' <= clean_passes'
         /\ cleanup_state' = "cleaning" => clean_passes' < 2
         /\ cleanup_state' = "done" => clean_passes' = 2
         /\ flushing' = "" /\ saved' = <<>>
         /\ saved' \in Seq(Topic) /\ Len(saved') <= BufSize
<1>1. cleanup_state = "cleaning" /\ subscribed
      /\ flushing \in {"return", "flushed", "end_pass"}
  BY CleanupTypes DEF TypeInv, FlushInv
<1>2. AfterFlush(flushing) /\ flushing' = "" /\ saved' = <<>>
  BY DEF FlushReturns
<1>3. saved' \in Seq(Topic) /\ Len(saved') = 0
  BY <1>2, EmptySeq, Zenon
<1>4. Len(saved') <= BufSize
  BY <1>3, BufSizeType, Zenon
<1> QED BY <1>1, <1>2, <1>3, <1>4, AfterFlushType

\* The environment leaves the passes and the flush alone.
LEMMA PassesKeptType ==
  ASSUME TypeInv, UNCHANGED <<passVars, flushVars, subscribing, broker>>,
         ota_cleanup_in_progress' = ota_cleanup_in_progress,
         topic_buf' \in Seq(Topic), Len(topic_buf') <= BufSize,
         pass_found_topics' \in BOOLEAN, quiet' \in BOOLEAN,
         late_activity' \in BOOLEAN, subscribed_long' \in BOOLEAN,
         subscribed_long => subscribed_long',
         inbound' \subseteq Topic, online' \in BOOLEAN, disturbed' \in BOOLEAN,
         faults' \in 0 .. MaxFaults
  PROVE  CleanupTypeOK' /\ FlushInv'
<1>1. /\ cleanup_state' = cleanup_state /\ subscribed' = subscribed
      /\ flushed_once' = flushed_once /\ clean_passes' = clean_passes
      /\ draining' = draining /\ disturbed_passes' = disturbed_passes
      /\ flushing' = flushing /\ saved' = saved /\ subscribing' = subscribing
      /\ broker' = broker
  BY DEF passVars, flushVars
<1>2. {subscribed, flushed_once, pass_found_topics, draining, subscribed_long, quiet,
       late_activity, subscribing, online, disturbed}' \subseteq BOOLEAN
  BY <1>1, CleanupTypes
<1>3. /\ cleanup_state' \in {"idle", "cleaning", "done"}
      /\ {clean_passes, disturbed_passes}' \subseteq 0 .. 2
      /\ flushing' \in {"", "return", "flushed", "end_pass"}
      /\ saved' \in Seq(Topic) /\ Len(saved') <= BufSize
      /\ (flushing' = "" <=> saved' = <<>>)
      /\ broker' \in [Topic -> Payload \cup {NoPayload}]
  BY <1>1, CleanupTypes
<1>4. CleanupTypeOK'
  BY <1>2, <1>3, Zenon DEF CleanupTypeOK
<1>5. FlushInv'
  <2>1. FlushInv
    BY DEF TypeInv
  <2>2. flushing' # "" => cleanup_state' = "cleaning" /\ subscribed'
    BY <1>1, <2>1, ZenonT(30) DEF FlushInv
  <2>3. subscribing' => cleanup_state' = "cleaning" /\ ~subscribed'
    <3>1. subscribing => cleanup_state = "cleaning" /\ ~subscribed
      BY <2>1 DEF FlushInv
    <3>2. subscribing' = subscribing /\ subscribed' = subscribed /\ cleanup_state' = cleanup_state
      BY <1>1
    <3> QED BY <3>1, <3>2
  <2>4. /\ flushing' = "end_pass" => subscribed_long'
        /\ ota_cleanup_in_progress' <=> cleanup_state' # "idle"
    BY <1>1, <2>1, Zenon DEF FlushInv
  <2>5. /\ cleanup_state' = "cleaning" => clean_passes' < 2
        /\ cleanup_state' = "done" => clean_passes' = 2
        /\ cleanup_state' # "idle" => disturbed_passes' <= clean_passes'
    BY <1>1, <2>1 DEF FlushInv
  <2> QED BY <2>2, <2>3, <2>4, <2>5 DEF FlushInv
<1> QED BY <1>4, <1>5

LEMMA CleanupStepType ==
  ASSUME TypeInv, CleanupStep
  PROVE  TypeInv'
<1>0. /\ UNCHANGED updateVars
      /\ UpdateTypeOK /\ FlushInv
  BY DEF CleanupStep, TypeInv
<1>t. SUFFICES CleanupTypeOK' /\ FlushInv'
  BY <1>0 DEF TypeInv, UpdateTypeOK, updateVars, flagVars, managerVars
<1>f. ota_cleanup_in_progress' = ota_cleanup_in_progress
  BY <1>0 DEF updateVars, flagVars
<1>1. CASE Redrain
  BY <1>0, <1>1, <1>f, CleanupTypes
     DEF Redrain, passVars, flushVars, linkVars, CleanupTypeOK, FlushInv
<1>2. CASE Subscribe
  <2>1. inbound' \subseteq Topic
    BY <1>2, CleanupTypes DEF Subscribe, Retained
  <2> QED BY <1>0, <1>2, <1>f, <2>1, CleanupTypes
          DEF Subscribe, flushVars, activityVars, CleanupTypeOK, FlushInv
<1>2r. CASE SubscribeReset
  BY <1>0, <1>2r, <1>f, CleanupTypes
     DEF SubscribeReset, flushVars, CleanupTypeOK, FlushInv
<1>3. CASE FlushNothing
  <2>1. RunPhase \in {"return", "flushed", "end_pass"}
    BY DEF RunPhase
  <2>2. AfterFlush(RunPhase) /\ cleanup_state = "cleaning" /\ subscribed
    BY <1>3 DEF FlushNothing
  <2>3. /\ UNCHANGED <<topic_buf, pass_found_topics, quiet, subscribed_long,
                       flushing, saved, subscribing, broker, inbound, linkVars>>
        /\ flushing = ""
    BY <1>3 DEF FlushNothing, flushVars
  <2>4. CleanupTypeOK'
    BY <2>1, <2>2, <2>3, AfterFlushType, CleanupTypes DEF CleanupTypeOK, linkVars
  <2> QED BY <1>0, <1>f, <2>1, <2>2, <2>3, <2>4, AfterFlushType DEF FlushInv
<1>4. CASE FlushTake
  <2>1. /\ UNCHANGED <<passVars, activityVars, subscribed_long, subscribing, broker,
                       inbound, linkVars>>
        /\ cleanup_state = "cleaning" /\ subscribed
    BY <1>4 DEF FlushTake
  <2>2. CleanupTypeOK'
    BY <1>4, <2>1, FlushTakeType, CleanupTypes
       DEF CleanupTypeOK, passVars, activityVars, linkVars
  <2> QED BY <1>0, <1>4, <1>f, <2>1, <2>2, FlushTakeType DEF FlushInv, passVars
<1>5. CASE ClearArrives \/ ClearLost \/ ClearRefused
  <2>1. /\ FlushReturns /\ flushing # ""
        /\ UNCHANGED <<pass_found_topics, quiet, subscribed_long, subscribing,
                       inbound, linkVars>>
    BY <1>5 DEF ClearArrives, ClearLost, ClearRefused
  <2>2. topic_buf' \in Seq(Topic) /\ Len(topic_buf') <= BufSize
    <3>1. topic_buf' = topic_buf \/ topic_buf' = Unmoved
      BY <1>5 DEF ClearArrives, ClearLost, ClearRefused
    <3> QED BY <3>1, UnmovedType, CleanupTypes
  <2>3. broker' \in [Topic -> Payload \cup {NoPayload}]
    <3>1. broker' = broker \/ broker' = [broker EXCEPT ![Head(saved)] = NoPayload]
      BY <1>5 DEF ClearArrives, ClearLost, ClearRefused
    <3> QED BY <3>1, CleanupTypes
  <2>4. CleanupTypeOK'
    BY <2>1, <2>2, <2>3, FlushReturnsType, CleanupTypes DEF CleanupTypeOK, linkVars
  <2> QED BY <1>0, <1>f, <2>1, <2>4, FlushReturnsType DEF FlushInv
<1>6. ASSUME NEW t \in Topic, TopicCallback(t)
      PROVE  CleanupTypeOK' /\ FlushInv'
  <2>1. /\ UNCHANGED <<passVars, subscribed_long, flushVars, subscribing, broker,
                       online, faults>>
        /\ inbound' \subseteq Topic /\ disturbed' \in BOOLEAN
    BY <1>6, CleanupTypes DEF TopicCallback
  <2>2. topic_buf' = topic_buf \/ topic_buf' = Appended(t)
    BY <1>6 DEF TopicCallback
  <2>3. topic_buf' \in Seq(Topic) /\ Len(topic_buf') <= BufSize
    BY <2>2, AppendedType, CleanupTypes
  <2>4. pass_found_topics' \in BOOLEAN /\ quiet' \in BOOLEAN /\ late_activity' \in BOOLEAN
    BY <1>6, CleanupTypes DEF TopicCallback, activityVars
  <2>5. /\ subscribed_long' \in BOOLEAN /\ (subscribed_long => subscribed_long')
        /\ online' \in BOOLEAN /\ faults' \in 0 .. MaxFaults
    BY <2>1, CleanupTypes
  <2>6. UNCHANGED <<passVars, flushVars, subscribing, broker>>
    BY <2>1
  <2> QED BY <1>f, <2>1, <2>3, <2>4, <2>5, <2>6, PassesKeptType
<1>7. CASE SecondPasses
  <2>1. faults' \in 0 .. MaxFaults
    BY <1>7, FaultType, CleanupTypes DEF SecondPasses
  <2>2. /\ UNCHANGED <<topic_buf, passVars, pass_found_topics, late_activity,
                       flushVars, subscribing, broker, inbound, online>>
        /\ quiet' = TRUE /\ subscribed_long' = TRUE /\ disturbed' \in BOOLEAN
    BY <1>7, CleanupTypes DEF SecondPasses
  <2> QED BY <1>f, <2>1, <2>2, CleanupTypes, PassesKeptType
<1>8. CASE LoseInbound \/ LoseConnection \/ Reconnect
  <2>1. faults' \in 0 .. MaxFaults
    BY <1>8, FaultType, CleanupTypes DEF LoseInbound, LoseConnection, Reconnect
  <2>2. /\ UNCHANGED <<topic_buf, passVars, activityVars, subscribed_long,
                       flushVars, subscribing, broker>>
        /\ inbound' \subseteq Topic /\ online' \in BOOLEAN /\ disturbed' \in BOOLEAN
    BY <1>8, CleanupTypes DEF LoseInbound, LoseConnection, Reconnect, Retained
  <2> QED BY <1>f, <2>1, <2>2, CleanupTypes, PassesKeptType DEF activityVars
<1> QED BY <1>1, <1>2, <1>2r, <1>3, <1>4, <1>5, <1>6, <1>7, <1>8
        DEF CleanupStep, CleanupRun, CleanupEnvironment

\* Nothing of the cleanup moves.
LEMMA CleanupStutterType ==
  ASSUME TypeInv, UNCHANGED cleanupVars,
         ota_cleanup_in_progress' = ota_cleanup_in_progress
  PROVE  CleanupTypeOK' /\ FlushInv'
  BY DEF TypeInv, UpdateTypeOK, CleanupTypeOK, FlushInv, cleanupVars, passVars,
         activityVars, flushVars, linkVars

LEMMA ClearedType ==
  ASSUME CleanupCleared
  PROVE  /\ topic_buf' \in Seq(Topic) /\ Len(topic_buf') <= BufSize
         /\ saved' \in Seq(Topic) /\ Len(saved') <= BufSize
         /\ {subscribed, flushed_once, pass_found_topics, draining,
             subscribed_long, quiet, late_activity, disturbed}' \subseteq BOOLEAN
         /\ flushing' = "" /\ saved' = <<>> /\ subscribing' = FALSE
         /\ clean_passes' = 0 /\ clean_passes' \in 0 .. 2
         /\ faults' = 0 /\ faults' \in 0 .. MaxFaults
<1>1. topic_buf' = <<>> /\ saved' = <<>>
  BY DEF CleanupCleared
<1>2. topic_buf' \in Seq(Topic) /\ saved' \in Seq(Topic)
      /\ Len(topic_buf') = 0 /\ Len(saved') = 0
  BY <1>1, EmptySeq, Zenon
<1>3. Len(topic_buf') <= BufSize /\ Len(saved') <= BufSize
  BY <1>2, BufSizeType, Zenon
<1>4. /\ clean_passes' = 0 /\ clean_passes' \in 0 .. 2
      /\ faults' = 0 /\ faults' \in 0 .. MaxFaults
  <2>1. clean_passes' = 0 /\ faults' = 0
    BY DEF CleanupCleared
  <2>2. clean_passes' \in 0 .. 2
    BY <2>1
  <2> QED BY <2>1, <2>2, MaxFaultsType, Zenon
<1>5. {subscribed, flushed_once, pass_found_topics, draining,
       subscribed_long, quiet, late_activity, disturbed}' \subseteq BOOLEAN
  BY DEF CleanupCleared
<1>6. flushing' = "" /\ subscribing' = FALSE
  BY DEF CleanupCleared
<1> QED BY <1>1, <1>2, <1>3, <1>4, <1>5, <1>6

LEMMA StartType ==
  ASSUME TypeInv, ha_discovery_cleanup_start, ota_cleanup_in_progress' = TRUE
  PROVE  CleanupTypeOK' /\ FlushInv'
<1>1. CleanupCleared /\ cleanup_state' = "cleaning" /\ broker' = broker /\ inbound' = inbound
      /\ online' = online /\ disturbed_passes' = 0
  BY DEF ha_discovery_cleanup_start
<1>2. CleanupTypeOK'
  BY <1>1, ClearedType, CleanupTypes DEF CleanupTypeOK
<1>3. FlushInv'
  <2>1. clean_passes' = 0 /\ flushing' = "" /\ subscribing' = FALSE
        /\ disturbed_passes' = 0
    BY <1>1 DEF CleanupCleared
  <2>2. cleanup_state' = "cleaning" /\ ota_cleanup_in_progress' = TRUE
    BY <1>1
  <2>3. clean_passes' < 2
    <3>1. 0 < 2
      OBVIOUS
    <3> QED BY <2>1, <3>1, Zenon
  <2>4. ota_cleanup_in_progress' <=> cleanup_state' # "idle"
    BY <2>2
  <2>5. disturbed_passes' <= clean_passes'
    <3>1. 0 <= 0
      OBVIOUS
    <3> QED BY <2>1, <3>1, Zenon
  <2> QED BY <2>1, <2>2, <2>3, <2>4, <2>5 DEF FlushInv
<1> QED BY <1>2, <1>3

LEMMA DestroyType ==
  ASSUME TypeInv, ha_discovery_cleanup_destroy, broker' = broker,
         disturbed_passes' \in {0, disturbed_passes},
         ota_cleanup_in_progress' = FALSE
  PROVE  CleanupTypeOK' /\ FlushInv'
<1>1. CleanupCleared /\ cleanup_state' = "idle" /\ inbound' = {} /\ online' = TRUE
  BY DEF ha_discovery_cleanup_destroy
<1>2. CleanupTypeOK'
  BY <1>1, ClearedType, CleanupTypes DEF CleanupTypeOK
<1>3. FlushInv'
  BY <1>1, ClearedType DEF FlushInv
<1> QED BY <1>2, <1>3

\* What the type invariant says of the update, conjunct by conjunct.
LEMMA UpdateTypes ==
  ASSUME TypeInv
  PROVE  /\ config \in Config /\ record \in (Config \X BOOLEAN) \cup {NoRecord}
         /\ ota_cleanup_needed \in BOOLEAN /\ ota_cleanup_in_progress \in BOOLEAN
         /\ ota_discovery_publishing \in BOOLEAN /\ ota_reboot_pending \in BOOLEAN
         /\ discovery_refresh_in_progress \in BOOLEAN
         /\ initial_discovery_needed \in BOOLEAN
         /\ availability \in BOOLEAN /\ ready \in BOOLEAN
         /\ cleanup_trigger \in {"NONE", "OTA", "DISCOVERY_REFRESH", "INITIAL"}
         /\ ha_state \in {"idle", "building", "discovering", "complete", "failed"}
         /\ unpublished \subseteq Topic /\ lost \subseteq Topic
         /\ trouble \in 0 .. MaxTrouble
         /\ failed_run \in {"no", "this_boot", "last_boot"}
         /\ Entities[config] \subseteq Topic
  BY UpdateConstants DEF TypeInv, UpdateTypeOK

LEMMA UpsetType == TypeInv /\ Upset => trouble' \in 0 .. MaxTrouble
<1> SUFFICES ASSUME TypeInv, Upset PROVE trouble' \in 0 .. MaxTrouble
  OBVIOUS
<1>1. trouble \in 0 .. MaxTrouble /\ MaxTrouble \in Nat
  BY UpdateTypes, UpdateConstants
<1>2. trouble' = trouble + 1 /\ trouble < MaxTrouble
  BY DEF Upset
<1> QED BY <1>1, <1>2

LEMMA StartManagerType ==
  ASSUME TypeInv, StartManager
  PROVE  /\ availability' = TRUE /\ ota_discovery_publishing' = TRUE
         /\ ha_state' \in {"building", "failed"}
         /\ unpublished' \subseteq Entities[config]
         /\ ha_state' = "building" => unpublished' = Entities[config]
         /\ trouble' \in 0 .. MaxTrouble
  BY UpdateTypes, UpsetType DEF StartManager

\* A new boot, of the same build or another one.
LEMMA BootType ==
  ASSUME TypeInv, Boot, config' \in Config, trouble' \in 0 .. MaxTrouble
  PROVE  TypeInv'
<1>1. /\ ha_discovery_cleanup_destroy /\ UNCHANGED <<record, broker, lost>>
      /\ disturbed_passes' = 0
      /\ ota_cleanup_in_progress' = FALSE /\ cleanup_trigger' = "NONE"
      /\ ha_state' = "idle" /\ unpublished' = {}
      /\ failed_run' \in {"no", "last_boot"}
  BY DEF Boot
<1>2. {ota_cleanup_needed, ota_cleanup_in_progress, ota_discovery_publishing,
       ota_reboot_pending, discovery_refresh_in_progress,
       initial_discovery_needed, availability, ready}' \subseteq BOOLEAN
  BY DEF Boot
<1>3. CleanupTypeOK' /\ FlushInv'
  BY <1>1, DestroyType
<1>4. UpdateTypeOK'
  BY <1>1, <1>2, <1>3, UpdateTypes DEF UpdateTypeOK
<1> QED BY <1>3, <1>4 DEF TypeInv

\* The steps of the manager's run that publish nothing, and the triggers.
LEMMA QuietStepType ==
  ASSUME TypeInv,
         \/ BecomeReady \/ PressRefresh \/ StartInitial \/ BeginDiscovering
         \/ DecompressFails \/ CompleteDiscovering \/ EndDiscovery
  PROVE  TypeInv'
<1>1. UNCHANGED <<cleanupVars, config, lost>>
      /\ ota_cleanup_in_progress' = ota_cleanup_in_progress
  BY DEF BecomeReady, PressRefresh, StartInitial, BeginDiscovering, DecompressFails,
         CompleteDiscovering, EndDiscovery, flagVars, managerVars
<1>2. CleanupTypeOK' /\ FlushInv'
  BY <1>1, CleanupStutterType
<1>3. SUFFICES /\ record' \in (Config \X BOOLEAN) \cup {NoRecord}
               /\ ota_cleanup_needed' \in BOOLEAN
               /\ ota_discovery_publishing' \in BOOLEAN /\ ota_reboot_pending' \in BOOLEAN
               /\ discovery_refresh_in_progress' \in BOOLEAN
               /\ initial_discovery_needed' \in BOOLEAN
               /\ availability' \in BOOLEAN /\ ready' \in BOOLEAN
               /\ cleanup_trigger' \in {"NONE", "OTA", "DISCOVERY_REFRESH", "INITIAL"}
               /\ ha_state' \in {"idle", "building", "discovering", "complete", "failed"}
               /\ unpublished' \subseteq Topic
               /\ trouble' \in 0 .. MaxTrouble
               /\ failed_run' \in {"no", "this_boot", "last_boot"}
  BY <1>1, <1>2, UpdateTypes DEF TypeInv, UpdateTypeOK
<1>4. CASE BecomeReady
  <2>1. /\ ready' = TRUE
        /\ UNCHANGED <<record, ota_discovery_publishing, ota_reboot_pending,
                       discovery_refresh_in_progress, ha_state, unpublished,
                       trouble, failed_run>>
        /\ \/ CompareWithRecord
           \/ UNCHANGED <<availability, initial_discovery_needed, ota_cleanup_needed,
                          cleanup_trigger>>
    BY <1>4 DEF BecomeReady
  <2>2. CASE CompareWithRecord
    <3>1. initial_discovery_needed' \in BOOLEAN /\ ota_cleanup_needed' \in BOOLEAN
      BY <2>2, Zenon DEF CompareWithRecord
    <3>2. /\ availability' = TRUE
          /\ cleanup_trigger' \in {"NONE", "OTA", "DISCOVERY_REFRESH", "INITIAL"}
      BY <2>2, UpdateTypes DEF CompareWithRecord
    <3> QED BY <2>1, <3>1, <3>2, UpdateTypes
  <2> QED BY <2>1, <2>2, UpdateTypes
<1>5. CASE PressRefresh
  BY <1>5, UpdateTypes, UpsetType DEF PressRefresh, managerVars
<1>6. CASE StartInitial
  <2>1. StartManager
    BY <1>6 DEF StartInitial
  <2> QED BY <1>6, <2>1, UpdateTypes, StartManagerType DEF StartInitial
<1>7. CASE BeginDiscovering \/ CompleteDiscovering
  BY <1>7, UpdateTypes DEF BeginDiscovering, CompleteDiscovering, flagVars
<1>8. CASE DecompressFails
  BY <1>8, UpdateTypes, UpsetType DEF DecompressFails, flagVars
<1>9. CASE EndDiscovery
  <2>1. /\ UNCHANGED <<ota_cleanup_needed, discovery_refresh_in_progress,
                       initial_discovery_needed, ready, trouble>>
        /\ ota_discovery_publishing' = FALSE /\ cleanup_trigger' = "NONE"
        /\ DropFailure \/ RecordSuccess
    BY <1>9 DEF EndDiscovery
  <2>2. CASE DropFailure
    BY <2>1, <2>2, UpdateTypes DEF DropFailure
  <2>3. CASE RecordSuccess
    <3>1. record' \in Config \X BOOLEAN
      BY <2>3, UpdateTypes DEF RecordSuccess, DiscoveryState
    <3> QED BY <2>1, <2>3, <3>1, UpdateTypes DEF RecordSuccess, managerVars
  <2> QED BY <2>1, <2>2, <2>3
<1> QED BY <1>4, <1>5, <1>6, <1>7, <1>8, <1>9

LEMMA StartCleanupType == TypeInv /\ StartCleanup => TypeInv'
<1> SUFFICES ASSUME TypeInv, StartCleanup PROVE TypeInv'
  OBVIOUS
<1>1. CleanupTypeOK' /\ FlushInv'
  BY StartType DEF StartCleanup
<1>2. UpdateTypeOK'
  BY <1>1, UpdateTypes DEF StartCleanup, UpdateTypeOK, managerVars
<1> QED BY <1>1, <1>2 DEF TypeInv

LEMMA FinishCleanupType == TypeInv /\ FinishCleanup => TypeInv'
<1> SUFFICES ASSUME TypeInv, FinishCleanup PROVE TypeInv'
  OBVIOUS
<1>1. CleanupTypeOK' /\ FlushInv'
  BY DestroyType DEF FinishCleanup
<1>2. StartManager
  BY DEF FinishCleanup
<1>3. /\ availability' = TRUE /\ ota_discovery_publishing' = TRUE
      /\ ha_state' \in {"idle", "building", "discovering", "complete", "failed"}
      /\ unpublished' \subseteq Topic /\ trouble' \in 0 .. MaxTrouble
  BY <1>2, StartManagerType, UpdateTypes
<1>4. ota_cleanup_needed' \in BOOLEAN
  BY DEF FinishCleanup
<1>5. UpdateTypeOK'
  BY <1>1, <1>3, <1>4, UpdateTypes DEF FinishCleanup, UpdateTypeOK
<1> QED BY <1>1, <1>5 DEF TypeInv

LEMMA PublishEntityType ==
  ASSUME TypeInv, NEW t \in Topic, PublishEntity(t)
  PROVE  TypeInv'
<1>1. /\ UNCHANGED <<topic_buf, passVars, activityVars, subscribed_long, flushVars,
                     subscribing, inbound, linkVars, config, record, flagVars,
                     ha_state, availability, ready, trouble, failed_run>>
      /\ unpublished' = unpublished \ {t}
      /\ lost' \subseteq lost \cup {t}
      /\ broker' = broker \/ broker' = [broker EXCEPT ![t] = PayloadOf[config]]
  BY DEF PublishEntity
<1>2. PayloadOf[config] \in Payload
  BY UpdateTypes, UpdateConstants
<1>3. broker' \in [Topic -> Payload \cup {NoPayload}]
  BY <1>1, <1>2, CleanupTypes
<1>4. CleanupTypeOK'
  <2>1. /\ UNCHANGED <<topic_buf, cleanup_state, subscribed, flushed_once, clean_passes,
                       draining, disturbed_passes, pass_found_topics, quiet,
                       late_activity, subscribed_long, flushing, saved, subscribing,
                       inbound, online, faults, disturbed>>
    BY <1>1 DEF passVars, activityVars, flushVars, linkVars
  <2>2. {subscribed, flushed_once, pass_found_topics, draining, subscribed_long, quiet,
         late_activity, subscribing, online, disturbed}' \subseteq BOOLEAN
    BY <2>1, CleanupTypes
  <2> QED BY <1>3, <2>1, <2>2, CleanupTypes DEF CleanupTypeOK
<1>5. FlushInv'
  BY <1>1 DEF TypeInv, FlushInv, passVars, activityVars, flushVars, flagVars
<1>6. UpdateTypeOK'
  BY <1>1, <1>4, UpdateTypes DEF UpdateTypeOK, flagVars
<1> QED BY <1>5, <1>6 DEF TypeInv

LEMMA StepTypeInv == TypeInv /\ [Next]_vars => TypeInv'
<1> SUFFICES ASSUME TypeInv, [Next]_vars PROVE TypeInv'
  OBVIOUS
<1>1. CASE \/ BecomeReady \/ PressRefresh \/ StartInitial \/ BeginDiscovering
           \/ DecompressFails \/ CompleteDiscovering \/ EndDiscovery
  BY <1>1, QuietStepType
<1>2. CASE StartCleanup
  BY <1>2, StartCleanupType
<1>3. CASE FinishCleanup
  BY <1>3, FinishCleanupType
<1>4. ASSUME NEW t \in Topic, PublishEntity(t) PROVE TypeInv'
  BY <1>4, PublishEntityType
<1>5. CASE CleanupStep
  BY <1>5, CleanupStepType
<1>6. CASE Reboot
  BY <1>6, BootType, UpdateTypes DEF Reboot
<1>7. CASE NewBoot
  BY <1>7, BootType, UpsetType DEF NewBoot
<1>8. CASE UNCHANGED vars
  <2>1. UNCHANGED cleanupVars /\ UNCHANGED updateVars
    BY <1>8 DEF vars
  <2>2. CleanupTypeOK' /\ FlushInv'
    BY <2>1, CleanupStutterType DEF updateVars, flagVars
  <2> QED BY <2>1, <2>2 DEF TypeInv, UpdateTypeOK, updateVars, flagVars, managerVars
<1>9. Next => \/ BecomeReady \/ PressRefresh \/ StartInitial \/ BeginDiscovering
              \/ DecompressFails \/ CompleteDiscovering \/ EndDiscovery
              \/ StartCleanup \/ FinishCleanup
              \/ (\E t \in Topic : PublishEntity(t))
              \/ CleanupStep \/ Reboot \/ NewBoot
  BY DEF Next, Loop, Environment, RunCleanup, CleanupStep
<1> QED BY <1>1, <1>2, <1>3, <1>4, <1>5, <1>6, <1>7, <1>8, <1>9

(* Types and ranges of the cleanup and the update, in every boot: the      *)
(* queue never outgrows its buffer, and no second flush starts in another. *)
THEOREM UpdateTypeCorrect == Spec => []UpdateTypeOK
<1>1. TypeInv => UpdateTypeOK
  BY DEF TypeInv
<1> QED BY InitTypeInv, StepTypeInv, <1>1, PTL DEF Spec

-----------------------------------------------------------------------------
(* The stages of an update.  Publishing needs the component to be ready and *)
(* the availability buffers to be filled, or the record would not match.   *)

StagesInv == /\ TypeInv
             /\ UpdateStages
             /\ ota_discovery_publishing => ready /\ availability = TRUE
             /\ ota_cleanup_in_progress => ready

LEMMA InitStagesInv == Init => StagesInv
<1> SUFFICES ASSUME Init PROVE StagesInv
  OBVIOUS
<1>1. UpdateStages
  BY DEF Init, CleanupInit, UpdateStages
<1> QED BY <1>1, InitTypeInv DEF Init, StagesInv

LEMMA StepStagesInv == StagesInv /\ [Next]_vars => StagesInv'
<1> SUFFICES ASSUME StagesInv, [Next]_vars PROVE StagesInv'
  OBVIOUS
<1>1. TypeInv /\ TypeInv'
  BY StepTypeInv DEF StagesInv
<1>2. SUFFICES /\ ota_discovery_publishing' => ~ota_cleanup_in_progress' /\ ~ota_reboot_pending'
               /\ ota_discovery_publishing' <=> ha_state' # "idle" /\ ~ota_reboot_pending'
               /\ ota_reboot_pending' => /\ ~ota_cleanup_in_progress'
                                         /\ ha_state' = "complete"
                                         /\ record' = <<config', TRUE>>
               /\ ota_discovery_publishing' => ready' /\ availability' = TRUE
               /\ ota_cleanup_in_progress' => ready'
  <2>1. ota_cleanup_in_progress' <=> cleanup_state' # "idle"
    BY <1>1 DEF TypeInv, FlushInv
  <2> QED BY <1>1, <1>2, <2>1 DEF StagesInv, UpdateStages
<1>3. /\ ota_discovery_publishing => ~ota_cleanup_in_progress /\ ~ota_reboot_pending
      /\ ota_discovery_publishing <=> ha_state # "idle" /\ ~ota_reboot_pending
      /\ ota_reboot_pending => /\ ~ota_cleanup_in_progress
                               /\ ha_state = "complete"
                               /\ record = <<config, TRUE>>
      /\ ota_discovery_publishing => ready /\ availability = TRUE
      /\ ota_cleanup_in_progress => ready
  BY DEF StagesInv, UpdateStages
<1>4. CASE BecomeReady
  BY <1>3, <1>4 DEF BecomeReady, CompareWithRecord
<1>5. CASE PressRefresh
  BY <1>3, <1>5 DEF PressRefresh, managerVars
<1>6. CASE StartInitial
  <2>1. StartManager /\ ready
    BY <1>6 DEF StartInitial, InitialDue
  <2> QED BY <1>1, <1>3, <1>6, <2>1, StartManagerType DEF StartInitial, InitialDue
<1>7. CASE BeginDiscovering \/ CompleteDiscovering \/ DecompressFails
  <2>1. /\ ota_discovery_publishing
        /\ UNCHANGED <<flagVars, record, config, ready, availability>>
        /\ ha_state' \in {"discovering", "complete", "failed"}
    BY <1>7 DEF BeginDiscovering, CompleteDiscovering, DecompressFails
  <2> QED BY <1>3, <2>1 DEF flagVars
<1>8. CASE EndDiscovery
  <2>1. /\ ota_discovery_publishing /\ ota_discovery_publishing' = FALSE
        /\ UNCHANGED <<config, ota_cleanup_in_progress, ready>>
        /\ IF ha_state = "failed" THEN DropFailure ELSE RecordSuccess /\ ha_state = "complete"
    BY <1>8 DEF EndDiscovery
  <2>2. CASE DropFailure
    BY <1>3, <2>1, <2>2 DEF DropFailure
  <2>3. CASE RecordSuccess /\ ha_state = "complete"
    BY <1>3, <2>1, <2>3 DEF RecordSuccess, DiscoveryState, managerVars
  <2> QED BY <2>1, <2>2, <2>3
<1>9. CASE StartCleanup
  BY <1>3, <1>9 DEF StartCleanup, managerVars
<1>10. CASE FinishCleanup
  <2>1. StartManager /\ ota_cleanup_in_progress
    BY <1>10 DEF FinishCleanup
  <2> QED BY <1>1, <1>3, <1>10, <2>1, StartManagerType DEF FinishCleanup
<1>11. ASSUME NEW t \in Topic, PublishEntity(t)
       PROVE  UNCHANGED <<flagVars, ha_state, record, config, ready, availability>>
  BY <1>11 DEF PublishEntity
<1>12. CASE CleanupStep \/ UNCHANGED vars \/ (\E t \in Topic : PublishEntity(t))
  <2>1. UNCHANGED <<flagVars, ha_state, record, config, ready, availability>>
    BY <1>11, <1>12 DEF CleanupStep, vars, updateVars, managerVars
  <2> QED BY <1>3, <2>1 DEF flagVars
<1>13. CASE Reboot \/ NewBoot
  BY <1>13 DEF Reboot, NewBoot, Boot
<1> QED BY <1>4, <1>5, <1>6, <1>7, <1>8, <1>9, <1>10, <1>12, <1>13
        DEF Next, Loop, Environment, RunCleanup, CleanupStep

(* Cleanup, publishing and the wait for the reboot never overlap, and a    *)
(* reboot leaves behind the record that keeps the next boot from doing the *)
(* same again, for every set of builds and topics.                         *)
THEOREM StagesApart == Spec => []UpdateStages
<1>1. StagesInv => UpdateStages
  BY DEF StagesInv
<1> QED BY InitStagesInv, StepStagesInv, <1>1, PTL DEF Spec

-----------------------------------------------------------------------------
(* A cleanup clears everything.  While a topic is still retained, each     *)
(* pass that found nothing was disturbed: the broker answers a             *)
(* subscription with the topic, and the pass ends only after a second, in  *)
(* which the answer was lost, held up or erased.                           *)

Gone == \A t \in Topic : broker[t] = NoPayload

\* The broker's answer to this pass is still to come.
Coming == inbound # {} \/ ~online

CountInv ==
    /\ ~Gone /\ cleanup_state # "idle" => clean_passes <= disturbed_passes
    /\ ~Gone /\ cleanup_state = "cleaning" /\ subscribed
           /\ ~pass_found_topics /\ ~disturbed => ~subscribed_long /\ Coming
    /\ ~Gone /\ subscribing /\ ~disturbed => Coming

CleanInv == StagesInv /\ CountInv

LEMMA InitCleanInv == Init => CleanInv
  BY InitStagesInv DEF Init, CleanupInit, CleanInv, CountInv

LEMMA CountTypes ==
  ASSUME CleanInv
  PROVE  /\ TypeInv /\ FlushInv /\ CountInv
         /\ clean_passes \in Nat /\ disturbed_passes \in Nat
<1>1. TypeInv /\ FlushInv /\ CountInv
  BY DEF CleanInv, StagesInv, TypeInv
<1>2. clean_passes \in 0 .. 2 /\ disturbed_passes \in 0 .. 2
  BY <1>1, CleanupTypes
<1> QED BY <1>1, <1>2

\* The end of a pass that found nothing though something was there counts it
\* among the disturbed ones.
LEMMA AfterFlushCounts ==
  ASSUME CleanInv, cleanup_state = "cleaning", subscribed,
         NEW then \in {"return", "flushed", "end_pass"}, AfterFlush(then),
         then = "end_pass" => subscribed_long,
         UNCHANGED <<pass_found_topics, subscribed_long, subscribing, inbound,
                     linkVars>>,
         Gone => Gone'
  PROVE  CountInv'
<1>1. /\ clean_passes \in Nat /\ disturbed_passes \in Nat /\ CountInv
      /\ pass_found_topics \in BOOLEAN /\ disturbed \in BOOLEAN
      /\ ~subscribing
  BY CountTypes, CleanupTypes DEF FlushInv
<1>2. CASE then # "end_pass"
  <2>1. UNCHANGED <<cleanup_state, clean_passes, disturbed_passes, subscribed>>
    BY <1>2 DEF AfterFlush, passVars
  <2> QED BY <1>1, <2>1 DEF CountInv, Coming, linkVars
<1>3. CASE then = "end_pass"
  <2>1. /\ subscribed' = FALSE
        /\ clean_passes' = IF pass_found_topics THEN clean_passes ELSE clean_passes + 1
        /\ disturbed_passes' = IF ~pass_found_topics /\ disturbed
                               THEN disturbed_passes + 1 ELSE disturbed_passes
    BY <1>3 DEF AfterFlush, EndPass
  <2>2. ASSUME ~Gone' PROVE clean_passes' <= disturbed_passes'
    <3>1. ~Gone
      BY <2>2
    <3>2. clean_passes <= disturbed_passes /\ (~pass_found_topics => disturbed)
      BY <1>1, <1>3, <3>1 DEF CountInv
    <3> QED BY <1>1, <2>1, <3>2
  <2> QED BY <1>1, <2>1, <2>2 DEF CountInv
<1> QED BY <1>2, <1>3

LEMMA CleanupStepCounts ==
  ASSUME CleanInv, CleanupStep
  PROVE  CountInv'
<1>0. TypeInv /\ FlushInv /\ CountInv
  BY CountTypes
<1>1. CASE Redrain
  BY <1>0, <1>1 DEF Redrain, passVars, linkVars, CountInv, Coming, Gone
<1>2. CASE Subscribe
  <2>1. /\ subscribed' = FALSE
        /\ UNCHANGED <<cleanup_state, clean_passes, disturbed_passes, broker, online>>
        /\ inbound' = IF online THEN inbound \cup Retained ELSE inbound
    BY <1>2 DEF Subscribe
  <2>2. ~Gone => Coming'
    BY <2>1 DEF Gone, Coming, Retained
  <2> QED BY <1>0, <2>1, <2>2 DEF CountInv, Gone
<1>3. CASE SubscribeReset
  BY <1>0, <1>3 DEF SubscribeReset, CountInv, Coming, Gone
<1>4. CASE FlushNothing
  <2>1. /\ RunPhase \in {"return", "flushed", "end_pass"}
        /\ RunPhase = "end_pass" => subscribed_long
    BY DEF RunPhase
  <2>2. /\ AfterFlush(RunPhase) /\ cleanup_state = "cleaning" /\ subscribed
        /\ UNCHANGED <<pass_found_topics, subscribed_long, subscribing, inbound,
                       linkVars, broker>>
    BY <1>4 DEF FlushNothing
  <2> QED BY <2>1, <2>2, AfterFlushCounts DEF Gone
<1>5. CASE FlushTake
  BY <1>0, <1>5 DEF FlushTake, passVars, activityVars, linkVars, CountInv, Coming, Gone
<1>6. CASE ClearArrives \/ ClearLost \/ ClearRefused
  <2>1. /\ FlushReturns /\ flushing # ""
        /\ UNCHANGED <<pass_found_topics, subscribed_long, subscribing, inbound,
                       linkVars>>
        /\ broker' = broker \/ broker' = [broker EXCEPT ![Head(saved)] = NoPayload]
    BY <1>6 DEF ClearArrives, ClearLost, ClearRefused
  <2>2. AfterFlush(flushing)
    BY <2>1 DEF FlushReturns
  <2>3. /\ flushing \in {"return", "flushed", "end_pass"}
        /\ cleanup_state = "cleaning" /\ subscribed
        /\ flushing = "end_pass" => subscribed_long
    BY <1>0, <2>1, CleanupTypes DEF FlushInv
  <2>4. Gone => Gone'
    BY <1>0, <2>1, CleanupTypes DEF Gone
  <2> QED BY <2>1, <2>2, <2>3, <2>4, AfterFlushCounts
<1>7. ASSUME NEW t \in Topic, TopicCallback(t) PROVE CountInv'
  BY <1>0, <1>7 DEF TopicCallback, passVars, CountInv, Gone, FlushInv
<1>8. CASE SecondPasses
  <2>1. /\ cleanup_state = "cleaning" /\ ~subscribing /\ ~subscribing'
        /\ UNCHANGED <<cleanup_state, subscribed, clean_passes, disturbed_passes,
                       pass_found_topics, broker>>
        /\ disturbed' = (disturbed \/ (subscribed /\ Coming))
    BY <1>8 DEF SecondPasses, passVars, Coming
  <2>2. ~Gone' /\ subscribed' /\ ~pass_found_topics' => disturbed'
    BY <1>0, <2>1 DEF CountInv, Gone
  <2> QED BY <1>0, <2>1, <2>2 DEF CountInv, Gone
<1>9. CASE LoseInbound
  BY <1>0, <1>9 DEF LoseInbound, passVars, activityVars, CountInv, Gone
<1>10. CASE LoseConnection
  BY <1>0, <1>10 DEF LoseConnection, passVars, activityVars, CountInv, Coming, Gone
<1>11. CASE Reconnect
  <2>1. /\ UNCHANGED <<passVars, activityVars, subscribed_long, subscribing, broker,
                       disturbed>>
        /\ inbound' = IF subscribing \/ subscribed THEN inbound \cup Retained
                      ELSE inbound
    BY <1>11 DEF Reconnect
  <2>2. ~Gone /\ (subscribing \/ subscribed) => Coming'
    BY <2>1 DEF Gone, Coming, Retained
  <2> QED BY <1>0, <2>1, <2>2 DEF passVars, activityVars, CountInv, Gone
<1> QED BY <1>1, <1>2, <1>3, <1>4, <1>5, <1>6, <1>7, <1>8, <1>9, <1>10, <1>11
        DEF CleanupStep, CleanupRun, CleanupEnvironment

LEMMA StepCleanInv == CleanInv /\ [Next]_vars => CleanInv'
<1> SUFFICES ASSUME CleanInv, [Next]_vars PROVE CleanInv'
  OBVIOUS
<1>1. StagesInv /\ StagesInv'
  BY StepStagesInv DEF CleanInv
<1>2. CASE CleanupStep
  BY <1>1, <1>2, CleanupStepCounts DEF CleanInv
<1>3. CASE UNCHANGED cleanupVars
  BY <1>1, <1>3
     DEF CleanInv, CountInv, Coming, Gone, cleanupVars, passVars, activityVars, linkVars
<1>4. CASE StartCleanup
  <2>1. /\ clean_passes' = 0 /\ disturbed_passes' = 0
        /\ subscribed' = FALSE /\ subscribing' = FALSE
    BY <1>4 DEF StartCleanup, ha_discovery_cleanup_start, CleanupCleared
  <2> QED BY <1>1, <2>1 DEF CleanInv, CountInv
<1>5. CASE cleanup_state' = "idle"
  BY <1>1, <1>5 DEF CleanInv, CountInv, StagesInv, TypeInv, FlushInv
<1>6. ASSUME NEW t \in Topic, PublishEntity(t) PROVE cleanup_state' = "idle"
  BY <1>1, <1>6 DEF PublishEntity, passVars, StagesInv, UpdateStages
<1>7. FinishCleanup \/ Reboot \/ NewBoot => cleanup_state' = "idle"
  BY DEF FinishCleanup, Reboot, NewBoot, Boot, ha_discovery_cleanup_destroy
<1>8. CleanupStep \/ UNCHANGED cleanupVars \/ StartCleanup \/ cleanup_state' = "idle"
  <2>1. \/ BecomeReady \/ PressRefresh \/ StartInitial \/ BeginDiscovering
        \/ DecompressFails \/ CompleteDiscovering \/ EndDiscovery
        \/ UNCHANGED vars
        => UNCHANGED cleanupVars
    BY DEF BecomeReady, PressRefresh, StartInitial, BeginDiscovering, DecompressFails,
           CompleteDiscovering, EndDiscovery, vars
  <2> QED BY <1>6, <1>7, <2>1 DEF Next, Loop, Environment, RunCleanup, CleanupStep
<1> QED BY <1>2, <1>3, <1>4, <1>5, <1>8

LEMMA CountedClean == CleanInv => CleanupComplete
<1> SUFFICES ASSUME CleanInv, cleanup_state = "done", disturbed_passes < 2 PROVE Gone
  BY DEF CleanupComplete, Gone
<1>1. clean_passes = 2 /\ disturbed_passes \in Nat
  BY CountTypes DEF FlushInv
<1>2. ~(clean_passes <= disturbed_passes)
  BY <1>1
<1> QED BY <1>2 DEF CleanInv, CountInv

(* After a cleanup no topic is left unless both of its clean passes were   *)
(* disturbed, for every number of topics, size of the queue, and any       *)
(* number of refusals, losses and outages.                                 *)
THEOREM CleanupClears == Spec => []CleanupComplete
<1>1. CleanInv => CleanupComplete
  BY CountedClean
<1> QED BY InitCleanInv, StepCleanInv, <1>1, PTL DEF Spec

-----------------------------------------------------------------------------
(* What is recorded has been published.                                    *)

PublishInv ==
    ota_discovery_publishing =>
        /\ unpublished \subseteq Entities[config]
        /\ ha_state = "complete" => unpublished = {}
        /\ ha_state # "failed" =>
               \A t \in Entities[config] \ (unpublished \cup lost) : broker[t] = PayloadOf[config]
        /\ cleanup_trigger # "INITIAL" /\ disturbed_passes < 2 =>
               \A t \in Topic \ Entities[config] : broker[t] = NoPayload

FullInv == CleanInv /\ PublishInv

\* A run of the manager starts with every entity to go.
LEMMA StartManagerPublish ==
  ASSUME TypeInv, StartManager, UNCHANGED config
  PROVE  /\ unpublished' \subseteq Entities[config'] /\ ha_state' # "complete"
         /\ ha_state' # "failed" => unpublished' = Entities[config']
  BY StartManagerType

LEMMA PublishEntityKeeps ==
  ASSUME FullInv, NEW t \in Topic, PublishEntity(t)
  PROVE  PublishInv'
<1>1. /\ ota_discovery_publishing /\ t \in unpublished
      /\ UNCHANGED <<config, ha_state, cleanup_trigger, disturbed_passes>>
      /\ ha_state = "discovering" /\ unpublished' = unpublished \ {t}
  BY DEF PublishEntity, flagVars, passVars
<1>2. \/ /\ broker' = [broker EXCEPT ![t] = PayloadOf[config]]
         /\ lost' = lost \ {t}
      \/ /\ lost' = lost \cup {t}
         /\ UNCHANGED broker
  BY DEF PublishEntity
<1>3. DOMAIN broker = Topic /\ Entities[config] \subseteq Topic
  BY CleanupTypes, UpdateTypes DEF FullInv, CleanInv, StagesInv
<1>4. unpublished' \subseteq Entities[config'] /\ t \in Entities[config]
  BY <1>1 DEF FullInv, PublishInv
<1>5. ASSUME NEW e \in Entities[config'] \ (unpublished' \cup lost')
      PROVE  broker'[e] = PayloadOf[config']
  <2>1. CASE e = t
    BY <1>1, <1>2, <1>3, <1>5, <2>1
  <2>2. CASE e # t
    <3>1. e \in Entities[config] \ (unpublished \cup lost) /\ broker'[e] = broker[e]
      BY <1>1, <1>2, <1>3, <1>5, <2>2
    <3> QED BY <1>1, <3>1 DEF FullInv, PublishInv
  <2> QED BY <2>1, <2>2
<1>6. ASSUME cleanup_trigger' # "INITIAL", disturbed_passes' < 2, NEW e \in Topic \ Entities[config']
      PROVE  broker'[e] = NoPayload
  <2>1. broker'[e] = broker[e]
    BY <1>1, <1>2, <1>3, <1>4, <1>6
  <2> QED BY <1>1, <1>6, <2>1 DEF FullInv, PublishInv
<1> QED BY <1>1, <1>4, <1>5, <1>6 DEF PublishInv

LEMMA StepFullInv == FullInv /\ [Next]_vars => FullInv'
<1> SUFFICES ASSUME FullInv, [Next]_vars PROVE FullInv'
  OBVIOUS
<1>0. TypeInv /\ UpdateStages /\ CleanInv /\ CleanInv' /\ PublishInv
      /\ (ota_discovery_publishing => ready)
  BY StepCleanInv DEF FullInv, CleanInv, StagesInv
<1>1. SUFFICES PublishInv'
  BY <1>0 DEF FullInv
<1>2. CASE ota_discovery_publishing' = FALSE
  BY <1>2 DEF PublishInv
<1>4. CASE StartInitial
  <2>1. StartManager /\ UNCHANGED <<config, broker>> /\ cleanup_trigger' = "INITIAL"
    BY <1>4 DEF StartInitial, cleanupVars
  <2> QED BY <1>0, <2>1, StartManagerPublish DEF PublishInv
<1>5. CASE FinishCleanup
  <2>1. /\ StartManager /\ cleanup_state = "done"
        /\ UNCHANGED <<config, broker, disturbed_passes>>
    BY <1>5 DEF FinishCleanup
  <2>2. disturbed_passes' < 2 => \A t \in Topic : broker'[t] = NoPayload
    BY <1>0, <2>1, CountedClean DEF CleanupComplete
  <2> QED BY <1>0, <2>1, <2>2, StartManagerPublish DEF PublishInv
<1>6. ASSUME NEW t \in Topic, PublishEntity(t) PROVE PublishInv'
  BY <1>6, PublishEntityKeeps
<1>7. CASE CleanupStep
  <2>1. CASE cleanup_state = "idle"
    <3>1. UNCHANGED <<broker, disturbed_passes>>
      BY <1>0, <1>7, <2>1, CleanupTypes
         DEF CleanupStep, CleanupRun, CleanupEnvironment, Redrain, Subscribe,
             SubscribeReset, FlushNothing, FlushTake, ClearArrives, ClearLost,
             ClearRefused, TopicCallback, SecondPasses, LoseInbound, LoseConnection,
             Reconnect, passVars, TypeInv, FlushInv
    <3> QED BY <1>0, <1>7, <3>1
            DEF CleanupStep, updateVars, flagVars, managerVars, PublishInv
  <2>2. CASE cleanup_state # "idle"
    <3>1. ~ota_discovery_publishing /\ ota_discovery_publishing' = ota_discovery_publishing
      BY <1>0, <1>7, <2>2 DEF UpdateStages, CleanupStep, updateVars, flagVars
    <3> QED BY <3>1 DEF PublishInv
  <2> QED BY <2>1, <2>2
<1>8. CASE UNCHANGED vars
  BY <1>0, <1>8
     DEF vars, cleanupVars, passVars, updateVars, flagVars, managerVars, PublishInv
<1>9. CASE BecomeReady \/ PressRefresh \/ StartCleanup
  <2>1. ~ota_discovery_publishing /\ ota_discovery_publishing' = ota_discovery_publishing
    BY <1>0, <1>9 DEF BecomeReady, PressRefresh, Working, StartCleanup
  <2> QED BY <2>1 DEF PublishInv
<1>10. CASE BeginDiscovering \/ DecompressFails \/ CompleteDiscovering
  <2>1. /\ UNCHANGED <<cleanupVars, config, lost, unpublished, flagVars>>
        /\ ota_discovery_publishing /\ ha_state \in {"building", "discovering"}
        /\ \/ ha_state' \in {"discovering", "failed"}
           \/ ha_state' = "complete" /\ unpublished = {}
    BY <1>10 DEF BeginDiscovering, DecompressFails, CompleteDiscovering
  <2> QED BY <1>0, <2>1 DEF cleanupVars, passVars, flagVars, PublishInv
<1>11. CASE EndDiscovery \/ Reboot \/ NewBoot
  BY <1>2, <1>11 DEF EndDiscovery, Reboot, NewBoot, Boot
<1> QED BY <1>4, <1>5, <1>6, <1>7, <1>8, <1>9, <1>10, <1>11
        DEF Next, Loop, Environment, RunCleanup, CleanupStep

LEMMA FullInvRecorded ==
  ASSUME FullInv, [Next]_vars, record' # record
  PROVE  /\ \A t \in Entities[config] \ lost : broker[t] = PayloadOf[config]
         /\ cleanup_trigger # "INITIAL" /\ disturbed_passes < 2 =>
                \A t \in Topic \ Entities[config] : broker[t] = NoPayload
<1>1. EndDiscovery
  BY DEF Next, Loop, Environment, RunCleanup, BecomeReady, PressRefresh, StartInitial,
         StartCleanup, FinishCleanup, BeginDiscovering, PublishEntity, DecompressFails,
         CompleteDiscovering, Reboot, NewBoot, Boot, vars, updateVars
<1>2. ota_discovery_publishing /\ ha_state = "complete"
  BY <1>1 DEF EndDiscovery, DropFailure
<1> QED BY <1>2 DEF FullInv, PublishInv

(* When the record is written, everything it stands for is retained (but   *)
(* what was accepted and lost), and after a cleanup nothing else is unless *)
(* both its clean passes were disturbed, for every set of builds and       *)
(* topics and any number of boots, losses and outages.                     *)
THEOREM RecordedTruly == Spec => RecordedIsPublished
<1>1. Init => FullInv
  BY InitCleanInv DEF Init, FullInv, PublishInv
<1>2. FullInv /\ [Next]_vars => FullInv'
  BY StepFullInv
<1>3. FullInv /\ [Next]_vars =>
          [record' # record =>
               /\ \A t \in Entities[config] \ lost : broker[t] = PayloadOf[config]
               /\ cleanup_trigger # "INITIAL" /\ disturbed_passes < 2 =>
                      \A t \in Topic \ Entities[config] : broker[t] = NoPayload]_vars
  BY FullInvRecorded
<1> QED BY <1>1, <1>2, <1>3, PTL DEF Spec, RecordedIsPublished
=============================================================================
