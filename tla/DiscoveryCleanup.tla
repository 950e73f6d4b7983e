-------------------------- MODULE DiscoveryCleanup --------------------------
(***************************************************************************)
(* Removal of retained discovery topics (ha_discovery_cleanup.cpp).        *)
(* The main loop subscribes to all topics of the device, clears what the   *)
(* broker sends, and repeats this in passes until two of them found        *)
(* nothing.  The MQTT task calls cleanup_topic_callback, which appends to  *)
(* topic_buf; the main loop takes topics from its head and publishes an    *)
(* empty payload outside the critical section.                             *)
(*                                                                         *)
(* topic_buf is a sequence of topics: all take the same space, so that     *)
(* queue_count is its length.  The three timeouts of the code are all      *)
(* 1000 ms, so time is one bit per clock: has that second passed?          *)
(***************************************************************************)
EXTENDS Naturals, Sequences, FiniteSets

CONSTANTS Topic,      \* discovery topics of this device, ending in /config
          BufSize,    \* topics that fit into HA_CLEANUP_TOPIC_BUF_SIZE
          MaxFaults,  \* outages, losses and late deliveries in one cleanup
          Payload,    \* discovery payloads
          NoPayload   \* no retained message

ASSUME CleanupConstants ==
    /\ BufSize \in Nat \ {0} /\ MaxFaults \in Nat
    /\ NoPayload \notin Payload

VARIABLES
    \* ha_discovery_cleanup_t: topic_buf up to queue_write_pos, ...
    cleanup_state, topic_buf, subscribed, flushed_once, clean_passes,
    pass_found_topics, draining,
    \* between mqtt_client_subscribe and the assignments that follow it
    subscribing,
    \* clocks: a second since subscribe_start_ms, since last_activity_ms, and
    \* whether last_activity_ms is later than drain_start_ms
    subscribed_long, quiet, late_activity,
    \* cleanup_flush_queue between its critical sections: how the run goes on
    \* ("" outside), and what topic_buf held before
    flushing, saved,
    \* outside the program: retained messages, messages on their way to the
    \* callback, is the client connected, faults in this cleanup
    broker, inbound, online, faults,
    \* history: what the callback heard in this pass may not be all that is
    \* retained, or was erased; the clean passes of which that is true
    disturbed, disturbed_passes

passVars == <<cleanup_state, subscribed, flushed_once, clean_passes, draining,
              disturbed_passes>>
activityVars == <<pass_found_topics, quiet, late_activity>>
flushVars == <<flushing, saved>>
linkVars == <<online, faults, disturbed>>
cleanupVars == <<topic_buf, passVars, activityVars, subscribed_long, flushVars,
                 subscribing, broker, inbound, linkVars>>

-----------------------------------------------------------------------------
CleanupInit == /\ cleanup_state = "idle" /\ topic_buf = <<>>
               /\ subscribed = FALSE /\ flushed_once = FALSE
               /\ clean_passes = 0 /\ pass_found_topics = FALSE /\ draining = FALSE
               /\ subscribed_long = FALSE /\ quiet = FALSE /\ late_activity = FALSE
               /\ flushing = "" /\ saved = <<>> /\ subscribing = FALSE
               /\ inbound = {} /\ online = TRUE /\ faults = 0
               /\ disturbed = FALSE /\ disturbed_passes = 0

\* What _start and _destroy have in common: no pass, nothing queued.
CleanupCleared ==
    /\ topic_buf' = <<>>
    /\ subscribed' = FALSE /\ flushed_once' = FALSE
    /\ clean_passes' = 0 /\ pass_found_topics' = FALSE /\ draining' = FALSE
    /\ subscribed_long' = FALSE /\ quiet' = FALSE /\ late_activity' = FALSE
    /\ flushing' = "" /\ saved' = <<>> /\ subscribing' = FALSE
    /\ faults' = 0 /\ disturbed' = FALSE

ha_discovery_cleanup_start == /\ cleanup_state' = "cleaning"
                              /\ CleanupCleared
                              /\ disturbed_passes' = 0
                              /\ UNCHANGED <<broker, inbound, online>>

\* After it, and in a new boot, the callback returns at once.
ha_discovery_cleanup_destroy == /\ cleanup_state' = "idle"
                                /\ CleanupCleared
                                /\ inbound' = {} /\ online' = TRUE

-----------------------------------------------------------------------------
(* ha_discovery_cleanup_run, from the main loop.                           *)

\* The drain timer starts over from a callback that came after the unsubscribe.
Redrain == /\ cleanup_state = "cleaning" /\ ~subscribed
           /\ draining /\ late_activity
           /\ late_activity' = FALSE
           /\ UNCHANGED <<topic_buf, passVars, pass_found_topics, quiet,
                          subscribed_long, flushVars, subscribing, broker, inbound,
                          linkVars>>

Retained == {t \in Topic : broker[t] # NoPayload}

\* mqtt_client_subscribe: the broker answers with everything it retains, an
\* offline client subscribes when it is connected again.
Subscribe == /\ cleanup_state = "cleaning" /\ ~subscribed /\ ~subscribing
             /\ draining => ~late_activity /\ quiet
             /\ subscribing' = TRUE /\ draining' = FALSE
             /\ inbound' = IF online THEN inbound \cup Retained ELSE inbound
             /\ disturbed' = FALSE
             /\ UNCHANGED <<topic_buf, cleanup_state, subscribed, flushed_once,
                            clean_passes, disturbed_passes, activityVars,
                            subscribed_long, flushVars, broker, online, faults>>

\* The rest of the pass's start: outside the critical section, so that it
\* erases what a callback has noted since.
SubscribeReset == /\ subscribing
                  /\ subscribing' = FALSE /\ subscribed' = TRUE
                  /\ subscribed_long' = FALSE /\ quiet' = FALSE
                  /\ pass_found_topics' = FALSE
                  /\ flushed_once' = FALSE
                  /\ UNCHANGED <<topic_buf, cleanup_state, clean_passes, draining,
                                 late_activity, flushVars, broker, inbound, online,
                                 faults, disturbed, disturbed_passes>>

\* Mutant: one clean pass is enough.
EndPassOnce ==
    /\ subscribed' = FALSE
    /\ draining' = TRUE /\ late_activity' = FALSE
    /\ clean_passes' = IF pass_found_topics THEN clean_passes ELSE clean_passes + 1
    /\ disturbed_passes' = IF ~pass_found_topics /\ disturbed THEN disturbed_passes + 1
                           ELSE disturbed_passes
    /\ cleanup_state' = IF clean_passes' = 1 THEN "done" ELSE "cleaning"
    /\ UNCHANGED flushed_once

\* The pass is over: nothing came for a second.  clean_passes counts the passes
\* that found nothing, in a row or not.
EndPass ==
    /\ subscribed' = FALSE
    /\ draining' = TRUE /\ late_activity' = FALSE
    /\ clean_passes' = IF pass_found_topics THEN clean_passes ELSE clean_passes + 1
    /\ disturbed_passes' = IF ~pass_found_topics /\ disturbed THEN disturbed_passes + 1
                           ELSE disturbed_passes
    /\ cleanup_state' = IF clean_passes' = 2 THEN "done" ELSE "cleaning"
    /\ UNCHANGED flushed_once

\* What run() does after its flush.
AfterFlush(then) ==
    CASE then = "return" -> UNCHANGED <<passVars, late_activity>>
      [] then = "flushed" -> /\ flushed_once' = TRUE
                             /\ UNCHANGED <<cleanup_state, subscribed, clean_passes,
                                            draining, disturbed_passes, late_activity>>
      [] then = "end_pass" -> EndPass

RunPhase == IF ~subscribed_long THEN "return"
            ELSE IF ~flushed_once THEN "flushed"
            ELSE IF quiet THEN "end_pass" ELSE "return"

\* cleanup_flush_queue with nothing queued.
FlushNothing == /\ cleanup_state = "cleaning" /\ subscribed /\ flushing = ""
                /\ topic_buf = <<>>
                /\ AfterFlush(RunPhase)
                /\ UNCHANGED <<topic_buf, pass_found_topics, quiet, subscribed_long,
                               flushVars, subscribing, broker, inbound, linkVars>>

\* Its first critical section: copy the head, move the rest up.
FlushTake == /\ cleanup_state = "cleaning" /\ subscribed /\ flushing = ""
             /\ topic_buf # <<>>
             /\ flushing' = RunPhase
             /\ saved' = topic_buf
             /\ topic_buf' = Tail(topic_buf)
             /\ UNCHANGED <<passVars, activityVars, subscribed_long, subscribing,
                            broker, inbound, linkVars>>

FlushReturns == /\ AfterFlush(flushing)
                /\ flushing' = "" /\ saved' = <<>>

\* The client accepts the empty message and it arrives ...
ClearArrives == /\ flushing # "" /\ online
                /\ broker' = [broker EXCEPT ![Head(saved)] = NoPayload]
                /\ FlushReturns
                /\ UNCHANGED <<topic_buf, pass_found_topics, quiet, subscribed_long,
                               subscribing, inbound, linkVars>>

\* ... or is lost on the way (QoS 0).
ClearLost == /\ flushing # ""
             /\ FlushReturns
             /\ UNCHANGED <<topic_buf, pass_found_topics, quiet, subscribed_long,
                            subscribing, broker, inbound, linkVars>>

\* The position and the count are put back, the bytes that were moved are not:
\* the head is gone, and beyond what is queued now the buffer is as it was.
Unmoved == [i \in 1 .. Len(saved) |-> IF i <= Len(topic_buf) THEN topic_buf[i]
                                      ELSE saved[i]]

\* The client refuses the message.
ClearRefused == /\ flushing # ""
                /\ topic_buf' = Unmoved
                /\ FlushReturns
                /\ UNCHANGED <<pass_found_topics, quiet, subscribed_long,
                               subscribing, broker, inbound, linkVars>>

CleanupRun == \/ Redrain \/ Subscribe \/ SubscribeReset \/ FlushNothing \/ FlushTake
              \/ ClearArrives \/ ClearLost \/ ClearRefused

-----------------------------------------------------------------------------
(* cleanup_topic_callback, from the MQTT task.                             *)
\* Mutant: no check for space.
AppendedAlways(t) == Append(topic_buf, t)

\* A topic that does not fit is dropped.
Appended(t) == IF Len(topic_buf) < BufSize THEN Append(topic_buf, t) ELSE topic_buf

TopicCallback(t) ==
    /\ t \in inbound
    /\ inbound' = inbound \ {t}
    /\ IF cleanup_state = "cleaning"
       THEN /\ pass_found_topics' = TRUE
            /\ quiet' = FALSE /\ late_activity' = TRUE
            /\ topic_buf' = Appended(t)
       ELSE UNCHANGED <<topic_buf, activityVars>>
    /\ disturbed' = (disturbed \/ subscribing)
    /\ UNCHANGED <<passVars, subscribed_long, flushVars, subscribing, broker,
                   online, faults>>

\* A second passes.  A broker delivers within it, unless it is slow or out
\* of reach; nobody in the cleanup asks whether the client is connected.
SecondPasses ==
    /\ cleanup_state = "cleaning" /\ ~subscribing
    /\ ~quiet \/ ~subscribed_long
    /\ inbound # {} => faults < MaxFaults
    /\ faults' = IF inbound = {} THEN faults ELSE faults + 1
    /\ disturbed' = (disturbed \/ (subscribed /\ (inbound # {} \/ ~online)))
    /\ quiet' = TRUE /\ subscribed_long' = TRUE
    /\ UNCHANGED <<topic_buf, passVars, pass_found_topics, late_activity, flushVars,
                   subscribing, broker, inbound, online>>

\* Messages are lost: the client's queue is full.
LoseInbound == /\ inbound # {} /\ faults < MaxFaults
               /\ inbound' = {}
               /\ faults' = faults + 1
               /\ disturbed' = (disturbed \/ subscribed \/ subscribing)
               /\ UNCHANGED <<topic_buf, passVars, activityVars, subscribed_long,
                              flushVars, subscribing, broker, online>>

\* An outage during a cleanup, of any length: one fault.
LoseConnection == /\ cleanup_state = "cleaning" /\ online /\ faults < MaxFaults
                  /\ online' = FALSE /\ inbound' = {}
                  /\ faults' = faults + 1
                  /\ UNCHANGED <<topic_buf, passVars, activityVars, subscribed_long,
                                 flushVars, subscribing, broker, disturbed>>

\* The client renews its subscription, and the broker its answer.
Reconnect == /\ ~online
             /\ online' = TRUE
             /\ inbound' = IF subscribing \/ subscribed THEN inbound \cup Retained
                           ELSE inbound
             /\ UNCHANGED <<topic_buf, passVars, activityVars, subscribed_long,
                            flushVars, subscribing, broker, faults, disturbed>>

CleanupEnvironment == \/ \E t \in Topic : TopicCallback(t)
                      \/ SecondPasses \/ LoseInbound \/ LoseConnection \/ Reconnect

-----------------------------------------------------------------------------
CleanupTypeOK ==
    /\ cleanup_state \in {"idle", "cleaning", "done"}
    /\ topic_buf \in Seq(Topic) /\ Len(topic_buf) <= BufSize
    /\ {subscribed, flushed_once, pass_found_topics, draining,
        subscribed_long, quiet, late_activity, subscribing, online,
        disturbed} \subseteq BOOLEAN
    /\ {clean_passes, disturbed_passes} \subseteq 0 .. 2
    /\ flushing \in {"", "return", "flushed", "end_pass"}
    /\ saved \in Seq(Topic) /\ Len(saved) <= BufSize
    /\ flushing = "" <=> saved = <<>>
    /\ broker \in [Topic -> Payload \cup {NoPayload}]
    /\ inbound \subseteq Topic /\ faults \in 0 .. MaxFaults

(* When the cleanup reports that it is done, no discovery topic of the     *)
(* device is retained any more, unless both of its clean passes were       *)
(* disturbed: messages lost, late or kept back by an outage for more than  *)
(* a second, or found in the moment when the start of the pass erases the  *)
(* mark.  So no trouble that touches one clean pass only leaves a topic    *)
(* behind, and the later passes find again what a full buffer, a refused   *)
(* message (whose topic the queue forgets) or a lost one missed.           *)
CleanupComplete ==
    cleanup_state = "done" /\ disturbed_passes < 2 =>
        \A t \in Topic : broker[t] = NoPayload
=============================================================================
