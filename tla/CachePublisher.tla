--------------------------- MODULE CachePublisher ---------------------------
(***************************************************************************)
(* The ERD cache shared by two threads, with the MQTT broker behind them   *)
(* (erd_cache_mqtt_publisher.cpp and GeappliancesBridge::                  *)
(* update_publisher_state_):                                               *)
(*   - the main loop stores what the appliance reports, ticks the          *)
(*     cooldowns, runs the MQTT connect and disconnect callbacks, pauses   *)
(*     and resumes the publisher around discovery, and signals work;       *)
(*   - the publisher task wakes on the work semaphore and publishes at     *)
(*     most one changed entry per wake.                                    *)
(* A step of a thread is what it does under one lock, or one access to an  *)
(* unlocked field.  The state mutex is only ever held for a few            *)
(* assignments, so its 100 ms timeouts are taken not to expire.            *)
(***************************************************************************)
EXTENDS ErdCache, Integers

CONSTANTS Reading,     \* the payloads the appliance reports for each ERD
          NoPayload,   \* "no retained message" at the broker
          LongOutage,  \* clock steps that make RECONNECT_REPUBLISH_THRESHOLD_MS
          HaDiscovery, \* does Home Assistant discovery ever run?
          Outages,     \* can the connection to the broker fail?
          LossyLink    \* can a message be accepted and lost (QoS 0)?

ASSUME PublisherConstants ==
    /\ Reading \in [Key -> SUBSET Payload]
    /\ NoPayload \notin Payload
    /\ Capacity # 0 /\ MaxDataSize <= MaxInputSize
    /\ LongOutage \in Nat \ {0}
    /\ {HaDiscovery, Outages, LossyLink} \subseteq BOOLEAN

VARIABLES
    \* erd_cache_mqtt_publisher_t
    mqtt_connected, paused, first_round_done, publish_index, work_semaphore,
    outage,          \* now - disconnect_start_ms, capped; -1: disconnect_start_ms = 0
    \* the publisher task: control point, *iterator as read, entry, snap_data
    tpc, iterator, slot, snap_data,
    \* the main loop: control point and the flags of GeappliancesBridge
    mpc, ha_discovery_active, erd_cache_publisher_paused_, discovery_just_resumed_,
    \* outside the program: connection to the broker and its retained messages
    link, broker,
    lost             \* ERDs whose last message was accepted and then lost

pubVars == <<mqtt_connected, paused, first_round_done, publish_index,
             work_semaphore, outage>>
taskVars == <<tpc, iterator, slot, snap_data>>
mainVars == <<mpc, ha_discovery_active, erd_cache_publisher_paused_,
              discovery_just_resumed_>>
netVars == <<link, broker, lost>>
vars == <<cacheVars, pubVars, taskVars, mainVars, netVars>>

PublisherTypeOK ==
    /\ CacheTypeOK
    /\ mqtt_connected \in BOOLEAN /\ paused \in BOOLEAN
    /\ first_round_done \in BOOLEAN /\ work_semaphore \in BOOLEAN
    /\ publish_index \in 0 .. Capacity /\ iterator \in 0 .. Capacity
    /\ outage \in -1 .. LongOutage
    /\ tpc \in {"wait", "read", "check", "lock", "scan", "publish",
                "sent", "dropped", "round"}
    /\ slot \in Slots
    /\ snap_data \in Payload
    /\ mpc \in {"idle", "tick", "check", "signal", "mark_all", "reset_index", "connected"}
    /\ ha_discovery_active \in BOOLEAN
    /\ erd_cache_publisher_paused_ \in BOOLEAN
    /\ discovery_just_resumed_ \in BOOLEAN
    /\ link \in {"up", "down"}
    /\ broker \in [Key -> Payload \cup {NoPayload}]
    /\ lost \subseteq Key

\* The state after erd_cache_mqtt_publisher_init and _start: the publisher
\* asks the MQTT client whether it is connected.
Init == /\ CacheInit
        /\ mqtt_connected \in BOOLEAN
        /\ link = IF mqtt_connected THEN "up" ELSE "down"
        /\ paused = FALSE /\ first_round_done = FALSE
        /\ publish_index = 0 /\ work_semaphore = FALSE /\ outage = -1
        /\ tpc = "wait" /\ iterator = 0 /\ slot = 0 /\ snap_data = <<>>
        /\ mpc = "idle" /\ ha_discovery_active = FALSE
        /\ erd_cache_publisher_paused_ = FALSE
        /\ discovery_just_resumed_ = FALSE
        /\ broker = [k \in Key |-> NoPayload] /\ lost = {}

\* The task holds the cache lock from reading *iterator to the end of the scan.
CacheUnlocked == tpc # "scan"

-----------------------------------------------------------------------------
(* The publisher task.                                                     *)

TaskWake == /\ tpc = "wait" /\ work_semaphore
            /\ work_semaphore' = FALSE
            /\ tpc' = "read"
            /\ UNCHANGED <<cacheVars, mqtt_connected, paused, first_round_done,
                           publish_index, outage, iterator, slot, snap_data,
                           mainVars, netVars>>

\* Mutant: the pause is not looked at.
MayPublishPaused == mqtt_connected

MayPublish == mqtt_connected /\ ~paused

\* The flags are read once under the state mutex ...
TaskReadState == /\ tpc = "read"
                 /\ tpc' = IF MayPublish THEN "check" ELSE "wait"
                 /\ UNCHANGED <<cacheVars, pubVars, iterator, slot, snap_data,
                                mainVars, netVars>>

\* ... and again, without it, on entry to publish_one.
PublishOneCheck == /\ tpc = "check"
                   /\ tpc' = IF MayPublish THEN "lock" ELSE "wait"
                   /\ UNCHANGED <<cacheVars, pubVars, iterator, slot, snap_data,
                                  mainVars, netVars>>

\* erd_cache_snapshot_next_updated takes the cache lock and reads *iterator;
\* publish_index itself is not guarded by that lock.
SnapshotLock == /\ tpc = "lock"
                /\ iterator' = publish_index
                /\ tpc' = "scan"
                /\ UNCHANGED <<cacheVars, pubVars, slot, snap_data, mainVars, netVars>>

\* Mutant: the scan always starts at the first slot again.
SnapshotTakeFirst == /\ tpc = "scan"
                     /\ \E i \in Slots : /\ TakeNext(iterator, i)
                                         /\ slot' = i
                                         /\ snap_data' = Slice(i)
                     /\ publish_index' = 0
                     /\ iterator' = 0
                     /\ tpc' = "publish"
                     /\ UNCHANGED <<mqtt_connected, paused, first_round_done,
                                    work_semaphore, outage, mainVars, netVars>>

SnapshotTake == /\ tpc = "scan"
                /\ \E i \in Slots : /\ TakeNext(iterator, i)
                                    /\ slot' = i
                                    /\ snap_data' = Slice(i)
                                    /\ publish_index' = i + 1
                /\ iterator' = 0
                /\ tpc' = "publish"
                /\ UNCHANGED <<mqtt_connected, paused, first_round_done,
                               work_semaphore, outage, mainVars, netVars>>

SnapshotNone == /\ tpc = "scan"
                /\ NothingFrom(iterator)
                /\ publish_index' = 0
                /\ iterator' = 0
                /\ tpc' = "round"
                /\ UNCHANGED <<cacheVars, mqtt_connected, paused, first_round_done,
                               work_semaphore, outage, slot, snap_data,
                               mainVars, netVars>>

\* mqtt_client_publish_raw, QoS 0, retained.  The topic always fits: device
\* ids are at most 91 characters.  A client that is connected may still
\* refuse the message (outbox full) ...
PublishRefused == /\ tpc = "publish"
                  /\ tpc' = "dropped"
                  /\ UNCHANGED <<cacheVars, pubVars, iterator, slot, snap_data,
                                 mainVars, netVars>>

\* ... or accept it; with QoS 0 an accepted message can still be lost, when
\* the connection has died and the client has not noticed yet.
PublishSent == /\ tpc = "publish" /\ link = "up"
               /\ LET erd == entries[slot].key
                  IN  \/ /\ broker' = [broker EXCEPT ![erd] = snap_data]
                         /\ lost' = lost \ {erd}
                      \/ /\ LossyLink
                         /\ lost' = lost \cup {erd}
                         /\ UNCHANGED broker
               /\ tpc' = "sent"
               /\ UNCHANGED <<cacheVars, pubVars, iterator, slot, snap_data,
                              mainVars, link>>

\* publish_one returns: its locals are gone.
PublishOneReturns == tpc' = "wait" /\ slot' = 0 /\ snap_data' = <<>>

MarkSent == /\ tpc = "sent"
            /\ erd_cache_mark_published(slot)
            /\ PublishOneReturns
            /\ UNCHANGED <<pubVars, iterator, mainVars, netVars>>

MarkDropped == /\ tpc = "dropped"
               /\ erd_cache_mark_unpublished(slot)
               /\ PublishOneReturns
               /\ UNCHANGED <<pubVars, iterator, mainVars, netVars>>

RoundDone == /\ tpc = "round"
             /\ first_round_done' = TRUE
             /\ tpc' = "wait"
             /\ UNCHANGED <<cacheVars, mqtt_connected, paused, publish_index,
                            work_semaphore, outage, iterator, slot, snap_data,
                            mainVars, netVars>>

Task == \/ TaskWake \/ TaskReadState \/ PublishOneCheck
        \/ SnapshotLock \/ SnapshotTake \/ SnapshotNone
        \/ PublishRefused \/ PublishSent \/ MarkSent \/ MarkDropped \/ RoundDone

-----------------------------------------------------------------------------
(* The main loop.                                                          *)

\* A reading of a polling or subscription bridge reaches the cache.
StoreReading == /\ mpc = "idle" /\ CacheUnlocked
                /\ \E k \in Key : \E d \in Reading[k] : erd_cache_update(k, d)
                /\ UNCHANGED <<pubVars, taskVars, mainVars, netVars>>

\* A second has passed: loop() waits for the cache lock and ticks.
TickCooldowns == /\ mpc = "tick" /\ CacheUnlocked
                 /\ erd_cache_tick_cooldowns
                 /\ mpc' = "idle"
                 /\ UNCHANGED <<pubVars, taskVars, ha_discovery_active,
                                erd_cache_publisher_paused_, discovery_just_resumed_,
                                netVars>>

\* update_publisher_state_, first part: erd_cache_mqtt_publisher_pause ...
PausePublisher == /\ mpc = "idle" /\ ha_discovery_active
                  /\ paused' = TRUE
                  /\ first_round_done' = FALSE
                  /\ erd_cache_publisher_paused_' = TRUE
                  /\ mpc' = "check"
                  /\ UNCHANGED <<cacheVars, mqtt_connected, publish_index,
                                 work_semaphore, outage, taskVars,
                                 ha_discovery_active, discovery_just_resumed_, netVars>>

\* ... or _resume, which also signals work.
ResumePublisher == /\ mpc = "idle" /\ ~ha_discovery_active
                   /\ paused' = FALSE
                   /\ work_semaphore' = TRUE
                   /\ erd_cache_publisher_paused_' = FALSE
                   /\ discovery_just_resumed_' =
                          (discovery_just_resumed_ \/ erd_cache_publisher_paused_)
                   /\ mpc' = "check"
                   /\ UNCHANGED <<cacheVars, mqtt_connected, first_round_done,
                                  publish_index, outage, taskVars,
                                  ha_discovery_active, netVars>>

\* Second part: the steady state check after a resume.
CheckFirstRound == /\ mpc = "check"
                   /\ discovery_just_resumed_' =
                          (discovery_just_resumed_ /\ ~first_round_done)
                   /\ mpc' = "signal"
                   /\ UNCHANGED <<cacheVars, pubVars, taskVars, ha_discovery_active,
                                  erd_cache_publisher_paused_, netVars>>

\* Last part: the wake-up that ends every loop(); a second may be over.
SignalWork == /\ mpc = "signal"
              /\ work_semaphore' = (work_semaphore \/ ~ha_discovery_active)
              /\ mpc' \in IF MaxCooldown > 0 THEN {"idle", "tick"} ELSE {"idle"}
              /\ UNCHANGED <<cacheVars, mqtt_connected, paused, first_round_done,
                             publish_index, outage, taskVars, ha_discovery_active,
                             erd_cache_publisher_paused_, discovery_just_resumed_,
                             netVars>>

\* erd_cache_mqtt_publisher_on_disconnected; it may run again on every failed
\* reconnect attempt.  disconnect_start_ms restarts when the publisher
\* thought it was connected.
OnDisconnected == /\ mpc = "idle" /\ link = "down"
                  /\ mqtt_connected' = FALSE
                  /\ outage' = IF mqtt_connected \/ outage = -1 THEN 0 ELSE outage
                  /\ UNCHANGED <<cacheVars, paused, first_round_done, publish_index,
                                 work_semaphore, taskVars, mainVars, netVars>>

\* erd_cache_mqtt_publisher_on_connected, one step per lock: the flags and
\* the outage so far,
OnConnected == /\ mpc = "idle" /\ link = "up" /\ ~mqtt_connected
               /\ mqtt_connected' = TRUE
               /\ first_round_done' = FALSE
               /\ mpc' = IF outage = LongOutage THEN "mark_all" ELSE "connected"
               /\ UNCHANGED <<cacheVars, paused, publish_index, work_semaphore, outage,
                              taskVars, ha_discovery_active,
                              erd_cache_publisher_paused_, discovery_just_resumed_,
                              netVars>>

\* the full republish after a long outage,
MarkAllUpdated == /\ mpc = "mark_all" /\ CacheUnlocked
                  /\ erd_cache_mark_all_updated
                  /\ mpc' = "reset_index"
                  /\ UNCHANGED <<pubVars, taskVars, ha_discovery_active,
                                 erd_cache_publisher_paused_,
                                 discovery_just_resumed_, netVars>>

ResetIndex == /\ mpc = "reset_index"
              /\ publish_index' = 0
              /\ mpc' = "connected"
              /\ UNCHANGED <<cacheVars, mqtt_connected, paused, first_round_done,
                             work_semaphore, outage, taskVars, ha_discovery_active,
                             erd_cache_publisher_paused_, discovery_just_resumed_,
                             netVars>>

\* and the wake-up.
ConnectedSignal == /\ mpc = "connected"
                   /\ work_semaphore' = TRUE
                   /\ mpc' = "idle"
                   /\ UNCHANGED <<cacheVars, mqtt_connected, paused, first_round_done,
                                  publish_index, outage, taskVars,
                                  ha_discovery_active, erd_cache_publisher_paused_,
                                  discovery_just_resumed_, netVars>>

\* ha_discovery_manager_is_processing starts and stops being true.
Discovery == /\ HaDiscovery /\ mpc = "idle"
             /\ ha_discovery_active' = ~ha_discovery_active
             /\ UNCHANGED <<cacheVars, pubVars, taskVars, mpc,
                            erd_cache_publisher_paused_, discovery_just_resumed_,
                            netVars>>

UpdatePublisherState == \/ PausePublisher \/ ResumePublisher
                        \/ CheckFirstRound \/ SignalWork

MqttCallback == \/ OnDisconnected \/ OnConnected
                \/ MarkAllUpdated \/ ResetIndex \/ ConnectedSignal

Main == \/ StoreReading \/ TickCooldowns \/ UpdatePublisherState
        \/ MqttCallback \/ Discovery

-----------------------------------------------------------------------------
(* The network and the broker.                                             *)

LinkDown == /\ Outages /\ link = "up"
            /\ link' = "down"
            /\ UNCHANGED <<cacheVars, pubVars, taskVars, mainVars, broker, lost>>

\* ESPHome reconnects from its own loop, after it reported the disconnect.
LinkUp == /\ link = "down" /\ ~mqtt_connected
          /\ link' = "up"
          /\ UNCHANGED <<cacheVars, pubVars, taskVars, mainVars, broker, lost>>

Clock == /\ outage \in 0 .. LongOutage - 1
         /\ outage' = outage + 1
         /\ UNCHANGED <<cacheVars, mqtt_connected, paused, first_round_done,
                        publish_index, work_semaphore, taskVars, mainVars, netVars>>

\* A broker restart loses the retained messages; it takes long enough to
\* show as a long outage (docs/spec/mqtt_data_publishing.md).
BrokerRestart == /\ link = "down" /\ ~mqtt_connected /\ outage = LongOutage
                 /\ broker' = [k \in Key |-> NoPayload]
                 /\ UNCHANGED <<cacheVars, pubVars, taskVars, mainVars, link, lost>>

Network == LinkDown \/ LinkUp \/ Clock \/ BrokerRestart

Next == Task \/ Main \/ Network

Spec == Init /\ [][Next]_vars

\* Both threads keep running: FreeRTOS schedules the task whenever it is
\* ready, ESPHome calls loop() and the MQTT callbacks for ever, seconds pass,
\* and an MQTT client that is offered an entry again and again sends it once.
\* Nothing is assumed of the network or of discovery.
MainContinues == \/ TickCooldowns \/ CheckFirstRound \/ SignalWork
                 \/ MarkAllUpdated \/ ResetIndex \/ ConnectedSignal
Fairness == /\ WF_vars(Task)
            /\ \A i \in Slots : SF_vars(PublishSent /\ slot = i)
            /\ WF_vars(MainContinues)
            /\ SF_vars(PausePublisher \/ ResumePublisher)
            /\ SF_vars(OnConnected \/ OnDisconnected)
            /\ SF_vars(SignalWork /\ mpc' = "tick")

FairSpec == Spec /\ Fairness

-----------------------------------------------------------------------------
\* The entry the task has taken and not yet handed to the MQTT client, or
\* has been refused and not yet marked again.
InFlight(i) == tpc \in {"publish", "dropped"} /\ slot = i

\* on_connected will mark every entry: the outage is already long, or the
\* callback is between its first step and the marking.
FullRepublishDue == (~mqtt_connected /\ outage = LongOutage) \/ mpc = "mark_all"

(* An ERD that is neither marked for publishing nor in flight has its      *)
(* current value at the broker: no reading is lost between the main loop's *)
(* updates, the task's snapshot, a refused publish, a pause or a reconnect *)
(* (unless the client accepted the last message and then lost it).         *)
NoLostUpdate ==
    \A i \in Slots :
        entries[i].valid /\ ~entries[i].update_required =>
            \/ broker[entries[i].key] = Slice(i)
            \/ entries[i].key \in lost
            \/ InFlight(i)
            \/ FullRepublishDue

(* The snapshot is the payload of the entry it was taken from: while it is *)
(* being published it may be out of date only if the entry is marked again.*)
SnapshotCurrentOrMarked ==
    tpc \in {"publish", "sent", "dropped"} =>
        /\ entries[slot].valid
        /\ Len(snap_data) = entries[slot].data_size
        /\ snap_data # Slice(slot) => entries[slot].update_required

(* Every value the cache holds is eventually retained by the broker,       *)
(* superseded by a newer reading or lost after the client accepted it,     *)
(* provided that from some point on the connection stays up and discovery  *)
(* stays idle: no interleaving of the threads leaves an entry behind,      *)
(* whatever the other entries do.                                          *)
StableAfterwards == <>[](link = "up" /\ ~ha_discovery_active)
HasValue(k, d) == \E i \in Slots : Holds(i, k) /\ Slice(i) = d
Published(k, d) == HasValue(k, d) ~> broker[k] = d \/ k \in lost \/ ~HasValue(k, d)
EventuallyPublished ==
    StableAfterwards => \A k \in Key : \A d \in Reading[k] : Published(k, d)
=============================================================================
