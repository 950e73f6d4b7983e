--------------------------- MODULE PublisherProofs ---------------------------
(***************************************************************************)
(* The safety properties of CachePublisher for every cache, every set of   *)
(* readings and every length of an outage: with two threads and an         *)
(* unreliable network the cache still behaves as in ErdCacheProofs, and no *)
(* reading is lost.  The last part proves the two properties of            *)
(* PublisherHistory, which speak of several steps.                         *)
(***************************************************************************)
EXTENDS PublisherHistory, ErdCacheProofs

\* PublisherTypeOK in three parts: the cache, the flags, the rest.
FlagsOK == /\ mqtt_connected \in BOOLEAN /\ paused \in BOOLEAN
           /\ first_round_done \in BOOLEAN /\ work_semaphore \in BOOLEAN
           /\ ha_discovery_active \in BOOLEAN
           /\ erd_cache_publisher_paused_ \in BOOLEAN
           /\ discovery_just_resumed_ \in BOOLEAN

ControlOK ==
    /\ publish_index \in 0 .. Capacity /\ iterator \in 0 .. Capacity
    /\ outage \in -1 .. LongOutage
    /\ tpc \in {"wait", "read", "check", "lock", "scan", "publish",
                "sent", "dropped", "round"}
    /\ slot \in Slots
    /\ mpc \in {"idle", "tick", "check", "signal", "mark_all", "reset_index", "connected"}
    /\ link \in {"up", "down"}
    /\ lost \subseteq Key

PayloadsOK == snap_data \in Payload /\ broker \in [Key -> Payload \cup {NoPayload}]

LEMMA TypeParts ==
    PublisherTypeOK <=> CacheTypeOK /\ FlagsOK /\ ControlOK /\ PayloadsOK
BY DEF PublisherTypeOK, FlagsOK, ControlOK, PayloadsOK

(* A slot in use belongs to an ERD.                                        *)
KeysKnown == \A i \in Slots : entries[i].valid => entries[i].key \in Key

PublisherInv == /\ PublisherTypeOK /\ CacheInv /\ KeysKnown
                /\ SnapshotCurrentOrMarked /\ NoLostUpdate

-----------------------------------------------------------------------------
(* Each step of a thread is at most one operation of the cache.            *)
LEMMA StepUsesCache ==
    ASSUME PublisherTypeOK, SnapshotCurrentOrMarked, [Next]_vars
    PROVE  [CacheNext]_cacheVars
<1> USE PublisherConstants
<1>0. slot \in Slots /\ iterator \in 0 .. Capacity
  BY DEF PublisherTypeOK
<1>1. CASE StoreReading
  <2>1. PICK k \in Key : \E d \in Reading[k] : erd_cache_update(k, d)
    BY <1>1 DEF StoreReading
  <2>2. PICK d \in Payload : erd_cache_update(k, d)
    BY <2>1
  <2> QED
    BY <2>2 DEF CacheNext
<1>2. CASE TickCooldowns
  BY <1>2 DEF TickCooldowns, CacheNext
<1>3. CASE MarkAllUpdated
  BY <1>3 DEF MarkAllUpdated, CacheNext
<1>4. CASE SnapshotTake
  <2>1. PICK i \in Slots : TakeNext(iterator, i)
    BY <1>4 DEF SnapshotTake
  <2> QED
    BY <1>0, <2>1 DEF CacheNext
<1>5. CASE MarkSent
  BY <1>0, <1>5 DEF MarkSent, SnapshotCurrentOrMarked, CacheNext
<1>6. CASE MarkDropped
  BY <1>0, <1>6 DEF MarkDropped, SnapshotCurrentOrMarked, CacheNext
<1>7. CASE Network \/ Discovery
  BY <1>7 DEF Network, LinkDown, LinkUp, Clock, BrokerRestart, Discovery
<1>8. CASE TaskWake \/ TaskReadState \/ PublishOneCheck \/ SnapshotLock \/ SnapshotNone
           \/ PublishRefused \/ PublishSent \/ RoundDone
  BY <1>8 DEF TaskWake, TaskReadState, PublishOneCheck, SnapshotLock, SnapshotNone,
     PublishRefused, PublishSent, RoundDone
<1>9. CASE UpdatePublisherState \/ OnDisconnected \/ OnConnected \/ ResetIndex
           \/ ConnectedSignal
  BY <1>9 DEF UpdatePublisherState, PausePublisher, ResumePublisher, CheckFirstRound,
     SignalWork, OnDisconnected, OnConnected, ResetIndex, ConnectedSignal
<1>10. CASE UNCHANGED vars
  BY <1>10 DEF vars
<1> QED
  BY <1>1, <1>2, <1>3, <1>4, <1>5, <1>6, <1>7, <1>8, <1>9, <1>10
     DEF Next, Task, Main, MqttCallback

(* The flags stay flags.                                                   *)
LEMMA FlagsStep ==
    ASSUME FlagsOK, [Next]_vars
    PROVE  FlagsOK'
<1>1. CASE Task
  BY <1>1, Zenon DEF FlagsOK, Task, TaskWake, TaskReadState, PublishOneCheck, SnapshotLock,
     SnapshotTake, SnapshotNone, PublishRefused, PublishSent, MarkSent, MarkDropped,
     RoundDone, pubVars, mainVars
<1>2. CASE StoreReading \/ TickCooldowns \/ Discovery \/ Network
  BY <1>2, Zenon DEF FlagsOK, StoreReading, TickCooldowns, Discovery, Network, LinkDown,
     LinkUp, Clock, BrokerRestart, pubVars, mainVars
<1>3. CASE UpdatePublisherState
  BY <1>3, Zenon DEF FlagsOK, UpdatePublisherState, PausePublisher, ResumePublisher,
     CheckFirstRound, SignalWork, pubVars
<1>4. CASE MqttCallback
  BY <1>4, Zenon DEF FlagsOK, MqttCallback, OnDisconnected, OnConnected, MarkAllUpdated,
     ResetIndex, ConnectedSignal, pubVars, mainVars
<1>5. CASE UNCHANGED vars
  BY <1>5, Zenon DEF FlagsOK, vars, pubVars, mainVars
<1> QED
  BY <1>1, <1>2, <1>3, <1>4, <1>5 DEF Next, Main

(* Control points, indices and the outage stay in their ranges.            *)
LEMMA ControlStep ==
    ASSUME PublisherTypeOK, KeysKnown, SnapshotCurrentOrMarked, [Next]_vars
    PROVE  ControlOK'
<1> USE PublisherConstants, CacheConstants
<1>0. ControlOK /\ Capacity \in Nat /\ 0 \in Slots
  BY DEF PublisherTypeOK, ControlOK, Slots
<1>1. CASE SnapshotTake
  <2>1. PICK i \in Slots : slot' = i /\ publish_index' = i + 1
    BY <1>1 DEF SnapshotTake
  <2>2. i + 1 \in 0 .. Capacity
    BY <1>0, <2>1 DEF Slots
  <2> QED
    BY <1>0, <1>1, <2>1, <2>2 DEF SnapshotTake, ControlOK, mainVars, netVars
<1>2. CASE PublishSent
  <2>1. entries[slot].key \in Key
    BY <1>0, <1>2 DEF PublishSent, KeysKnown, SnapshotCurrentOrMarked, ControlOK
  <2> QED
    BY <1>0, <1>2, <2>1 DEF PublishSent, ControlOK, pubVars, mainVars
<1>3. CASE TaskWake \/ TaskReadState \/ PublishOneCheck \/ SnapshotLock \/ SnapshotNone
           \/ PublishRefused \/ RoundDone
  BY <1>0, <1>3 DEF TaskWake, TaskReadState, PublishOneCheck, SnapshotLock, SnapshotNone,
     PublishRefused, RoundDone, ControlOK, pubVars, mainVars, netVars
<1>4. CASE MarkSent \/ MarkDropped
  BY <1>0, <1>4 DEF MarkSent, MarkDropped, PublishOneReturns, ControlOK, pubVars, mainVars,
     netVars
<1>5. CASE StoreReading \/ TickCooldowns \/ Discovery
  BY <1>0, <1>5 DEF StoreReading, TickCooldowns, Discovery, ControlOK, pubVars, taskVars,
     mainVars, netVars
<1>6. CASE UpdatePublisherState
  BY <1>0, <1>6 DEF UpdatePublisherState, PausePublisher, ResumePublisher,
     CheckFirstRound, SignalWork, ControlOK, pubVars, taskVars, netVars
<1>7. CASE MqttCallback
  BY <1>0, <1>7 DEF MqttCallback, OnDisconnected, OnConnected, MarkAllUpdated, ResetIndex,
     ConnectedSignal, ControlOK, pubVars, taskVars, mainVars, netVars
<1>8. CASE Network
  BY <1>0, <1>8 DEF Network, LinkDown, LinkUp, Clock, BrokerRestart, ControlOK, pubVars,
     taskVars, mainVars, netVars
<1>9. CASE UNCHANGED vars
  BY <1>0, <1>9 DEF vars, ControlOK, pubVars, taskVars, mainVars, netVars
<1> QED
  BY <1>1, <1>2, <1>3, <1>4, <1>5, <1>6, <1>7, <1>8, <1>9 DEF Next, Task, Main

(* What lies in a slot in use is a payload.                                *)
LEMMA SliceIsPayload ==
    ASSUME CacheTypeOK, CacheInv, NEW i \in Slots, entries[i].valid
    PROVE  Slice(i) \in Payload /\ Len(Slice(i)) = entries[i].data_size
<1> DEFINE o == entries[i].data_offset
           m == entries[i].data_size
<1>1. o \in Nat /\ m \in Nat /\ o + m <= ArenaSize
  BY SliceBounds
<1>2. m \in 0 .. MaxInputSize
  BY <1>1, PublisherConstants, CacheConstants DEF CacheInv, SlicesInside
<1>3. Slice(i) = [n \in 1 .. m |-> arena[o + n - 1]]
  BY DEF Slice
<1> HIDE DEF o, m
<1>4. \A n \in 1 .. m : arena[o + n - 1] \in Byte
  BY <1>1, CacheConstants DEF CacheTypeOK, ArenaIndex
<1>5. Slice(i) \in [1 .. m -> Byte]
  BY <1>3, <1>4
<1>6. Len(Slice(i)) = m
  BY <1>1, <1>3
<1> QED
  BY <1>2, <1>5, <1>6 DEF Payload, m

LEMMA EmptyPayload == <<>> \in Payload
<1>1. <<>> \in [1 .. 0 -> Byte] /\ 0 \in 0 .. MaxInputSize
  BY CacheConstants
<1> QED
  BY <1>1 DEF Payload

(* The snapshot and the broker hold payloads.                              *)
LEMMA PayloadsStep ==
    ASSUME PublisherTypeOK, CacheInv, [Next]_vars
    PROVE  PayloadsOK'
<1>0. PayloadsOK /\ CacheTypeOK
  BY TypeParts
<1>1. CASE SnapshotTake
  <2>1. PICK i \in Slots : TakeNext(iterator, i) /\ snap_data' = Slice(i)
    BY <1>1 DEF SnapshotTake
  <2>2. entries[i].valid
    BY <2>1 DEF TakeNext, Eligible
  <2>3. snap_data' \in Payload
    BY <1>0, <2>1, <2>2, SliceIsPayload
  <2> QED
    BY <1>0, <1>1, <2>3 DEF SnapshotTake, PayloadsOK, netVars
<1>2. CASE PublishSent
  BY <1>0, <1>2 DEF PublishSent, PayloadsOK
<1>3. CASE MarkSent \/ MarkDropped
  BY <1>0, <1>3, EmptyPayload DEF MarkSent, MarkDropped, PublishOneReturns, PayloadsOK, netVars
<1>4. CASE TaskWake \/ TaskReadState \/ PublishOneCheck \/ SnapshotLock \/ SnapshotNone
           \/ PublishRefused \/ RoundDone
  BY <1>0, <1>4 DEF TaskWake, TaskReadState, PublishOneCheck, SnapshotLock, SnapshotNone,
     PublishRefused, RoundDone, PayloadsOK, netVars
<1>5. CASE StoreReading \/ TickCooldowns \/ Discovery \/ UpdatePublisherState
  BY <1>0, <1>5 DEF StoreReading, TickCooldowns, Discovery, UpdatePublisherState,
     PausePublisher, ResumePublisher, CheckFirstRound, SignalWork, PayloadsOK, taskVars,
     netVars
<1>6. CASE MqttCallback
  BY <1>0, <1>6 DEF MqttCallback, OnDisconnected, OnConnected, MarkAllUpdated, ResetIndex,
     ConnectedSignal, PayloadsOK, taskVars, netVars
<1>7. CASE Network
  BY <1>0, <1>7 DEF Network, LinkDown, LinkUp, Clock, BrokerRestart, PayloadsOK, taskVars,
     netVars
<1>8. CASE UNCHANGED vars
  BY <1>0, <1>8 DEF vars, PayloadsOK, taskVars, netVars
<1> QED
  BY <1>1, <1>2, <1>3, <1>4, <1>5, <1>6, <1>7, <1>8 DEF Next, Task, Main

-----------------------------------------------------------------------------
(* What an accepted reading does to the slots: none is lost or given to    *)
(* another ERD, and one whose bytes changed is marked.                     *)
LEMMA UpdateMarks ==
    ASSUME CacheTypeOK, CacheInv, NEW k \in Key, NEW d \in Payload,
           erd_cache_update(k, d), NEW j \in Slots
    PROVE  /\ entries[j].valid =>
                  /\ entries'[j].valid /\ entries'[j].key = entries[j].key
                  /\ entries'[j].data_size = entries[j].data_size
                  /\ entries[j].update_required => entries'[j].update_required
           /\ entries'[j].valid /\ ~entries[j].valid =>
                  entries'[j].update_required /\ entries'[j].key \in Key
           /\ entries[j].valid /\ ~entries'[j].update_required =>
                  Slice(j)' = Slice(j)
<1>1. CASE UpdateExisting(k, d)
  <2>1. PICK i \in Slots :
            /\ Holds(i, k) /\ Len(d) = entries[i].data_size
            /\ arena' = Written(entries[i].data_offset, d)
            /\ entries' = [entries EXCEPT ![i].update_required = TRUE]
    BY <1>1 DEF UpdateExisting
  <2>2. SameLayout
    BY <1>1, LayoutKept
  <2>3. entries'[i].update_required /\ (j # i => entries'[j] = entries[j])
    BY <2>1 DEF CacheTypeOK, Entry
  <2>4. ASSUME entries[j].valid, j # i
        PROVE  Slice(j)' = Slice(j)
    BY <2>1, <2>2, <2>4, OverwriteSlices DEF Holds
  <2> QED
    BY <2>2, <2>3, <2>4 DEF SameLayout
<1>2. CASE InsertNew(k, d)
  <2>1. PICK i \in Slots :
             /\ ~entries[i].valid
             /\ entries'[i].key = k /\ entries'[i].update_required
             /\ \A n \in Slots \ {i} : entries'[n] = entries[n]
             /\ arena' = Written(arena_offset, d)
    BY <1>2, InsertFields
  <2>2. ASSUME entries[j].valid
        PROVE  entries'[j] = entries[j] /\ Slice(j)' = Slice(j)
    <3>1. entries'[j] = entries[j]
      BY <2>1, <2>2
    <3> QED
      BY <2>1, <2>2, <3>1, InsertSlices
  <2> QED
    BY <2>1, <2>2
<1> QED
  BY <1>1, <1>2 DEF erd_cache_update

(* The operations of the task and of the callbacks write no payload.       *)
LEMMA OthersKeepSlices ==
    ASSUME CacheTypeOK,
           \/ \E it \in 0 .. Capacity, i \in Slots : TakeNext(it, i)
           \/ \E i \in Slots : erd_cache_mark_published(i)
           \/ \E i \in Slots : erd_cache_mark_unpublished(i)
           \/ erd_cache_mark_all_updated
           \/ erd_cache_tick_cooldowns
    PROVE  SameLayout /\ \A j \in Slots : Slice(j)' = Slice(j)
<1>1. SameLayout
  BY LayoutKept
<1>2. arena' = arena
  BY DEF TakeNext, erd_cache_mark_published, erd_cache_mark_unpublished,
     erd_cache_mark_all_updated, erd_cache_tick_cooldowns
<1> QED
  BY <1>1, <1>2 DEF Slice, SameLayout

(* The steps of the publisher that leave the cache alone.                  *)
CacheUntouched == UNCHANGED cacheVars

LEMMA UntouchedSlices ==
    ASSUME CacheUntouched
    PROVE  entries' = entries /\ \A j \in Slots : Slice(j)' = Slice(j)
BY DEF CacheUntouched, cacheVars, Slice

(* Slots in use stay with their ERDs.                                      *)
LEMMA KeysStep ==
    ASSUME PublisherTypeOK, CacheInv, KeysKnown, [CacheNext]_cacheVars
    PROVE  KeysKnown'
<1>0. CacheTypeOK
  BY DEF PublisherTypeOK
<1>1. ASSUME NEW k \in Key, NEW d \in Payload, erd_cache_update(k, d)
      PROVE  KeysKnown'
  BY <1>0, <1>1, UpdateMarks DEF KeysKnown
<1>2. CASE erd_cache_reset
  BY <1>2 DEF erd_cache_reset, EmptyEntry, KeysKnown
<1>3. CASE UNCHANGED cacheVars
  BY <1>3 DEF cacheVars, KeysKnown
<1>4. CASE SameLayout
  BY <1>4 DEF SameLayout, KeysKnown
<1> QED
  BY <1>0, <1>1, <1>2, <1>3, <1>4, OthersKeepSlices DEF CacheNext

(* A snapshot that is being published is current or its slot is marked:    *)
(* every reading that overtakes it marks the slot.                         *)
LEMMA SnapshotStep ==
    ASSUME PublisherInv, [Next]_vars
    PROVE  SnapshotCurrentOrMarked'
<1>0. /\ CacheTypeOK /\ CacheInv /\ SnapshotCurrentOrMarked
      /\ slot \in Slots /\ iterator \in 0 .. Capacity
  BY DEF PublisherInv, PublisherTypeOK
<1>1. CASE StoreReading
  <2>1. PICK k \in Key : \E d \in Reading[k] : erd_cache_update(k, d)
    BY <1>1 DEF StoreReading
  <2>2. PICK d \in Payload : erd_cache_update(k, d)
    BY <2>1, PublisherConstants
  <2> QED
    BY <1>0, <1>1, <2>2, UpdateMarks DEF StoreReading, taskVars, SnapshotCurrentOrMarked
<1>2. CASE TickCooldowns
  <2>1. SameLayout /\ \A j \in Slots : Slice(j)' = Slice(j)
    BY <1>0, <1>2, OthersKeepSlices DEF TickCooldowns
  <2>2. \A j \in Slots : entries'[j].update_required = entries[j].update_required
    BY <1>0, <1>2 DEF TickCooldowns, erd_cache_tick_cooldowns, CacheTypeOK, Entry
  <2> QED
    BY <1>0, <1>2, <2>1, <2>2
       DEF TickCooldowns, taskVars, SameLayout, SnapshotCurrentOrMarked
<1>3. CASE MarkAllUpdated
  <2>1. SameLayout /\ \A j \in Slots : Slice(j)' = Slice(j)
    BY <1>0, <1>3, OthersKeepSlices DEF MarkAllUpdated
  <2>2. \A j \in Slots : entries[j].valid => entries'[j].update_required
    BY <1>0, <1>3 DEF MarkAllUpdated, erd_cache_mark_all_updated, CacheTypeOK, Entry
  <2> QED
    BY <1>0, <1>3, <2>1, <2>2
       DEF MarkAllUpdated, taskVars, SameLayout, SnapshotCurrentOrMarked
<1>4. CASE SnapshotTake
  <2>1. PICK i \in Slots : TakeNext(iterator, i) /\ slot' = i /\ snap_data' = Slice(i)
    BY <1>4 DEF SnapshotTake
  <2>2. entries[i].valid
    BY <2>1 DEF TakeNext, Eligible
  <2>3. SameLayout /\ Slice(i)' = Slice(i)
    BY <1>0, <2>1, OthersKeepSlices
  <2>4. Len(Slice(i)) = entries[i].data_size
    BY <1>0, <2>2, SliceIsPayload
  <2>5. Slice(slot)' = Slice(i)'
    BY <2>1 DEF Slice
  <2> QED
    BY <2>1, <2>2, <2>3, <2>4, <2>5 DEF SameLayout, SnapshotCurrentOrMarked
<1>5. CASE PublishRefused \/ PublishSent
  <2>1. CacheUntouched /\ UNCHANGED <<slot, snap_data>> /\ tpc = "publish"
    BY <1>5 DEF PublishRefused, PublishSent, CacheUntouched
  <2>2. Slice(slot)' = Slice(slot) /\ entries' = entries
    BY <2>1 DEF CacheUntouched, cacheVars, Slice
  <2> QED
    BY <1>0, <2>1, <2>2 DEF SnapshotCurrentOrMarked
<1>6. CASE tpc' \notin {"publish", "sent", "dropped"}
  BY <1>6 DEF SnapshotCurrentOrMarked
<1>7. CASE CacheUntouched /\ UNCHANGED taskVars
  <2>1. Slice(slot)' = Slice(slot) /\ entries' = entries
    BY <1>7 DEF CacheUntouched, cacheVars, taskVars, Slice
  <2> QED
    BY <1>0, <1>7, <2>1 DEF taskVars, SnapshotCurrentOrMarked
<1>8. CASE TaskWake \/ TaskReadState \/ PublishOneCheck \/ SnapshotLock \/ SnapshotNone
           \/ MarkSent \/ MarkDropped \/ RoundDone
  BY <1>6, <1>8 DEF TaskWake, TaskReadState, PublishOneCheck, SnapshotLock, SnapshotNone,
     MarkSent, MarkDropped, PublishOneReturns, RoundDone
<1>9. CASE Discovery \/ UpdatePublisherState \/ Network
  BY <1>7, <1>9 DEF Discovery, UpdatePublisherState, PausePublisher, ResumePublisher,
     CheckFirstRound, SignalWork, Network, LinkDown, LinkUp, Clock, BrokerRestart,
     CacheUntouched
<1>10. CASE OnDisconnected \/ OnConnected \/ ResetIndex \/ ConnectedSignal
  BY <1>7, <1>10 DEF OnDisconnected, OnConnected, ResetIndex, ConnectedSignal,
     CacheUntouched
<1>11. CASE UNCHANGED vars
  BY <1>7, <1>11 DEF vars, CacheUntouched
<1> QED
  BY <1>1, <1>2, <1>3, <1>4, <1>5, <1>8, <1>9, <1>10, <1>11
     DEF Next, Task, Main, MqttCallback

-----------------------------------------------------------------------------
(* A republish that is due stays due until every entry is marked: a        *)
(* disconnect that repeats or a reconnect in between does not cancel it.   *)
LEMMA RepublishStays ==
    ASSUME PublisherTypeOK, FullRepublishDue, [Next]_vars, ~MarkAllUpdated
    PROVE  FullRepublishDue'
<1> USE PublisherConstants
<1>1. CASE Task
  BY <1>1, Zenon DEF Task, TaskWake, TaskReadState, PublishOneCheck, SnapshotLock,
     SnapshotTake, SnapshotNone, PublishRefused, PublishSent, MarkSent, MarkDropped,
     RoundDone, pubVars, mainVars, FullRepublishDue
<1>2. CASE StoreReading \/ Discovery \/ LinkDown \/ LinkUp
  BY <1>2, Zenon DEF StoreReading, Discovery, LinkDown, LinkUp, pubVars, mainVars,
     FullRepublishDue
<1>3. CASE mpc # "mark_all" /\ UNCHANGED <<mqtt_connected, outage>>
  BY <1>3, Zenon DEF FullRepublishDue
<1>4. CASE TickCooldowns \/ PausePublisher \/ ResumePublisher
  BY <1>3, <1>4 DEF TickCooldowns, PausePublisher, ResumePublisher, pubVars
<1>5. CASE CheckFirstRound \/ SignalWork \/ ResetIndex \/ ConnectedSignal
  BY <1>3, <1>5 DEF CheckFirstRound, SignalWork, ResetIndex, ConnectedSignal, pubVars
<1>6. CASE OnConnected
  BY <1>6 DEF OnConnected, FullRepublishDue
<1>7. CASE OnDisconnected
  <2>1. ~mqtt_connected /\ outage = LongOutage
    BY <1>7, Zenon DEF OnDisconnected, FullRepublishDue
  <2>2. LongOutage # -1
    OBVIOUS
  <2>3. outage' = LongOutage
    BY <1>7, <2>1, <2>2 DEF OnDisconnected
  <2>4. ~mqtt_connected'
    BY <1>7, Zenon DEF OnDisconnected
  <2> QED
    BY <2>3, <2>4, Zenon DEF FullRepublishDue
<1>8. CASE Clock
  <2>1. outage # LongOutage
    BY <1>8 DEF Clock
  <2> QED
    BY <1>8, <2>1, Zenon DEF Clock, mainVars, FullRepublishDue
<1>9. CASE BrokerRestart
  BY <1>9, Zenon DEF BrokerRestart, pubVars, FullRepublishDue
<1>10. CASE UNCHANGED vars
  BY <1>10, Zenon DEF vars, pubVars, mainVars, FullRepublishDue
<1> QED
  BY <1>1, <1>2, <1>4, <1>5, <1>6, <1>7, <1>8, <1>9, <1>10
     DEF Next, Main, UpdatePublisherState, MqttCallback, Network

(* A taken entry stays in flight until the task hands it to the MQTT       *)
(* client or marks it again.                                               *)
LEMMA FlightStays ==
    ASSUME NEW j \in Slots, InFlight(j), [Next]_vars, ~PublishSent, ~MarkDropped
    PROVE  InFlight(j)'
<1>1. CASE Task
  BY <1>1 DEF Task, TaskWake, TaskReadState, PublishOneCheck, SnapshotLock, SnapshotTake,
     SnapshotNone, PublishRefused, MarkSent, RoundDone, InFlight
<1>2. CASE Main \/ Network \/ UNCHANGED vars
  <2>1. UNCHANGED taskVars
    BY <1>2 DEF Main, StoreReading, TickCooldowns, UpdatePublisherState, PausePublisher,
       ResumePublisher, CheckFirstRound, SignalWork, MqttCallback, OnDisconnected,
       OnConnected, MarkAllUpdated, ResetIndex, ConnectedSignal, Discovery, Network,
       LinkDown, LinkUp, Clock, BrokerRestart, vars
  <2> QED
    BY <2>1 DEF taskVars, InFlight
<1> QED
  BY <1>1, <1>2 DEF Next

(* What a step must not do to a slot it leaves unmarked.                   *)
SlotKept(j) == entries'[j].valid /\ ~entries'[j].update_required =>
                  /\ entries[j].valid /\ ~entries[j].update_required
                  /\ entries'[j].key = entries[j].key /\ Slice(j)' = Slice(j)

LEMMA KeptSlotNotLost ==
    ASSUME PublisherInv, [Next]_vars, NEW j \in Slots, SlotKept(j),
           ~PublishSent, ~MarkDropped, ~MarkAllUpdated,
           UNCHANGED <<broker, lost>> \/ BrokerRestart,
           entries'[j].valid, ~entries'[j].update_required
    PROVE  \/ broker'[entries'[j].key] = Slice(j)'
           \/ entries'[j].key \in lost'
           \/ InFlight(j)'
           \/ FullRepublishDue'
<1>1. PublisherTypeOK
  BY DEF PublisherInv
<1>2. CASE InFlight(j)
  BY <1>2, FlightStays
<1>3. CASE FullRepublishDue
  BY <1>1, <1>3, RepublishStays
<1>4. CASE BrokerRestart
  <2>1. FullRepublishDue
    BY <1>4, Zenon DEF BrokerRestart, FullRepublishDue
  <2> QED
    BY <1>3, <2>1
<1>5. CASE UNCHANGED <<broker, lost>> /\ ~InFlight(j) /\ ~FullRepublishDue
  <2>1. broker[entries[j].key] = Slice(j) \/ entries[j].key \in lost
    BY <1>5 DEF SlotKept, PublisherInv, NoLostUpdate
  <2> QED
    BY <1>5, <2>1 DEF SlotKept
<1> QED
  BY <1>2, <1>3, <1>4, <1>5

(* No step loses a reading.                                                *)
LEMMA NoLostStep ==
    ASSUME PublisherInv, [Next]_vars
    PROVE  NoLostUpdate'
<1>0. /\ CacheTypeOK /\ CacheInv /\ SnapshotCurrentOrMarked /\ KeysKnown
      /\ PublisherTypeOK /\ NoLostUpdate
      /\ slot \in Slots /\ iterator \in 0 .. Capacity
      /\ broker \in [Key -> Payload \cup {NoPayload}]
  BY DEF PublisherInv, PublisherTypeOK
<1> SUFFICES ASSUME NEW j \in Slots, entries'[j].valid, ~entries'[j].update_required
             PROVE  \/ broker'[entries'[j].key] = Slice(j)'
                    \/ entries'[j].key \in lost'
                    \/ InFlight(j)'
                    \/ FullRepublishDue'
  BY DEF NoLostUpdate
<1>1. CASE StoreReading
  <2>1. PICK k \in Key : \E d \in Reading[k] : erd_cache_update(k, d)
    BY <1>1 DEF StoreReading
  <2>2. PICK d \in Payload : erd_cache_update(k, d)
    BY <2>1, PublisherConstants
  <2>3. SlotKept(j)
    BY <1>0, <2>2, UpdateMarks DEF SlotKept
  <2>4. mpc' = "idle" /\ UNCHANGED <<broker, lost, taskVars, tpc>>
    BY <1>1 DEF StoreReading, mainVars, netVars, taskVars
  <2>5. ~PublishSent /\ ~MarkDropped /\ ~MarkAllUpdated
    BY <1>1, <2>4 DEF StoreReading, PublishSent, MarkDropped, PublishOneReturns, MarkAllUpdated
  <2> QED
    BY <2>3, <2>4, <2>5, KeptSlotNotLost
<1>2. CASE TickCooldowns
  <2>1. SameLayout /\ \A i \in Slots : Slice(i)' = Slice(i)
    BY <1>0, <1>2, OthersKeepSlices DEF TickCooldowns
  <2>2. entries'[j].update_required = entries[j].update_required
    BY <1>0, <1>2 DEF TickCooldowns, erd_cache_tick_cooldowns, CacheTypeOK, Entry
  <2>3. SlotKept(j)
    BY <2>1, <2>2 DEF SlotKept, SameLayout
  <2>4. UNCHANGED <<broker, lost, tpc>> /\ mpc' = "idle"
    BY <1>2 DEF TickCooldowns, netVars, taskVars
  <2>5. ~PublishSent /\ ~MarkDropped /\ ~MarkAllUpdated
    BY <2>4 DEF PublishSent, MarkDropped, PublishOneReturns, MarkAllUpdated
  <2> QED
    BY <2>3, <2>4, <2>5, KeptSlotNotLost
<1>3. CASE MarkAllUpdated
  <2>1. entries[j].valid = entries'[j].valid
    BY <1>0, <1>3, OthersKeepSlices DEF MarkAllUpdated, SameLayout
  <2>2. entries[j].valid => entries'[j].update_required
    BY <1>0, <1>3 DEF MarkAllUpdated, erd_cache_mark_all_updated, CacheTypeOK, Entry
  <2> QED
    BY <2>1, <2>2
<1>4. CASE SnapshotTake
  <2>1. PICK i \in Slots : TakeNext(iterator, i) /\ slot' = i
    BY <1>4 DEF SnapshotTake
  <2>2. SameLayout /\ Slice(j)' = Slice(j)
    BY <1>0, <2>1, OthersKeepSlices
  <2>3. CASE j = i
    BY <1>4, <2>1, <2>3 DEF SnapshotTake, InFlight
  <2>4. CASE j # i
    <3>1. entries'[j] = entries[j]
      BY <1>0, <2>1, <2>4 DEF TakeNext, CacheTypeOK
    <3>2. SlotKept(j)
      BY <2>2, <3>1 DEF SlotKept
    <3>3. UNCHANGED <<broker, lost, mpc>> /\ tpc' = "publish"
      BY <1>4 DEF SnapshotTake, netVars, mainVars
    <3>4. ~PublishSent /\ ~MarkDropped /\ ~MarkAllUpdated
      BY <3>3 DEF PublishSent, MarkDropped, PublishOneReturns, MarkAllUpdated
    <3> QED
      BY <3>2, <3>3, <3>4, KeptSlotNotLost
  <2> QED
    BY <2>3, <2>4
<1>5. CASE PublishSent
  <2>1. CacheUntouched /\ tpc = "publish" /\ UNCHANGED mpc
    BY <1>5 DEF PublishSent, CacheUntouched, mainVars
  <2>2. entries' = entries /\ Slice(j)' = Slice(j)
    BY <2>1, UntouchedSlices
  <2>3. entries[slot].valid /\ entries[slot].key \in Key
    BY <1>0, <2>1 DEF SnapshotCurrentOrMarked, KeysKnown
  <2>4. CASE j = slot
    <3>1. snap_data = Slice(j)
      BY <1>0, <2>1, <2>2, <2>4 DEF SnapshotCurrentOrMarked
    <3> QED
      BY <1>0, <1>5, <2>2, <2>3, <2>4, <3>1 DEF PublishSent
  <2>5. CASE j # slot
    <3>1. entries[j].key # entries[slot].key
      BY <1>0, <2>2, <2>3, <2>5 DEF CacheInv, KeysUnique
    <3>2. broker'[entries[j].key] = broker[entries[j].key]
      BY <1>0, <1>5, <2>2, <3>1 DEF PublishSent, KeysKnown
    <3>3. entries[j].key \in lost => entries[j].key \in lost'
      BY <1>5, <3>1 DEF PublishSent
    <3>4. ~InFlight(j)
      BY <2>5 DEF InFlight
    <3>5. FullRepublishDue => FullRepublishDue'
      BY <1>5, Zenon DEF PublishSent, pubVars, mainVars, FullRepublishDue
    <3> QED
      BY <1>0, <2>2, <3>2, <3>3, <3>4, <3>5 DEF NoLostUpdate
  <2> QED
    BY <2>4, <2>5
<1>6. CASE MarkSent
  <2>1. SameLayout /\ Slice(j)' = Slice(j)
    BY <1>0, <1>6, OthersKeepSlices DEF MarkSent
  <2>2. entries'[j].update_required = entries[j].update_required
    BY <1>0, <1>6 DEF MarkSent, erd_cache_mark_published, CacheTypeOK, Entry
  <2>3. SlotKept(j)
    BY <2>1, <2>2 DEF SlotKept, SameLayout
  <2>4. UNCHANGED <<broker, lost, mpc>> /\ tpc = "sent"
    BY <1>6 DEF MarkSent, netVars, mainVars
  <2>5. ~PublishSent /\ ~MarkDropped /\ ~MarkAllUpdated
    BY <2>4 DEF PublishSent, MarkDropped, MarkAllUpdated
  <2> QED
    BY <2>3, <2>4, <2>5, KeptSlotNotLost
<1>7. CASE MarkDropped
  <2>1. SameLayout /\ Slice(j)' = Slice(j)
    BY <1>0, <1>7, OthersKeepSlices DEF MarkDropped
  <2>2. j # slot /\ entries'[j] = entries[j]
    BY <1>0, <1>7 DEF MarkDropped, erd_cache_mark_unpublished, CacheTypeOK, Entry
  <2>3. ~InFlight(j)
    BY <2>2 DEF InFlight
  <2>4. FullRepublishDue => FullRepublishDue'
    BY <1>7, Zenon DEF MarkDropped, pubVars, mainVars, FullRepublishDue
  <2>5. UNCHANGED <<broker, lost>>
    BY <1>7 DEF MarkDropped, netVars
  <2> QED
    BY <1>0, <2>1, <2>2, <2>3, <2>4, <2>5 DEF NoLostUpdate
<1>8. CASE CacheUntouched /\ ~PublishSent /\ (UNCHANGED <<broker, lost>> \/ BrokerRestart)
           /\ ~MarkDropped /\ ~MarkAllUpdated
  <2>1. SlotKept(j)
    BY <1>8, UntouchedSlices DEF SlotKept
  <2> QED
    BY <1>8, <2>1, KeptSlotNotLost
<1>9. CASE TaskWake \/ TaskReadState \/ PublishOneCheck \/ SnapshotLock \/ SnapshotNone
           \/ PublishRefused \/ RoundDone
  <2>1. /\ CacheUntouched /\ UNCHANGED <<broker, lost, mpc>>
        /\ tpc' # "sent" /\ tpc # "dropped"
    BY <1>9 DEF TaskWake, TaskReadState, PublishOneCheck, SnapshotLock, SnapshotNone,
       PublishRefused, RoundDone, CacheUntouched, netVars, mainVars
  <2>2. ~PublishSent /\ ~MarkDropped /\ ~MarkAllUpdated
    BY <2>1 DEF PublishSent, MarkDropped, MarkAllUpdated
  <2> QED
    BY <1>8, <2>1, <2>2
<1>10. CASE Discovery \/ UpdatePublisherState \/ OnDisconnected \/ OnConnected
            \/ ResetIndex \/ ConnectedSignal \/ Network \/ UNCHANGED vars
  <2>1. /\ CacheUntouched /\ UNCHANGED tpc
        /\ mpc' = "reset_index" => mpc = "reset_index"
        /\ UNCHANGED <<broker, lost>> \/ BrokerRestart
    BY <1>10 DEF Discovery, UpdatePublisherState, PausePublisher, ResumePublisher,
       CheckFirstRound, SignalWork, OnDisconnected, OnConnected, ResetIndex,
       ConnectedSignal, Network, LinkDown, LinkUp, Clock, BrokerRestart, vars,
       CacheUntouched, netVars, taskVars, mainVars
  <2>2. ~PublishSent /\ ~MarkDropped /\ ~MarkAllUpdated
    BY <2>1 DEF PublishSent, MarkDropped, PublishOneReturns, MarkAllUpdated
  <2> QED
    BY <1>8, <2>1, <2>2
<1> QED
  BY <1>1, <1>2, <1>3, <1>4, <1>5, <1>6, <1>7, <1>9, <1>10
     DEF Next, Task, Main, MqttCallback

-----------------------------------------------------------------------------
LEMMA PublisherInit == Init => PublisherInv
<1> SUFFICES ASSUME Init PROVE PublisherInv
  OBVIOUS
<1> USE PublisherConstants, CacheConstants
<1>1. CacheTypeOK
  BY DEF Init, CacheInit, CacheTypeOK, Entry, EmptyEntry, Slots, ArenaIndex
<1>2. FlagsOK
  BY Zenon DEF Init, FlagsOK
<1>3. ControlOK
  BY DEF Init, ControlOK, Slots
<1>4. PayloadsOK
  BY EmptyPayload DEF Init, PayloadsOK
<1>5. \A i \in Slots : ~entries[i].valid
  BY DEF Init, CacheInit, EmptyEntry
<1>6. CacheInv /\ KeysKnown /\ NoLostUpdate
  BY <1>5 DEF CacheInv, KeysUnique, SlicesInside, SlicesDisjoint, KeysKnown, NoLostUpdate
<1>7. SnapshotCurrentOrMarked
  BY DEF Init, SnapshotCurrentOrMarked
<1> QED
  BY <1>1, <1>2, <1>3, <1>4, <1>6, <1>7, TypeParts DEF PublisherInv

LEMMA PublisherInductive ==
    ASSUME PublisherInv, [Next]_vars
    PROVE  PublisherInv'
<1>0. /\ PublisherTypeOK /\ CacheInv /\ KeysKnown /\ SnapshotCurrentOrMarked
      /\ CacheTypeOK /\ FlagsOK
  BY TypeParts DEF PublisherInv
<1>1. [CacheNext]_cacheVars
  BY <1>0, StepUsesCache
<1>2. CacheTypeOK' /\ CacheInv'
  BY <1>0, <1>1, CacheStepType, CacheStepInv
<1>3. FlagsOK'
  BY <1>0, FlagsStep
<1>4. ControlOK' /\ PayloadsOK'
  BY <1>0, ControlStep, PayloadsStep
<1>5. PublisherTypeOK'
  BY <1>2, <1>3, <1>4 DEF PublisherTypeOK, FlagsOK, ControlOK, PayloadsOK
<1>6. KeysKnown' /\ SnapshotCurrentOrMarked' /\ NoLostUpdate'
  BY <1>0, <1>1, KeysStep, SnapshotStep, NoLostStep
<1> QED
  BY <1>2, <1>5, <1>6 DEF PublisherInv

(* PublisherInv is an invariant: it is what one step of either thread has  *)
(* to know about the other.                                                *)
THEOREM PublisherSafe == Spec => []PublisherInv
<1> QED
  BY PublisherInit, PublisherInductive, PTL DEF Spec

(* The flags, indices, payloads and the cache stay in their ranges: the    *)
(* publisher never asks for a slot the cache does not have.                *)
THEOREM PublisherTypeCorrect == Spec => []PublisherTypeOK
<1>1. PublisherInv => PublisherTypeOK
  BY DEF PublisherInv
<1> QED
  BY <1>1, PublisherSafe, PTL

(* The task's copy of an entry is current while it is being published, or  *)
(* the entry is marked again: an update between snapshot and publish is    *)
(* never taken for published.                                              *)
THEOREM SnapshotSafe == Spec => []SnapshotCurrentOrMarked
<1>1. PublisherInv => SnapshotCurrentOrMarked
  BY DEF PublisherInv
<1> QED
  BY <1>1, PublisherSafe, PTL

(* No reading is lost between the main loop, the publisher task and the    *)
(* broker, whatever the order of their steps.                              *)
THEOREM NothingLost == Spec => []NoLostUpdate
<1>1. PublisherInv => NoLostUpdate
  BY DEF PublisherInv
<1> QED
  BY <1>1, PublisherSafe, PTL

(* The two threads use the cache as ErdCache says it may be used, so what  *)
(* is proved of it holds of the bridge: in particular it implements the    *)
(* store of ErdStore.                                                      *)
THEOREM PublisherUsesCache == Spec => CacheSpec
<1>1. Init => CacheInit
  BY DEF Init
<1>2. PublisherInv /\ [Next]_vars => [CacheNext]_cacheVars
  BY StepUsesCache DEF PublisherInv
<1> QED
  BY <1>1, <1>2, PublisherSafe, PTL DEF Spec, CacheSpec

THEOREM PublisherImplementsStore == Spec => ImplementsStore
BY PublisherUsesCache, CacheImplementsStore, PTL

-----------------------------------------------------------------------------
(* With the history variables of PublisherHistory.                         *)

\* The history variables follow the publisher and never hold it back.
LEMMA HistorySteps == [HistoryNext]_allVars => [Next]_vars
BY DEF HistoryNext, allVars

(* PublisherSafe holds with the history variables as well.                 *)
LEMMA HistorySafe == HistorySpec => []PublisherInv
<1>1. HistoryInit => Init
  BY DEF HistoryInit
<1> QED
  BY <1>1, HistorySteps, PublisherInit, PublisherInductive, PTL DEF HistorySpec

-----------------------------------------------------------------------------
(* Once a message has followed a pause, the task is at none of the points  *)
(* from which it publishes without looking at the pause again.             *)
LateInv == /\ late \in {0, 1}
           /\ paused /\ late = 1 => tpc \notin {"lock", "scan", "publish"}

LEMMA LateInit == HistoryInit => LateInv
BY DEF HistoryInit, LateInv

\* Only the second look at the flags leads to the snapshot.
LEMMA PausedStaysOut ==
    ASSUME [Next]_vars, paused, tpc \notin {"lock", "scan", "publish"}
    PROVE  tpc' \notin {"lock", "scan", "publish"}
<1>1. CASE PublishOneCheck
  BY <1>1 DEF PublishOneCheck, MayPublish
<1>2. CASE TaskWake \/ TaskReadState \/ SnapshotLock \/ SnapshotTake \/ SnapshotNone
           \/ PublishRefused \/ PublishSent \/ MarkSent \/ MarkDropped \/ RoundDone
  BY <1>2 DEF TaskWake, TaskReadState, SnapshotLock, SnapshotTake, SnapshotNone,
     PublishRefused, PublishSent, MarkSent, MarkDropped, RoundDone, PublishOneReturns
<1>3. CASE Main \/ Network \/ UNCHANGED vars
  <2>1. UNCHANGED tpc
    BY <1>3 DEF Main, StoreReading, TickCooldowns, UpdatePublisherState, PausePublisher,
       ResumePublisher, CheckFirstRound, SignalWork, MqttCallback, OnDisconnected,
       OnConnected, MarkAllUpdated, ResetIndex, ConnectedSignal, Discovery, Network,
       LinkDown, LinkUp, Clock, BrokerRestart, vars, taskVars
  <2> QED
    BY <2>1
<1> QED
  BY <1>1, <1>2, <1>3 DEF Next, Task

LEMMA LateStep ==
    ASSUME LateInv, [HistoryNext]_allVars
    PROVE  LateInv'
<1>1. CASE UNCHANGED allVars
  <2>1. UNCHANGED <<late, paused, tpc>>
    BY <1>1 DEF allVars, histVars, vars, pubVars, taskVars
  <2> QED
    BY <2>1, Zenon DEF LateInv
<1>2. CASE HistoryNext /\ ~paused
  <2>1. late' = 0
    BY <1>2, Zenon DEF HistoryNext, LateNext
  <2> QED
    BY <2>1 DEF LateInv
<1>3. CASE HistoryNext /\ paused /\ PublishSent
  <2>1. tpc = "publish" /\ tpc' = "sent"
    BY <1>3 DEF PublishSent
  <2>2. late = 0
    BY <1>3, <2>1 DEF LateInv
  <2>3. late' = late + 1
    BY <1>3, <2>2 DEF HistoryNext, LateNext, Sent
  <2> QED
    BY <2>1, <2>2, <2>3 DEF LateInv
<1>4. CASE HistoryNext /\ paused /\ ~PublishSent
  <2>1. late' = late
    BY <1>4, Zenon DEF HistoryNext, LateNext, Sent
  <2>2. late = 1 => tpc' \notin {"lock", "scan", "publish"}
    BY <1>4, PausedStaysOut DEF LateInv, HistoryNext
  <2> QED
    BY <2>1, <2>2 DEF LateInv
<1> QED
  BY <1>1, <1>2, <1>3, <1>4

(* At most one message is sent while publishing is paused, wherever the    *)
(* task was when the main loop paused it.                                  *)
THEOREM LatePublishBounded == HistorySpec => []AtMostOneLatePublish
<1>1. LateInv => AtMostOneLatePublish
  BY DEF LateInv, AtMostOneLatePublish
<1> QED
  BY <1>1, LateInit, LateStep, PTL DEF HistorySpec

-----------------------------------------------------------------------------
(* An ERD that must wait has a slot, whose cooldown is at least as long,   *)
(* or is about to be set by the task that has just sent it; an ERD that is *)
(* being sent does not have to wait.                                       *)
WaitOK == wait \in [Key -> 0 .. MaxCooldown]

CooldownCovers(i, k) == /\ Holds(i, k)
                        /\ \/ wait[k] <= entries[i].publish_cooldown
                           \/ tpc = "sent" /\ slot = i

WaitCovered == \A k \in Key : wait[k] = 0 \/ \E i \in Slots : CooldownCovers(i, k)

SendsRested == tpc = "publish" => wait[entries[slot].key] = 0

RateInv == WaitOK /\ WaitCovered /\ SendsRested

LEMMA RateInit == HistoryInit => RateInv
<1> SUFFICES ASSUME HistoryInit PROVE RateInv
  OBVIOUS
<1>1. WaitOK
  BY CacheConstants DEF HistoryInit, WaitOK
<1>2. WaitCovered
  BY DEF HistoryInit, WaitCovered
<1>3. SendsRested
  BY DEF HistoryInit, Init, SendsRested
<1> QED
  BY <1>1, <1>2, <1>3 DEF RateInv

\* What a step does to slots in use when it is none of the timed ones.
CooldownsKept == \A i \in Slots : entries[i].valid =>
                    /\ entries'[i].valid /\ entries'[i].key = entries[i].key
                    /\ entries'[i].publish_cooldown = entries[i].publish_cooldown

LEMMA UpdateKeepsCooldowns ==
    ASSUME CacheTypeOK, CacheInv, NEW k \in Key, NEW d \in Payload,
           erd_cache_update(k, d)
    PROVE  CooldownsKept
<1>1. CASE UpdateExisting(k, d)
  BY <1>1 DEF UpdateExisting, CooldownsKept, CacheTypeOK, Entry
<1>2. CASE InsertNew(k, d)
  <2>1. PICK i \in Slots : ~entries[i].valid /\ \A n \in Slots \ {i} : entries'[n] = entries[n]
    BY <1>2, InsertFields
  <2> QED
    BY <2>1 DEF CooldownsKept
<1> QED
  BY <1>1, <1>2 DEF erd_cache_update

LEMMA OthersKeepCooldowns ==
    ASSUME CacheTypeOK,
           \/ \E it \in 0 .. Capacity, i \in Slots : TakeNext(it, i)
           \/ \E i \in Slots : erd_cache_mark_unpublished(i)
           \/ UNCHANGED entries
    PROVE  CooldownsKept
BY DEF TakeNext, erd_cache_mark_unpublished, CooldownsKept, CacheTypeOK, Entry

Timed == PublishSent \/ MarkSent \/ TickCooldowns \/ MarkAllUpdated

LEMMA UntimedKeepsCooldowns ==
    ASSUME PublisherInv, [Next]_vars, ~Timed
    PROVE  CooldownsKept
<1>0. CacheTypeOK /\ CacheInv /\ slot \in Slots /\ iterator \in 0 .. Capacity
  BY DEF PublisherInv, PublisherTypeOK
<1>1. CASE StoreReading
  <2>1. PICK k \in Key : \E d \in Reading[k] : erd_cache_update(k, d)
    BY <1>1 DEF StoreReading
  <2>2. PICK d \in Payload : erd_cache_update(k, d)
    BY <2>1, PublisherConstants
  <2> QED
    BY <1>0, <2>2, UpdateKeepsCooldowns
<1>2. CASE SnapshotTake \/ MarkDropped
  BY <1>0, <1>2, OthersKeepCooldowns DEF SnapshotTake, MarkDropped
<1>3. CASE TaskWake \/ TaskReadState \/ PublishOneCheck \/ SnapshotLock \/ SnapshotNone
           \/ PublishRefused \/ RoundDone
  <2>1. UNCHANGED entries
    BY <1>3 DEF TaskWake, TaskReadState, PublishOneCheck, SnapshotLock, SnapshotNone,
       PublishRefused, RoundDone, cacheVars
  <2> QED
    BY <1>0, <2>1, OthersKeepCooldowns
<1>4. CASE Discovery \/ UpdatePublisherState \/ OnDisconnected \/ OnConnected
           \/ ResetIndex \/ ConnectedSignal \/ Network \/ UNCHANGED vars
  <2>1. UNCHANGED entries
    BY <1>4 DEF Discovery, UpdatePublisherState, PausePublisher, ResumePublisher,
       CheckFirstRound, SignalWork, OnDisconnected, OnConnected, ResetIndex,
       ConnectedSignal, Network, LinkDown, LinkUp, Clock, BrokerRestart, vars, cacheVars
  <2> QED
    BY <1>0, <2>1, OthersKeepCooldowns
<1> QED
  BY <1>1, <1>2, <1>3, <1>4 DEF Next, Task, Main, MqttCallback, Timed

\* The task between "sent" and MarkSent, and on the way to "publish".
LEMMA UntimedTask ==
    ASSUME [Next]_vars, ~Timed
    PROVE  /\ tpc = "sent" => UNCHANGED <<tpc, slot>>
           /\ tpc' = "publish" => SnapshotTake \/ UNCHANGED <<tpc, slot>>
<1>1. CASE Task
  BY <1>1 DEF Timed, Task, TaskWake, TaskReadState, PublishOneCheck, SnapshotLock,
     SnapshotTake, SnapshotNone, PublishRefused, MarkDropped, RoundDone, PublishOneReturns
<1>2. CASE Main \/ Network \/ UNCHANGED vars
  BY <1>2 DEF Main, StoreReading, TickCooldowns, UpdatePublisherState, PausePublisher,
     ResumePublisher, CheckFirstRound, SignalWork, MqttCallback, OnDisconnected,
     OnConnected, MarkAllUpdated, ResetIndex, ConnectedSignal, Discovery, Network,
     LinkDown, LinkUp, Clock, BrokerRestart, vars, taskVars
<1> QED
  BY <1>1, <1>2 DEF Next

\* The slot of an ERD is the only one that holds it, so its cooldown decides.
LEMMA RestedWhenTaken ==
    ASSUME PublisherInv, RateInv, SnapshotTake
    PROVE  entries'[slot'].key \in Key /\ wait[entries'[slot'].key] = 0
<1>0. CacheTypeOK /\ CacheInv /\ KeysKnown
  BY DEF PublisherInv, PublisherTypeOK
<1>1. PICK i \in Slots : TakeNext(iterator, i) /\ slot' = i
  BY DEF SnapshotTake
<1> DEFINE k == entries[i].key
<1>2. entries[i].valid /\ (MaxCooldown = 0 \/ entries[i].publish_cooldown = 0)
  BY <1>0, <1>1, CacheConstants DEF TakeNext, Eligible, CacheTypeOK, Entry
<1>3. k \in Key /\ entries'[i].key = k
  BY <1>0, <1>1, <1>2 DEF KeysKnown, TakeNext, CacheTypeOK, Entry
<1>4. wait[k] \in 0 .. MaxCooldown
  BY <1>3 DEF RateInv, WaitOK
<1>5. \A j \in Slots : Holds(j, k) => j = i
  BY <1>0, <1>2 DEF CacheInv, KeysUnique, Holds
<1>6. tpc # "sent"
  BY DEF SnapshotTake
<1>7. wait[k] = 0 \/ wait[k] <= entries[i].publish_cooldown
  BY <1>3, <1>5, <1>6 DEF RateInv, WaitCovered, CooldownCovers
<1>8. wait[k] = 0
  BY <1>2, <1>4, <1>7, CacheConstants
<1> QED
  BY <1>1, <1>3, <1>8

-----------------------------------------------------------------------------
LEMMA UntimedRate ==
    ASSUME PublisherInv, RateInv, HistoryNext, ~Timed
    PROVE  RateInv'
<1>1. wait' = wait
  BY Zenon DEF HistoryNext, WaitNext, Sent, Timed
<1>2. CooldownsKept
  BY UntimedKeepsCooldowns DEF HistoryNext
<1>3. /\ tpc = "sent" => UNCHANGED <<tpc, slot>>
      /\ tpc' = "publish" => SnapshotTake \/ UNCHANGED <<tpc, slot>>
  BY UntimedTask DEF HistoryNext
<1>4. WaitCovered'
  <2> SUFFICES ASSUME NEW k \in Key, wait[k] # 0
               PROVE  \E i \in Slots : CooldownCovers(i, k)'
    BY <1>1 DEF WaitCovered
  <2>1. PICK i \in Slots : CooldownCovers(i, k)
    BY DEF RateInv, WaitCovered
  <2>2. CooldownCovers(i, k)'
    BY <1>1, <1>2, <1>3, <2>1 DEF CooldownCovers, CooldownsKept, Holds
  <2> QED
    BY <2>2
<1>5. SendsRested'
  <2>1. CASE SnapshotTake
    BY <1>1, <2>1, RestedWhenTaken DEF SendsRested
  <2>2. CASE tpc = "publish" /\ UNCHANGED <<tpc, slot>>
    <3>1. slot \in Slots /\ entries[slot].valid
      BY <2>2 DEF PublisherInv, PublisherTypeOK, SnapshotCurrentOrMarked
    <3> QED
      BY <1>1, <1>2, <2>2, <3>1 DEF SendsRested, RateInv, CooldownsKept
  <2> QED
    BY <1>3, <2>1, <2>2 DEF SendsRested
<1> QED
  BY <1>1, <1>4, <1>5 DEF RateInv, WaitOK

LEMMA SentRate ==
    ASSUME PublisherInv, RateInv, HistoryNext, PublishSent
    PROVE  RateInv'
<1>0. slot \in Slots /\ entries[slot].valid /\ SentKey \in Key /\ tpc = "publish"
  BY DEF PublisherInv, PublisherTypeOK, PublishSent, SnapshotCurrentOrMarked,
     KeysKnown, SentKey
<1>1. wait' = [wait EXCEPT ![SentKey] = MaxCooldown]
  BY DEF HistoryNext, WaitNext, Sent
<1>2. UNCHANGED <<entries, slot>> /\ tpc' = "sent"
  BY DEF PublishSent, cacheVars
<1>3. WaitOK'
  <2>1. MaxCooldown \in 0 .. MaxCooldown
    BY CacheConstants
  <2> QED
    BY <1>1, <2>1, Zenon DEF RateInv, WaitOK
<1>4. ASSUME NEW k \in Key, wait'[k] # 0
      PROVE  \E i \in Slots : CooldownCovers(i, k)'
  <2>1. CASE k = SentKey
    BY <1>0, <1>2, <2>1 DEF CooldownCovers, Holds, SentKey
  <2>2. CASE k # SentKey
    <3>1. wait'[k] = wait[k]
      BY <1>1, <2>2 DEF RateInv, WaitOK
    <3>2. PICK i \in Slots : CooldownCovers(i, k)
      BY <1>4, <3>1 DEF RateInv, WaitCovered
    <3>3. CooldownCovers(i, k)'
      BY <1>0, <1>2, <3>1, <3>2 DEF CooldownCovers, Holds
    <3> QED
      BY <3>3
  <2> QED
    BY <2>1, <2>2
<1> QED
  BY <1>2, <1>3, <1>4 DEF RateInv, WaitCovered, SendsRested

LEMMA MarkSentRate ==
    ASSUME PublisherInv, RateInv, HistoryNext, MarkSent
    PROVE  RateInv'
<1>0. CacheTypeOK /\ slot \in Slots
  BY DEF PublisherInv, PublisherTypeOK
<1>1. wait' = wait
  <2>1. ~PublishSent /\ ~TickCooldowns /\ ~MarkAllUpdated
    BY DEF MarkSent, PublishSent, TickCooldowns, MarkAllUpdated, mainVars
  <2> QED
    BY <2>1, Zenon DEF HistoryNext, WaitNext, Sent
<1>2. /\ tpc = "sent" /\ tpc' = "wait"
      /\ entries' = [entries EXCEPT ![slot].publish_cooldown =
                        IF MaxCooldown > 0 THEN MaxCooldown ELSE @]
  BY DEF MarkSent, PublishOneReturns, erd_cache_mark_published
<1>3. ASSUME NEW k \in Key, wait[k] # 0
      PROVE  \E i \in Slots : CooldownCovers(i, k)'
  <2>1. PICK i \in Slots : CooldownCovers(i, k)
    BY <1>3 DEF RateInv, WaitCovered
  <2>2. wait[k] \in 0 .. MaxCooldown /\ MaxCooldown > 0
    BY <1>3, CacheConstants DEF RateInv, WaitOK
  <2>3. Holds(i, k)'
    BY <1>0, <1>2, <2>1 DEF CooldownCovers, Holds, CacheTypeOK, Entry
  <2>4. CASE i = slot
    <3>1. entries'[i].publish_cooldown = MaxCooldown
      BY <1>0, <1>2, <2>2, <2>4 DEF CacheTypeOK, Entry
    <3> QED
      BY <1>1, <2>2, <2>3, <3>1, CacheConstants DEF CooldownCovers
  <2>5. CASE i # slot
    <3>1. entries'[i] = entries[i]
      BY <1>0, <1>2, <2>5 DEF CacheTypeOK
    <3> QED
      BY <1>1, <2>1, <2>3, <2>5, <3>1 DEF CooldownCovers
  <2> QED
    BY <2>4, <2>5
<1>4. WaitOK'
  BY <1>1 DEF RateInv, WaitOK
<1>5. WaitCovered'
  <2> SUFFICES ASSUME NEW k \in Key, wait[k] # 0
               PROVE  \E i \in Slots : CooldownCovers(i, k)'
    BY <1>1 DEF WaitCovered
  <2> QED
    BY <1>3
<1>6. SendsRested'
  BY <1>2 DEF SendsRested
<1> QED
  BY <1>4, <1>5, <1>6 DEF RateInv

LEMMA TickRate ==
    ASSUME PublisherInv, RateInv, HistoryNext, TickCooldowns, ~PublishSent
    PROVE  RateInv'
<1>0. CacheTypeOK /\ slot \in Slots
  BY DEF PublisherInv, PublisherTypeOK
<1>1. wait' = [k \in Key |-> IF wait[k] > 0 THEN wait[k] - 1 ELSE 0]
  BY Zenon DEF HistoryNext, WaitNext, Sent
<1>2. UNCHANGED <<tpc, slot>>
  BY DEF TickCooldowns, taskVars
<1>3. \A k \in Key : wait[k] \in 0 .. MaxCooldown
  BY DEF RateInv, WaitOK
<1>4. \A k \in Key : /\ wait'[k] \in 0 .. MaxCooldown
                     /\ wait'[k] # 0 => wait'[k] = wait[k] - 1 /\ wait[k] # 0
                     /\ wait[k] = 0 => wait'[k] = 0
  BY <1>1, <1>3, CacheConstants
<1>5. WaitOK'
  BY <1>1, <1>4 DEF WaitOK
<1>6. ASSUME NEW i \in Slots
      PROVE  /\ entries'[i].valid = entries[i].valid
             /\ entries'[i].key = entries[i].key
             /\ \A n \in Nat : n <= entries[i].publish_cooldown /\ n # 0
                                   => n - 1 <= entries'[i].publish_cooldown
  BY <1>0, CacheConstants
     DEF TickCooldowns, erd_cache_tick_cooldowns, CacheTypeOK, Entry
<1>7. ASSUME NEW k \in Key, wait'[k] # 0
      PROVE  \E i \in Slots : CooldownCovers(i, k)'
  <2>1. wait'[k] = wait[k] - 1 /\ wait[k] # 0 /\ wait[k] \in Nat
    BY <1>3, <1>4, <1>7, CacheConstants
  <2>2. PICK i \in Slots : CooldownCovers(i, k)
    BY <2>1 DEF RateInv, WaitCovered
  <2>3. Holds(i, k)'
    BY <1>6, <2>2 DEF CooldownCovers, Holds
  <2>4. CASE wait[k] <= entries[i].publish_cooldown
    BY <1>6, <2>1, <2>3, <2>4 DEF CooldownCovers
  <2>5. CASE tpc = "sent" /\ slot = i
    BY <1>2, <2>3, <2>5 DEF CooldownCovers
  <2> QED
    BY <2>2, <2>4, <2>5 DEF CooldownCovers
<1>8. SendsRested'
  <2> SUFFICES ASSUME tpc = "publish"
               PROVE  wait'[entries'[slot].key] = 0
    BY <1>2 DEF SendsRested
  <2>1. entries[slot].key \in Key
    BY <1>0 DEF PublisherInv, SnapshotCurrentOrMarked, KeysKnown
  <2> QED
    BY <1>0, <1>4, <1>6, <2>1 DEF RateInv, SendsRested
<1> QED
  BY <1>5, <1>7, <1>8 DEF RateInv, WaitCovered

LEMMA MarkAllRate ==
    ASSUME PublisherInv, RateInv, HistoryNext, MarkAllUpdated, ~PublishSent, ~TickCooldowns
    PROVE  RateInv'
<1>0. CacheTypeOK /\ slot \in Slots
  BY DEF PublisherInv, PublisherTypeOK
<1>1. wait' = [k \in Key |-> 0]
  BY Zenon DEF HistoryNext, WaitNext, Sent
<1>2. WaitOK' /\ WaitCovered'
  BY <1>1, CacheConstants DEF WaitOK, WaitCovered
<1>3. UNCHANGED <<tpc, slot>>
  BY DEF MarkAllUpdated, taskVars
<1>4. \A i \in Slots : entries'[i].key = entries[i].key
  BY <1>0 DEF MarkAllUpdated, erd_cache_mark_all_updated, CacheTypeOK, Entry
<1>5. tpc = "publish" => entries[slot].key \in Key
  BY <1>0 DEF PublisherInv, SnapshotCurrentOrMarked, KeysKnown
<1>6. SendsRested'
  BY <1>0, <1>1, <1>3, <1>4, <1>5 DEF SendsRested
<1> QED
  BY <1>2, <1>6 DEF RateInv

LEMMA RateStep ==
    ASSUME PublisherInv, RateInv, [HistoryNext]_allVars
    PROVE  RateInv'
<1>1. CASE UNCHANGED allVars
  <2>1. UNCHANGED <<wait, entries, tpc, slot>>
    BY <1>1 DEF allVars, histVars, vars, cacheVars, taskVars
  <2> QED
    BY <2>1 DEF RateInv, WaitOK, WaitCovered, CooldownCovers, SendsRested, Holds
<1>2. CASE HistoryNext
  BY <1>2, UntimedRate, SentRate, MarkSentRate, TickRate, MarkAllRate DEF Timed
<1> QED
  BY <1>1, <1>2

(* The throttle period is kept for every ERD: whatever readings, refused   *)
(* messages, pauses and reconnects come in between.                        *)
THEOREM ThrottleKept == HistorySpec => RateLimited
<1>1. RateInv => [PublishSent => wait[SentKey] = 0]_allVars
  BY DEF RateInv, SendsRested, PublishSent, SentKey
<1> QED
  BY <1>1, HistorySafe, RateInit, RateStep, PTL DEF HistorySpec, RateLimited
=============================================================================
