# Verification of the GE Appliances bridge

TLA+ models of the ESPHome component in `components/geappliances_bridge`, checked
with TLC on small instances, and TLAPS proofs for what holds at every size. All
paths below are relative to that directory unless they start with `docs/`.

## 1. The system

The component runs on an ESP32 between a GE appliance (GEA3 or GEA2 serial bus)
and an MQTT broker. It finds the appliance, learns which ERDs (numbered data
items) it has, keeps their values up to date by subscription or by polling, and
publishes every changed value as a retained MQTT message.

| Part | State it keeps | Operations | Talks to |
|---|---|---|---|
| ERD cache (`erd_cache.cpp`) | 300 slots, a 4096-byte arena with a bump pointer | update, snapshot of the next changed entry, mark published / unpublished / all updated, cooldown tick, reset | called by both threads, under one lock |
| Publisher (`erd_cache_mqtt_publisher.cpp`) | connection and pause flags, scan index, outage start, semaphores | task loop, `publish_one`, connect / disconnect callbacks, pause / resume, start / stop / destroy | cache, MQTT client; own task on core 0 |
| Polling bridge (`erd_bridge_poll.cpp`) | probe list, polling list, cycle counters, timers | probe, poll cycles, failed state, appliance lost | GEA client, cache |
| Subscription bridge (`erd_bridge_subscribe.cpp`) | state, set of ERDs seen, failure count, two timers | subscribe, retain, publications, quiet period | GEA client, cache |
| Write bridge (`erd_write_bridge.cpp`) | pending write | MQTT write request, client answer | MQTT adapter, GEA client |
| Startup state machine (`geappliances_bridge_startup_hsm.cpp`, `..._bridge_init.cpp`) | startup state, init flags | discovery, identity, MQTT, feature bits, bridges, running | all managers through `IBridgeServices` |
| Main loop (`geappliances_bridge.cpp`) | flags, timers | `loop()`, `update_publisher_state_`, protocol stack, teardown | everything |
| Autodiscovery, device identity, feature bits | small state machines | broadcasts, reads, retries, budgeted parsing | GEA client, startup |
| ERD registry, poll list builder, ERD topics | tables | pure functions | bridges, publisher |
| HA discovery cleanup (`ha_discovery_cleanup.cpp`) | topic buffer, pass counters, timers | subscribe, collect, clear, repeat | MQTT client, OTA cleanup |
| HA discovery manager (`ha_discovery_manager.cpp`) | generator state, current table and entity | decompress, publish one entity per call | MQTT client, cache, OTA cleanup |
| OTA cleanup manager (`ota_cleanup_manager.cpp`) | flags of the stages; a record in flash | compare, clean, publish, record, reboot, refresh | discovery, flash |
| Adapters (MQTT, UART, GEA2), diagnostics | thin | conversions, counters | ESPHome |

Two threads run the code: ESPHome's main loop (core 1), which drives everything
that is written as a state machine, and the publisher task (core 0). They share
the cache (cache lock), the publisher's flags (state mutex) and two semaphores.
The MQTT client calls back from its own task: the write topic reaches the main loop
through ESPHome, the cleanup's topic callback does not and shares a buffer with it
under a critical section. Home Assistant discovery runs on the main loop, one entity
per call.

What is hard here:

* the two threads: a value stored while an older one is being published, a scan
  index written under two different locks, flags tested before a snapshot and
  used after it, a stop that races with the wake-up it sends;
* the network: refused messages, outages of the broker, connections that die
  unnoticed, retained messages lost by a broker restart;
* the bus: answers that arrive in order but long after they were asked for, a
  bounded request queue that drops, appliances that restart or fall silent;
* timers that stand for two things at once, and cycles whose next start is left
  to a completion that must still come;
* slots and arena bytes that are never given back, a poll list that is cut at its
  capacity, a topic buffer that drops what does not fit;
* power that fails between the removal of the old discovery topics, the publication
  of the new ones and the record that says so, and builds that change in between;
* answers that are matched by ERD or by address alone, so that a late one is taken
  for another.

What makes the parts correct, in a sentence each: the cache is a map that never loses
or overwrites another's bytes; every reading reaches the broker, or a newer one does;
neither bridge waits for nothing; every ERD that the configuration calls for has a data
path (section 2 names the cases in which the code has none), and "steady" means that; a board is reported with its own bus and protocol; a
write gets its own result; when the record in flash says that discovery is done, it is.

PROJECT.json lists the hazards, each at its line, with the properties that cover it.

## 2. The modules

| Module | Models | Size of the instance checked |
|---|---|---|
| `ErdStore` | abstract: a map of ERDs to payloads with a set of pending keys | - |
| `ErdCache` | `erd_cache.cpp`, refines `ErdStore` | 3 ERDs, 2 slots, 3 bytes |
| `ErdCacheProofs` | theorems about `ErdCache` | every size |
| `CachePublisher` | the cache shared by main loop and publisher task, MQTT client, broker | 2 ERDs of 1 byte, one with 2 values |
| `PublisherProofs` | theorems about `CachePublisher` and `PublisherHistory` | every size |
| `PublisherHistory` | `CachePublisher` with history variables | the same |
| `PublisherLifecycle` | start, stop and destroy of the publisher task, the idle task | a yield of 5 ticks |
| `LifecycleProofs` | the theorem about `PublisherLifecycle` | every length of the yield |
| `PollBridge` | `erd_bridge_poll.cpp` with the GEA client's queue | 3 ERDs, 3 buses |
| `PollProofs` | theorems about `PollBridge` | every size |
| `SubscribeBridge` | `erd_bridge_subscribe.cpp` and the fallback to polling | 3 ERDs |
| `SubscribeProofs` | theorems about `SubscribeBridge` | every size |
| `BridgeStates` | the state machines the rest of the program sees of the two bridges | - |
| `StartupBridge` | startup states, poll list, bridge initialisation, fallback, custom polling | 4 ERDs of which 3 fit a list, all 24 configurations |
| `StartupProofs` | theorems about `StartupBridge` | every size |
| `Acquisition` | autodiscovery, device identity, feature bits, the clients' queues | 3 appliances, 3 feature ERDs |
| `WriteBridge` | `Acquisition` with `erd_write_bridge.cpp` | 2 writes |
| `AcquisitionProofs` | theorems about `Acquisition` and `WriteBridge` | every size |
| `DiscoveryCleanup` | `ha_discovery_cleanup.cpp`, MQTT task and broker | 2 topics, a buffer for 2 |
| `DiscoveryUpdate` | OTA cleanup manager and discovery manager over several boots, with `DiscoveryCleanup` | 2 builds |
| `DiscoveryProofs` | theorems about `DiscoveryUpdate` | every size |

`CachePublisher` EXTENDS `ErdCache`: each cache operation in it is the action of
`ErdCache` itself. `BridgeStates` is the seam between the bridges and the startup:
`PollBridge` and `SubscribeBridge` are proved to take no other steps than it allows
(`PollSteps`, `SubscribeSteps`), and `StartupBridge` lets its two bridges take any of
them. `WriteBridge` EXTENDS `Acquisition`: the write bridge shares the client's queue
and the host address with the managers. `DiscoveryUpdate` EXTENDS `DiscoveryCleanup`:
its loop runs the cleanup's actions as one of its stages. `StartupBridge` and
`Acquisition` overlap on purpose: the first sees the managers as "discovered",
"identified" and "feature bits done", the second has what happens in them and of the
startup only the states that wait for them. The `MC...` modules give constants their
values.

A definition that follows a "Mutant:" comment is a plausible mistake in the code
modelled by the next definition. It is not part of any specification; PROJECT.json
pairs each checked property with one of them, and with the mutant in place TLC
finds the property violated, so each property depends on what the code does.

### ErdCache

`entries`, `arena` and `arena_offset` are the fields of `erd_cache_t`. Every
public function takes the lock once, so each is one action with the name of the
function. `erd_cache_update` is two disjuncts, `UpdateExisting` and `InsertNew`;
its refusals (too long, other size, same bytes, no slot, no arena) are the cases
in which neither is enabled, and they change nothing, exactly as in the code.
`TakeNext(it, i)` is the snapshot that finds slot `i` from `*iterator = it`,
`NothingFrom(it)` the scan that finds none. `erd_cache_reset` leaves `data_size`
as it was because the code does. `max_cooldown` is the constant `MaxCooldown`:
the reset also zeroes it, but it is set again before the publisher exists, and
until then every cooldown is 0. `CacheSpec` lets any caller call anything in any
order, which is more than the bridge does.

* `CacheInv`: no ERD in two slots; every payload below the bump pointer; no two
  payloads share a byte.
* `ImplementsStore`: refinement of `ErdStore`. An update changes one ERD's value
  and marks it pending, nothing is evicted or resized, and only a snapshot ends
  "pending". `store` is the map from cached keys to their arena slices, `pending`
  the keys with `update_required`.

### CachePublisher

A step is what a thread does under one lock, or one access to an unlocked field.
The task: wait on `work_semaphore` (`TaskWake`), read the flags (`TaskReadState`),
test them again in `publish_one` (`PublishOneCheck`), take the cache lock and read
`publish_index` (`SnapshotLock`), scan (`SnapshotTake`, `SnapshotNone`), publish
(`PublishSent`, `PublishRefused`), mark (`MarkSent`, `MarkDropped`), finish a round
(`RoundDone`). The read of `*iterator` is separate from the scan because
`on_connected` writes `publish_index` under another mutex. The main loop:
`StoreReading`, `TickCooldowns`, the parts of `update_publisher_state_`
(`PausePublisher`/`ResumePublisher`, `CheckFirstRound`, `SignalWork`), and the
callbacks (`OnDisconnected`; `OnConnected`, `MarkAllUpdated`, `ResetIndex`,
`ConnectedSignal`). The state mutex protects a few assignments, so its 100 ms
timeouts are taken not to expire, and creating mutexes and semaphores is taken to
succeed (`PublisherLifecycle` lets `done_semaphore` fail).

The connection is up or down. The broker is a map of retained messages. Messages go
out with QoS 0, so with `LossyLink` one that the client accepted may never arrive:
the code counts it as published and does not send it again, and the history
variable `lost` remembers for which ERDs that happened last. A broker restart loses
the map, and takes at least the 60 s after which `on_connected` republishes
everything: that is the assumption of `docs/spec/mqtt_data_publishing.md`, stated at
`BrokerRestart`. `Clock` counts
steps of an outage up to `LongOutage`, the threshold; the count is capped there.

* `NoLostUpdate`: an ERD that is neither marked, in flight nor about to be
  republished has its current value at the broker, unless its last message was lost
  on the way. This relates the cache, the task's local copy, the callbacks and the
  broker, and it is what every mark and every flag in the two files is for.
* `SnapshotCurrentOrMarked`: a copy in flight differs from the cache only if the
  entry is marked again.
* `EventuallyPublished`: if link and discovery settle, each value that the cache
  holds reaches the broker or is replaced by a newer one.
* `RateLimited`, `AtMostOneLatePublish` (in `PublisherHistory`): the throttle
  period between messages of an ERD; at most one message after a pause.

Fairness: both threads run (`WF` of the task and of the main loop's next step; the
loop comes back to `update_publisher_state_` and ESPHome to its callbacks, `SF`
because readings may come in between), a second passes again and again (`SF` of a
loop that ends in a tick), and a client that is offered an entry again and again
accepts it some time (`SF` of `PublishSent` per slot). Nothing is assumed about
the network: that it settles is the premise of `EventuallyPublished`. On single-
core chips the priorities of FreeRTOS give the same: the loop task blocks in its
own delay and lets the publisher run.

### PublisherLifecycle

The handshake alone: `task_running`, the two semaphores, and where the task is.
`DestroyStruct` zeroes the struct; if the task still uses it, the model ends in
`tpc = "undefined"` (what happens then is not defined by the code), which is why
its configurations turn the deadlock check off.

The acknowledgement is early. After `TaskGivesDone` the task still runs on the static
stack inside the struct until `vTaskDelete` (`TaskDeletes`), and its TCB, also inside,
stays on the kernel's list until the idle task unlinks it (`IdleUnlinks`). The code
bridges this with a yield of 100 ms (`erd_cache_mqtt_publisher.cpp:236`). It is the one
place where time itself matters, so the yield is counted in ticks: `YieldTicks` of them,
while the two steps last at most `DeleteTicks` and `UnlinkTicks`. `YieldAssumption`, that
the yield outlasts both, is what the comment at `:236` takes for granted ("so the idle task
can finish"); the code does not check it, and neither does the model.

* `AcknowledgedStopIsSafe`: when an acknowledged `stop()` returns to `destroy()`, nothing
  uses the struct. Without the yield (the mutant) TLC finds the memset in the window.
* `SignalsAreServed`: only a stop ends the task.
* `TaskSeesFlagOnWake` shows that reaching the acknowledgement is not guaranteed.

Fairness: both cores run, a yield ends, the wait for `done_semaphore` is bounded.

### PollBridge

The struct is a record and handlers map structs to structs, because handlers call
each other in the middle of their work (a dropped read may complete the cycle that
the caller is still sending). An action is one signal: an answer of the client or a
timer. Answers come in the order of the requests. The clock inside
`send_cycle_reads` is a choice: the sending may stop after each `Chunk` of reads
(10 in the code) and after the last one. `Silence` says when 60 s may pass without a
handled answer: when nothing is outstanding and no cycle is due, when the polling
interval is longer (`slow_polling`; the configuration schema has no upper limit), or
in `state_failed`, which handles no answers (`long_list`: a GEA3 read needs 250 ms
and 10 retries to fail, so 22 reads of a silent appliance outlast 60 s). These two
whether the client drops duplicates (`coalesces`), and whether subscriptions and
writes use it too (`shared`) make up a `Bus`; `bus` is chosen from `Buses` at the
start and never changes, so one run covers several. On a shared bus the queue may be
full for the bridge at any time (`crowded`, `OtherRequests`).
`CounterRange` is the 2^8 of the failure counter, made small so that it wraps.
One board is modelled: the host address is constant. What is read goes to the ERD cache,
which may refuse it (300 slots, 4096 bytes, another size); the bridge ignores the result
and polls the ERD anyway, so nothing here says that a polled ERD is cached. The history
variable `answered` has the ERDs that were read since the last probe began.

* `PollingNeverStalls`: `restart_pending`, `polling_timer_armed` and
  `cycle_sending_in_progress` together never leave a cycle without a cause to go on.
* `NoOverlappingCycles`, `ProbeIsSequential`, `ProbeForgetsNone`: what the order of
  answers is good for, although nothing matches them with requests. Once the bridge
  polls, each ERD of the probe list has answered and is polled, or was excluded after
  a failed read.
* `PolledOnceAndAnswered`: no ERD is polled twice in a cycle, and none because it
  answered in an earlier life of the appliance.
* `PollingResumes`: out of the failed state and through the probe, unless other
  requests crowd the queue again and again: the probe ignores that its read was
  refused, and only the appliance-lost timer starts it over.

Fairness: the client answers every request and timers fire.

### SubscribeBridge

One action per signal and timer; entry actions are conjuncts named `Enter...`.
`CountFailure` is the fall-through chain of `state_subscribing`. Requests at the
client are counted, not named, because the bridge does not match answers either.
`FallBackToPolling` is what the main loop does in
AUTO mode when it sees the failed state; after it the bridge does not exist, so the
run turns the deadlock check off. The client's queue is shared with reads and writes,
so a subscribe request may be refused at any time; it is repeated after a second.

Fairness: the client answers, one-shot timers fire, the main loop runs, and the
queue has room for one of the attempts (`SF` of `ResubscribeTimer` that is accepted).

### StartupBridge

The flags of `GeappliancesBridge`, the startup state and the two bridges are one
record `b`, because signals are handled at once, also in the middle of another
handler: `BridgeReady` inside the initialisation of a polling bridge with an empty
list runs before its callers have set their flags, and the fallback enters
`state_running` twice. `config` is the YAML configuration and the protocol that
autodiscovery finds; it is arbitrary and never changes. The actions are the loop's
signal in each state, and what the managers and bridges report. The bridges are
`PollNext` and `SubscribeNext`. `startup_state_mqtt_client_init` is left in its own
entry action and is no state of the model. `signal_feature_bits_complete` and
`signal_mqtt_connected` are sent by no code and have no action.

A poll list is a set: `ListedErds` is what the generated lists or the feature bits
contribute, and `append_custom_erds` adds the custom ERDs in their order as far as
`ERD_POLL_LIST_MAX_SIZE` allows. The room is counted before duplicates are dropped, as
in the code.

* `BridgesOwned`: the flags by which bridges are destroyed agree with the bridges
  and with their registrations at the client, through fallback, failure and restart.
* `DataPath`: there is a bridge, none of them a subscription on GEA2; one that polls
  instead of a subscription has all standard ERDs, or all valid ones if the feature bits
  were read and filter, and the custom ERDs if all fit. It does not speak of three cases
  for which the code has no such path: filtering with failed feature bits, and GEA2 in
  mode SUBSCRIBE, poll custom ERDs only, perhaps none; a subscription that failed in
  mode SUBSCRIBE is kept. The first contradicts the source: `FailedFeaturesPollAll`.
* `CustomErdsCovered`: beside a subscription no custom ERD is missing.
* `RegistryForgotten`: no subscription bridge ever has the ERD registry. Proved, not run.
* `SteadyIsComplete`: what a steady state, which starts the comparison of discovery
  data, means.
* `StartupCompletes`: the states hand over, and steady state is reported. A failed
  subscription in SUBSCRIBE mode is never left, so it is reported only without one.

Fairness: `loop()` runs, managers finish, a probe ends (`PollingResumes` shows that
it does), and `loop()` runs while a polling bridge that fails and recovers again and
again is polling, because it runs every few milliseconds and the bridge needs
three cycles to fail.

### Acquisition and WriteBridge

Autodiscovery, `DeviceIdentityManager`, `FeatureBitManager`, the startup states that
wait for them and the two GEA clients are one record `m`, because callbacks and events
are handled at once. `discovery` is the bus whose broadcast window is open: the states
called PENDING are left in the step that enters them. The identity manager takes
answers by ERD (`IdentityCompleted`), the feature bit manager by board and ERD
(`FeatureActivity`), and both see an event of the active client one after the other
(`Activity`). A setup says which UARTs there are, which address is configured and which
boards exist; a board may be on either bus and answer any broadcast.

The client is external: it holds each request once, works them off in order, and ends
each of them, by an answer or by giving up. A request is refused when its queue is full,
at most `MaxRefusals` times. Its queue also holds writes. A write request arrives on the
main loop, since ESPHome hands MQTT messages over there.

* `BoardFound`: host address, client and protocol that autodiscovery reports belong to
  one board that is there, however late the answers.
* `IdentityReadHeld`, `FeatureReadHeld`: neither manager waits for a read that no client
  holds. The first is claimed until the client has refused an identity read, which
  nothing repeats, and not after an appliance type that was answered with no data
  (`device_identity_manager.cpp:57` ignores it, `docs/spec/device_identity_manager.md:229`
  documents that): `type_empty` remembers it, and only a late probe answer can help then.
* `PendingWriteHeld`: a pending write is exactly the write that the client holds, so
  its end finds the right topic; `WritesAnswered`: it gets a result.
* `AcquisitionCompletes`: some board is found, identified and asked for its features,
  with the same two exceptions.

Fairness: timers fire, `loop()` runs, a client ends each request; a board that is there
answers some broadcast inside a window of its bus, and an identity read that is repeated
again and again succeeds (`SF`): without these an appliance that never answers is waited
for, as the code intends.

### DiscoveryCleanup and DiscoveryUpdate

`DiscoveryCleanup` is the removal of retained topics. The main loop and the MQTT task
share `topic_buf`. `cleanup_flush_queue` takes the head in one critical section
(`FlushTake`), publishes outside of it, and, if the client refuses, puts position and
count back in another (`ClearRefused`): the bytes are not put back, so the refused topic
is gone, the one behind it may be in the buffer twice, and topics that arrived in
between stand where the code's counters say (`Unmoved`). The callback drops what does
not fit. All three timeouts are 1000 ms, so a clock is one bit.

The start of a pass is two steps: `Subscribe` (`ha_discovery_cleanup.cpp:282`) and the
assignments after it (`SubscribeReset`, `:284-290`), which are outside the critical section:
a callback in between has its mark of a found topic erased. Nothing asks whether the client
is connected. An outage (`LoseConnection`) lasts as long as it likes, over several passes
too; `Reconnect` renews the subscription. Such an outage, a loss of what is on its way and a
second in which it does not come are faults, at most `MaxFaults` per cleanup; clearing
messages may be refused or lost at any time. The history variable `disturbed` says that a
pass did not hear all of the broker's answer, or not lastingly (faults, outages, erased
marks), and `disturbed_passes` counts the clean passes of which that is true.

`DiscoveryUpdate` puts it into the life of the device: `config` is the installed build,
`record` what the flash says was published, and both survive a boot. Each boot compares
(`CompareWithRecord`), cleans (`StartCleanup` ... `FinishCleanup`), publishes
(`StartManager`, `PublishEntity`), writes the record (`EndDiscovery`) and reboots. Power
may fail and another build may be installed at any step (`NewBoot`), the button may be
pressed, memory may be short (`StartManager`) and a chunk may not decompress
(`DecompressFails`), together at most `MaxTrouble` times. A build is the set of its
entities and one payload; which entities a build publishes is fixed, although the code
also filters them by what the cache has seen. The parts of
`OtaCleanupManager::loop()` are actions of their own, and `MainIdle` keeps other work of
the main loop out of the middle of a call.

* `CleanupComplete`: a finished cleanup has left no topic of the device behind, despite
  refusals, a full buffer, late and lost messages, unless both of its clean passes were
  disturbed. So it forgives whatever touches one clean pass only, for instance any number
  of erased marks in it, and not an outage of two seconds: with one, the code
  reports a cleanup as done that has heard nothing. The count of clean passes is not reset
  by a pass that finds topics, so two disturbances far apart are enough as well.
* `UpdateStages`: the stages exclude each other, and a reboot leaves behind the record
  the next boot compares with.
* `RecordedIsPublished`: a record is written only when the entities it stands for are
  published; and nothing else is left, if there was a cleanup with an undisturbed clean
  pass.
* `Settles`: after the last trouble the bridge comes to rest; it does not reboot for
  ever.

Fairness: the main loop and the MQTT task run, seconds pass, an entity that is refused
is accepted some time, and so is a clearing message that is sent again and again (`SF`, for
an online client). Nothing is assumed of the connection: a cleanup ends offline too.
Writing the record is taken to succeed; the code ignores the results of the flash writes
(`ota_cleanup_manager.cpp:324`), so after a failing one it would reboot, compare and run
again.

## 3. The runs

| Run | Question | Result |
|---|---|---|
| `cache` | Is the cache a map, whatever is called in whatever order, also when full? | holds |
| `publisher_safety` | Can any interleaving lose the last reading of an ERD, exceed the rate, or publish more than one value after a pause? | no |
| `publisher_progress` | Is each value published in the end, with throttling, pauses, outages and a busy neighbour? | holds |
| `publisher_stop` | Is an acknowledged stop safe, and is every signal served? | holds |
| `poll` | Can the polling bridge stall, overlap cycles, forget an ERD, stay failed? | no |
| `subscribe` | Can the subscription bridge wait for nothing, or lose its retention timer? | no |
| `startup` | Do the startup states and bridges hand over correctly, in every configuration? | holds |
| `acquisition` | Is the right board found, identified and asked for its features; does each write get its result? | holds |
| `discovery` | Does a cleanup remove everything, is the record true, and do the reboots end, across power failures and builds? | holds |
| `doc_stop_flag`, `doc_full_polling`, `doc_refresh_retry` | Does the code do what its comments say? | it does not, see below |

Bounds. Two slots are the least for a scan that resumes in the middle, and two
values the least for a stale copy. `cache` has more ERDs than slots and payloads
that together exceed the arena, that are longer than the maximum, and that differ in
length only. `publisher_safety` has both ERDs, outages, discovery and a cooldown of one
tick, without lost messages; for every cooldown, number of ERDs and with lost messages
its five properties are proved (section 4). `publisher_progress` takes one of three
worlds from the start on: outages, or discovery that comes and goes, with one ERD
reported, or two ERDs of which one keeps changing and may be lost after it was
accepted. The product is out of reach for a liveness check; starvation needs two ERDs,
and outages do not distinguish between ERDs.
`poll` has a queue (2) shorter than the list (3) and a chunk that is shorter too, so
reads are dropped in every position; its three buses are a shared fast one, a fast
one with a slow polling interval, and one with a slow interval, a long list and a
client that drops duplicates. `NoOverlappingCycles`, `ProbeIsSequential` and
`ProbeForgetsNone` are claimed where reads of the failed state cannot outlast the
appliance-lost timer; where they can, the first and the second fail (see below), and
`PollingNeverStalls` and `PollingResumes` still hold.
`publisher_stop` has two ticks for each late step and five for the yield, the least that
`YieldAssumption` allows.
The subscription bridge needs one ERD to be new, one to be known and one to be filtered.
`startup` has three places in a poll list for two standard and two custom ERDs, so a
full list drops one, feature bits that name one ERD leave room for both, and custom
polling beside a subscription never fills it. `acquisition` has appliances with one
board on the bus that is tried second, with a board on each bus, and with two boards of
which one is configured; three feature ERDs, so that there is a first, a middle and a
last one; and two refusals, so that a refusal may follow another. In `discovery` a topic
of the old build is not one of the new, and a buffer of two holds them with nothing to
spare, so that a topic sent twice does not fit. One fault per cleanup can be an outage over
both passes, and erased marks come on top of it; for any number of faults the two
properties about topics are proved (section 4). Two troubles allow a power failure during the recovery
from another and a failed run after a button press; the violation run has three. The
runs of the stop handshake, of `acquisition` (the model ends with the bridges) and of
`discovery` (it ends at rest) do not look for deadlocks; their liveness properties do.

Disagreements of code and documentation that a run shows, with quotes in
PROJECT.json, "findings":

* `doc_stop_flag` - the stop signal can be consumed before the flag is cleared, so
  the task blocks for ever and `destroy` zeroes its stack and semaphores;
* `doc_full_polling` - `feature_bit_manager.cpp:260` (with `docs/spec/feature_bit_manager.md:72`
  and `docs/spec/geappliances_bridge_startup_hsm.md:134`, `:271`) has the bridge fall back to
  full polling when the feature bits cannot be read; with filtering configured
  `erd_poll_list_builder.cpp:88` then polls the custom ERDs and nothing else;
* `doc_refresh_retry` - a discovery refresh removes the topics while the record still
  matches; when the run after it fails, the next boot finds nothing to do and the
  entities stay removed.

Met while modelling, visible in the modules, and without a run:

* `docs/spec/erd_cache_mqtt_publisher.md:310`: a full cache round "since the last
  `pause()` or `on_connected()`". The round starts wherever the scan index was
  (`erd_cache_mqtt_publisher.cpp:335`), and neither a pause nor a short outage moves it.
* `docs/spec/erd_bridge_poll.md:296`: three failed cycles lead to `state_failed`. The
  count is compared only when a cycle ends in a failed read
  (`erd_bridge_poll.cpp:423`): when its last completion is a success or a dropped read
  the bridge goes on polling, and the counter can wrap.
* `docs/spec/erd_bridge_poll.md:290`: one read at a time during the probe. Reads
  left over from the failed state are taken for probe answers, and each one sends
  another probe read (`ProbeIsSequential` excludes long lists for that reason).
* `docs/spec/geappliances_bridge.md:313` speaks of a clean separation of discovery and
  value messages; `erd_cache_mqtt_publisher.cpp:61` tests `paused` before the snapshot,
  so one value may follow the pause. `AtMostOneLatePublish` is what does hold.
* `erd_cache_mqtt_publisher.h:49` and `docs/spec/mqtt_data_publishing.md:62` say that
  `disconnect_start_ms` is 0 while connected; nothing resets it. This is harmless,
  because the next disconnect overwrites it.
* `erd_bridge_poll.h:57`: the failure count is "reset on any successful read"; it is
  reset by a cycle without failures (`erd_bridge_poll.cpp:80`).
* `docs/spec/erd_bridge_poll.md:51`: each ERD is probed once and polled or excluded.
  With a client that drops duplicates, stray answers let the probe skip an ERD
  (`erd_bridge_poll.cpp:123` ignores the result of the read).
* `docs/architecture/overview.md:183`: three refused subscriptions; entering
  `state_subscribing` already counts as a failure (`erd_bridge_subscribe.cpp:88`), so
  two are enough.
* `docs/spec/erd_bridge_subscribe.md:132`: an appliance restart clears `erd_set`; only
  `state_subscribing` does that.
* `docs/spec/erd_bridge_subscribe.md:115`: `state_failed` is terminal; a publication of
  a new ERD leaves it (`erd_bridge_subscribe.cpp:40`).
* `geappliances_bridge_bridge_init.cpp:195`: `erd_bridge_initialized_` is set "BEFORE
  the probe phase starts"; it is set after `init_polling_bridge_`, which starts and
  may even end the probe. The loop judges the steady state again, so this is harmless.
* `geappliances_bridge_bridge_init.cpp:294` logs "continuing with subscription only";
  the next loop starts custom polling again.
* On GEA2 in SUBSCRIBE mode there is no subscription and the poll list holds custom
  ERDs only (`erd_poll_list_builder.cpp:78`), or nothing; `DataPath` excludes the case.
* `geappliances_bridge_bridge_init.cpp:168` wires the ERD registry to the subscription
  bridge "so it filters subscription publications"; `erd_bridge_subscribe_init`, which
  comes later, forgets it (`erd_bridge_subscribe.cpp:245`), so nothing is ever filtered.
  This one is proved: `FilterNeverReached`.
* `docs/spec/polling_bridge_behavior.md:115`: custom ERDs "MUST be included in the probe
  list". They are appended last to a list of 659 entries (`erd_poll_list_builder.cpp:34`),
  which the longest standard lists (87 + 45 + 11 + 516) fill exactly: such an appliance
  without `appliance_api_parsing` loses all of them, with a log message only. The comment
  at `erd_lists.h:15` ("sized for the worst case") leaves custom ERDs out. In the model
  this is the list of three places.
* `docs/spec/erd_poll_list_builder.md:7` promises a deduplicated list; in subscription
  mode the builder returns before it removes duplicates (`erd_poll_list_builder.cpp:82`).
* `docs/spec/device_identity_manager.md:61` and `:190`: a fixed order, and no successor of
  COMPLETE. Answers are matched by ERD, so a discovery probe that was still queued and is
  answered late sends the sequence back to its second read
  (`device_identity_manager.cpp:56`); it still ends.
* `device_identity_manager.cpp:90` "Retries indefinitely": a repeat that the client's
  queue refuses is not tried again, and the startup has no timeout for it, although
  `docs/spec/device_identity_manager.md:191` and `:225` say so.
* `docs/spec/ha_discovery_cleanup.md:56`, `:103`, `:427`: two consecutive clean passes; a
  pass that finds topics does not reset the count (`EndPass`), so the second clean pass
  need not follow the first. What either count proves is the same: one undisturbed clean
  pass is enough, two disturbed ones are not.
* `ha_discovery_cleanup.cpp:286`: the marks of the pass are reset after the subscribe call
  and outside the critical section (`SubscribeReset`).
* `ha_discovery_cleanup.cpp:112` restores the queue after a refused message, but not the
  bytes that were moved; a later pass finds what was forgotten. The wait after an
  unsubscribe is measured from the last activity, which is already a second ago, so it
  only waits when a callback comes late (`Redrain`).
* `docs/module_descriptions/discovery_refresh_button.md:80` and
  `docs/architecture/data-flow.md:112`: a fresh install publishes without a reboot;
  every successful run reboots (`EndDiscovery`).
* A device id that changes has only the topics of the new id cleaned. A build that is
  installed, left and rolled back to after its successor cleared the topics finds its
  record matching; `Settles` says that the bridge rests then, not that its topics are
  there.
* `docs/spec/autodiscovery_manager.md:100` and `:116`: a full queue keeps the manager in
  PENDING; the window opens whether or not the request was taken (`Probe`).
* A write request that arrives while another is pending is dropped without a result
  (`erd_write_bridge.cpp:28`).
* `erd_cache.cpp:122` refuses a payload of another size; neither bridge looks at the
  result, and the log blames a lost appliance. A refused ERD is polled all the same
  (`erd_bridge_poll.cpp:241`, `:409`).

## 4. The proofs

`ErdCacheProofs` proves, for all values of the constants that satisfy
`CacheConstants` (sizes are naturals, 0 is a byte, `NoKey` is no key):

* `CacheTypeCorrect`: `CacheSpec => []CacheTypeOK`. The one delicate case is the
  arena write, by `WrittenType`.
* `CacheSafe`: `CacheSpec => []CacheInv`. `CacheInv` is inductive together with
  `CacheTypeOK`. Only `InsertNew` and the reset move payloads; `LayoutKept` and
  `LayoutInv` dispose of all other operations at once, `InsertInv` uses that a new
  slice starts at the bump pointer, above every other (`SlicesInside`), which is why
  `SlicesDisjoint` alone would not be inductive.
* `CacheImplementsStore`: `CacheSpec => ImplementsStore`. `DataOf` chooses a slot,
  and `KeysUnique` makes the choice unique (`DataOfSlot`). `ReadBack` and `Untouched`
  say what a write does to the slice it is meant for and to the others;
  `UpdateIsOverwrite` and `InsertIsAdmit` are the two steps that write,
  `StepRefines` collects the rest.

`PublisherProofs` adds to these assumptions `PublisherConstants`: readings are
payloads, there is a slot (300 in `erd_cache.h`), the longest stored payload can be
passed at all (248 bytes, in a `uint8_t`), and a long outage takes at least one step.

* The inductive invariant is `PublisherInv`: the type invariant, `CacheInv`,
  `KeysKnown` (a slot in use belongs to an ERD), `SnapshotCurrentOrMarked` and
  `NoLostUpdate`. The last needs all the others: when the task has sent its copy,
  the broker holds the slot's value only because the copy is current or the slot is
  marked; no other slot is affected only because no ERD has two slots; and a reading
  changes no other slot's value only because the slots share no byte.
* `StepUsesCache`: each step of the two threads is at most one step of `CacheNext`.
  `CacheStepType` and `CacheStepInv` then carry the cache's own invariant over, and
  `PublisherUsesCache`, `PublisherImplementsStore` follow.
* `UpdateMarks` is the half of the argument about the main loop: a reading that
  changes a slot marks it. `SnapshotStep` uses it for the copy in flight.
  `RepublishStays` (disconnects that repeat, reconnects, the clock and a broker
  restart do not cancel a republish that is due) and `FlightStays` are the halves
  about the callbacks and the task. `NoLostStep` goes through the steps that mark,
  send or store; `KeptSlotNotLost` disposes of all others at once.
* `PublisherTypeCorrect`, `SnapshotSafe` and `NothingLost` are invariants of the run
  `publisher_safety`, for every number of ERDs, slots and values.

The last part of the module has the two properties of `PublisherHistory`, about several
steps, on top of `PublisherInv`.

* `LatePublishBounded`: `LateInv` says where the task can be after a late message
  (not between lock and publish): it has to read the flags again before the next one.
* `ThrottleKept`: `RateInv` compares the history variable `wait` with the code's
  countdowns. A slot's cooldown covers what is left to wait (`WaitCovered`), and a copy in
  flight was taken from a rested slot (`SendsRested`); a reconnect after a long outage
  sets both to 0 together.

`LifecycleProofs` proves `AcknowledgedStopSafe` from `TicksAssumption` and
`YieldAssumption`. `LifecycleInv` has two halves. `AckInv`: a semaphore that is given, or was
taken by `stop()`, belongs to a task that has reported; without it `stop()` could take an
acknowledgement that an earlier task left behind, and `InitAndStart` creates a new semaphore,
so it cannot. `YieldInv`: the yield of an acknowledged stop is never further along than
the steps the task still owes, `clock <= age` before `vTaskDelete` and
`clock <= DeleteTicks + age` before the unlinking, so that it cannot end before them.

`PollProofs` assumes `PollConstants`: the probe list names no ERD twice (it may be empty
or of any length), the queue holds a request, the clock is looked at after at least one
read, and the failure counter can count past 3.

* The inductive invariant is `PollInv`: `ListInv` (no ERD is listed twice, and each one
  listed is in `erd_set`), `CycleInv` and `TimerInv` while polling, `QuietInv`, and what
  is true of an empty list (`NothingToPoll`).
* `PollingNeverStops` needs `CycleInv`: of the ERDs that this cycle has attempted, at
  most `cycle_completed_count` are not in the client's queue. It counts ERDs and not
  requests, because a request may have been coalesced with a stray one of an earlier
  cycle, and then both are completed by one answer; and one answer too many only makes
  the count larger. `TimerInv` adds that a bridge without timer has sent all of its
  cycle and is short of completions (`Awaiting`). Were the queue empty, all of the list
  would have to be counted, and the cycle would be complete.
* `CyclesDoNotOverlap`, `ProbesOneByOne` and `NoErdForgotten` need the exact account that
  holds as long as reads do not outlast the failed state (`QuietInv`, which assumes
  `~bus.long_list` like the properties): completed and outstanding reads add up to
  `erd_index` (`OwnReads`), a cycle whose sending was not interrupted is not resumed
  over its own reads (`QuietPolling`), and the probe knows of every ERD before the one
  it waits for (`ProbeReads`). The properties themselves are not inductive: that a list
  is polled without duplicates in the queue follows only from what was sent and counted.
* `PolledOnce` and `PollStepsHold` hold on every bus; `PolledOnce` rests on the reset of list
  and `erd_set` when the probe starts over. `PollStep` is the one lemma about
  all actions, with one lemma per action below it; `StateStep` is what the startup sees.
* The send loop is the recursive function `AfterPolls`. `Chain` shows that the function
  it chooses exists, `AfterIn` that what every read request preserves holds after any
  number of them, and `Induct` is the induction both use: about a set instead of a
  predicate, from `WFMin` and `NatLessThanWellFounded`, because the library's induction
  theorems take an operator. `SendStep` is one read request, `SentInv` and `ReadsSent`
  the loop with its pauses, `CycleStarted` and `CycleReadsSent` a whole call.
* `CountedStep` is the other delicate lemma: the answer that completes a cycle gives up,
  starts the next one at once or leaves it to the timer. `CompleteMeansAnswered` says
  that then nothing of the old one is outstanding.

`SubscribeProofs` assumes `SubscribeConstants` (the queue of the client has room for
one request, the registry is a subset of the ERDs).

* `SubscribeInv` is the type invariant with `RetentionRuns`, `AttemptOutstanding`,
  `FailuresLeft` (fewer than three failures while subscribing, none once subscribed)
  and `QuietWhenSubscribed` (the quiet timer runs only in `state_subscribed`). Without
  `FailuresLeft` the count could pass 3, and the bridge could be subscribing with
  nothing left to try; without `QuietWhenSubscribed` the quiet timer could fire in
  another state, and `SubscribeSteps` would not hold.
* `SubscribeTypeCorrect`, `RetentionAlwaysRuns`, `AttemptAlwaysOutstanding` and
  `SubscribeStepsHold`, the step property on which `StartupBridge` rests, follow.

`StartupProofs` assumes `StartupConstants`: the sets of ERDs are finite, and each of
them fits a poll list by itself (the array is as long as the longest standard list, 645
feature ERDs and 128 custom ERDs are less).

* `Good` is what every handler keeps: `Component` (types), `Owned`, `Path` and `Covered`
  (the three invariants), and `Order`. `Order` is the strengthening: no bridge before its
  initialisation, which waits for the feature bits, so that `valid_erds` cannot change
  under a poll list; a subscription only where the configuration has one; beside it a
  polling bridge only after custom polling started. Without it `init_polling_bridge`
  could find a bridge already registered.
* The handlers are operators on records, so there is one lemma per handler and the
  actions compose them. `Step` is what all of them do: keep `Good`, and declare a steady
  state only of a component that delivers. `EarlyReady` is the delicate one: a list that
  is empty ends its probe before the flags of the bridge are set. `AllAppended` counts:
  custom ERDs that have room are all polled.
* `StartupTypeCorrect`, `BridgesAlwaysOwned`, `DataPathKept`, `CustomErdsKept` and
  `SteadyTruly` follow. `Path` is stronger than `DataPath`: it says that the builder's own
  list is polled, whichever that is, also where `DataPath` is silent.
* `FilterNeverReached` is about two fields only: `SameLink` says that a handler neither
  sets the registry nor brings a subscription bridge, which is true of all of them but
  `initialize_erd_bridge` (`InitializedForgets`).

`AcquisitionProofs` assumes `AcquisitionConstants` (the setups have a board to be found,
feature ERDs are distinct and none is an identity ERD) and `WriteConstants` (ERDs that
are written are not among those).

* Only `RequestFacts`, `DoneFacts` and `RequestElsewhere` look into the queues: what a
  request adds, what the end of the first request removes, and that other requests
  stay. All the rest argues about "held" and "not held".
* `AcquisitionInv` adds to the three invariants that a queue holds no request twice
  (`HeldOnce`) and `StagesOK`, which relates the managers to the startup state: who has a
  client and a host when, that only probes are queued before the identity manager has its
  client, that nothing is read for feature bits before they are started. An event first
  ends a read (`EndsIdentityRead`, `EndsFeatureRead`), and the handlers queue the next:
  that the read which ended was the only one of its kind is `HeldOnce`.
* `WriteInv` says that the queue of the active client holds the pending write, once, and
  no other. `Kept` and `WritesKept` are the frames: the managers never touch a write, and
  the write bridge never touches a read.
* `AcquisitionTypeCorrect`, `BoardIsFound`, `IdentityIsAsked`, `FeatureIsAsked` and
  `WriteIsHeld` follow.

`DiscoveryProofs` assumes `CleanupConstants` and `UpdateConstants`.

* `TypeInv` is the type invariant with `FlushInv`: a flush between its critical sections
  belongs to a pass that goes on, and the cleanup is done with its second empty pass and
  not before. Without it a flush could end a pass of a cleanup that is over, and the
  count of empty passes could exceed two.
* `StagesInv` adds `UpdateStages` and that work only goes on in a boot that is ready.
* `CleanInv` adds `CountInv`: while a topic is retained, the passes that ended empty were
  all disturbed, and a present pass that has found nothing undisturbed is still in its
  first second, with the broker's answer on its way or the client offline (`Coming`).
  `CountedClean`: with two empty passes of which one was undisturbed nothing is retained.
  `CleanupClears` follows, for any number of faults.
* `FullInv` adds `PublishInv`: what has been published so far is retained or lost, and
  after a cleanup with an undisturbed clean pass nothing else is. `RecordedTruly` follows.

Only model-checked: the eight liveness properties (`EventuallyPublished`,
`SignalsAreServed`, `PollingResumes`, `SubscriptionDecided`, `StartupCompletes`,
`Settles`, `AcquisitionCompletes`, `WritesAnswered`); under fairness they are beyond the
proof system. Every safety invariant and every step
property of a passing run is also a theorem. `StartupBridge` therefore rests on
`PollStepsHold` and `SubscribeStepsHold`, for lists of any length.

## 5. Not modelled, and what is left

PROJECT.json gives the status of every part. About 40,000 of the 53,000 lines are
generated tables (discovery payloads, feature lists, ERD lists) and a vendored inflate
library: data and third-party code without behaviour of this program. Logging,
diagnostics, the time source and the configuration schema have no state that anything
depends on. Of the rest the models leave out:

* the byte-level parser of broadcast frames, and the GEA2 and UART adapters: streams
  without a decision that a property here tells apart;
* the parsing of feature bits into ERDs (an arbitrary set in `StartupBridge`), and of
  appliance strings into a device id;
* the decompression and filtering of discovery payloads (a fixed set of entities per
  build), so the models do not say which entities a filter lets through;
* topic strings, the binary search in the sorted ERD set, the order inside a poll list;
* the other boards of custom ERDs in the polling bridge: one host address;
* `teardown()` and the order in which it destroys the parts.

What would come next: the sorted ERD set and the ERD topics against reference
definitions, the frame parser, the filter of discovery entities with the cache it reads,
and `teardown()` on top of `StartupBridge`.
