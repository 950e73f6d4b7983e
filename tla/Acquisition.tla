---------------------------- MODULE Acquisition -----------------------------
(***************************************************************************)
(* How the bridge gets to know its appliance: the autodiscovery manager    *)
(* finds a board, the device identity manager reads three ERDs of it, the  *)
(* feature bit manager eleven more, all through the clients of the two GEA *)
(* buses, while the startup state machine waits for each of them           *)
(* (autodiscovery_manager.cpp, device_identity_manager.cpp,                *)
(* feature_bit_manager.cpp, handle_erd_client_activity_).                  *)
(*                                                                         *)
(* Signals, callbacks and events are handled at once, also when sent from  *)
(* another handler, so the managers are one record m, and handlers are     *)
(* operators from a record to a record.  What the feature bits mean is     *)
(* left to StartupBridge.                                                  *)
(***************************************************************************)
EXTENDS Naturals, Sequences

CONSTANTS Address,     \* addresses of boards
          Broadcast,   \* GEA_BROADCAST_ADDRESS
          Features,    \* feature_erd_list: ERD 0x0092 and those after it
          Setups,      \* the configurations and appliances considered
          MaxRefusals  \* requests that the clients refuse (a full queue)

Bus == {"gea3", "gea2"}
Board == [bus : Bus, address : Address]
IdentityErd == {"type", "model", "serial"}
FeatureErd == {Features[i] : i \in DOMAIN Features}
None == "none"

\* A setup has UARTs, a configured board address (or Broadcast), and boards,
\* one of which can be found.
Setup == {s \in [uarts : SUBSET Bus, target : Address \cup {Broadcast},
                 boards : SUBSET Board] :
             \E board \in s.boards : /\ board.bus \in s.uarts
                                     /\ s.target \in {board.address, Broadcast}}

ASSUME AcquisitionConstants ==
    /\ Setups \subseteq Setup
    /\ Broadcast \notin Address /\ None \notin Address
    /\ Features \in Seq(STRING) /\ Features # <<>>
    /\ FeatureErd \cap IdentityErd = {}
    /\ \A i, j \in DOMAIN Features : Features[i] = Features[j] => i = j
    /\ MaxRefusals \in Nat

VARIABLES setup,    \* the setup of this run of the program
          m,        \* the managers, the startup state machine and the clients
          refusals  \* requests refused so far

AcquisitionInit ==
    /\ setup \in Setups
    /\ m = [hsm |-> "startup_delay",
            discovery |-> "idle", host |-> None, client |-> None, gea2 |-> FALSE,
            identity |-> "type", identity_client |-> FALSE,
            features |-> "reading", reading_idx |-> 0, read_queued |-> FALSE,
            retry_timer |-> FALSE, feature_bit_reading_started_ |-> FALSE,
            erd_bridge_initialized_ |-> FALSE,
            requests |-> [bus \in Bus |-> <<>>],
            \* history: an identity read was refused; the type was answered
            \* with no data since the identity is read
            identity_refused |-> FALSE, type_empty |-> FALSE]
    /\ refusals = 0

-----------------------------------------------------------------------------
(* The GEA clients (external): each works off its requests in order, and   *)
(* holds a request once.                                                   *)

ReadOf(address, erd) == [op |-> "read", address |-> address, erd |-> erd]
Held(c, bus, r) == \E i \in DOMAIN c.requests[bus] : c.requests[bus][i] = r
Accepted(c, bus, r, room) == room \/ Held(c, bus, r)

Request(c, bus, r, room) ==
    IF room /\ ~Held(c, bus, r) THEN [c EXCEPT !.requests[bus] = Append(@, r)] ELSE c

\* Is there room in the queue for what a step requests?
Room == IF refusals < MaxRefusals THEN BOOLEAN ELSE {TRUE}
CountRefusal(room) == refusals' = IF room THEN refusals ELSE refusals + 1

-----------------------------------------------------------------------------
(* DeviceIdentityManager.                                                  *)

try_queue_read(c, erd, room) ==
    IF ~c.identity_client THEN c
    ELSE [Request(c, c.client, ReadOf(c.host, erd), room)
             EXCEPT !.identity_refused = @ \/ ~Accepted(c, c.client, ReadOf(c.host, erd), room)]

init_device_id_reading(c, room) ==
    IF c.identity = "complete" THEN c
    ELSE try_queue_read([c EXCEPT !.identity = "type", !.identity_client = TRUE,
                                  !.type_empty = FALSE], "type", room)

\* By ERD alone: not every answer is the one the state is waiting for.  A type
\* without data is ignored, and not asked for again.
IdentityCompleted(c, erd, empty, room) ==
    CASE erd = "type" /\ empty -> [c EXCEPT !.type_empty = TRUE]
      [] erd = "type" /\ ~empty ->
             try_queue_read([c EXCEPT !.identity = "model"], "model", room)
      [] erd = "model" ->
             try_queue_read([c EXCEPT !.identity = "serial"], "serial", room)
      [] erd = "serial" -> [c EXCEPT !.identity = "complete"]
      [] OTHER -> c

\* Mutant: a failed read is not repeated.
IdentityFailedOnce(c, erd, room) == c

IdentityFailed(c, erd, room) == try_queue_read(c, erd, room)

-----------------------------------------------------------------------------
(* FeatureBitManager.                                                      *)

\* Mutant: a refused read is not tried again.
QueueErdReadOnce(c, room) ==
    LET r == ReadOf(c.host, Features[c.reading_idx + 1])
    IN  IF Accepted(c, c.client, r, room)
        THEN [Request(c, c.client, r, room) EXCEPT !.read_queued = TRUE]
        ELSE c

queue_erd_read(c, room) ==
    LET r == ReadOf(c.host, Features[c.reading_idx + 1])
    IN  IF Accepted(c, c.client, r, room)
        THEN [Request(c, c.client, r, room) EXCEPT !.read_queued = TRUE]
        ELSE [c EXCEPT !.retry_timer = TRUE]

NextFeature(c, room) ==
    LET d == [c EXCEPT !.read_queued = FALSE, !.reading_idx = @ + 1]
    IN  IF d.reading_idx = Len(Features) THEN [d EXCEPT !.features = "parsing"]
        ELSE queue_erd_read(d, room)

\* skip_to_next_erd_
FeatureFailed(c, erd, room) ==
    IF erd = Features[1] THEN [c EXCEPT !.read_queued = FALSE, !.features = "failed"]
    ELSE NextFeature(c, room)

\* on_erd_activity_
FeatureActivity(c, e, room) ==
    IF e.address # c.host \/ c.features # "reading" THEN c
    ELSE IF ~c.read_queued THEN queue_erd_read(c, room)
    ELSE IF e.erd # Features[c.reading_idx + 1] THEN c
    ELSE IF e.completed THEN NextFeature(c, room)
    ELSE FeatureFailed(c, e.erd, room)

\* start_feature_bit_reading_: init, which subscribes to the client, and start.
start_feature_bit_reading(c, room) ==
    IF c.features # "reading" \/ c.feature_bit_reading_started_ \/ c.client = None THEN c
    ELSE queue_erd_read([c EXCEPT !.feature_bit_reading_started_ = TRUE], room)

-----------------------------------------------------------------------------
(* The startup state machine, and the events of the clients.               *)

\* signal_device_id_complete; startup_state_mqtt_client_init is left at once.
DeviceIdComplete(c, room) ==
    IF c.hsm # "device_id" THEN c
    ELSE start_feature_bit_reading([c EXCEPT !.hsm = "feature_bits"], room)

should_route_to_feature_bits(c, erd) ==
    c.features \in {"reading", "parsing"} /\ erd \in FeatureErd

\* handle_erd_client_activity_
RouteToIdentity(c, e, room) ==
    IF c.erd_bridge_initialized_ \/ e.address # c.host
       \/ should_route_to_feature_bits(c, e.erd) THEN c
    ELSE IF ~e.completed THEN IdentityFailed(c, e.erd, room)
    ELSE LET d == IdentityCompleted(c, e.erd, e.empty, room)
         IN  IF d.identity = "complete" THEN DeviceIdComplete(d, room) ELSE d

\* The component subscribed before the feature bit manager, which has the
\* active client only.
Activity(c, bus, e, room) ==
    LET d == RouteToIdentity(c, e, room)
    IN  IF c.feature_bit_reading_started_ /\ bus = c.client
        THEN FeatureActivity(d, e, room) ELSE d

\* The client is done with its first request.  A broadcast is answered by any
\* board, and the event names the board that answered.  An answer may hold no
\* data, which matters for the type only.
ClientEvent(bus, completed, source) ==
    LET r == Head(m.requests[bus])
    IN  /\ m.requests[bus] # <<>> /\ r.op = "read"
        /\ IF completed THEN /\ [bus |-> bus, address |-> source] \in setup.boards
                             /\ r.address \in {source, Broadcast}
           ELSE source = r.address
        /\ \E room \in Room : \E empty \in BOOLEAN :
              /\ empty => completed /\ r.erd = "type"
              /\ m' = Activity([m EXCEPT !.requests[bus] = Tail(@)], bus,
                               [erd |-> r.erd, address |-> source,
                                completed |-> completed, empty |-> empty], room)
              /\ CountRefusal(room)
        /\ UNCHANGED setup

ReadCompleted(bus) == \E source \in Address : ClientEvent(bus, TRUE, source)
ReadFailed(bus) == \E source \in Address \cup {Broadcast} : ClientEvent(bus, FALSE, source)

-----------------------------------------------------------------------------
(* AutodiscoveryManager.  discovery is the bus whose broadcast window is   *)
(* open: the PENDING states are left in the step that enters them.         *)

\* run(): the window opens whether or not the client takes the request.
Probe(c, bus, room) ==
    [Request(c, bus, ReadOf(setup.target, "type"), room) EXCEPT !.discovery = bus]

\* Signalled on entering startup_state_autodiscovery.
StartDiscovery ==
    /\ m.hsm = "startup_delay"
    /\ \E room \in Room :
          /\ m' = Probe([m EXCEPT !.hsm = "autodiscovery"],
                        IF "gea3" \in setup.uarts THEN "gea3" ELSE "gea2", room)
          /\ CountRefusal(room)
    /\ UNCHANGED setup

\* Mutant: an answer to an earlier broadcast counts in any window.
AnswerInAnyWindow(board) ==
    /\ m.discovery \in Bus /\ m.client = None
    /\ setup.target \in {board.address, Broadcast}
    /\ m' = [m EXCEPT !.host = board.address, !.client = board.bus]

\* on_broadcast_response, for a frame from process_byte_.  The first one
\* wins; the client may or may not see it too.
AnswerInWindow(board) ==
    /\ m.discovery = board.bus /\ m.client = None
    /\ setup.target \in {board.address, Broadcast}
    /\ m' = [m EXCEPT !.host = board.address, !.client = board.bus]

BroadcastResponse == /\ \E board \in setup.boards : /\ board.bus \in setup.uarts
                                                    /\ AnswerInWindow(board)
                     /\ UNCHANGED <<setup, refusals>>

\* Mutant: the buses do not take turns.
SameBus == m.discovery

\* schedule_next_broadcast_
NextBus == IF setup.uarts = Bus THEN CHOOSE bus \in Bus : bus # m.discovery
           ELSE m.discovery

\* timer_callback_; on_complete_cb takes the startup state machine on.
WindowEnds ==
    /\ m.discovery \in Bus
    /\ \E room \in Room :
          /\ m' = IF m.client = None THEN Probe(m, NextBus, room)
                  ELSE init_device_id_reading(
                           [m EXCEPT !.discovery = "complete", !.hsm = "device_id",
                                     !.gea2 = m.discovery = "gea2"], room)
          /\ CountRefusal(room)
    /\ UNCHANGED setup

-----------------------------------------------------------------------------
\* queue_retry_timer_callback_
RetryTimer ==
    /\ m.retry_timer
    /\ \E room \in Room :
          LET c == [m EXCEPT !.retry_timer = FALSE]
          IN  /\ m' = IF c.features = "reading" /\ ~c.read_queued
                      THEN queue_erd_read(c, room) ELSE c
              /\ CountRefusal(room)
    /\ UNCHANGED setup

\* The last of the periodic parse_next_step_.
ParseDone == /\ m.features = "parsing"
             /\ m' = [m EXCEPT !.features = "complete"]
             /\ UNCHANGED <<setup, refusals>>

\* signal_run_loop: the bridges are initialised one loop() later.
FeatureBitsSeen == /\ m.hsm = "feature_bits" /\ m.features \in {"complete", "failed"}
                   /\ m' = [m EXCEPT !.hsm = "bridge_init"]
                   /\ UNCHANGED <<setup, refusals>>

InitializeBridge == /\ m.hsm = "bridge_init" /\ ~m.erd_bridge_initialized_
                    /\ m' = [m EXCEPT !.erd_bridge_initialized_ = TRUE]
                    /\ UNCHANGED <<setup, refusals>>

Timers == WindowEnds \/ RetryTimer \/ ParseDone
RunLoop == StartDiscovery \/ FeatureBitsSeen \/ InitializeBridge
ClientReads == \E bus \in Bus : ReadCompleted(bus) \/ ReadFailed(bus)

AcquisitionNext == Timers \/ RunLoop \/ BroadcastResponse \/ ClientReads

-----------------------------------------------------------------------------
AcquisitionTypeOK ==
    /\ setup \in Setups
    /\ m.hsm \in {"startup_delay", "autodiscovery", "device_id", "feature_bits",
                  "bridge_init"}
    /\ m.discovery \in Bus \cup {"idle", "complete"}
    /\ m.host \in Address \cup {None} /\ m.client \in Bus \cup {None}
    /\ m.identity \in IdentityErd \cup {"complete"}
    /\ m.features \in {"reading", "parsing", "complete", "failed"}
    /\ m.reading_idx \in 0 .. Len(Features)
    /\ m.features = "reading" => m.reading_idx < Len(Features)
    /\ {m.gea2, m.identity_client, m.read_queued, m.retry_timer, m.identity_refused,
        m.type_empty, m.feature_bit_reading_started_, m.erd_bridge_initialized_} \subseteq BOOLEAN
    /\ refusals \in 0 .. MaxRefusals

(* What autodiscovery reports fits together: there is a board at the host  *)
(* address, on the bus of the active client and of the reported protocol,  *)
(* and it is the configured one.  Answers may be late, several boards may  *)
(* answer, and the window may end on either bus.                           *)
BoardFound ==
    m.discovery = "complete" =>
        /\ [bus |-> m.client, address |-> m.host] \in setup.boards
        /\ m.client \in setup.uarts
        /\ m.gea2 = (m.client = "gea2")
        /\ setup.target \in {m.host, Broadcast}

(* While the startup waits for the device id, the read that the identity   *)
(* manager waits for is with the client, also when a discovery probe is    *)
(* answered late and the sequence starts over.  There are two exceptions,  *)
(* after which nothing repeats the read: the client refused it, or the     *)
(* appliance type was answered with no data.                               *)
IdentityReadHeld ==
    m.hsm = "device_id" /\ ~m.identity_refused =>
        /\ m.identity \in IdentityErd
        /\ \/ Held(m, m.client, ReadOf(m.host, m.identity))
           \/ m.identity = "type" /\ m.type_empty

(* The feature bit manager never waits for nothing: its read is with the   *)
(* client, or its retry timer runs.                                        *)
FeatureReadHeld ==
    m.feature_bit_reading_started_ /\ m.features = "reading" =>
        IF m.read_queued
        THEN Held(m, m.client, ReadOf(m.host, Features[m.reading_idx + 1]))
        ELSE m.retry_timer
=============================================================================
