---------------------------- MODULE WriteBridge -----------------------------
(***************************************************************************)
(* Writes from Home Assistant to the appliance (erd_write_bridge.cpp),     *)
(* through the client and to the host address that Acquisition has found.  *)
(* A request arrives from the MQTT client's write topic, and its result    *)
(* goes back to the result topic of the same ERD and board.                *)
(***************************************************************************)
EXTENDS Acquisition

CONSTANTS WriteErd,  \* ERDs that are written
          Write      \* the writes that are requested: an ERD and its board

Primary == Broadcast  \* ERD_TOPIC_PRIMARY: the board of a topic without address
NoWrite == [erd |-> None, board |-> None]

ASSUME WriteConstants ==
    /\ Write \subseteq [erd : WriteErd, board : Address \cup {Primary}]
    /\ WriteErd \cap (IdentityErd \cup FeatureErd \cup {None}) = {}

VARIABLES pending,    \* state_writing: pending_erd and pending_board_address
          unanswered  \* history: writes passed on that have no result yet

vars == <<setup, m, refusals, pending, unanswered>>

WriteOf(w) == [op |-> "write", erd |-> w.erd,
               address |-> IF w.board = Primary THEN m.host ELSE w.board]

Init == /\ AcquisitionInit
        /\ pending = NoWrite
        /\ unanswered = {}

-----------------------------------------------------------------------------
\* Mutant: a request that arrives while writing is not dropped.
WriteRequestedAnyState(w) ==
    /\ m.erd_bridge_initialized_
    /\ \E room \in Room :
          /\ m' = Request(m, m.client, WriteOf(w), room)
          /\ pending' = IF room THEN w ELSE pending
          /\ unanswered' = IF room THEN unanswered \cup {w} ELSE unanswered
          /\ CountRefusal(room)
    /\ UNCHANGED setup

\* signal_write_requested in state_ready.  state_writing drops it without a
\* result.  A write to an unknown host, or refused by the client, has its
\* (failure) result at once.
WriteRequested(w) ==
    /\ m.erd_bridge_initialized_ /\ pending = NoWrite
    /\ \E room \in Room :
          LET accepted == room /\ m.host # Broadcast
          IN  /\ m' = Request(m, m.client, WriteOf(w), accepted)
              /\ pending' = IF accepted THEN w ELSE NoWrite
              /\ unanswered' = IF accepted THEN unanswered \cup {w} ELSE unanswered
              /\ CountRefusal(room)
    /\ UNCHANGED setup

\* Mutant: a failed write leaves the state.
WriteDoneIfCompleted(r, ok) ==
    IF pending # NoWrite /\ WriteOf(pending) = r /\ ok
    THEN pending' = NoWrite /\ unanswered' = unanswered \ {pending}
    ELSE UNCHANGED <<pending, unanswered>>

\* signal_write_completed and signal_write_failed: a request id that is not
\* the pending one is stale.
WriteDone(r, ok) ==
    IF pending # NoWrite /\ WriteOf(pending) = r
    THEN pending' = NoWrite /\ unanswered' = unanswered \ {pending}
    ELSE UNCHANGED <<pending, unanswered>>

\* The client is done with a write: the board took it, or gave no answer or
\* refused it.
ClientWrites(bus) ==
    /\ m.requests[bus] # <<>> /\ Head(m.requests[bus]).op = "write"
    /\ m' = [m EXCEPT !.requests[bus] = Tail(@)]
    /\ \E ok \in BOOLEAN :
          /\ ok => [bus |-> bus, address |-> Head(m.requests[bus]).address] \in setup.boards
          /\ WriteDone(Head(m.requests[bus]), ok)
    /\ UNCHANGED <<setup, refusals>>

Next == \/ AcquisitionNext /\ UNCHANGED <<pending, unanswered>>
        \/ \E w \in Write : WriteRequested(w)
        \/ \E bus \in Bus : ClientWrites(bus)

Spec == Init /\ [][Next]_vars

\* Timers fire, loop() runs, and a client ends each request (it gives up after
\* its retries).  A board that is asked again and again answers once, within a
\* window of its own bus if need be.
Reads(erd) == \E bus \in Bus :
                  /\ ReadCompleted(bus)
                  /\ Head(m.requests[bus]).erd = erd
                  /\ Head(m.requests[bus]).address # Broadcast
                  /\ UNCHANGED <<pending, unanswered>>
Fairness ==
    /\ WF_vars(StartDiscovery /\ UNCHANGED <<pending, unanswered>>)
    /\ WF_vars((FeatureBitsSeen \/ InitializeBridge) /\ UNCHANGED <<pending, unanswered>>)
    /\ WF_vars(WindowEnds /\ UNCHANGED <<pending, unanswered>>)
    /\ WF_vars((RetryTimer \/ ParseDone) /\ UNCHANGED <<pending, unanswered>>)
    /\ \A bus \in Bus : WF_vars(\/ ReadCompleted(bus) /\ UNCHANGED <<pending, unanswered>>
                                \/ ReadFailed(bus) /\ UNCHANGED <<pending, unanswered>>
                                \/ ClientWrites(bus))
    /\ SF_vars(BroadcastResponse /\ UNCHANGED <<pending, unanswered>>)
    /\ \A erd \in IdentityErd : SF_vars(Reads(erd))

FairSpec == Spec /\ Fairness

-----------------------------------------------------------------------------
(* The writing state and the client agree: while a write is pending the    *)
(* client holds exactly the request whose end will be taken for it, and    *)
(* otherwise none, so every end of a write finds its topic and the bridge  *)
(* (which has no timeout) cannot wait for nothing.                         *)
PendingWriteHeld ==
    \A bus \in Bus :
        {m.requests[bus][i] : i \in DOMAIN m.requests[bus]}
            \cap [op : {"write"}, erd : WriteErd, address : Address]
            = IF pending # NoWrite /\ bus = m.client THEN {WriteOf(pending)} ELSE {}

(* A write that was passed on gets a result.                               *)
WritesAnswered == \A w \in Write : w \in unanswered ~> w \notin unanswered

(* Some board is found, identified and asked for its features, and the     *)
(* bridges are initialised, whatever boards stay silent, requests fail or  *)
(* are refused: unless an identity read is refused, or the appliance type  *)
(* is answered with no data and with nothing else later.                   *)
AcquisitionCompletes ==
    \/ <>(m.erd_bridge_initialized_ \/ m.identity_refused)
    \/ <>[](m.hsm = "device_id" /\ m.identity = "type" /\ m.type_empty)
=============================================================================
