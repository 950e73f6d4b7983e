----------------------------- MODULE PollBridge -----------------------------
(***************************************************************************)
(* The polling bridge of erd_bridge_poll.cpp: it probes a list of ERDs one *)
(* by one, polls those that answered in cycles, gives up after failing     *)
(* cycles and starts over when the appliance has been silent for 60 s.     *)
(* Everything runs in the main loop: a step is a timer or an answer of the *)
(* GEA client, with all the reads and transitions it leads to.             *)
(*                                                                         *)
(* The bridge's struct is the record self, and a handler is an operator    *)
(* from a struct to a struct, or to the set of structs that the time       *)
(* budget of the send loop allows.  The host address is a constant of the  *)
(* bridge's life here (one board), and probe_list has no duplicates.       *)
(***************************************************************************)
EXTENDS Naturals, Sequences, FiniteSets, BridgeStates

\* A bus is a record of
\*   coalesces:    the client drops a request it already holds
\*   slow_polling: polling_interval_ms > appliance_lost_timeout
\*   long_list:    reading the whole list from a silent appliance takes
\*                 longer than appliance_lost_timeout
\*   shared:       subscriptions and writes use the client too
Bus == [coalesces : BOOLEAN, slow_polling : BOOLEAN, long_list : BOOLEAN,
        shared : BOOLEAN]

CONSTANTS Erd,
          ProbeList,     \* probe_list, a sequence of distinct ERDs
          ClientQueue,   \* requests the GEA client can hold
          Chunk,         \* ERDs sent between two looks at the clock
          CounterRange,  \* polling_failure_count is a uint8_t: 2^8
          Buses          \* the buses considered

ASSUME PollConstants ==
    /\ ProbeList \in Seq(Erd)
    /\ \A i, j \in 1 .. Len(ProbeList) : ProbeList[i] = ProbeList[j] => i = j
    /\ ClientQueue \in Nat \ {0} /\ Chunk \in Nat \ {0}
    /\ CounterRange \in Nat /\ CounterRange > 3
    /\ Buses \subseteq Bus

VARIABLES self,      \* erd_bridge_poll_t, its timers and its GEA client
          answered,  \* history: ERDs read successfully since the probe began
          crowded,   \* other requests fill the client's queue
          bus        \* the bus of this run of the program

vars == <<self, answered, crowded, bus>>

Members(seq) == {seq[i] : i \in DOMAIN seq}

-----------------------------------------------------------------------------
(* The GEA client (external): a bounded queue of reads, answered in order. *)

Coalesced(s, erd) == bus.coalesces /\ erd \in Members(s.requests)
Queued(s, erd) == Coalesced(s, erd) \/ (~crowded /\ Len(s.requests) < ClientQueue)

tiny_gea3_erd_client_read(s, erd) ==
    IF Queued(s, erd) /\ ~Coalesced(s, erd)
    THEN [s EXCEPT !.requests = Append(@, erd)] ELSE s

-----------------------------------------------------------------------------
(* Helpers of the bridge.                                                  *)

arm_polling_timer(s) == [s EXCEPT !.polling_timer = TRUE, !.polling_timer_armed = TRUE]
reset_lost_appliance_timer(s) == [s EXCEPT !.appliance_lost_timer = TRUE]

add_erd_to_polling_list(s, erd) ==
    IF erd \in Members(s.polling_list) THEN s
    ELSE [s EXCEPT !.polling_list = Append(@, erd), !.erd_set = @ \cup {erd}]

MorePolls(s) == s.erd_index < Len(s.polling_list)
CycleComplete(s) == s.cycle_completed_count >= Len(s.polling_list)

\* First part of on_polling_cycle_complete: the failure accounting.
AccountCycle(s) ==
    [s EXCEPT !.polling_failure_count =
                  IF s.cycle_has_failure THEN (@ + 1) % CounterRange ELSE 0,
              !.cycle_has_failure = FALSE]

\* A dropped read counts as completed; if it was the last one the cycle is
\* complete (immediate = false).
DroppedPoll(s) ==
    LET counted == [s EXCEPT !.cycle_completed_count = @ + 1]
    IN  IF ~CycleComplete(counted) THEN counted
        ELSE IF counted.polling_timer_armed THEN AccountCycle(counted)
        ELSE arm_polling_timer(AccountCycle(counted))

send_next_poll_read_request(s) ==
    LET erd == s.polling_list[s.erd_index + 1]
        next == [tiny_gea3_erd_client_read(s, erd) EXCEPT !.erd_index = @ + 1]
    IN  IF Queued(s, erd) THEN next ELSE DroppedPoll(next)

\* The struct after the next n reads of the cycle.
AfterPolls(s, n) ==
    LET f[i \in 0 .. n] == IF i = 0 THEN s ELSE send_next_poll_read_request(f[i - 1])
    IN  f[n]

\* send_cycle_reads, and the timer its callers then arm.  The clock is read
\* after every Chunk reads and after the last one: if the budget is used up
\* (even by the last read) the sending is still "in progress".
send_cycle_reads(s) ==
    LET left == IF MorePolls(s) THEN Len(s.polling_list) - s.erd_index ELSE 0
        pauses == {n \in 1 .. left : n % Chunk = 0 \/ n = left}
    IN  {[arm_polling_timer(AfterPolls(s, left)) EXCEPT !.cycle_sending_in_progress = FALSE]}
        \cup {[arm_polling_timer(AfterPolls(s, n)) EXCEPT !.cycle_sending_in_progress = TRUE]
                  : n \in pauses}

StartCycle(s) == send_cycle_reads([s EXCEPT !.erd_index = 0, !.cycle_completed_count = 0])

\* Mutant: a completed cycle leaves the restart to the timer.
CompleteOnly(s, immediate) == IF immediate THEN {[AccountCycle(s) EXCEPT
                                                    !.restart_pending = FALSE]}
                              ELSE {AccountCycle(s)}

on_polling_cycle_complete(s, immediate) ==
    LET t == AccountCycle(s)
    IN  IF immediate THEN StartCycle([t EXCEPT !.restart_pending = FALSE])
        ELSE IF t.polling_timer_armed THEN {t} ELSE {arm_polling_timer(t)}

-----------------------------------------------------------------------------
(* Entry actions.                                                          *)

EnterPolling(s) ==
    [arm_polling_timer(s) EXCEPT !.current_state = "polling", !.erd_index = 0,
                                 !.cycle_completed_count = 0, !.restart_pending = FALSE]

\* send_next_read_request; the result of read() is ignored.  When the list
\* is exhausted the caller goes on to polling.
NextProbe(s) ==
    LET t == reset_lost_appliance_timer(s)
    IN  IF t.erd_index < Len(ProbeList)
        THEN [tiny_gea3_erd_client_read(t, ProbeList[t.erd_index + 1])
                  EXCEPT !.erd_index = @ + 1]
        ELSE EnterPolling(t)

\* Mutant: clear_discovery_state keeps the polling list.
EnterProbingKeepsList(s) ==
    LET t == [s EXCEPT !.current_state = "probing", !.erd_index = 0]
        cleared == IF t.polling_list = <<>> THEN t ELSE [t EXCEPT !.erd_set = {}]
    IN  IF ProbeList = <<>> THEN EnterPolling(cleared) ELSE NextProbe(cleared)

\* The discovery state of the last life is cleared if it found anything.
EnterProbing(s) ==
    LET t == [s EXCEPT !.current_state = "probing", !.erd_index = 0]
        cleared == IF t.polling_list = <<>> THEN t
                   ELSE [t EXCEPT !.polling_list = <<>>, !.erd_set = {}]
    IN  IF ProbeList = <<>> THEN EnterPolling(cleared) ELSE NextProbe(cleared)

Zeroed == [current_state |-> "probing", erd_index |-> 0, cycle_completed_count |-> 0,
           polling_list |-> <<>>, erd_set |-> {}, polling_failure_count |-> 0,
           cycle_has_failure |-> FALSE, restart_pending |-> FALSE,
           polling_timer_armed |-> FALSE, cycle_sending_in_progress |-> FALSE,
           polling_timer |-> FALSE, appliance_lost_timer |-> FALSE, requests |-> <<>>]

Init == /\ bus \in Buses
        /\ crowded \in {FALSE, bus.shared}
        /\ self = EnterProbing(Zeroed)
        /\ answered = {}

-----------------------------------------------------------------------------
(* Signals.  Answered(s) is the struct when the client reports on the      *)
(* oldest request; nothing compares the answer with what was asked last.   *)
(* A value that is read goes to the ERD cache, which may refuse it; the    *)
(* bridge ignores what erd_cache_update returns and polls the ERD anyway.  *)

Answered(s) == [s EXCEPT !.requests = Tail(@)]

ProbeCompleted ==
    /\ self.current_state = "probing" /\ self.requests # <<>>
    /\ LET erd == Head(self.requests)
       IN  /\ self' = NextProbe(add_erd_to_polling_list(Answered(self), erd))
           /\ answered' = answered \cup {erd}
    /\ UNCHANGED <<crowded, bus>>

\* Mutant: the ERD is not excluded.
ProbeFailedUnnoted ==
    /\ self.current_state = "probing" /\ self.requests # <<>>
    /\ self' = NextProbe(Answered(self))
    /\ UNCHANGED <<answered, crowded, bus>>

\* Mutant: the probe does not go on after a failure.
ProbeFailedStuck ==
    /\ self.current_state = "probing" /\ self.requests # <<>>
    /\ self' = [Answered(self) EXCEPT !.erd_set = @ \cup {Head(self.requests)}]
    /\ UNCHANGED <<answered, crowded, bus>>

ProbeFailed ==
    /\ self.current_state = "probing" /\ self.requests # <<>>
    /\ self' = NextProbe([Answered(self) EXCEPT !.erd_set = @ \cup {Head(self.requests)}])
    /\ UNCHANGED <<answered, crowded, bus>>

\* One more read of the cycle is over.
Counted(s) ==
    LET t == [s EXCEPT !.cycle_completed_count = @ + 1]
    IN  IF CycleComplete(t)
        THEN on_polling_cycle_complete(t, t.restart_pending \/ ~t.polling_timer_armed)
        ELSE {t}

PollCompleted ==
    /\ self.current_state = "polling" /\ self.requests # <<>>
    /\ LET erd == Head(self.requests)
           t == reset_lost_appliance_timer(Answered(self))
       IN  /\ self' \in Counted(IF erd \in t.erd_set THEN t
                                ELSE add_erd_to_polling_list(t, erd))
           /\ answered' = answered \cup {erd}
    /\ UNCHANGED <<crowded, bus>>

\* Only a failed read looks at the failure count, and only when it is the
\* last of its cycle.
PollFailed ==
    /\ self.current_state = "polling" /\ self.requests # <<>>
    /\ LET t == [reset_lost_appliance_timer(Answered(self))
                     EXCEPT !.cycle_has_failure = TRUE]
           complete == CycleComplete([t EXCEPT !.cycle_completed_count = @ + 1])
       IN  \E u \in Counted(t) :
               self' = IF complete /\ u.polling_failure_count >= 3
                       THEN [u EXCEPT !.current_state = "failed"] ELSE u
    /\ UNCHANGED <<answered, crowded, bus>>

\* Mutant: an answer ends the failed state.
AnswerRevives == /\ self.current_state = "failed" /\ self.requests # <<>>
                 /\ self' = [Answered(self) EXCEPT !.current_state = "polling"]
                 /\ UNCHANGED <<answered, crowded, bus>>

\* In state_failed the answers still outstanding are not handled.
IgnoredAnswer == /\ self.current_state = "failed" /\ self.requests # <<>>
                 /\ self' = Answered(self)
                 /\ UNCHANGED <<answered, crowded, bus>>

\* Mutant: a cycle starts although reads of the last one are outstanding.
PollingTimerRestarts ==
    /\ self.polling_timer
    /\ LET t == [self EXCEPT !.polling_timer = FALSE]
           u == [t EXCEPT !.polling_timer_armed = FALSE]
       IN  IF self.current_state # "polling" THEN self' = t
           ELSE self' \in IF u.cycle_sending_in_progress THEN send_cycle_reads(u)
                          ELSE StartCycle(u)
    /\ UNCHANGED <<answered, crowded, bus>>

\* Mutant: the timer is handled by the parent state.
PollingTimerAnyState ==
    /\ self.polling_timer
    /\ LET u == [self EXCEPT !.polling_timer = FALSE, !.polling_timer_armed = FALSE]
       IN  IF ~MorePolls(u) /\ ~CycleComplete(u)
           THEN self' = [u EXCEPT !.restart_pending = TRUE]
           ELSE self' \in IF u.cycle_sending_in_progress THEN send_cycle_reads(u)
                          ELSE StartCycle(u)
    /\ UNCHANGED <<answered, crowded, bus>>

\* signal_polling_timer_expired is only handled in state_polling.
PollingTimerExpired ==
    /\ self.polling_timer
    /\ LET t == [self EXCEPT !.polling_timer = FALSE]
           u == [t EXCEPT !.polling_timer_armed = FALSE]
       IN  IF self.current_state # "polling" THEN self' = t
           ELSE IF ~MorePolls(u) /\ ~CycleComplete(u)
           THEN self' = [u EXCEPT !.restart_pending = TRUE]
           ELSE self' \in IF u.cycle_sending_in_progress THEN send_cycle_reads(u)
                          ELSE StartCycle(u)
    /\ UNCHANGED <<answered, crowded, bus>>

\* The client answers every request within seconds, and every answer that is
\* handled restarts the 60 s: they only pass when nothing is outstanding and
\* no cycle is due, or in state_failed, which handles no answers: then the
\* reads of a long list may still be outstanding (a GEA3 read takes 250 ms
\* and 10 retries to fail).
Silence == \/ self.current_state = "failed" /\ bus.long_list
           \/ /\ self.requests = <<>>
              /\ \/ self.current_state = "probing"
                 \/ self.polling_list = <<>>
                 \/ ~self.polling_timer
                 \/ bus.slow_polling

ApplianceLost ==
    /\ self.appliance_lost_timer /\ Silence
    /\ LET t == [self EXCEPT !.appliance_lost_timer = FALSE]
       IN  self' = EnterProbing(IF t.current_state = "failed"
                                THEN [t EXCEPT !.polling_failure_count = 0] ELSE t)
    /\ answered' = {}
    /\ UNCHANGED <<crowded, bus>>

\* The other users of the client fill its queue, or it drains.
OtherRequests == /\ bus.shared
                 /\ crowded' = ~crowded
                 /\ UNCHANGED <<self, answered, bus>>

Next == \/ ProbeCompleted \/ ProbeFailed \/ PollCompleted \/ PollFailed
        \/ IgnoredAnswer \/ PollingTimerExpired \/ ApplianceLost
        \/ OtherRequests

Spec == Init /\ [][Next]_vars

\* Timers fire and the client answers.
FairSpec == /\ Spec
            /\ WF_vars(ProbeCompleted \/ ProbeFailed \/ PollCompleted \/ PollFailed
                                      \/ IgnoredAnswer)
            /\ WF_vars(PollingTimerExpired)
            /\ WF_vars(ApplianceLost)

-----------------------------------------------------------------------------
(* Polling never stalls: there is always a timer running or an answer due, *)
(* so no cycle waits for a completion that cannot come (a restart is only  *)
(* left pending while reads are outstanding).                              *)
PollingNeverStalls ==
    self.current_state = "polling" => self.polling_timer \/ self.requests # <<>>

(* docs/spec/erd_bridge_poll.md, invariant 1: a cycle does not start until *)
(* every read of the previous one is answered, so no ERD is asked twice    *)
(* (reads of the failed state aside, which can outlast the appliance-lost  *)
(* timer when the list is long).                                           *)
NoOverlappingCycles ==
    self.current_state = "polling" /\ ~bus.long_list =>
        Cardinality(Members(self.requests)) = Len(self.requests)

(* The probe is sequential: unless reads of the failed state can outlast   *)
(* the appliance-lost timer, at most one request is outstanding.           *)
ProbeIsSequential ==
    self.current_state = "probing" /\ ~bus.long_list => Len(self.requests) <= 1

(* docs/spec/erd_bridge_poll.md, 4.2 and 4.3: the probe forgets no ERD.    *)
(* Once polling, each one is polled or was excluded after a failure.       *)
ProbeForgetsNone ==
    self.current_state = "polling" /\ ~bus.long_list =>
        Members(ProbeList) \subseteq Members(self.polling_list) \cup self.erd_set

(* No ERD is polled twice in a cycle, and every one that is polled was     *)
(* read successfully since the last probe began: what an earlier life of   *)
(* the appliance answered is forgotten with it.                            *)
PolledOnceAndAnswered ==
    /\ Cardinality(Members(self.polling_list)) = Len(self.polling_list)
    /\ Members(self.polling_list) \subseteq answered

(* The failed state is left again, and every probe ends in polling, unless *)
(* other requests crowd out the probe's reads again and again.             *)
PollingResumes ==
    <>[]~crowded => (self.current_state # "polling" ~> self.current_state = "polling")

(* The rest of the program sees the state machine of BridgeStates.         *)
PollSteps ==
    [][self.current_state' # self.current_state =>
           self.current_state' \in PollNext[self.current_state]]_vars
=============================================================================
