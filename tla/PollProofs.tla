----------------------------- MODULE PollProofs -----------------------------
(***************************************************************************)
(* The safety properties of PollBridge and its state machine, for every    *)
(* probe list, every length of the client's queue, every send budget and   *)
(* every set of buses.                                                     *)
(***************************************************************************)
EXTENDS PollBridge, Integers, FiniteSetTheorems, WellFoundedInduction, TLAPS

\* The structs a bridge can be in.
Poll == [current_state : {"probing", "polling", "failed"}, erd_index : Nat,
         cycle_completed_count : Nat, polling_list : Seq(Erd), erd_set : SUBSET Erd,
         polling_failure_count : 0 .. CounterRange - 1, cycle_has_failure : BOOLEAN,
         restart_pending : BOOLEAN, polling_timer_armed : BOOLEAN,
         cycle_sending_in_progress : BOOLEAN, polling_timer : BOOLEAN,
         appliance_lost_timer : BOOLEAN, requests : Seq(Erd)]

Distinct(seq) == \A i, j \in 1 .. Len(seq) : seq[i] = seq[j] => i = j

\* The ERDs of this cycle that were read, or whose read was dropped.
Attempted(s) == {s.polling_list[k] : k \in 1 .. s.erd_index}
Unheld(s) == Attempted(s) \ Members(s.requests)
Settled(s) == Members(s.polling_list) \ Members(s.requests)

\* Nothing is polled twice, or polled and excluded.
ListInv(s) == Distinct(s.polling_list) /\ Members(s.polling_list) \subseteq s.erd_set

\* Every read of the cycle is in the client's queue or was counted: a
\* request that was coalesced with a stray one is held by that one.
CycleInv(s) ==
    /\ s.erd_index <= Len(s.polling_list)
    /\ Cardinality(Unheld(s)) <= s.cycle_completed_count

\* Without the timer the cycle has been sent, and it is not over.
Awaiting(s) == /\ ~CycleComplete(s)
               /\ Cardinality(Settled(s)) <= s.cycle_completed_count
Armed(s) == s.polling_timer_armed = s.polling_timer
TimerInv(s) == Armed(s) /\ (s.polling_timer \/ Awaiting(s))

\* Unless reads outlast the failed state, the requests are those of this
\* cycle, and each read of it is outstanding or counted, never both.
OwnReads(s) ==
    /\ s.cycle_completed_count + Len(s.requests) = s.erd_index
    /\ Distinct(s.requests)
    /\ Members(s.requests) \subseteq Attempted(s)

\* The probe knows of every ERD before the one it is waiting for.
Known(s, n) == \A k \in 1 .. n : ProbeList[k] \in s.erd_set \cup Members(s.requests)
ProbeReads(s) == /\ Len(s.requests) <= 1 /\ s.erd_index <= Len(ProbeList)
                 /\ s.requests # <<>> => Known(s, s.erd_index)

QuietPolling(s) ==
    /\ OwnReads(s)
    /\ MorePolls(s) => s.cycle_sending_in_progress \/ s.requests = <<>>
    /\ Members(ProbeList) \subseteq s.erd_set

QuietInv(s) == ~bus.long_list =>
                   /\ s.current_state = "polling" => QuietPolling(s)
                   /\ s.current_state = "probing" => ProbeReads(s)

StructInv(s) == /\ s \in Poll /\ ListInv(s) /\ QuietInv(s)
                /\ s.current_state = "polling" => CycleInv(s) /\ TimerInv(s)

\* With nothing to probe the bridge polls nothing from the start.
NothingToPoll(s) == ProbeList = <<>> => /\ s.current_state = "polling"
                                        /\ s.polling_list = <<>> /\ s.requests = <<>>

PollTypeOK == self \in Poll /\ answered \subseteq Erd /\ crowded \in BOOLEAN /\ bus \in Buses

PollInv == /\ PollTypeOK /\ StructInv(self) /\ NothingToPoll(self)
           /\ Members(self.polling_list) \subseteq answered

-----------------------------------------------------------------------------
(* Sequences of ERDs and their members.                                    *)

\* What a sequence of ERDs has to do with its set of members.
LEMMA MembersFacts ==
    ASSUME NEW seq \in Seq(Erd)
    PROVE  /\ Members(seq) \subseteq Erd
           /\ IsFiniteSet(Members(seq))
           /\ Cardinality(Members(seq)) <= Len(seq)
           /\ Distinct(seq) => Cardinality(Members(seq)) = Len(seq)
           /\ seq = <<>> <=> Len(seq) = 0
           /\ seq = <<>> => Members(seq) = {}
<1> DEFINE n == Len(seq)
<1>1. n \in Nat /\ DOMAIN seq = 1 .. n /\ seq \in [1 .. n -> Erd]
  OBVIOUS
<1>2. IsFiniteSet(1 .. n) /\ Cardinality(1 .. n) = n
  BY <1>1, FS_Interval
<1>3. seq \in Surjection(1 .. n, Members(seq))
  BY <1>1 DEF Surjection, Members
<1>4. /\ IsFiniteSet(Members(seq)) /\ Cardinality(Members(seq)) <= n
      /\ Cardinality(Members(seq)) = n <=> seq \in Injection(1 .. n, Members(seq))
  BY <1>2, <1>3, FS_Surjection
<1>5. Distinct(seq) => seq \in Injection(1 .. n, Members(seq))
  BY <1>1 DEF Distinct, Injection, IsInjective, Members
<1>6. Members(seq) \subseteq Erd /\ (seq = <<>> => Members(seq) = {})
  BY <1>1 DEF Members
<1> QED
  BY <1>4, <1>5, <1>6

\* A new last element is a new member.
LEMMA AppendFacts ==
    ASSUME NEW seq \in Seq(Erd), NEW erd \in Erd
    PROVE  /\ Append(seq, erd) \in Seq(Erd) /\ Len(Append(seq, erd)) = Len(seq) + 1
           /\ \A i \in 1 .. Len(seq) : Append(seq, erd)[i] = seq[i]
           /\ Append(seq, erd)[Len(seq) + 1] = erd
           /\ Members(Append(seq, erd)) = Members(seq) \cup {erd}
           /\ Distinct(seq) /\ erd \notin Members(seq) => Distinct(Append(seq, erd))
<1>1. /\ Append(seq, erd) \in Seq(Erd) /\ Len(Append(seq, erd)) = Len(seq) + 1
      /\ \A i \in 1 .. Len(seq) : Append(seq, erd)[i] = seq[i]
      /\ Append(seq, erd)[Len(seq) + 1] = erd
  OBVIOUS
<1>2. Members(Append(seq, erd)) = Members(seq) \cup {erd}
  BY <1>1 DEF Members
<1>3. Distinct(seq) /\ erd \notin Members(seq) => Distinct(Append(seq, erd))
  BY <1>1 DEF Members, Distinct
<1> QED
  BY <1>1, <1>2, <1>3

\* Without its first element a sequence loses one occurrence of one member.
LEMMA TailFacts ==
    ASSUME NEW seq \in Seq(Erd), seq # <<>>
    PROVE  /\ Tail(seq) \in Seq(Erd) /\ Len(Tail(seq)) = Len(seq) - 1
           /\ Head(seq) \in Erd
           /\ Members(seq) = Members(Tail(seq)) \cup {Head(seq)}
           /\ Distinct(seq) => Distinct(Tail(seq)) /\ Head(seq) \notin Members(Tail(seq))
<1>1. /\ Tail(seq) \in Seq(Erd) /\ Len(Tail(seq)) = Len(seq) - 1 /\ Len(seq) > 0
      /\ Head(seq) = seq[1] /\ Head(seq) \in Erd
      /\ \A i \in 1 .. Len(seq) - 1 : Tail(seq)[i] = seq[i + 1]
  OBVIOUS
<1>2. Members(seq) = Members(Tail(seq)) \cup {Head(seq)}
  <2>1. ASSUME NEW i \in 1 .. Len(seq), i # 1
        PROVE  i - 1 \in 1 .. Len(seq) - 1 /\ seq[i] = Tail(seq)[i - 1]
    <3>1. i - 1 \in 1 .. Len(seq) - 1 /\ (i - 1) + 1 = i
      BY <2>1
    <3> QED
      BY <1>1, <3>1
  <2>2. DOMAIN seq = 1 .. Len(seq) /\ DOMAIN Tail(seq) = 1 .. Len(seq) - 1
    BY <1>1
  <2>3. \A x : x \in Members(seq) => x \in Members(Tail(seq)) \cup {Head(seq)}
    <3>1. SUFFICES ASSUME NEW i \in 1 .. Len(seq)
                   PROVE  seq[i] \in Members(Tail(seq)) \cup {Head(seq)}
      BY <2>2 DEF Members
    <3>2. CASE i = 1
      BY <1>1, <3>2
    <3>3. CASE i # 1
      BY <2>1, <2>2, <3>3 DEF Members
    <3> QED
      BY <3>2, <3>3
  <2>4. \A x : x \in Members(Tail(seq)) \cup {Head(seq)} => x \in Members(seq)
    <3>1. \A i \in 1 .. Len(seq) - 1 : i + 1 \in 1 .. Len(seq)
      BY <1>1
    <3> QED
      BY <1>1, <2>2, <3>1 DEF Members
  <2> QED
    BY <2>3, <2>4, Zenon
<1>3. Distinct(seq) => Distinct(Tail(seq)) /\ Head(seq) \notin Members(Tail(seq))
  BY <1>1 DEF Members, Distinct
<1> QED
  BY <1>1, <1>2, <1>3

\* Induction over the naturals, for a set: every set that holds 0 and the
\* successor of each of its members holds them all.
LEMMA Induct ==
    ASSUME NEW T, 0 \in T, \A i \in Nat : i \in T => i + 1 \in T
    PROVE  Nat \subseteq T
<1>1. SUFFICES ASSUME Nat \ T # {} PROVE FALSE
  OBVIOUS
<1>2. PICK x \in Nat \ T : \A y \in Nat \ T : ~(<<y, x>> \in OpToRel(<, Nat))
  BY <1>1, NatLessThanWellFounded, WFMin, Zenon
<1>3. x \in Nat /\ x \notin T
  BY <1>2
<1>4. x # 0
  BY <1>3
<1>5. x - 1 \in Nat /\ (x - 1) + 1 = x
  BY <1>3, <1>4
<1>6. x - 1 \notin T
  BY <1>3, <1>5
<1>7. <<x - 1, x>> \in OpToRel(<, Nat)
  BY <1>3, <1>5 DEF OpToRel
<1> QED
  BY <1>2, <1>5, <1>6, <1>7

\* The function AfterPolls chooses exists, however many reads it sends.
LEMMA Chain ==
    ASSUME NEW s, NEW n \in Nat
    PROVE  \E g : g = [i \in 0 .. n |->
                          IF i = 0 THEN s ELSE send_next_poll_read_request(g[i - 1])]
<1> DEFINE Next1(g, i) == IF i = 0 THEN s ELSE send_next_poll_read_request(g[i - 1])
           T == {m \in Nat : \E g : g = [i \in 0 .. m |-> Next1(g, i)]}
<1>1. 0 \in T
  <2>1. [i \in 0 .. 0 |-> s] = [i \in 0 .. 0 |-> Next1([k \in 0 .. 0 |-> s], i)]
    OBVIOUS
  <2> QED
    BY <2>1
<1>2. ASSUME NEW m \in Nat, m \in T
      PROVE  m + 1 \in T
  <2>1. PICK g : g = [i \in 0 .. m |-> Next1(g, i)]
    BY <1>2
  <2> DEFINE h == [i \in 0 .. m + 1 |->
                      IF i = m + 1 THEN send_next_poll_read_request(g[m]) ELSE g[i]]
  <2>2. \A i \in 0 .. m + 1 : h[i] = Next1(h, i)
    <3>1. \A i \in 0 .. m : h[i] = g[i]
      OBVIOUS
    <3> HIDE DEF h
    <3> TAKE i \in 0 .. m + 1
    <3>2. CASE i = m + 1
      BY <3>1, <3>2 DEF h
    <3>3. CASE i = 0
      BY <3>1, <2>1, <3>3
    <3>4. CASE i \in 1 .. m
      <4>1. i - 1 \in 0 .. m /\ i \in 0 .. m /\ i # 0
        BY <3>4
      <4> QED
        BY <3>1, <2>1, <4>1
    <3> QED
      BY <3>2, <3>3, <3>4
  <2>3. h = [i \in 0 .. m + 1 |-> Next1(h, i)]
    BY <2>2, Zenon
  <2>4. \E f : f = [i \in 0 .. m + 1 |-> Next1(f, i)]
    BY <2>3, Zenon
  <2> QED
    BY <2>4
<1>3. Nat \subseteq T
  <2> HIDE DEF T
  <2> QED
    BY <1>1, <1>2, Induct, Zenon
<1> QED
  BY <1>3

\* What each read request keeps, step by step, holds after n of them.
LEMMA AfterIn ==
    ASSUME NEW s, NEW n \in Nat, NEW R, s \in R[0],
           \A i \in 0 .. n - 1 :
               \A t \in R[i] : send_next_poll_read_request(t) \in R[i + 1]
    PROVE  AfterPolls(s, n) \in R[n]
<1> DEFINE F(g) == [i \in 0 .. n |->
                       IF i = 0 THEN s ELSE send_next_poll_read_request(g[i - 1])]
           f == CHOOSE g : g = F(g)
<1>1. f = F(f)
  BY Chain
<1>2. AfterPolls(s, n) = f[n]
  BY DEF AfterPolls
<1> DEFINE T == {i \in Nat : i <= n => f[i] \in R[i]}
<1>3. f = [i \in 0 .. n |->
              IF i = 0 THEN s ELSE send_next_poll_read_request(f[i - 1])]
  BY <1>1, Zenon
<1> HIDE DEF f
<1>4. 0 \in T
  BY <1>3
<1>5. ASSUME NEW i \in Nat, i \in T
      PROVE  i + 1 \in T
  <2>1. SUFFICES ASSUME i + 1 <= n PROVE f[i + 1] \in R[i + 1]
    OBVIOUS
  <2>2. f[i + 1] = send_next_poll_read_request(f[(i + 1) - 1])
    BY <1>3, <2>1
  <2>3. (i + 1) - 1 = i /\ i \in 0 .. n - 1 /\ f[i] \in R[i]
    BY <2>1, <1>5
  <2> QED
    BY <2>2, <2>3
<1> HIDE DEF T
<1>6. Nat \subseteq T
  BY <1>4, <1>5, Induct, Zenon
<1>7. f[n] \in R[n]
  BY <1>6 DEF T
<1> QED
  BY <1>2, <1>7

-----------------------------------------------------------------------------
(* Reading the cycle.                                                      *)

\* A struct whose cycle may go on.
Sending(s) == /\ s \in Poll /\ s.current_state = "polling"
              /\ ListInv(s) /\ CycleInv(s) /\ Armed(s)
              /\ ~bus.long_list => OwnReads(s)

\* The same bridge, polling the same ERDs.
SameList(s, t) == t.polling_list = s.polling_list /\ t.erd_set = s.erd_set

\* The sets CycleInv and Awaiting count are finite, and after the last read the same.
LEMMA UnheldFacts ==
    ASSUME NEW s \in Poll, s.erd_index <= Len(s.polling_list)
    PROVE  /\ Attempted(s) \subseteq Members(s.polling_list)
           /\ IsFiniteSet(Unheld(s)) /\ Cardinality(Unheld(s)) \in Nat
           /\ IsFiniteSet(Settled(s)) /\ Cardinality(Settled(s)) \in Nat
           /\ ~MorePolls(s) => Unheld(s) = Settled(s)
<1>1. /\ s.polling_list \in Seq(Erd) /\ s.erd_index \in Nat
      /\ DOMAIN s.polling_list = 1 .. Len(s.polling_list)
  BY DEF Poll
<1>2. Attempted(s) \subseteq Members(s.polling_list)
  BY <1>1 DEF Attempted, Members
<1>3. ~MorePolls(s) => Attempted(s) = Members(s.polling_list)
  BY <1>1 DEF Attempted, Members, MorePolls
<1>4. IsFiniteSet(Members(s.polling_list))
  BY <1>1, MembersFacts
<1>5. IsFiniteSet(Unheld(s)) /\ IsFiniteSet(Settled(s))
  BY <1>2, <1>4, FS_Subset DEF Unheld, Settled
<1> QED
  BY <1>2, <1>3, <1>5, FS_CardinalityType DEF Unheld, Settled

\* A read request only touches the client's queue: it is queued, coalesced or dropped.
LEMMA ReadFacts ==
    ASSUME NEW s \in Poll, NEW erd \in Erd
    PROVE  LET t == tiny_gea3_erd_client_read(s, erd)
           IN  /\ t \in Poll /\ t = [s EXCEPT !.requests = t.requests]
               /\ Queued(s, erd) => Members(t.requests) = Members(s.requests) \cup {erd}
               /\ Queued(s, erd) /\ erd \notin Members(s.requests) =>
                      t.requests = Append(s.requests, erd)
               /\ ~Queued(s, erd) => t = s
<1>1. s.requests \in Seq(Erd)
  BY DEF Poll
<1>2. /\ Append(s.requests, erd) \in Seq(Erd)
      /\ Members(Append(s.requests, erd)) = Members(s.requests) \cup {erd}
  BY <1>1, AppendFacts
<1>3. s = [s EXCEPT !.requests = s.requests]
  BY DEF Poll
<1>4. CASE Queued(s, erd) /\ ~Coalesced(s, erd)
  <2>1. tiny_gea3_erd_client_read(s, erd) = [s EXCEPT !.requests = Append(s.requests, erd)]
    BY <1>4 DEF tiny_gea3_erd_client_read
  <2>2. [s EXCEPT !.requests = Append(s.requests, erd)] \in Poll
    BY <1>2 DEF Poll
  <2>3. [s EXCEPT !.requests = Append(s.requests, erd)].requests = Append(s.requests, erd)
    BY DEF Poll
  <2> QED
    BY <1>2, <1>4, <2>1, <2>2, <2>3
<1>5. CASE ~(Queued(s, erd) /\ ~Coalesced(s, erd))
  <2>1. tiny_gea3_erd_client_read(s, erd) = s
    BY <1>5 DEF tiny_gea3_erd_client_read
  <2>2. Coalesced(s, erd) => erd \in Members(s.requests)
    BY DEF Coalesced
  <2> QED
    BY <1>3, <1>5, <2>1, <2>2
<1> QED
  BY <1>4, <1>5

(* The failure accounting touches nothing but the two failure fields.      *)
LEMMA AccountFacts ==
    ASSUME NEW s \in Poll
    PROVE  LET t == AccountCycle(s)
           IN  /\ t \in Poll
               /\ t = [s EXCEPT !.polling_failure_count = t.polling_failure_count,
                                !.cycle_has_failure = FALSE]
<1> DEFINE t == AccountCycle(s)
<1>1. (s.polling_failure_count + 1) % CounterRange \in 0 .. CounterRange - 1
  BY PollConstants DEF Poll
<1>2. 0 \in 0 .. CounterRange - 1
  BY PollConstants
<1>3. PICK n \in 0 .. CounterRange - 1 :
          t = [s EXCEPT !.polling_failure_count = n, !.cycle_has_failure = FALSE]
  BY <1>1, <1>2 DEF AccountCycle, Poll
<1>4. [s EXCEPT !.polling_failure_count = n, !.cycle_has_failure = FALSE] \in Poll
  BY DEF Poll
<1>5. t.polling_failure_count = n
  BY <1>3 DEF Poll
<1> QED
  BY <1>3, <1>4, <1>5

\* A request the client refuses counts as completed at once.
LEMMA DroppedFacts ==
    ASSUME NEW s \in Poll, Armed(s)
    PROVE  LET t == DroppedPoll(s)
           IN  /\ t \in Poll /\ Armed(t) /\ SameList(s, t)
               /\ t.current_state = s.current_state /\ t.requests = s.requests
               /\ t.erd_index = s.erd_index
               /\ t.cycle_completed_count = s.cycle_completed_count + 1
<1> DEFINE c == [s EXCEPT !.cycle_completed_count = @ + 1]
           a == AccountCycle(c)
<1>1. /\ c \in Poll /\ Armed(c) /\ SameList(s, c)
      /\ c.current_state = s.current_state /\ c.requests = s.requests
      /\ c.erd_index = s.erd_index
      /\ c.cycle_completed_count = s.cycle_completed_count + 1
  <2>1. /\ c \in Poll /\ SameList(s, c)
        /\ c.current_state = s.current_state /\ c.requests = s.requests
        /\ c.erd_index = s.erd_index
        /\ c.cycle_completed_count = s.cycle_completed_count + 1
    BY DEF Poll, SameList
  <2>2. /\ c.polling_timer_armed = s.polling_timer_armed
        /\ c.polling_timer = s.polling_timer
    BY DEF Poll
  <2> QED
    BY <2>1, <2>2 DEF Armed
<1> HIDE DEF c
<1>2. /\ a \in Poll
      /\ a = [c EXCEPT !.polling_failure_count = a.polling_failure_count,
                       !.cycle_has_failure = FALSE]
  BY <1>1, AccountFacts
<1> HIDE DEF a
<1>3. /\ a.polling_timer_armed = c.polling_timer_armed
      /\ a.polling_timer = c.polling_timer /\ SameList(c, a)
      /\ a.current_state = c.current_state /\ a.requests = c.requests
      /\ a.erd_index = c.erd_index /\ a.cycle_completed_count = c.cycle_completed_count
  BY <1>1, <1>2 DEF Poll, SameList
<1>4. /\ arm_polling_timer(a) \in Poll /\ Armed(arm_polling_timer(a))
      /\ SameList(a, arm_polling_timer(a))
      /\ arm_polling_timer(a).current_state = a.current_state
      /\ arm_polling_timer(a).requests = a.requests
      /\ arm_polling_timer(a).erd_index = a.erd_index
      /\ arm_polling_timer(a).cycle_completed_count = a.cycle_completed_count
  BY <1>2 DEF arm_polling_timer, Poll, Armed, SameList
<1>5. DroppedPoll(s) \in {c, a, arm_polling_timer(a)}
  BY DEF DroppedPoll, c, a
<1> QED
  BY <1>1, <1>2, <1>3, <1>4, <1>5 DEF Armed, SameList

(* A read of the cycle is held by the client or counted at once.           *)
LEMMA SendStep ==
    ASSUME NEW s \in Poll, Sending(s), MorePolls(s)
    PROVE  LET t == send_next_poll_read_request(s)
           IN  Sending(t) /\ SameList(s, t) /\ t.erd_index = s.erd_index + 1
<1> DEFINE erd == s.polling_list[s.erd_index + 1]
           read == tiny_gea3_erd_client_read(s, erd)
           next == [read EXCEPT !.erd_index = @ + 1]
           t == send_next_poll_read_request(s)
<1>1. /\ s.polling_list \in Seq(Erd) /\ s.erd_index \in Nat /\ s.requests \in Seq(Erd)
      /\ s.cycle_completed_count \in Nat /\ s.erd_index + 1 \in 1 .. Len(s.polling_list)
      /\ s.erd_set \in SUBSET Erd
  BY DEF Poll, MorePolls
<1>2. erd \in Erd
  BY <1>1
<1>3. /\ read \in Poll /\ read = [s EXCEPT !.requests = read.requests]
      /\ Queued(s, erd) => Members(read.requests) = Members(s.requests) \cup {erd}
      /\ Queued(s, erd) /\ erd \notin Members(s.requests) =>
             read.requests = Append(s.requests, erd)
      /\ ~Queued(s, erd) => read = s
  BY <1>2, ReadFacts, Zenon
<1> HIDE DEF read
<1>4. /\ next \in Poll /\ SameList(s, next) /\ next.current_state = s.current_state
      /\ next.erd_index = s.erd_index + 1 /\ next.requests = read.requests
      /\ next.cycle_completed_count = s.cycle_completed_count
      /\ next.polling_timer = s.polling_timer
      /\ next.polling_timer_armed = s.polling_timer_armed
  <2>1. read \in Poll
    BY <1>3
  <2>2. read.erd_index + 1 \in Nat
    BY <2>1 DEF Poll
  <2>3. /\ next \in Poll /\ SameList(read, next) /\ next.current_state = read.current_state
        /\ next.erd_index = read.erd_index + 1 /\ next.requests = read.requests
        /\ next.cycle_completed_count = read.cycle_completed_count
    <3> HIDE DEF t
    <3>1. next \in Poll
      BY <2>1, <2>2 DEF Poll
    <3>2. SameList(read, next) /\ next.current_state = read.current_state
      BY <2>1 DEF Poll, SameList
    <3>3. next.erd_index = read.erd_index + 1 /\ next.requests = read.requests
      BY <2>1 DEF Poll
    <3>4. next.cycle_completed_count = read.cycle_completed_count
      BY <2>1 DEF Poll
    <3> QED
      BY <3>1, <3>2, <3>3, <3>4
  <2>4. /\ next.polling_timer = read.polling_timer
        /\ next.polling_timer_armed = read.polling_timer_armed
    BY <2>1 DEF Poll
  <2>5. /\ SameList(s, read) /\ read.current_state = s.current_state
        /\ read.erd_index = s.erd_index
        /\ read.cycle_completed_count = s.cycle_completed_count
    BY <1>3 DEF Poll, SameList
  <2>6. /\ read.polling_timer = s.polling_timer
        /\ read.polling_timer_armed = s.polling_timer_armed
    BY <1>3 DEF Poll
  <2> HIDE DEF next
  <2> QED
    BY <2>3, <2>4, <2>5, <2>6 DEF SameList
<1>5. t = IF Queued(s, erd) THEN next ELSE DroppedPoll(next)
  BY DEF send_next_poll_read_request, read
<1> HIDE DEF next, t
<1>6. Armed(next)
  BY <1>4 DEF Armed, Sending
<1>7. LET d == DroppedPoll(next)
      IN  /\ d \in Poll /\ Armed(d) /\ SameList(next, d)
          /\ d.current_state = next.current_state /\ d.requests = next.requests
          /\ d.erd_index = next.erd_index
          /\ d.cycle_completed_count = next.cycle_completed_count + 1
  BY <1>4, <1>6, DroppedFacts
<1>8. /\ t \in Poll /\ Armed(t) /\ SameList(s, t) /\ t.current_state = "polling"
      /\ t.erd_index = s.erd_index + 1 /\ t.requests = read.requests
      /\ t.cycle_completed_count = IF Queued(s, erd) THEN s.cycle_completed_count
                                   ELSE s.cycle_completed_count + 1
  <2>1. CASE Queued(s, erd)
    BY <1>4, <1>5, <1>6, <2>1 DEF Sending
  <2>2. CASE ~Queued(s, erd)
    BY <1>4, <1>5, <1>7, <2>2 DEF Sending, SameList
  <2> QED
    BY <2>1, <2>2
<1>9. t.erd_index <= Len(t.polling_list) /\ ListInv(t)
  BY <1>1, <1>8 DEF SameList, Sending, ListInv
<1>10. Attempted(t) = Attempted(s) \cup {erd}
  BY <1>1, <1>8 DEF Attempted, SameList
<1>11. Cardinality(Unheld(t)) <= t.cycle_completed_count
  <2>1. /\ IsFiniteSet(Unheld(s)) /\ Cardinality(Unheld(s)) \in Nat
        /\ Cardinality(Unheld(s)) <= s.cycle_completed_count
    BY UnheldFacts DEF Sending, CycleInv
  <2>2. IsFiniteSet(Unheld(t)) /\ Cardinality(Unheld(t)) \in Nat
    BY <1>8, <1>9, UnheldFacts
  <2>3. CASE Queued(s, erd)
    <3>1. Unheld(t) \in SUBSET Unheld(s)
      BY <1>3, <1>8, <1>10, <2>3 DEF Unheld
    <3> QED
      BY <1>1, <1>8, <2>1, <2>2, <2>3, <3>1, FS_Subset
  <2>4. CASE ~Queued(s, erd)
    <3>1. Unheld(t) \in SUBSET (Unheld(s) \cup {erd})
      BY <1>3, <1>8, <1>10, <2>4 DEF Unheld
    <3>2. /\ IsFiniteSet(Unheld(s) \cup {erd})
          /\ Cardinality(Unheld(s) \cup {erd}) <= Cardinality(Unheld(s)) + 1
      BY <2>1, FS_AddElement
    <3>3. Cardinality(Unheld(t)) <= Cardinality(Unheld(s) \cup {erd})
      BY <3>1, <3>2, FS_Subset
    <3>4. Cardinality(Unheld(s) \cup {erd}) \in Nat
      BY <3>2, FS_CardinalityType
    <3> QED
      BY <1>1, <1>8, <2>1, <2>2, <2>4, <3>2, <3>3, <3>4
  <2> QED
    BY <2>3, <2>4
<1>12. ~bus.long_list => OwnReads(t)
  <2>1. SUFFICES ASSUME ~bus.long_list PROVE OwnReads(t)
    OBVIOUS
  <2>2. /\ s.cycle_completed_count + Len(s.requests) = s.erd_index
        /\ Distinct(s.requests) /\ Members(s.requests) \subseteq Attempted(s)
    BY <2>1 DEF Sending, OwnReads
  <2>3. erd \notin Attempted(s)
    BY <1>1 DEF Sending, ListInv, Distinct, Attempted
  <2>4. CASE Queued(s, erd)
    <3>1. t.requests = Append(s.requests, erd)
      BY <1>3, <1>8, <2>2, <2>3, <2>4
    <3>2. /\ Len(t.requests) = Len(s.requests) + 1 /\ Distinct(t.requests)
          /\ Members(t.requests) = Members(s.requests) \cup {erd}
      BY <1>1, <1>2, <2>2, <2>3, <3>1, AppendFacts
    <3> QED
      BY <1>1, <1>8, <1>10, <2>2, <2>4, <3>2 DEF OwnReads
  <2>5. CASE ~Queued(s, erd)
    <3>1. /\ t.requests = s.requests
          /\ t.cycle_completed_count = s.cycle_completed_count + 1
      BY <1>3, <1>8, <2>5
    <3>2. Distinct(t.requests) /\ Members(t.requests) \subseteq Attempted(t)
      BY <1>10, <2>2, <3>1, Zenon
    <3>3. Len(t.requests) = Len(s.requests) /\ Len(s.requests) \in Nat
      BY <1>1, <3>1
    <3>4. t.erd_index = s.erd_index + 1
      BY <1>8
    <3>5. s.cycle_completed_count \in Nat /\ s.erd_index \in Nat
      BY <1>1
    <3>6. s.cycle_completed_count + Len(s.requests) = s.erd_index
      BY <2>2
    <3>7. (s.cycle_completed_count + 1) + Len(s.requests) = s.erd_index + 1
      BY <3>3, <3>5, <3>6
    <3>8. t.cycle_completed_count + Len(t.requests) = t.erd_index
      BY <3>1, <3>4, <3>7, Zenon
    <3> QED
      BY <3>2, <3>8 DEF OwnReads
  <2> QED
    BY <2>4, <2>5
<1> QED
  BY <1>8, <1>9, <1>11, <1>12 DEF Sending, CycleInv, t

(* As many reads as the time budget allows keep the cycle going.           *)
LEMMA ReadsSent ==
    ASSUME NEW s \in Poll, Sending(s), NEW n \in Nat,
           s.erd_index + n <= Len(s.polling_list)
    PROVE  LET t == AfterPolls(s, n)
           IN  /\ Sending(t) /\ SameList(s, t) /\ t.erd_index = s.erd_index + n
               /\ n = 0 => t = s
<1> DEFINE After(i) == {t \in Poll : /\ Sending(t) /\ SameList(s, t)
                                     /\ t.erd_index = s.erd_index + i
                                     /\ i = 0 => t = s}
           R == [i \in 0 .. n |-> After(i)]
<1>1. s.erd_index \in Nat /\ Len(s.polling_list) \in Nat
  BY DEF Poll
<1>2. s \in R[0]
  BY <1>1 DEF SameList
<1>3. ASSUME NEW i \in 0 .. n - 1, NEW t \in R[i]
      PROVE  send_next_poll_read_request(t) \in R[i + 1]
  <2> DEFINE u == send_next_poll_read_request(t)
  <2>1. i \in 0 .. n /\ i + 1 \in 0 .. n /\ i + 1 # 0 /\ i \in Nat
    OBVIOUS
  <2>2. t \in Poll /\ Sending(t) /\ SameList(s, t) /\ t.erd_index = s.erd_index + i
    BY <2>1
  <2>3. MorePolls(t)
    BY <1>1, <2>1, <2>2 DEF SameList, MorePolls
  <2>4. Sending(u) /\ SameList(t, u) /\ u.erd_index = t.erd_index + 1
    BY <2>2, <2>3, SendStep
  <2> HIDE DEF u
  <2>5. u \in Poll /\ SameList(s, u) /\ u.erd_index = s.erd_index + (i + 1)
    BY <1>1, <2>1, <2>2, <2>4 DEF SameList, Sending
  <2>6. u \in After(i + 1)
    BY <2>1, <2>4, <2>5
  <2> QED
    BY <2>1, <2>6 DEF u
<1> HIDE DEF R
<1>4. AfterPolls(s, n) \in R[n]
  BY <1>2, <1>3, AfterIn
<1> QED
  BY <1>4 DEF R

\* What a polling bridge keeps between two steps.
Polling(s) == /\ s.current_state = "polling" /\ StructInv(s)

\* Arming the timer after a burst of reads leaves the bridge polling correctly.
LEMMA SentInv ==
    ASSUME NEW s \in Poll, Sending(s), NEW more \in BOOLEAN,
           ~bus.long_list => Members(ProbeList) \subseteq s.erd_set,
           MorePolls(s) => more
    PROVE  LET t == [arm_polling_timer(s) EXCEPT !.cycle_sending_in_progress = more]
           IN  Polling(t) /\ SameList(s, t) /\ t.requests = s.requests /\ t.polling_timer
<1> DEFINE t == [arm_polling_timer(s) EXCEPT !.cycle_sending_in_progress = more]
<1>1. t \in Poll
  BY DEF arm_polling_timer, Poll
<1>2. /\ SameList(s, t) /\ t.current_state = s.current_state /\ t.requests = s.requests
      /\ t.erd_index = s.erd_index /\ t.cycle_completed_count = s.cycle_completed_count
  BY DEF arm_polling_timer, Poll, SameList
<1>3. t.polling_timer = TRUE /\ t.polling_timer_armed = TRUE
  BY DEF arm_polling_timer, Poll
<1>4. t.cycle_sending_in_progress = more
  BY DEF arm_polling_timer, Poll
<1> HIDE DEF t
<1>5. TimerInv(t)
  BY <1>3, Zenon DEF TimerInv, Armed
<1>6. Attempted(t) = Attempted(s)
  BY <1>2 DEF Attempted, SameList
<1>7. CycleInv(t) /\ ListInv(t)
  BY <1>2, <1>6 DEF Sending, CycleInv, ListInv, SameList, Unheld
<1>8. ~bus.long_list => OwnReads(t)
  BY <1>2, <1>6 DEF Sending, OwnReads
<1>9. MorePolls(t) => t.cycle_sending_in_progress
  BY <1>2, <1>4, Zenon DEF MorePolls, SameList
<1>10. ~bus.long_list => QuietPolling(t)
  BY <1>2, <1>8, <1>9, Zenon DEF QuietPolling, SameList
<1>11. t.current_state = "polling"
  BY <1>2 DEF Sending
<1>12. QuietInv(t)
  BY <1>10, <1>11 DEF QuietInv
<1> QED
  BY <1>1, <1>2, <1>3, <1>5, <1>7, <1>11, <1>12, Zenon DEF Polling, StructInv, t

(* send_cycle_reads leaves a timer running, whatever the budget.           *)
LEMMA CycleReadsSent ==
    ASSUME NEW s \in Poll, Sending(s),
           ~bus.long_list => Members(ProbeList) \subseteq s.erd_set,
           NEW t \in send_cycle_reads(s)
    PROVE  /\ Polling(t) /\ SameList(s, t) /\ t.polling_timer
           /\ s.polling_list = <<>> => t.requests = s.requests
<1> DEFINE left == IF MorePolls(s) THEN Len(s.polling_list) - s.erd_index ELSE 0
<1>1. /\ s.erd_index \in Nat /\ Len(s.polling_list) \in Nat
      /\ s.erd_index <= Len(s.polling_list)
  BY DEF Poll, Sending, CycleInv
<1>2. left \in Nat /\ s.erd_index + left = Len(s.polling_list)
  BY <1>1 DEF MorePolls
<1>3. PICK n \in Nat, more \in BOOLEAN :
          /\ t = [arm_polling_timer(AfterPolls(s, n))
                      EXCEPT !.cycle_sending_in_progress = more]
          /\ n <= left /\ (n < left => more)
  <2> DEFINE Sent(n, more) == [arm_polling_timer(AfterPolls(s, n))
                                  EXCEPT !.cycle_sending_in_progress = more]
             pauses == {n \in 1 .. left : n % Chunk = 0 \/ n = left}
  <2>1. send_cycle_reads(s) = {Sent(left, FALSE)} \cup {Sent(n, TRUE) : n \in pauses}
    BY Zenon DEF send_cycle_reads
  <2> HIDE DEF left, Sent
  <2>2. CASE t = Sent(left, FALSE)
    <3>1. left <= left /\ (left < left => FALSE)
      BY <1>2
    <3> QED
      BY <1>2, <2>2, <3>1 DEF Sent
  <2>3. CASE t \in {Sent(n, TRUE) : n \in pauses}
    <3>1. PICK n \in 1 .. left : t = Sent(n, TRUE)
      BY <2>3
    <3>2. n \in Nat /\ n <= left /\ (n < left => TRUE)
      BY <1>2
    <3> QED
      BY <3>1, <3>2 DEF Sent
  <2> QED
    BY <2>1, <2>2, <2>3
<1> DEFINE u == AfterPolls(s, n)
<1>4. /\ Sending(u) /\ SameList(s, u) /\ u.erd_index = s.erd_index + n
      /\ n = 0 => u = s
  BY <1>1, <1>2, <1>3, ReadsSent
<1> HIDE DEF u
<1>5. u \in Poll
  BY <1>4 DEF Sending
<1>6. ~bus.long_list => Members(ProbeList) \subseteq u.erd_set
  BY <1>4 DEF SameList
<1>7. MorePolls(u) => more
  BY <1>1, <1>2, <1>3, <1>4 DEF MorePolls, SameList
<1>8. t = [arm_polling_timer(u) EXCEPT !.cycle_sending_in_progress = more]
  BY <1>3 DEF u
<1>9. Polling(t) /\ SameList(u, t) /\ t.requests = u.requests /\ t.polling_timer
  BY <1>4, <1>5, <1>6, <1>7, <1>8, SentInv
<1>10. s.polling_list = <<>> => t.requests = s.requests
  <2>1. s.polling_list = <<>> => n = 0
    BY <1>1, <1>2, <1>3
  <2> QED
    BY <1>4, <1>9, <2>1
<1> QED
  BY <1>4, <1>9, <1>10 DEF SameList

(* A cycle starts with nothing attempted; it must not start over requests  *)
(* of the last one.                                                        *)
LEMMA CycleStarted ==
    ASSUME NEW s \in Poll, s.current_state = "polling", ListInv(s), Armed(s),
           ~bus.long_list => s.requests = <<>> /\ Members(ProbeList) \subseteq s.erd_set,
           NEW t \in StartCycle(s)
    PROVE  /\ Polling(t) /\ SameList(s, t) /\ t.polling_timer
           /\ s.polling_list = <<>> => t.requests = s.requests
<1> DEFINE u == [s EXCEPT !.erd_index = 0, !.cycle_completed_count = 0]
<1>1. u \in Poll
  BY DEF Poll
<1>2. /\ u.current_state = "polling" /\ SameList(s, u) /\ u.requests = s.requests
      /\ u.erd_index = 0 /\ u.cycle_completed_count = 0
  BY DEF Poll, SameList
<1>3. u.polling_timer = s.polling_timer /\ u.polling_timer_armed = s.polling_timer_armed
  BY DEF Poll
<1>4. t \in send_cycle_reads(u)
  BY DEF StartCycle
<1> HIDE DEF u
<1>5. ListInv(u)
  BY <1>2 DEF ListInv, SameList
<1>6. CycleInv(u)
  <2>1. Unheld(u) = {}
    BY <1>2 DEF Unheld, Attempted
  <2>2. Len(u.polling_list) \in Nat
    BY <1>1 DEF Poll
  <2> QED
    BY <1>2, <2>1, <2>2, FS_EmptySet DEF CycleInv
<1>7. Armed(u)
  BY <1>3, Zenon DEF Armed
<1>8. ~bus.long_list => OwnReads(u)
  <2>1. SUFFICES ASSUME ~bus.long_list PROVE OwnReads(u)
    OBVIOUS
  <2>2. u.requests = <<>>
    BY <1>2, <2>1
  <2>3. Len(u.requests) = 0 /\ Members(u.requests) = {} /\ Distinct(u.requests)
    BY <2>2 DEF Members, Distinct
  <2> QED
    BY <1>2, <2>3 DEF OwnReads
<1>9. Sending(u)
  BY <1>1, <1>2, <1>5, <1>6, <1>7, <1>8 DEF Sending
<1>10. ~bus.long_list => Members(ProbeList) \subseteq u.erd_set
  BY <1>2 DEF SameList
<1>11. /\ Polling(t) /\ SameList(u, t) /\ t.polling_timer
       /\ u.polling_list = <<>> => t.requests = u.requests
  BY <1>1, <1>4, <1>9, <1>10, CycleReadsSent
<1> QED
  BY <1>2, <1>11 DEF SameList

-----------------------------------------------------------------------------
(* Answers.                                                                *)

\* u is s without its oldest request; h may have joined the polling list.
Took(s, u, h) ==
    /\ u.current_state = s.current_state /\ u.requests = Tail(s.requests)
    /\ u.erd_index = s.erd_index /\ u.cycle_completed_count = s.cycle_completed_count
    /\ u.polling_timer = s.polling_timer /\ u.polling_timer_armed = s.polling_timer_armed
    /\ u.cycle_sending_in_progress = s.cycle_sending_in_progress
    /\ \/ SameList(s, u)
       \/ /\ h \notin s.erd_set
          /\ u.polling_list = Append(s.polling_list, h) /\ u.erd_set = s.erd_set \cup {h}

(* A new entry of the polling list is at its end, and not polled before.   *)
LEMMA TookList ==
    ASSUME NEW s \in Poll, NEW u \in Poll, s.requests # <<>>, ListInv(s),
           Took(s, u, Head(s.requests))
    PROVE  /\ ListInv(u) /\ Len(s.polling_list) <= Len(u.polling_list)
           /\ \A k \in 1 .. Len(s.polling_list) : u.polling_list[k] = s.polling_list[k]
           /\ Members(u.polling_list) \subseteq
                  Members(s.polling_list) \cup {Head(s.requests)}
           /\ s.erd_set \subseteq u.erd_set
<1> DEFINE h == Head(s.requests)
<1>1. /\ s.polling_list \in Seq(Erd) /\ s.requests \in Seq(Erd)
      /\ Len(s.polling_list) \in Nat
  BY DEF Poll
<1>2. h \in Erd
  BY <1>1, TailFacts
<1>3. CASE SameList(s, u)
  BY <1>1, <1>3 DEF SameList, ListInv
<1>4. CASE /\ h \notin s.erd_set /\ u.erd_set = s.erd_set \cup {h}
           /\ u.polling_list = Append(s.polling_list, h)
  <2>1. h \notin Members(s.polling_list)
    BY <1>4 DEF ListInv
  <2>2. /\ Len(u.polling_list) = Len(s.polling_list) + 1
        /\ \A i \in 1 .. Len(s.polling_list) : u.polling_list[i] = s.polling_list[i]
        /\ Members(u.polling_list) = Members(s.polling_list) \cup {h}
        /\ Distinct(u.polling_list)
    BY <1>1, <1>2, <1>4, <2>1, AppendFacts DEF ListInv
  <2> QED
    BY <1>1, <1>4, <2>2 DEF ListInv
<1> QED
  BY <1>3, <1>4 DEF Took

(* An answer moves at most one ERD out of the requests, and is counted.    *)
LEMMA CountedFacts ==
    ASSUME NEW s \in Poll, Polling(s), s.requests # <<>>,
           NEW u \in Poll, Took(s, u, Head(s.requests))
    PROVE  LET w == [u EXCEPT !.cycle_completed_count = @ + 1]
           IN  /\ Sending(w) /\ SameList(u, w)
               /\ Cardinality(Settled(s)) <= s.cycle_completed_count =>
                      Cardinality(Settled(w)) <= w.cycle_completed_count
               /\ ~bus.long_list =>
                      /\ Members(ProbeList) \subseteq w.erd_set
                      /\ MorePolls(w) => w.cycle_sending_in_progress
<1> DEFINE w == [u EXCEPT !.cycle_completed_count = @ + 1]
           h == Head(s.requests)
<1>1. u.cycle_completed_count + 1 \in Nat
  BY DEF Poll
<1>2. w \in Poll
  BY <1>1 DEF Poll
<1>3. /\ SameList(u, w) /\ w.current_state = u.current_state /\ w.requests = u.requests
      /\ w.erd_index = u.erd_index
      /\ w.cycle_completed_count = u.cycle_completed_count + 1
  BY DEF Poll, SameList
<1>4. /\ w.polling_timer = u.polling_timer /\ w.polling_timer_armed = u.polling_timer_armed
      /\ w.cycle_sending_in_progress = u.cycle_sending_in_progress
  BY DEF Poll
<1> HIDE DEF w
<1>5. /\ ListInv(s) /\ CycleInv(s) /\ TimerInv(s) /\ QuietInv(s)
      /\ s.current_state = "polling"
  BY DEF Polling, StructInv
<1>6. /\ ListInv(u) /\ Len(s.polling_list) <= Len(u.polling_list)
      /\ \A k \in 1 .. Len(s.polling_list) : u.polling_list[k] = s.polling_list[k]
      /\ Members(u.polling_list) \subseteq Members(s.polling_list) \cup {h}
      /\ s.erd_set \subseteq u.erd_set
  BY <1>5, TookList
<1>7. /\ s.requests \in Seq(Erd) /\ s.erd_index \in Nat /\ s.cycle_completed_count \in Nat
      /\ Len(s.polling_list) \in Nat /\ Len(u.polling_list) \in Nat
      /\ Len(s.requests) \in Nat
  BY DEF Poll
<1>8. /\ w.current_state = "polling" /\ w.requests = Tail(s.requests)
      /\ w.erd_index = s.erd_index
      /\ w.cycle_completed_count = s.cycle_completed_count + 1
  BY <1>3, <1>5 DEF Took
<1>9. /\ Len(w.requests) = Len(s.requests) - 1
      /\ Members(s.requests) = Members(w.requests) \cup {h}
      /\ Distinct(s.requests) => Distinct(w.requests)
  BY <1>7, <1>8, TailFacts
<1>10. s.erd_index <= Len(s.polling_list) /\ w.erd_index <= Len(w.polling_list)
  BY <1>3, <1>5, <1>6, <1>7, <1>8 DEF CycleInv, SameList
<1>11. Attempted(w) = Attempted(s)
  <2>1. \A k \in 1 .. s.erd_index : w.polling_list[k] = s.polling_list[k]
    BY <1>3, <1>6, <1>7, <1>10 DEF SameList
  <2> QED
    BY <1>8, <2>1 DEF Attempted
<1>12. /\ IsFiniteSet(Unheld(s)) /\ Cardinality(Unheld(s)) \in Nat
       /\ IsFiniteSet(Settled(s)) /\ Cardinality(Settled(s)) \in Nat
       /\ Cardinality(Unheld(w)) \in Nat /\ Cardinality(Settled(w)) \in Nat
  BY <1>2, <1>10, UnheldFacts
<1>13. /\ Unheld(w) \in SUBSET (Unheld(s) \cup {h})
       /\ Settled(w) \in SUBSET (Settled(s) \cup {h})
  BY <1>3, <1>6, <1>9, <1>11 DEF Unheld, Settled, SameList
<1>14. ASSUME NEW S, NEW T \in SUBSET (S \cup {h}), IsFiniteSet(S),
              Cardinality(S) \in Nat, Cardinality(T) \in Nat,
              Cardinality(S) <= s.cycle_completed_count
       PROVE  Cardinality(T) <= w.cycle_completed_count
  <2>1. /\ IsFiniteSet(S \cup {h}) /\ Cardinality(S \cup {h}) <= Cardinality(S) + 1
    <3>1. IsFiniteSet(S) /\ Cardinality(S) \in Nat
      BY <1>14
    <3>2. /\ IsFiniteSet(S \cup {h})
          /\ Cardinality(S \cup {h}) = IF h \in S THEN Cardinality(S) ELSE Cardinality(S) + 1
      BY <3>1, FS_AddElement, Zenon
    <3> QED
      BY <3>1, <3>2
  <2>2. Cardinality(S \cup {h}) \in Nat /\ Cardinality(T) <= Cardinality(S \cup {h})
    BY <2>1, FS_CardinalityType, FS_Subset
  <2> QED
    BY <1>7, <1>8, <1>14, <2>1, <2>2
<1>15. CycleInv(w)
  BY <1>5, <1>10, <1>12, <1>13, <1>14 DEF CycleInv
<1>16. Cardinality(Settled(s)) <= s.cycle_completed_count =>
           Cardinality(Settled(w)) <= w.cycle_completed_count
  BY <1>12, <1>13, <1>14
<1>17. Armed(w)
  BY <1>4, <1>5, Zenon DEF Took, TimerInv, Armed
<1>18. ListInv(w)
  BY <1>3, <1>6 DEF ListInv, SameList
<1>19. ASSUME ~bus.long_list
       PROVE  /\ OwnReads(w) /\ Members(ProbeList) \subseteq w.erd_set
              /\ MorePolls(w) => w.cycle_sending_in_progress
  <2>1. QuietPolling(s)
    BY <1>5, <1>19 DEF QuietInv
  <2>2. /\ s.cycle_completed_count + Len(s.requests) = s.erd_index
        /\ Distinct(s.requests) /\ Members(s.requests) \subseteq Attempted(s)
    BY <2>1 DEF QuietPolling, OwnReads
  <2>3. w.cycle_completed_count + Len(w.requests) = w.erd_index
    <3> DEFINE c == s.cycle_completed_count
               n == Len(s.requests)
    <3>1. c \in Nat /\ n \in Nat /\ c + n = s.erd_index
      BY <1>7, <2>2
    <3> HIDE DEF c, n
    <3>2. (c + 1) + (n - 1) = s.erd_index
      BY <3>1
    <3>3. w.cycle_completed_count = c + 1 /\ Len(w.requests) = n - 1
      BY <1>8, <1>9 DEF c, n
    <3> QED
      BY <1>8, <3>2, <3>3
  <2>4. OwnReads(w)
    BY <1>9, <1>11, <2>2, <2>3 DEF OwnReads
  <2>5. Members(ProbeList) \subseteq w.erd_set
    BY <1>3, <1>6, <2>1 DEF QuietPolling, SameList
  <2>6. SameList(s, u)
    <3>1. h \in Members(s.requests) /\ Attempted(s) \subseteq Members(s.polling_list)
      BY <1>9, <1>10, UnheldFacts
    <3>2. h \in s.erd_set
      BY <1>5, <2>2, <3>1 DEF ListInv
    <3> QED
      BY <3>2 DEF Took
  <2>7. MorePolls(w) => MorePolls(s)
    BY <1>3, <1>8, <2>6 DEF MorePolls, SameList
  <2>8. MorePolls(w) => w.cycle_sending_in_progress
    BY <1>4, <2>1, <2>7, Zenon DEF QuietPolling, Took
  <2> QED
    BY <2>4, <2>5, <2>8
<1> QED
  BY <1>2, <1>3, <1>8, <1>15, <1>16, <1>17, <1>18, <1>19, Zenon DEF Sending, w

(* When the bridge's own reads are all counted, none is outstanding.       *)
LEMMA CompleteMeansAnswered ==
    ASSUME NEW s \in Poll, CycleInv(s), OwnReads(s), CycleComplete(s)
    PROVE  s.requests = <<>>
<1>1. s.cycle_completed_count + Len(s.requests) = s.erd_index
  BY DEF OwnReads
<1>2. /\ s.cycle_completed_count \in Nat /\ s.erd_index \in Nat
      /\ Len(s.requests) \in Nat /\ Len(s.polling_list) \in Nat
      /\ s.requests \in Seq(Erd)
  BY DEF Poll
<1>3. Len(s.requests) = 0
  BY <1>1, <1>2 DEF CycleInv, CycleComplete
<1> QED
  BY <1>2, <1>3, MembersFacts

(* Whatever the answer completes, polling goes on: the cycle awaits more   *)
(* answers, waits for the timer, or starts again.                          *)
LEMMA CountedStep ==
    ASSUME NEW s \in Poll, Polling(s), s.requests # <<>>,
           NEW u \in Poll, Took(s, u, Head(s.requests)), NEW v \in Counted(u)
    PROVE  Polling(v) /\ SameList(u, v)
<1> DEFINE w == [u EXCEPT !.cycle_completed_count = @ + 1]
           a == AccountCycle(w)
<1>1. /\ Sending(w) /\ SameList(u, w)
      /\ Cardinality(Settled(s)) <= s.cycle_completed_count =>
             Cardinality(Settled(w)) <= w.cycle_completed_count
      /\ ~bus.long_list => /\ Members(ProbeList) \subseteq w.erd_set
                           /\ MorePolls(w) => w.cycle_sending_in_progress
  BY CountedFacts
<1>2. w.polling_timer = s.polling_timer
  BY DEF Poll, Took
<1>3. v \in IF CycleComplete(w)
            THEN on_polling_cycle_complete(w, w.restart_pending \/ ~w.polling_timer_armed)
            ELSE {w}
  BY Zenon DEF Counted
<1> HIDE DEF w
<1>4. w \in Poll /\ w.current_state = "polling" /\ ListInv(w) /\ CycleInv(w) /\ Armed(w)
  BY <1>1 DEF Sending
<1>5. CASE ~CycleComplete(w)
  <2>1. v = w
    BY <1>3, <1>5
  <2>2. TimerInv(w)
    BY <1>1, <1>2, <1>4, <1>5, Zenon DEF Polling, StructInv, TimerInv, Awaiting
  <2>3. QuietInv(w)
    BY <1>1, <1>4 DEF QuietInv, QuietPolling, Sending
  <2> QED
    BY <1>1, <1>4, <2>1, <2>2, <2>3 DEF Polling, StructInv
<1>6. CASE CycleComplete(w)
  <2>1. ~bus.long_list => w.requests = <<>>
    BY <1>1, <1>4, <1>6, CompleteMeansAnswered DEF Sending
  <2>2. /\ a \in Poll
        /\ a = [w EXCEPT !.polling_failure_count = a.polling_failure_count,
                         !.cycle_has_failure = FALSE]
    BY <1>4, AccountFacts
  <2> DEFINE b == [a EXCEPT !.restart_pending = FALSE]
  <2>3. v \in IF w.restart_pending \/ ~w.polling_timer_armed THEN StartCycle(b)
              ELSE IF a.polling_timer_armed THEN {a} ELSE {arm_polling_timer(a)}
    BY <1>3, <1>6, Zenon DEF on_polling_cycle_complete
  <2> HIDE DEF a
  <2>4. /\ a.current_state = "polling" /\ SameList(w, a) /\ a.requests = w.requests
        /\ a.erd_index = w.erd_index /\ a.cycle_completed_count = w.cycle_completed_count
    BY <1>4, <2>2 DEF Poll, SameList
  <2>5. /\ a.polling_timer = w.polling_timer /\ a.polling_timer_armed = w.polling_timer_armed
    BY <1>4, <2>2 DEF Poll
  <2>6. ListInv(a) /\ Armed(a)
    BY <1>4, <2>4, <2>5, Zenon DEF ListInv, SameList, Armed
  <2>7. ~bus.long_list => a.requests = <<>> /\ Members(ProbeList) \subseteq a.erd_set
    BY <1>1, <2>1, <2>4 DEF SameList
  <2>8. CASE v \in StartCycle(b)
    <3>1. /\ b \in Poll /\ b.current_state = "polling" /\ SameList(a, b)
          /\ b.requests = a.requests
      BY <2>2, <2>4 DEF Poll, SameList
    <3>2. b.polling_timer = a.polling_timer /\ b.polling_timer_armed = a.polling_timer_armed
      BY <2>2 DEF Poll
    <3> HIDE DEF b
    <3>3. ListInv(b) /\ Armed(b)
      BY <2>6, <3>1, <3>2, Zenon DEF ListInv, SameList, Armed
    <3>4. ~bus.long_list => b.requests = <<>> /\ Members(ProbeList) \subseteq b.erd_set
      BY <2>7, <3>1 DEF SameList
    <3>5. Polling(v) /\ SameList(b, v)
      BY <2>8, <3>1, <3>3, <3>4, CycleStarted
    <3> QED
      BY <1>1, <2>4, <3>1, <3>5 DEF SameList
  <2>9. CASE v = a /\ w.polling_timer_armed
    <3>1. Attempted(a) = Attempted(w)
      BY <2>4 DEF Attempted, SameList
    <3>2. CycleInv(a)
      BY <1>4, <2>4, <3>1 DEF CycleInv, SameList, Unheld
    <3>3. TimerInv(a)
      BY <1>4, <2>5, <2>6, <2>9, Zenon DEF TimerInv, Armed
    <3>4. ~bus.long_list => OwnReads(a)
      BY <1>1, <2>4, <3>1 DEF Sending, OwnReads
    <3>5. QuietInv(a)
      BY <2>4, <2>7, <3>4 DEF QuietInv, QuietPolling
    <3> QED
      BY <1>1, <2>2, <2>4, <2>6, <2>9, <3>2, <3>3, <3>5 DEF Polling, StructInv, SameList
  <2> QED
    BY <2>3, <2>5, <2>8, <2>9
<1> QED
  BY <1>5, <1>6

-----------------------------------------------------------------------------
(* The entry actions.                                                      *)

\* Entering the polling state starts a cycle from nothing.
LEMMA PollingEntered ==
    ASSUME NEW s \in Poll, ListInv(s),
           ~bus.long_list => s.requests = <<>> /\ Members(ProbeList) \subseteq s.erd_set
    PROVE  LET t == EnterPolling(s)
           IN  Polling(t) /\ SameList(s, t) /\ t.requests = s.requests
<1> DEFINE t == EnterPolling(s)
<1>1. t \in Poll
  BY DEF EnterPolling, arm_polling_timer, Poll
<1>2. /\ t.current_state = "polling" /\ SameList(s, t) /\ t.requests = s.requests
      /\ t.erd_index = 0 /\ t.cycle_completed_count = 0
  BY DEF EnterPolling, arm_polling_timer, Poll, SameList
<1>3. t.polling_timer = TRUE /\ t.polling_timer_armed = TRUE
  BY DEF EnterPolling, arm_polling_timer, Poll
<1> HIDE DEF t
<1>4. ListInv(t)
  BY <1>2 DEF ListInv, SameList
<1>5. TimerInv(t)
  BY <1>3, Zenon DEF TimerInv, Armed
<1>6. CycleInv(t)
  <2>1. Unheld(t) = {}
    BY <1>2 DEF Unheld, Attempted
  <2>2. Len(t.polling_list) \in Nat
    BY <1>1 DEF Poll
  <2> QED
    BY <1>2, <2>1, <2>2, FS_EmptySet DEF CycleInv
<1>7. QuietInv(t)
  <2>1. SUFFICES ASSUME ~bus.long_list PROVE QuietPolling(t)
    BY <1>2 DEF QuietInv
  <2>2. t.requests = <<>> /\ Members(ProbeList) \subseteq t.erd_set
    BY <1>2, <2>1 DEF SameList
  <2>3. Len(t.requests) = 0 /\ Members(t.requests) = {} /\ Distinct(t.requests)
    BY <2>2 DEF Members, Distinct
  <2> QED
    BY <1>2, <2>2, <2>3 DEF QuietPolling, OwnReads
<1> QED
  BY <1>1, <1>2, <1>4, <1>5, <1>6, <1>7 DEF Polling, StructInv, t

\* Nothing is outstanding, and every ERD so far is polled or excluded.
ProbeDue(s) == ~bus.long_list => /\ s.requests = <<>> /\ s.erd_index <= Len(ProbeList)
                                 /\ \A k \in 1 .. s.erd_index : ProbeList[k] \in s.erd_set

(* The next probe is sent, refused, or followed by polling.                *)
LEMMA ProbeGoesOn ==
    ASSUME NEW s \in Poll, s.current_state = "probing", ListInv(s), ProbeDue(s)
    PROVE  LET t == NextProbe(s)
           IN  /\ StructInv(t) /\ SameList(s, t) /\ t.current_state \in {"probing", "polling"}
               /\ s.erd_index < Len(ProbeList) => t.current_state = "probing"
<1> DEFINE r == reset_lost_appliance_timer(s)
           t == NextProbe(s)
<1>1. /\ r \in Poll /\ SameList(s, r) /\ r.current_state = s.current_state
      /\ r.erd_index = s.erd_index /\ r.requests = s.requests
  BY DEF reset_lost_appliance_timer, Poll, SameList
<1>2. t = IF r.erd_index < Len(ProbeList)
          THEN [tiny_gea3_erd_client_read(r, ProbeList[r.erd_index + 1])
                    EXCEPT !.erd_index = @ + 1]
          ELSE EnterPolling(r)
  BY Zenon DEF NextProbe
<1> HIDE DEF r, t
<1>3. ListInv(r) /\ r.current_state = "probing"
  BY <1>1 DEF ListInv, SameList
<1>4. s.erd_index \in Nat /\ Len(ProbeList) \in Nat /\ DOMAIN ProbeList = 1 .. Len(ProbeList)
  BY PollConstants DEF Poll
<1>5. CASE r.erd_index < Len(ProbeList)
  <2> DEFINE erd == ProbeList[r.erd_index + 1]
             q == tiny_gea3_erd_client_read(r, erd)
  <2>1. erd \in Erd
    BY <1>1, <1>4, <1>5, PollConstants
  <2>2. /\ q \in Poll /\ q = [r EXCEPT !.requests = q.requests]
        /\ Queued(r, erd) => Members(q.requests) = Members(r.requests) \cup {erd}
        /\ Queued(r, erd) /\ erd \notin Members(r.requests) =>
               q.requests = Append(r.requests, erd)
        /\ ~Queued(r, erd) => q = r
    BY <1>1, <2>1, ReadFacts, Zenon
  <2>3. t = [q EXCEPT !.erd_index = @ + 1]
    BY <1>2, <1>5, Zenon
  <2> HIDE DEF q, erd
  <2>4. /\ SameList(r, q) /\ q.current_state = r.current_state /\ q.erd_index = r.erd_index
    BY <1>1, <2>2 DEF Poll, SameList
  <2>5. q \in Poll /\ q.erd_index + 1 \in Nat
    BY <2>2 DEF Poll
  <2>6. t \in Poll
    BY <2>3, <2>5 DEF Poll
  <2>7. /\ t.polling_list = q.polling_list /\ t.erd_set = q.erd_set
        /\ t.current_state = q.current_state
        /\ t.erd_index = q.erd_index + 1 /\ t.requests = q.requests
    BY <2>3, <2>5 DEF Poll
  <2>8. SameList(s, t) /\ t.current_state = "probing"
    BY <1>1, <1>3, <2>4, <2>7 DEF SameList
  <2>9. ListInv(t)
    BY <1>3, <2>4, <2>7 DEF ListInv, SameList
  <2>10. ~bus.long_list => ProbeReads(t)
    <3>1. SUFFICES ASSUME ~bus.long_list PROVE ProbeReads(t)
      OBVIOUS
    <3>2. /\ r.requests = <<>> /\ \A k \in 1 .. s.erd_index : ProbeList[k] \in s.erd_set
      BY <1>1, <3>1 DEF ProbeDue
    <3>3. t.erd_index = s.erd_index + 1 /\ t.erd_index <= Len(ProbeList)
      BY <1>1, <1>4, <1>5, <2>4, <2>7
    <3>4. Members(r.requests) = {}
      BY <3>2 DEF Members
    <3>5. CASE Queued(r, erd)
      <4>1. q.requests = Append(<<>>, erd)
        BY <2>2, <3>2, <3>4, <3>5
      <4>2. Len(t.requests) = 1
        BY <2>1, <2>7, <4>1
      <4>3. erd \in Members(t.requests)
        BY <2>2, <2>7, <3>5
      <4>4. Known(t, t.erd_index)
        BY <1>1, <1>4, <2>8, <3>2, <3>3, <4>3 DEF Known, SameList, erd
      <4> QED
        BY <3>3, <4>2, <4>4 DEF ProbeReads
    <3>6. CASE ~Queued(r, erd)
      <4>1. t.requests = <<>> /\ Len(t.requests) = 0
        BY <2>2, <2>7, <3>2, <3>6
      <4> QED
        BY <3>3, <4>1 DEF ProbeReads
    <3> QED
      BY <3>5, <3>6
  <2>11. QuietInv(t)
    BY <2>8, <2>10 DEF QuietInv
  <2> QED
    BY <2>6, <2>8, <2>9, <2>11 DEF StructInv, t
<1>6. CASE ~(r.erd_index < Len(ProbeList))
  <2>1. t = EnterPolling(r)
    BY <1>2, <1>6
  <2>2. ~bus.long_list => r.requests = <<>> /\ Members(ProbeList) \subseteq r.erd_set
    BY <1>1, <1>4, <1>6 DEF ProbeDue, Members, SameList
  <2>3. Polling(t) /\ SameList(r, t)
    BY <1>1, <1>3, <2>1, <2>2, PollingEntered
  <2> QED
    BY <1>1, <1>6, <2>3 DEF Polling, SameList, t
<1> QED
  BY <1>5, <1>6

(* A new life forgets the polling list and probes from the start.          *)
LEMMA ProbingEntered ==
    ASSUME NEW s \in Poll, ListInv(s), ~bus.long_list => s.requests = <<>>
    PROVE  LET t == EnterProbing(s)
           IN  /\ StructInv(t) /\ t.polling_list = <<>>
               /\ ProbeList # <<>> => t.current_state = "probing"
               /\ ProbeList = <<>> => t.current_state = "polling" /\ t.requests = s.requests
<1> DEFINE p == [s EXCEPT !.current_state = "probing", !.erd_index = 0]
           c == IF p.polling_list = <<>> THEN p
                ELSE [p EXCEPT !.polling_list = <<>>, !.erd_set = {}]
           t == EnterProbing(s)
<1>1. /\ p \in Poll /\ p.current_state = "probing" /\ p.erd_index = 0
      /\ p.requests = s.requests /\ SameList(s, p)
  BY DEF Poll, SameList
<1>2. t = IF ProbeList = <<>> THEN EnterPolling(c) ELSE NextProbe(c)
  BY Zenon DEF EnterProbing
<1> HIDE DEF p, t
<1>3. /\ c \in Poll /\ c.current_state = "probing" /\ c.erd_index = 0
      /\ c.requests = s.requests /\ c.polling_list = <<>>
  <2> DEFINE e == [p EXCEPT !.polling_list = <<>>, !.erd_set = {}]
  <2>1. /\ e \in Poll /\ e.current_state = "probing" /\ e.erd_index = 0
        /\ e.requests = s.requests /\ e.polling_list = <<>>
    <3>1. p \in Poll
      BY <1>1
    <3>2. <<>> \in Seq(Erd) /\ {} \in SUBSET Erd
      OBVIOUS
    <3>3. e \in Poll
      BY <3>1, <3>2 DEF Poll
    <3>4. /\ e.current_state = p.current_state /\ e.erd_index = p.erd_index
          /\ e.requests = p.requests /\ e.polling_list = <<>>
      BY <3>1 DEF Poll
    <3> HIDE DEF e
    <3> QED
      BY <1>1, <3>3, <3>4
  <2> HIDE DEF e
  <2>2. c = IF p.polling_list = <<>> THEN p ELSE e
    BY DEF e
  <2> HIDE DEF c
  <2> QED
    BY <1>1, <2>1, <2>2
<1> HIDE DEF c
<1>4. ListInv(c)
  BY <1>3 DEF ListInv, Distinct, Members
<1>5. Len(ProbeList) \in Nat /\ (ProbeList = <<>> <=> Len(ProbeList) = 0)
  BY PollConstants
<1>6. CASE ProbeList = <<>>
  <2>1. Members(ProbeList) = {}
    BY <1>6 DEF Members
  <2>2. Polling(EnterPolling(c)) /\ SameList(c, EnterPolling(c))
        /\ EnterPolling(c).requests = c.requests
    BY <1>3, <1>4, <2>1, PollingEntered
  <2> QED
    BY <1>2, <1>3, <1>6, <2>2 DEF Polling, SameList, t
<1>7. CASE ProbeList # <<>>
  <2>1. ProbeDue(c) /\ c.erd_index < Len(ProbeList)
    BY <1>3, <1>5, <1>7 DEF ProbeDue
  <2>2. /\ StructInv(NextProbe(c)) /\ SameList(c, NextProbe(c))
        /\ NextProbe(c).current_state = "probing"
    BY <1>3, <1>4, <2>1, ProbeGoesOn
  <2> QED
    BY <1>2, <1>3, <1>7, <2>2 DEF SameList, t
<1> QED
  BY <1>6, <1>7

-----------------------------------------------------------------------------
(* Every step of the bridge.                                               *)

\* The bridge that init_ and the entry of the probing state leave behind.
LEMMA PollInitOK == Init => PollInv
<1> SUFFICES ASSUME Init PROVE PollInv
  OBVIOUS
<1>1. 0 \in 0 .. CounterRange - 1
  BY PollConstants
<1>2. Zeroed \in Poll /\ Zeroed.polling_list = <<>> /\ Zeroed.requests = <<>>
  BY <1>1 DEF Zeroed, Poll
<1>3. ListInv(Zeroed)
  BY <1>2 DEF ListInv, Distinct, Members
<1>4. /\ StructInv(self) /\ self.polling_list = <<>>
      /\ ProbeList = <<>> => self.current_state = "polling" /\ self.requests = <<>>
  BY <1>2, <1>3, ProbingEntered DEF Init
<1>5. Members(self.polling_list) = {}
  BY <1>4 DEF Members
<1>6. crowded \in BOOLEAN /\ bus \in Buses /\ answered \subseteq Erd
  BY PollConstants DEF Init, Bus
<1> QED
  BY <1>4, <1>5, <1>6 DEF PollInv, PollTypeOK, StructInv, NothingToPoll

\* The struct follows the state machine of BridgeStates.
StateStep(s, t) == t.current_state # s.current_state =>
                       t.current_state \in PollNext[s.current_state]

(* What each action has to establish; bus and crowded stay as they are.    *)
LEMMA StepOK ==
    ASSUME PollInv, bus' = bus, crowded' = crowded, answered' \subseteq Erd,
           StructInv(self'), NothingToPoll(self'),
           Members(self'.polling_list) \subseteq answered', StateStep(self, self')
    PROVE  PollInv' /\ StateStep(self, self')
BY DEF PollInv, PollTypeOK, StructInv, QuietInv, NothingToPoll

\* The struct a handler works on after an answer.
LEMMA AnsweredFacts ==
    ASSUME NEW s \in Poll, s.requests # <<>>
    PROVE  LET t == Answered(s)
           IN  /\ t \in Poll /\ t.requests = Tail(s.requests)
               /\ t = [s EXCEPT !.requests = t.requests]
<1>1. Tail(s.requests) \in Seq(Erd)
  BY TailFacts DEF Poll
<1> QED
  BY <1>1 DEF Answered, Poll

\* An ERD is put on the list once, and then is in the set.
LEMMA AddFacts ==
    ASSUME NEW s \in Poll, NEW erd \in Erd, ListInv(s)
    PROVE  LET t == add_erd_to_polling_list(s, erd)
           IN  /\ t \in Poll /\ ListInv(t)
               /\ t = [s EXCEPT !.polling_list = t.polling_list, !.erd_set = t.erd_set]
               /\ t.erd_set = s.erd_set \cup {erd}
               /\ Members(t.polling_list) \subseteq Members(s.polling_list) \cup {erd}
               /\ erd \notin s.erd_set => t.polling_list = Append(s.polling_list, erd)
<1>1. s.polling_list \in Seq(Erd) /\ s.erd_set \subseteq Erd
  BY DEF Poll
<1>2. CASE erd \in Members(s.polling_list)
  <2>1. add_erd_to_polling_list(s, erd) = s
    BY <1>2 DEF add_erd_to_polling_list
  <2>2. erd \in s.erd_set
    BY <1>2 DEF ListInv
  <2>3. s = [s EXCEPT !.polling_list = s.polling_list, !.erd_set = s.erd_set]
    BY DEF Poll
  <2> QED
    BY <2>1, <2>2, <2>3
<1>3. CASE erd \notin Members(s.polling_list)
  <2> DEFINE list == Append(s.polling_list, erd)
             t == [s EXCEPT !.polling_list = list, !.erd_set = @ \cup {erd}]
  <2>1. add_erd_to_polling_list(s, erd) = t
    BY <1>3, Zenon DEF add_erd_to_polling_list
  <2>2. /\ list \in Seq(Erd) /\ Members(list) = Members(s.polling_list) \cup {erd}
        /\ Distinct(list)
    BY <1>1, <1>3, AppendFacts DEF ListInv
  <2> HIDE DEF list
  <2>3. s.erd_set \cup {erd} \in SUBSET Erd
    BY <1>1
  <2>4. t \in Poll
    BY <2>2, <2>3 DEF Poll
  <2>5. t.polling_list = list /\ t.erd_set = s.erd_set \cup {erd}
    BY DEF Poll
  <2>6. t = [s EXCEPT !.polling_list = t.polling_list, !.erd_set = t.erd_set]
    BY <2>5, Zenon
  <2> HIDE DEF t
  <2>7. ListInv(t)
    BY <2>2, <2>5 DEF ListInv
  <2> QED
    BY <2>1, <2>2, <2>4, <2>5, <2>6, <2>7 DEF list
<1> QED
  BY <1>2, <1>3

(* An answer to a probe leaves nothing outstanding, and its ERD is kept or *)
(* excluded.                                                               *)
LEMMA ProbeAnswered ==
    ASSUME NEW s \in Poll, StructInv(s), s.current_state = "probing", s.requests # <<>>,
           NEW u \in Poll, u.requests = Tail(s.requests), u.erd_index = s.erd_index,
           s.erd_set \cup {Head(s.requests)} \subseteq u.erd_set
    PROVE  ProbeDue(u)
<1> SUFFICES ASSUME ~bus.long_list
             PROVE  /\ u.requests = <<>> /\ u.erd_index <= Len(ProbeList)
                    /\ \A k \in 1 .. u.erd_index : ProbeList[k] \in u.erd_set
  BY DEF ProbeDue
<1>1. ProbeReads(s)
  BY DEF StructInv, QuietInv
<1>2. s.requests \in Seq(Erd) /\ Len(s.requests) \in Nat
  BY DEF Poll
<1>3. /\ Len(u.requests) = Len(s.requests) - 1 /\ u.requests \in Seq(Erd)
      /\ Members(s.requests) = Members(u.requests) \cup {Head(s.requests)}
  BY <1>2, TailFacts
<1>4. Len(u.requests) = 0
  <2> DEFINE m == Len(s.requests)
             n == Len(u.requests)
  <2>1. m \in Nat /\ n \in Nat /\ m <= 1 /\ n = m - 1
    BY <1>1, <1>2, <1>3 DEF ProbeReads
  <2> HIDE DEF m, n
  <2>2. n = 0
    BY <2>1
  <2> QED
    BY <2>2 DEF n
<1>5. u.requests = <<>> /\ Members(u.requests) = {}
  BY <1>3, <1>4, MembersFacts
<1>6. Members(s.requests) = {Head(s.requests)}
  BY <1>3, <1>5
<1> QED
  BY <1>1, <1>5, <1>6 DEF ProbeReads, Known

\* A probe read answered: the ERD is listed, noted, and the probe goes on.
LEMMA ProbeCompletedStep ==
    ASSUME PollInv, ProbeCompleted
    PROVE  PollInv' /\ StateStep(self, self')
<1> DEFINE erd == Head(self.requests)
           t == Answered(self)
           u == add_erd_to_polling_list(t, erd)
<1>1. /\ self \in Poll /\ StructInv(self) /\ ListInv(self) /\ self.requests \in Seq(Erd)
      /\ self.current_state = "probing" /\ self.requests # <<>>
  BY DEF PollInv, PollTypeOK, StructInv, Poll, ProbeCompleted
<1>2. erd \in Erd
  BY <1>1, TailFacts
<1>3. /\ t \in Poll /\ t.requests = Tail(self.requests)
      /\ t = [self EXCEPT !.requests = t.requests]
  BY <1>1, AnsweredFacts
<1> HIDE DEF t
<1>4. SameList(self, t) /\ t.current_state = "probing" /\ t.erd_index = self.erd_index
  BY <1>1, <1>3 DEF Poll, SameList
<1>5. ListInv(t)
  BY <1>1, <1>4 DEF ListInv, SameList
<1>6. /\ u \in Poll /\ ListInv(u) /\ u.erd_set = t.erd_set \cup {erd}
      /\ u = [t EXCEPT !.polling_list = u.polling_list, !.erd_set = u.erd_set]
      /\ Members(u.polling_list) \subseteq Members(t.polling_list) \cup {erd}
  BY <1>2, <1>3, <1>5, AddFacts
<1> HIDE DEF u
<1>7. u.current_state = "probing" /\ u.requests = t.requests /\ u.erd_index = t.erd_index
  BY <1>3, <1>4, <1>6 DEF Poll
<1>8. ProbeDue(u)
  BY <1>1, <1>3, <1>4, <1>6, <1>7, ProbeAnswered DEF SameList
<1>9. self' = NextProbe(u) /\ answered' = answered \cup {erd} /\ bus' = bus /\ crowded' = crowded
  BY DEF ProbeCompleted, u, t
<1>10. /\ StructInv(self') /\ SameList(u, self')
       /\ self'.current_state \in {"probing", "polling"}
  BY <1>6, <1>7, <1>8, <1>9, ProbeGoesOn
<1>11. Members(self'.polling_list) \subseteq answered'
  BY <1>4, <1>6, <1>9, <1>10 DEF PollInv, SameList
<1>12. answered' \subseteq Erd
  BY <1>2, <1>9 DEF PollInv, PollTypeOK
<1>13. NothingToPoll(self')
  BY <1>1 DEF PollInv, NothingToPoll
<1>14. StateStep(self, self')
  BY <1>1, <1>10 DEF StateStep, PollNext
<1> QED
  BY <1>9, <1>10, <1>11, <1>12, <1>13, <1>14, StepOK

\* A probe read failed: the ERD is excluded, and the probe goes on.
LEMMA ProbeFailedStep ==
    ASSUME PollInv, ProbeFailed
    PROVE  PollInv' /\ StateStep(self, self')
<1> DEFINE erd == Head(self.requests)
           t == Answered(self)
           u == [t EXCEPT !.erd_set = @ \cup {erd}]
<1>1. /\ self \in Poll /\ StructInv(self) /\ ListInv(self) /\ self.requests \in Seq(Erd)
      /\ self.current_state = "probing" /\ self.requests # <<>>
  BY DEF PollInv, PollTypeOK, StructInv, Poll, ProbeFailed
<1>2. erd \in Erd
  BY <1>1, TailFacts
<1>3. /\ t \in Poll /\ t.requests = Tail(self.requests)
      /\ t = [self EXCEPT !.requests = t.requests]
  BY <1>1, AnsweredFacts
<1>4. self' = NextProbe(u) /\ answered' = answered /\ bus' = bus /\ crowded' = crowded
  BY DEF ProbeFailed
<1> HIDE DEF t
<1>5. SameList(self, t) /\ t.current_state = "probing" /\ t.erd_index = self.erd_index
  BY <1>1, <1>3 DEF Poll, SameList
<1>6. t.erd_set \cup {erd} \in SUBSET Erd
  BY <1>2, <1>3 DEF Poll
<1>7. u \in Poll
  BY <1>3, <1>6 DEF Poll
<1>8. /\ u.current_state = t.current_state /\ u.requests = t.requests
      /\ u.erd_index = t.erd_index /\ u.polling_list = t.polling_list
      /\ u.erd_set = t.erd_set \cup {erd}
  BY <1>3 DEF Poll
<1> HIDE DEF u
<1>9. ListInv(u)
  BY <1>1, <1>5, <1>8 DEF ListInv, SameList
<1>10. ProbeDue(u)
  BY <1>1, <1>3, <1>5, <1>7, <1>8, ProbeAnswered DEF SameList
<1>11. /\ StructInv(self') /\ SameList(u, self')
       /\ self'.current_state \in {"probing", "polling"}
  BY <1>4, <1>5, <1>7, <1>8, <1>9, <1>10, ProbeGoesOn
<1>12. Members(self'.polling_list) \subseteq answered'
  BY <1>4, <1>5, <1>8, <1>11 DEF PollInv, SameList
<1>13. answered' \subseteq Erd
  BY <1>4 DEF PollInv, PollTypeOK
<1>14. NothingToPoll(self')
  BY <1>1 DEF PollInv, NothingToPoll
<1>15. StateStep(self, self')
  BY <1>1, <1>11 DEF StateStep, PollNext
<1> QED
  BY <1>4, <1>11, <1>12, <1>13, <1>14, <1>15, StepOK

(* Answers to reads of a cycle.                                            *)
LEMMA PollCompletedStep ==
    ASSUME PollInv, PollCompleted
    PROVE  PollInv' /\ StateStep(self, self')
<1> DEFINE erd == Head(self.requests)
           a == Answered(self)
           t == reset_lost_appliance_timer(a)
           u == IF erd \in t.erd_set THEN t ELSE add_erd_to_polling_list(t, erd)
<1>1. /\ self \in Poll /\ Polling(self) /\ ListInv(self) /\ self.requests \in Seq(Erd)
      /\ self.current_state = "polling" /\ self.requests # <<>>
  BY DEF PollInv, PollTypeOK, StructInv, Poll, PollCompleted, Polling
<1>2. erd \in Erd
  BY <1>1, TailFacts
<1>3. /\ a \in Poll /\ a.requests = Tail(self.requests)
      /\ a = [self EXCEPT !.requests = a.requests]
  BY <1>1, AnsweredFacts
<1>4. self' \in Counted(u) /\ answered' = answered \cup {erd} /\ bus' = bus /\ crowded' = crowded
  BY DEF PollCompleted
<1> HIDE DEF a
<1>5. t \in Poll /\ t = [a EXCEPT !.appliance_lost_timer = TRUE]
  BY <1>3 DEF Poll, reset_lost_appliance_timer
<1> HIDE DEF t
<1>6. /\ SameList(self, t) /\ t.current_state = self.current_state
      /\ t.erd_index = self.erd_index /\ t.requests = Tail(self.requests)
      /\ t.cycle_completed_count = self.cycle_completed_count
  <2>1. /\ SameList(self, a) /\ a.current_state = self.current_state
        /\ a.erd_index = self.erd_index
        /\ a.cycle_completed_count = self.cycle_completed_count
    BY <1>1, <1>3 DEF Poll, SameList
  <2>2. /\ SameList(a, t) /\ t.current_state = a.current_state
        /\ t.erd_index = a.erd_index /\ t.requests = a.requests
        /\ t.cycle_completed_count = a.cycle_completed_count
    BY <1>3, <1>5 DEF Poll, SameList
  <2> QED
    BY <1>3, <2>1, <2>2 DEF SameList
<1>7. /\ t.polling_timer = self.polling_timer
      /\ t.polling_timer_armed = self.polling_timer_armed
      /\ t.cycle_sending_in_progress = self.cycle_sending_in_progress
  <2>1. /\ a.polling_timer = self.polling_timer
        /\ a.polling_timer_armed = self.polling_timer_armed
        /\ a.cycle_sending_in_progress = self.cycle_sending_in_progress
    BY <1>1, <1>3 DEF Poll
  <2>2. /\ t.polling_timer = a.polling_timer
        /\ t.polling_timer_armed = a.polling_timer_armed
        /\ t.cycle_sending_in_progress = a.cycle_sending_in_progress
    BY <1>3, <1>5 DEF Poll
  <2> QED
    BY <2>1, <2>2, Zenon
<1>8. Took(self, t, erd)
  BY <1>6, <1>7, Zenon DEF Took
<1>9. /\ u \in Poll /\ Took(self, u, erd)
      /\ Members(u.polling_list) \subseteq Members(self.polling_list) \cup {erd}
  <2>1. CASE erd \in t.erd_set
    BY <1>5, <1>6, <1>8, <2>1 DEF SameList
  <2>2. CASE erd \notin t.erd_set
    <3>1. ListInv(t)
      BY <1>1, <1>6 DEF ListInv, SameList
    <3>2. /\ u \in Poll /\ u.erd_set = t.erd_set \cup {erd}
          /\ u = [t EXCEPT !.polling_list = u.polling_list, !.erd_set = u.erd_set]
          /\ Members(u.polling_list) \subseteq Members(t.polling_list) \cup {erd}
          /\ u.polling_list = Append(t.polling_list, erd)
      BY <1>2, <1>5, <2>2, <3>1, AddFacts
    <3> HIDE DEF u
    <3>3. /\ u.current_state = t.current_state /\ u.requests = t.requests
          /\ u.erd_index = t.erd_index /\ u.cycle_completed_count = t.cycle_completed_count
      BY <1>5, <3>2 DEF Poll
    <3>4. /\ u.polling_timer = t.polling_timer
          /\ u.polling_timer_armed = t.polling_timer_armed
          /\ u.cycle_sending_in_progress = t.cycle_sending_in_progress
      BY <1>5, <3>2 DEF Poll
    <3>5. Took(self, u, erd)
      BY <1>6, <1>7, <2>2, <3>2, <3>3, <3>4, Zenon DEF Took, SameList
    <3> QED
      BY <1>6, <3>2, <3>5 DEF SameList
  <2> QED
    BY <2>1, <2>2
<1> HIDE DEF u
<1>10. Polling(self') /\ SameList(u, self')
  BY <1>1, <1>4, <1>9, CountedStep
<1>11. StructInv(self') /\ StateStep(self, self')
  BY <1>1, <1>10 DEF Polling, StateStep
<1>12. Members(self'.polling_list) \subseteq answered'
  BY <1>4, <1>9, <1>10 DEF PollInv, SameList
<1>13. answered' \subseteq Erd
  BY <1>2, <1>4 DEF PollInv, PollTypeOK
<1>14. NothingToPoll(self')
  BY <1>1 DEF PollInv, NothingToPoll
<1> QED
  BY <1>4, <1>11, <1>12, <1>13, <1>14, StepOK

\* A poll read failed: it counts as completed, and the cycle as failed.
LEMMA PollFailedStep ==
    ASSUME PollInv, PollFailed
    PROVE  PollInv' /\ StateStep(self, self')
<1> DEFINE a == Answered(self)
           t == [reset_lost_appliance_timer(a) EXCEPT !.cycle_has_failure = TRUE]
<1>1. /\ self \in Poll /\ Polling(self) /\ self.requests # <<>>
      /\ self.current_state = "polling"
  BY DEF PollInv, PollTypeOK, PollFailed, Polling
<1>2. /\ a \in Poll /\ a.requests = Tail(self.requests)
      /\ a = [self EXCEPT !.requests = a.requests]
  BY <1>1, AnsweredFacts
<1>3. /\ \E u \in Counted(t) : self' \in {u, [u EXCEPT !.current_state = "failed"]}
      /\ answered' = answered /\ bus' = bus /\ crowded' = crowded
  BY Zenon DEF PollFailed
<1>4. PICK u \in Counted(t) : self' \in {u, [u EXCEPT !.current_state = "failed"]}
  BY <1>3
<1> HIDE DEF a
<1>5. /\ t \in Poll
      /\ t = [a EXCEPT !.appliance_lost_timer = TRUE, !.cycle_has_failure = TRUE]
  BY <1>2 DEF Poll, reset_lost_appliance_timer
<1> HIDE DEF t
<1>6. Took(self, t, Head(self.requests)) /\ SameList(self, t)
  <2>1. /\ SameList(self, a) /\ a.current_state = self.current_state
        /\ a.erd_index = self.erd_index
        /\ a.cycle_completed_count = self.cycle_completed_count
    BY <1>1, <1>2 DEF Poll, SameList
  <2>2. /\ SameList(a, t) /\ t.current_state = a.current_state
        /\ t.erd_index = a.erd_index /\ t.requests = a.requests
        /\ t.cycle_completed_count = a.cycle_completed_count
    BY <1>2, <1>5 DEF Poll, SameList
  <2>3. /\ a.polling_timer = self.polling_timer
        /\ a.polling_timer_armed = self.polling_timer_armed
        /\ a.cycle_sending_in_progress = self.cycle_sending_in_progress
    BY <1>1, <1>2 DEF Poll
  <2>4. /\ t.polling_timer = a.polling_timer
        /\ t.polling_timer_armed = a.polling_timer_armed
        /\ t.cycle_sending_in_progress = a.cycle_sending_in_progress
    BY <1>2, <1>5 DEF Poll
  <2> QED
    BY <1>2, <2>1, <2>2, <2>3, <2>4, Zenon DEF Took, SameList
<1>7. Polling(u) /\ SameList(t, u)
  BY <1>1, <1>4, <1>5, <1>6, CountedStep
<1>8. /\ StructInv(self') /\ SameList(u, self')
      /\ self'.current_state \in {"polling", "failed"}
  <2>1. u \in Poll /\ ListInv(u) /\ u.current_state = "polling"
    BY <1>7 DEF Polling, StructInv
  <2>2. CASE self' = u
    BY <1>7, <2>1, <2>2 DEF Polling, SameList
  <2>3. CASE self' = [u EXCEPT !.current_state = "failed"]
    <3> DEFINE f == [u EXCEPT !.current_state = "failed"]
    <3>1. f \in Poll
      BY <2>1 DEF Poll
    <3>2. f.current_state = "failed" /\ SameList(u, f)
      BY <2>1 DEF Poll, SameList
    <3> HIDE DEF f
    <3>3. ListInv(f)
      BY <2>1, <3>2 DEF ListInv, SameList
    <3>4. StructInv(f)
      BY <3>1, <3>2, <3>3 DEF StructInv, QuietInv
    <3> QED
      BY <2>3, <3>2, <3>4 DEF f
  <2> QED
    BY <1>4, <2>2, <2>3
<1>9. StateStep(self, self')
  BY <1>1, <1>8 DEF StateStep, PollNext
<1>10. Members(self'.polling_list) \subseteq answered'
  BY <1>3, <1>6, <1>7, <1>8 DEF PollInv, SameList
<1>11. answered' \subseteq Erd
  BY <1>3 DEF PollInv, PollTypeOK
<1>12. NothingToPoll(self')
  BY <1>1 DEF PollInv, NothingToPoll
<1> QED
  BY <1>3, <1>8, <1>9, <1>10, <1>11, <1>12, StepOK

\* An answer in the failed state only leaves the queue.
LEMMA IgnoredAnswerStep ==
    ASSUME PollInv, IgnoredAnswer
    PROVE  PollInv' /\ StateStep(self, self')
<1> DEFINE t == Answered(self)
<1>1. /\ self \in Poll /\ ListInv(self) /\ self.current_state = "failed"
      /\ self.requests # <<>>
  BY DEF PollInv, PollTypeOK, StructInv, IgnoredAnswer
<1>2. t \in Poll /\ t = [self EXCEPT !.requests = t.requests]
  BY <1>1, AnsweredFacts
<1>3. self' = t /\ answered' = answered /\ bus' = bus /\ crowded' = crowded
  BY DEF IgnoredAnswer
<1> HIDE DEF t
<1>4. SameList(self, t) /\ t.current_state = "failed"
  BY <1>1, <1>2 DEF Poll, SameList
<1>5. ListInv(t)
  BY <1>1, <1>4 DEF ListInv, SameList
<1>6. StructInv(t)
  BY <1>2, <1>4, <1>5 DEF StructInv, QuietInv
<1>7. Members(self'.polling_list) \subseteq answered'
  BY <1>3, <1>4 DEF PollInv, SameList
<1>8. answered' \subseteq Erd
  BY <1>3 DEF PollInv, PollTypeOK
<1>9. NothingToPoll(self') /\ StateStep(self, self')
  BY <1>1, <1>3, <1>4 DEF PollInv, NothingToPoll, StateStep
<1> QED
  BY <1>3, <1>6, <1>7, <1>8, <1>9, StepOK

(* The timer: a cycle that is sent but not over keeps its reads; a new one *)
(* starts only over an empty queue.                                        *)
LEMMA PollingTimerStep ==
    ASSUME PollInv, PollingTimerExpired
    PROVE  PollInv' /\ StateStep(self, self')
<1> DEFINE t == [self EXCEPT !.polling_timer = FALSE]
           u == [t EXCEPT !.polling_timer_armed = FALSE]
           v == [u EXCEPT !.restart_pending = TRUE]
<1>1. self \in Poll /\ StructInv(self) /\ ListInv(self) /\ QuietInv(self)
  BY DEF PollInv, PollTypeOK, StructInv
<1>2. answered' = answered /\ bus' = bus /\ crowded' = crowded
  BY DEF PollingTimerExpired
<1>3. /\ self.current_state # "polling" => self' = t
      /\ self.current_state = "polling" =>
            IF ~MorePolls(u) /\ ~CycleComplete(u) THEN self' = v
            ELSE self' \in IF u.cycle_sending_in_progress THEN send_cycle_reads(u)
                           ELSE StartCycle(u)
  BY Zenon DEF PollingTimerExpired
<1>4. t \in Poll /\ u \in Poll /\ v \in Poll
  <2>1. t \in Poll
    BY <1>1 DEF Poll
  <2> HIDE DEF t
  <2>2. u \in Poll
    BY <2>1 DEF Poll
  <2> HIDE DEF u
  <2>3. v \in Poll
    BY <2>2 DEF Poll
  <2> QED
    BY <2>1, <2>2, <2>3
<1>5. \A s \in {t, u, v} :
          /\ SameList(self, s) /\ s.current_state = self.current_state
          /\ s.erd_index = self.erd_index /\ s.requests = self.requests
          /\ s.cycle_completed_count = self.cycle_completed_count
  BY <1>1 DEF Poll, SameList
<1>6. u.polling_timer = FALSE /\ u.polling_timer_armed = FALSE
  BY <1>1 DEF Poll
<1>7. v.polling_timer = FALSE /\ v.polling_timer_armed = FALSE
  BY <1>1 DEF Poll
<1>8. /\ u.cycle_sending_in_progress = self.cycle_sending_in_progress
      /\ v.cycle_sending_in_progress = self.cycle_sending_in_progress
  BY <1>1 DEF Poll
<1> HIDE DEF t, u, v
<1>9. ListInv(t) /\ ListInv(u) /\ ListInv(v)
  BY <1>1, <1>5 DEF ListInv, SameList
<1>10. answered' \subseteq Erd
  BY <1>2 DEF PollInv, PollTypeOK
<1>11. CASE self.current_state # "polling"
  <2>1. self' = t
    BY <1>3, <1>11
  <2>2. QuietInv(t)
    BY <1>1, <1>5, <1>11 DEF QuietInv, ProbeReads, Known, SameList
  <2>3. StructInv(t)
    BY <1>4, <1>5, <1>9, <1>11, <2>2 DEF StructInv
  <2>4. NothingToPoll(self') /\ StateStep(self, self')
    BY <1>5, <1>11, <2>1 DEF PollInv, NothingToPoll, StateStep
  <2>5. Members(self'.polling_list) \subseteq answered'
    BY <1>2, <1>5, <2>1 DEF PollInv, SameList
  <2> QED
    BY <1>2, <1>10, <2>1, <2>3, <2>4, <2>5, StepOK
<1>12. CASE self.current_state = "polling"
  <2>1. CycleInv(self) /\ TimerInv(self) /\ (~bus.long_list => QuietPolling(self))
    BY <1>1, <1>12 DEF StructInv, QuietInv
  <2>2. Attempted(u) = Attempted(self) /\ Attempted(v) = Attempted(self)
    BY <1>5 DEF Attempted, SameList
  <2>3. CycleInv(u) /\ CycleInv(v)
    BY <1>5, <2>1, <2>2 DEF CycleInv, Unheld, SameList
  <2>4. ~bus.long_list => OwnReads(u) /\ OwnReads(v)
    BY <1>5, <2>1, <2>2 DEF QuietPolling, OwnReads
  <2>5. ~bus.long_list => Members(ProbeList) \subseteq u.erd_set
    BY <1>5, <2>1 DEF QuietPolling, SameList
  <2>6. Armed(u) /\ Armed(v)
    BY <1>6, <1>7, Zenon DEF Armed
  <2>7. u.current_state = "polling"
    BY <1>5, <1>12
  <2>8. CASE ~MorePolls(u) /\ ~CycleComplete(u)
    <3>1. self' = v
      BY <1>3, <1>12, <2>8
    <3>2. ~MorePolls(v) /\ ~CycleComplete(v)
      BY <1>5, <2>8 DEF MorePolls, CycleComplete, SameList
    <3>3. Awaiting(v)
      BY <1>4, <2>3, <3>2, UnheldFacts DEF Awaiting, CycleInv
    <3>4. TimerInv(v)
      BY <2>6, <3>3 DEF TimerInv
    <3>5. QuietInv(v)
      BY <1>5, <1>12, <2>1, <2>4, <3>2 DEF QuietInv, QuietPolling, SameList
    <3>6. StructInv(v)
      BY <1>4, <1>9, <2>3, <3>4, <3>5 DEF StructInv
    <3>7. NothingToPoll(self') /\ StateStep(self, self')
      BY <1>5, <1>12, <3>1 DEF PollInv, NothingToPoll, StateStep, SameList
    <3>8. Members(self'.polling_list) \subseteq answered'
      BY <1>2, <1>5, <3>1 DEF PollInv, SameList
    <3> QED
      BY <1>2, <1>10, <3>1, <3>6, <3>7, <3>8, StepOK
  <2>9. CASE MorePolls(u) \/ CycleComplete(u)
    <3>1. /\ Polling(self') /\ SameList(u, self')
          /\ u.polling_list = <<>> => self'.requests = u.requests
      <4>1. CASE u.cycle_sending_in_progress
        <5>1. self' \in send_cycle_reads(u)
          BY <1>3, <1>12, <2>9, <4>1
        <5>2. Sending(u)
          BY <1>4, <1>9, <2>3, <2>4, <2>6, <2>7 DEF Sending
        <5> QED
          BY <1>4, <2>5, <5>1, <5>2, CycleReadsSent
      <4>2. CASE ~u.cycle_sending_in_progress
        <5>1. self' \in StartCycle(u)
          BY <1>3, <1>12, <2>9, <4>2
        <5>2. ~bus.long_list => u.requests = <<>>
          <6>1. CASE CycleComplete(u)
            BY <1>4, <2>3, <2>4, <6>1, CompleteMeansAnswered
          <6>2. CASE MorePolls(u)
            <7>1. MorePolls(self)
              BY <1>5, <6>2 DEF MorePolls, SameList
            <7>2. ~self.cycle_sending_in_progress
              BY <1>8, <4>2, Zenon
            <7> QED
              BY <1>5, <2>1, <7>1, <7>2 DEF QuietPolling
          <6> QED
            BY <2>9, <6>1, <6>2
        <5> QED
          BY <1>4, <1>9, <2>5, <2>6, <2>7, <5>1, <5>2, CycleStarted
      <4> QED
        BY <4>1, <4>2
    <3>2. StructInv(self') /\ StateStep(self, self')
      BY <1>12, <3>1 DEF Polling, StateStep
    <3>3. NothingToPoll(self')
      BY <1>5, <3>1 DEF PollInv, NothingToPoll, Polling, SameList
    <3>4. Members(self'.polling_list) \subseteq answered'
      BY <1>2, <1>5, <3>1 DEF PollInv, SameList
    <3> QED
      BY <1>2, <1>10, <3>2, <3>3, <3>4, StepOK
  <2> QED
    BY <2>8, <2>9
<1> QED
  BY <1>11, <1>12

(* The appliance is given up only when nothing is outstanding, or in the   *)
(* failed state of a bridge with a long list.                              *)
LEMMA ApplianceLostStep ==
    ASSUME PollInv, ApplianceLost
    PROVE  PollInv' /\ StateStep(self, self')
<1> DEFINE t == [self EXCEPT !.appliance_lost_timer = FALSE]
           f == [t EXCEPT !.polling_failure_count = 0]
           u == IF t.current_state = "failed" THEN f ELSE t
<1>1. self \in Poll /\ ListInv(self)
  BY DEF PollInv, PollTypeOK, StructInv
<1>2. /\ self' = EnterProbing(u) /\ Silence
      /\ answered' = {} /\ bus' = bus /\ crowded' = crowded
  BY Zenon DEF ApplianceLost
<1>3. 0 \in 0 .. CounterRange - 1
  BY PollConstants
<1>4. /\ t \in Poll /\ SameList(self, t) /\ t.requests = self.requests
      /\ t.current_state = self.current_state
  BY <1>1 DEF Poll, SameList
<1> HIDE DEF t
<1>5. f \in Poll /\ SameList(t, f) /\ f.requests = t.requests
  BY <1>3, <1>4 DEF Poll, SameList
<1> HIDE DEF f
<1>6. u \in Poll /\ SameList(self, u) /\ u.requests = self.requests
  BY <1>4, <1>5 DEF SameList
<1> HIDE DEF u
<1>7. ListInv(u)
  BY <1>1, <1>6 DEF ListInv, SameList
<1>8. ~bus.long_list => u.requests = <<>>
  BY <1>2, <1>6 DEF Silence
<1>9. /\ StructInv(self') /\ self'.polling_list = <<>>
      /\ ProbeList # <<>> => self'.current_state = "probing"
      /\ ProbeList = <<>> => self'.current_state = "polling" /\ self'.requests = u.requests
  BY <1>2, <1>6, <1>7, <1>8, ProbingEntered
<1>10. Members(self'.polling_list) \subseteq answered'
  BY <1>9 DEF Members
<1>11. answered' \subseteq Erd
  BY <1>2 DEF PollInv, PollTypeOK
<1>12. NothingToPoll(self')
  BY <1>6, <1>9 DEF PollInv, NothingToPoll
<1>13. StateStep(self, self')
  <2>1. self.current_state \in {"probing", "polling", "failed"}
    BY <1>1 DEF Poll
  <2>2. ProbeList = <<>> => self.current_state = "polling"
    BY DEF PollInv, NothingToPoll
  <2> QED
    BY <1>9, <2>1, <2>2 DEF StateStep, PollNext
<1> QED
  BY <1>2, <1>9, <1>10, <1>11, <1>12, <1>13, StepOK

(* PollInv is inductive, and every step follows the state machine.         *)
LEMMA PollStep == PollInv /\ [Next]_vars => PollInv' /\ StateStep(self, self')
<1> SUFFICES ASSUME PollInv, [Next]_vars
             PROVE  PollInv' /\ StateStep(self, self')
  OBVIOUS
<1>1. CASE ProbeCompleted
  BY <1>1, ProbeCompletedStep
<1>2. CASE ProbeFailed
  BY <1>2, ProbeFailedStep
<1>3. CASE PollCompleted
  BY <1>3, PollCompletedStep
<1>4. CASE PollFailed
  BY <1>4, PollFailedStep
<1>5. CASE IgnoredAnswer
  BY <1>5, IgnoredAnswerStep
<1>6. CASE PollingTimerExpired
  BY <1>6, PollingTimerStep
<1>7. CASE ApplianceLost
  BY <1>7, ApplianceLostStep
<1>8. CASE OtherRequests
  <2>1. self' = self /\ answered' = answered /\ bus' = bus /\ crowded' \in BOOLEAN
    BY <1>8 DEF OtherRequests
  <2> QED
    BY <2>1 DEF PollInv, PollTypeOK, StructInv, QuietInv, NothingToPoll, StateStep
<1>9. CASE UNCHANGED vars
  <2>1. self' = self /\ answered' = answered /\ bus' = bus /\ crowded' = crowded
    BY <1>9 DEF vars
  <2> QED
    BY <2>1 DEF PollInv, PollTypeOK, StructInv, QuietInv, NothingToPoll, StateStep
<1> QED
  BY <1>1, <1>2, <1>3, <1>4, <1>5, <1>6, <1>7, <1>8, <1>9 DEF Next

-----------------------------------------------------------------------------
(* The theorems.                                                           *)

(* The invariant of the polling bridge, which the others follow from.      *)
THEOREM PollSafe == Spec => []PollInv
<1>1. PollInv /\ [Next]_vars => PollInv'
  BY PollStep
<1> QED
  BY PollInitOK, <1>1, PTL DEF Spec

(* The struct, the history and the bus keep their types.                   *)
THEOREM PollTypeCorrect == Spec => []PollTypeOK
<1>1. PollInv => PollTypeOK
  BY DEF PollInv
<1> QED
  BY PollSafe, <1>1, PTL

(* While polling there is always a timer running or an answer due: no      *)
(* cycle waits for a completion that cannot come.                          *)
THEOREM PollingNeverStops == Spec => []PollingNeverStalls
<1>1. PollInv => PollingNeverStalls
  <2>1. SUFFICES ASSUME PollInv, self.current_state = "polling", ~self.polling_timer
                 PROVE  self.requests # <<>>
    BY Zenon DEF PollingNeverStalls
  <2>2. self \in Poll /\ Awaiting(self) /\ Distinct(self.polling_list)
    BY <2>1 DEF PollInv, PollTypeOK, StructInv, TimerInv, ListInv
  <2>3. self.polling_list \in Seq(Erd) /\ self.requests \in Seq(Erd)
    BY <2>2 DEF Poll
  <2>4. /\ Cardinality(Members(self.polling_list)) = Len(self.polling_list)
        /\ self.requests = <<>> => Members(self.requests) = {}
    BY <2>2, <2>3, MembersFacts
  <2>5. self.requests = <<>> => Settled(self) = Members(self.polling_list)
    BY <2>4 DEF Settled
  <2>6. self.cycle_completed_count \in Nat /\ Len(self.polling_list) \in Nat
    BY <2>2 DEF Poll
  <2> QED
    BY <2>2, <2>4, <2>5, <2>6 DEF Awaiting, CycleComplete
<1> QED
  BY PollSafe, <1>1, PTL

(* A cycle does not start over reads of the last one: no ERD is requested  *)
(* twice.                                                                  *)
THEOREM CyclesDoNotOverlap == Spec => []NoOverlappingCycles
<1>1. PollInv => NoOverlappingCycles
  <2>1. SUFFICES ASSUME PollInv, self.current_state = "polling", ~bus.long_list
                 PROVE  Cardinality(Members(self.requests)) = Len(self.requests)
    BY DEF NoOverlappingCycles
  <2>2. Distinct(self.requests) /\ self.requests \in Seq(Erd)
    BY <2>1 DEF PollInv, PollTypeOK, Poll, StructInv, QuietInv, QuietPolling, OwnReads
  <2> QED
    BY <2>2, MembersFacts
<1> QED
  BY PollSafe, <1>1, PTL

(* One probe is outstanding at a time.                                     *)
THEOREM ProbesOneByOne == Spec => []ProbeIsSequential
<1>1. PollInv => ProbeIsSequential
  BY DEF PollInv, StructInv, QuietInv, ProbeReads, ProbeIsSequential
<1> QED
  BY PollSafe, <1>1, PTL

(* The probe ends with every ERD polled or excluded.                       *)
THEOREM NoErdForgotten == Spec => []ProbeForgetsNone
<1>1. PollInv => ProbeForgetsNone
  BY DEF PollInv, StructInv, QuietInv, QuietPolling, ProbeForgetsNone
<1> QED
  BY PollSafe, <1>1, PTL

(* Nothing is polled twice in a cycle, or without an answer since the last *)
(* probe began.                                                            *)
THEOREM PolledOnce == Spec => []PolledOnceAndAnswered
<1>1. PollInv => PolledOnceAndAnswered
  <2>1. SUFFICES ASSUME PollInv PROVE PolledOnceAndAnswered
    OBVIOUS
  <2>2. Distinct(self.polling_list) /\ self.polling_list \in Seq(Erd)
    BY <2>1 DEF PollInv, PollTypeOK, Poll, StructInv, ListInv
  <2> QED
    BY <2>1, <2>2, MembersFacts DEF PolledOnceAndAnswered, PollInv
<1> QED
  BY PollSafe, <1>1, PTL

(* The rest of the program sees the state machine of BridgeStates, also    *)
(* when there is nothing to probe.                                         *)
THEOREM PollStepsHold == Spec => PollSteps
<1>1. PollInv /\ [Next]_vars =>
          [self.current_state' # self.current_state =>
              self.current_state' \in PollNext[self.current_state]]_vars
  BY PollStep DEF StateStep
<1> QED
  BY PollSafe, <1>1, PTL DEF Spec, PollSteps
=============================================================================
