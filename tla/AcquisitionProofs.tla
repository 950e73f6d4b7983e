------------------------- MODULE AcquisitionProofs --------------------------
(***************************************************************************)
(* The safety properties of Acquisition and WriteBridge, for any boards,   *)
(* configurations, feature ERDs and writes, and any number of refusals.    *)
(***************************************************************************)
EXTENDS WriteBridge, TLAPS

ErdName == IdentityErd \cup FeatureErd \cup WriteErd
Requests == [op : {"read", "write"}, address : Address \cup {Broadcast, None}, erd : ErdName]

Managers ==
    [hsm : {"startup_delay", "autodiscovery", "device_id", "feature_bits", "bridge_init"},
     discovery : Bus \cup {"idle", "complete"},
     host : Address \cup {None}, client : Bus \cup {None}, gea2 : BOOLEAN,
     identity : IdentityErd \cup {"complete"}, identity_client : BOOLEAN,
     features : {"reading", "parsing", "complete", "failed"},
     reading_idx : 0 .. Len(Features), read_queued : BOOLEAN,
     retry_timer : BOOLEAN, feature_bit_reading_started_ : BOOLEAN,
     erd_bridge_initialized_ : BOOLEAN,
     requests : [Bus -> Seq(Requests)], identity_refused : BOOLEAN,
     type_empty : BOOLEAN]

\* No client holds a request twice.
HeldOnce(c) == \A bus \in Bus : \A i, j \in DOMAIN c.requests[bus] :
                   c.requests[bus][i] = c.requests[bus][j] => i = j

-----------------------------------------------------------------------------
(* The clients' queues: only these lemmas look inside the sequences.       *)
LEMMA QueuesReplaced ==
    ASSUME NEW c \in Managers, NEW R \in [Bus -> Seq(Requests)]
    PROVE  /\ [c EXCEPT !.requests = R] \in Managers
           /\ [c EXCEPT !.requests = R].requests = R
BY DEF Managers

LEMMA QueueReplaced ==
    ASSUME NEW R \in [Bus -> Seq(Requests)], NEW bus \in Bus, NEW q \in Seq(Requests)
    PROVE  LET Q == [R EXCEPT ![bus] = q]
           IN  /\ Q \in [Bus -> Seq(Requests)] /\ Q[bus] = q
               /\ \A b \in Bus \ {bus} : Q[b] = R[b]
<1> DEFINE S == Seq(Requests)
<1> HIDE DEF S
<1>1. ASSUME NEW T \in [Bus -> S], NEW x \in S
      PROVE  LET Q == [T EXCEPT ![bus] = x]
             IN Q \in [Bus -> S] /\ Q[bus] = x /\ \A b \in Bus \ {bus} : Q[b] = T[b]
  BY <1>1
<1> QED
  BY <1>1 DEF S

LEMMA AppendFacts ==
    ASSUME NEW q \in Seq(Requests), NEW r \in Requests
    PROVE  /\ Append(q, r) \in Seq(Requests)
           /\ DOMAIN Append(q, r) = 1 .. Len(q) + 1 /\ DOMAIN q = 1 .. Len(q)
           /\ Len(q) \in Nat
           /\ Append(q, r)[Len(q) + 1] = r
           /\ \A i \in 1 .. Len(q) : Append(q, r)[i] = q[i]
OBVIOUS

LEMMA RequestFacts ==
    ASSUME NEW c \in Managers, NEW bus \in Bus, NEW r \in Requests, NEW room \in BOOLEAN
    PROVE  LET d == Request(c, bus, r, room)
           IN  /\ d \in Managers
               /\ d = [c EXCEPT !.requests = d.requests]
               /\ HeldOnce(c) => HeldOnce(d)
               /\ Accepted(c, bus, r, room) => Held(d, bus, r)
               /\ \A b \in Bus : \A q : Held(c, b, q) => Held(d, b, q)
               /\ \A b \in Bus : \A q : Held(d, b, q) => Held(c, b, q) \/ q = r
<1> DEFINE d == Request(c, bus, r, room)
           s == c.requests[bus]
<1>0. s \in Seq(Requests) /\ c.requests \in [Bus -> Seq(Requests)]
  BY DEF Managers
<1>1. CASE room /\ ~Held(c, bus, r)
  <2>1. d = [c EXCEPT !.requests[bus] = Append(s, r)]
    BY <1>1 DEF Request
  <2>2. /\ Append(s, r) \in Seq(Requests)
        /\ DOMAIN Append(s, r) = 1 .. Len(s) + 1 /\ DOMAIN s = 1 .. Len(s)
        /\ Len(s) \in Nat
        /\ Append(s, r)[Len(s) + 1] = r
        /\ \A i \in 1 .. Len(s) : Append(s, r)[i] = s[i]
    BY <1>0, AppendFacts
  <2>3. /\ d \in Managers /\ d = [c EXCEPT !.requests = d.requests]
        /\ d.requests[bus] = Append(s, r)
        /\ \A b \in Bus \ {bus} : d.requests[b] = c.requests[b]
    <3> DEFINE q == Append(s, r)
           R == [c.requests EXCEPT ![bus] = q]
    <3>1. q \in Seq(Requests) /\ d = [c EXCEPT !.requests = R]
      BY <2>1, <2>2
    <3>2. /\ R \in [Bus -> Seq(Requests)] /\ R[bus] = q
          /\ \A b \in Bus \ {bus} : R[b] = c.requests[b]
      <4> HIDE DEF q, s
      <4> QED
        BY <1>0, <3>1, QueueReplaced
    <3> HIDE DEF d, R, q, s
    <3>3. d \in Managers /\ d.requests = R
      BY <3>1, <3>2, QueuesReplaced
    <3> QED
      BY <3>1, <3>2, <3>3 DEF q
  <2>4. d \in Managers /\ d = [c EXCEPT !.requests = d.requests]
    BY <2>3
  <2>5. d.requests[bus] = Append(s, r) /\ \A b \in Bus \ {bus} : d.requests[b] = c.requests[b]
    BY <2>3
  <2> HIDE DEF d, s
  <2>6. Held(d, bus, r)
    BY <2>2, <2>5 DEF Held
  <2>7. ASSUME NEW b \in Bus, NEW q, Held(c, b, q)
        PROVE  Held(d, b, q)
    <3>1. CASE b # bus
      BY <2>5, <2>7, <3>1 DEF Held
    <3>2. CASE b = bus
      <4>1. PICK i \in 1 .. Len(s) : s[i] = q
        BY <2>2, <2>7, <3>2 DEF Held, s
      <4>2. i \in 1 .. Len(s) + 1 /\ Append(s, r)[i] = q
        BY <2>2, <4>1
      <4> QED
        BY <2>2, <2>5, <3>2, <4>2 DEF Held
    <3> QED
      BY <3>1, <3>2
  <2>8. ASSUME NEW b \in Bus, NEW q, Held(d, b, q)
        PROVE  Held(c, b, q) \/ q = r
    <3>1. CASE b # bus
      BY <2>5, <2>8, <3>1 DEF Held
    <3>2. CASE b = bus
      <4>1. PICK i \in 1 .. Len(s) + 1 : Append(s, r)[i] = q
        BY <2>2, <2>5, <2>8, <3>2 DEF Held
      <4>2. CASE i \in 1 .. Len(s)
        BY <2>2, <3>2, <4>1, <4>2 DEF Held, s
      <4>3. CASE i = Len(s) + 1
        BY <2>2, <4>1, <4>3
      <4> QED
        BY <2>2, <4>2, <4>3
    <3> QED
      BY <3>1, <3>2
  <2>9. ASSUME HeldOnce(c), NEW b \in Bus, NEW i \in DOMAIN d.requests[b],
               NEW j \in DOMAIN d.requests[b], d.requests[b][i] = d.requests[b][j]
        PROVE  i = j
    <3>1. CASE b # bus
      BY <2>5, <2>9, <3>1 DEF HeldOnce
    <3>2. CASE b = bus
      <4>1. \A n \in 1 .. Len(s) : s[n] # r
        BY <1>1, <2>2 DEF Held, s
      <4>2. i \in 1 .. Len(s) + 1 /\ j \in 1 .. Len(s) + 1
        BY <2>2, <2>5, <3>2
      <4>3. CASE i \in 1 .. Len(s) /\ j \in 1 .. Len(s)
        BY <2>2, <2>5, <2>9, <3>2, <4>3 DEF HeldOnce, s
      <4>4. CASE i = Len(s) + 1 \/ j = Len(s) + 1
        BY <2>2, <2>5, <2>9, <3>2, <4>1, <4>2, <4>4
      <4> QED
        BY <2>2, <4>2, <4>3, <4>4
    <3> QED
      BY <3>1, <3>2
  <2>10. HeldOnce(c) => HeldOnce(d)
    BY <2>9 DEF HeldOnce
  <2> QED
    BY <2>4, <2>6, <2>7, <2>8, <2>10 DEF d
<1>2. CASE ~(room /\ ~Held(c, bus, r))
  <2>1. d = c
    BY <1>2 DEF Request
  <2>2. c = [c EXCEPT !.requests = c.requests]
    BY DEF Managers
  <2> QED
    BY <1>2, <2>1, <2>2 DEF Accepted
<1> QED
  BY <1>1, <1>2

LEMMA TailFacts ==
    ASSUME NEW q \in Seq(Requests), q # <<>>
    PROVE  /\ Tail(q) \in Seq(Requests) /\ Head(q) \in Requests /\ Head(q) = q[1]
           /\ Len(q) \in Nat /\ 1 \in DOMAIN q /\ DOMAIN q = 1 .. Len(q)
           /\ DOMAIN Tail(q) = 1 .. Len(q) - 1
           /\ \A i \in 1 .. Len(q) - 1 : Tail(q)[i] = q[i + 1]
OBVIOUS

\* A client is done with its first request.
Done(c, bus) == [c EXCEPT !.requests[bus] = Tail(@)]

LEMMA DoneFacts ==
    ASSUME NEW c \in Managers, NEW bus \in Bus, c.requests[bus] # <<>>
    PROVE  LET d == Done(c, bus)
               r == Head(c.requests[bus])
           IN  /\ d \in Managers /\ r \in Requests /\ Held(c, bus, r)
               /\ d = [c EXCEPT !.requests = d.requests]
               /\ HeldOnce(c) => HeldOnce(d) /\ ~Held(d, bus, r)
               /\ \A b \in Bus : \A q : Held(d, b, q) => Held(c, b, q)
               /\ \A b \in Bus : \A q : Held(c, b, q) => Held(d, b, q) \/ (b = bus /\ q = r)
<1> DEFINE d == Done(c, bus)
           s == c.requests[bus]
           r == Head(s)
<1>0. s \in Seq(Requests) /\ c.requests \in [Bus -> Seq(Requests)]
  BY DEF Managers
<1>1. /\ Tail(s) \in Seq(Requests) /\ r \in Requests /\ r = s[1]
      /\ Len(s) \in Nat /\ 1 \in DOMAIN s /\ DOMAIN s = 1 .. Len(s)
      /\ DOMAIN Tail(s) = 1 .. Len(s) - 1
      /\ \A i \in 1 .. Len(s) - 1 : Tail(s)[i] = s[i + 1]
  BY <1>0, TailFacts
<1>2. d = [c EXCEPT !.requests[bus] = Tail(s)]
  BY DEF Done
<1>3. /\ d \in Managers /\ d = [c EXCEPT !.requests = d.requests]
      /\ d.requests[bus] = Tail(s)
      /\ \A b \in Bus \ {bus} : d.requests[b] = c.requests[b]
  <2> DEFINE q == Tail(s)
         R == [c.requests EXCEPT ![bus] = q]
  <2>1. q \in Seq(Requests) /\ d = [c EXCEPT !.requests = R]
    BY <1>1, <1>2
  <2>2. /\ R \in [Bus -> Seq(Requests)] /\ R[bus] = q
        /\ \A b \in Bus \ {bus} : R[b] = c.requests[b]
    <3> HIDE DEF q, s
    <3> QED
      BY <1>0, <2>1, QueueReplaced
  <2> HIDE DEF d, R, q, s
  <2>3. d \in Managers /\ d.requests = R
    BY <2>1, <2>2, QueuesReplaced
  <2> QED
    BY <2>1, <2>2, <2>3 DEF q
<1>4. d \in Managers /\ d = [c EXCEPT !.requests = d.requests]
  BY <1>3
<1>5. d.requests[bus] = Tail(s) /\ \A b \in Bus \ {bus} : d.requests[b] = c.requests[b]
  BY <1>3
<1> HIDE DEF d, s, r
<1>6. Held(c, bus, r)
  BY <1>1 DEF Held, s
<1>7. ASSUME NEW b \in Bus, NEW q, Held(d, b, q)
      PROVE  Held(c, b, q)
  <2>1. CASE b # bus
    BY <1>5, <1>7, <2>1 DEF Held
  <2>2. CASE b = bus
    <3>1. PICK i \in 1 .. Len(s) - 1 : Tail(s)[i] = q
      BY <1>1, <1>5, <1>7, <2>2 DEF Held
    <3>2. i + 1 \in DOMAIN s /\ s[i + 1] = q
      BY <1>1, <3>1
    <3> QED
      BY <2>2, <3>2 DEF Held, s
  <2> QED
    BY <2>1, <2>2
<1>8. ASSUME NEW b \in Bus, NEW q, Held(c, b, q), b # bus \/ q # r
      PROVE  Held(d, b, q)
  <2>1. CASE b # bus
    BY <1>5, <1>8, <2>1 DEF Held
  <2>2. CASE b = bus
    <3>1. PICK i \in 1 .. Len(s) : s[i] = q
      BY <1>1, <1>8, <2>2 DEF Held, s
    <3>2. i # 1
      BY <1>1, <1>8, <2>2, <3>1
    <3>3. i - 1 \in 1 .. Len(s) - 1 /\ Tail(s)[i - 1] = s[(i - 1) + 1]
      BY <1>1, <3>1, <3>2
    <3>4. Tail(s)[i - 1] = q
      BY <1>1, <3>1, <3>3
    <3> QED
      BY <1>1, <1>5, <2>2, <3>3, <3>4 DEF Held
  <2> QED
    BY <2>1, <2>2
<1>9. ASSUME HeldOnce(c)
      PROVE  HeldOnce(d) /\ ~Held(d, bus, r)
  <2>1. \A i, j \in 1 .. Len(s) : s[i] = s[j] => i = j
    BY <1>1, <1>9 DEF HeldOnce, s
  <2>2. \A i, j \in 1 .. Len(s) - 1 : Tail(s)[i] = Tail(s)[j] => i = j
    <3> SUFFICES ASSUME NEW i \in 1 .. Len(s) - 1, NEW j \in 1 .. Len(s) - 1,
                        Tail(s)[i] = Tail(s)[j]
                 PROVE  i = j
      OBVIOUS
    <3>1. i + 1 \in 1 .. Len(s) /\ j + 1 \in 1 .. Len(s) /\ s[i + 1] = s[j + 1]
      BY <1>1
    <3> QED
      BY <2>1, <3>1
  <2>3. HeldOnce(d)
    BY <1>1, <1>5, <1>9, <2>2 DEF HeldOnce
  <2>4. \A i \in 1 .. Len(s) - 1 : Tail(s)[i] # r
    <3> SUFFICES ASSUME NEW i \in 1 .. Len(s) - 1, Tail(s)[i] = r
                 PROVE  FALSE
      OBVIOUS
    <3>1. i + 1 \in 1 .. Len(s) /\ 1 \in 1 .. Len(s) /\ s[i + 1] = s[1]
      BY <1>1
    <3> QED
      BY <2>1, <3>1
  <2> QED
    BY <1>1, <1>5, <2>3, <2>4 DEF Held
<1>10. /\ d \in Managers /\ r \in Requests /\ Held(c, bus, r)
       /\ d = [c EXCEPT !.requests = d.requests]
       /\ HeldOnce(c) => HeldOnce(d) /\ ~Held(d, bus, r)
       /\ \A b \in Bus : \A q : Held(d, b, q) => Held(c, b, q)
       /\ \A b \in Bus : \A q : Held(c, b, q) => Held(d, b, q) \/ (b = bus /\ q = r)
  BY <1>1, <1>4, <1>6, <1>7, <1>8, <1>9, Zenon
<1> QED
  BY <1>10 DEF d, r, s

-----------------------------------------------------------------------------
(* What an event may do to the managers: reads are requested, nothing is   *)
(* withdrawn, and the results of autodiscovery stay.                       *)
Kept(c, d) == /\ d \in Managers
              /\ HeldOnce(c) => HeldOnce(d)
              /\ d.discovery = c.discovery /\ d.host = c.host /\ d.client = c.client
              /\ d.gea2 = c.gea2 /\ d.identity_client = c.identity_client
              /\ d.erd_bridge_initialized_ = c.erd_bridge_initialized_
              /\ c.feature_bit_reading_started_ => d.feature_bit_reading_started_
              /\ \A bus \in Bus : \A r : Held(c, bus, r) => Held(d, bus, r)
              /\ \A bus \in Bus : \A r :
                    Held(d, bus, r) => Held(c, bus, r) \/ (r.op = "read" /\ c.identity_client)

IdentityPartKept(c, d) == /\ d.identity = c.identity /\ d.hsm = c.hsm
                          /\ d.identity_refused = c.identity_refused
                          /\ d.type_empty = c.type_empty

FeaturePartKept(c, d) ==
    /\ d.features = c.features /\ d.reading_idx = c.reading_idx
    /\ d.read_queued = c.read_queued /\ d.retry_timer = c.retry_timer
    /\ d.feature_bit_reading_started_ = c.feature_bit_reading_started_

\* The three properties as statements about one state of the managers.
IdentityReadOK(c) ==
    c.hsm = "device_id" /\ ~c.identity_refused =>
        /\ c.identity \in IdentityErd
        /\ \/ Held(c, c.client, ReadOf(c.host, c.identity))
           \/ c.identity = "type" /\ c.type_empty

FeatureReadOK(c) ==
    c.feature_bit_reading_started_ /\ c.features = "reading" =>
        IF c.read_queued
        THEN Held(c, c.client, ReadOf(c.host, Features[c.reading_idx + 1]))
        ELSE c.retry_timer

(* How far the startup, autodiscovery, the identity and the features are   *)
(* fits together.                                                          *)
StagesOK(c) ==
    /\ c.hsm = "startup_delay" <=> c.discovery = "idle"
    /\ c.hsm = "autodiscovery" <=> c.discovery \in Bus
    /\ c.client # None <=> c.host # None
    /\ c.discovery = "idle" => c.client = None
    /\ c.discovery \in Bus => c.client \in {None, c.discovery}
    /\ c.discovery = "complete" => c.client # None /\ c.gea2 = (c.client = "gea2")
    /\ c.identity_client <=> c.discovery = "complete"
    /\ ~c.identity_client => /\ c.identity \in {"type", "model"}
                             /\ \A bus \in Bus : \A r : Held(c, bus, r) => r.erd = "type"
    /\ c.feature_bit_reading_started_ => c.hsm \in {"feature_bits", "bridge_init"}
    /\ ~c.feature_bit_reading_started_ =>
           c.features = "reading" /\ c.reading_idx = 0 /\ ~c.read_queued /\ ~c.retry_timer
    /\ c.features = "reading" => c.reading_idx < Len(Features)
    /\ c.erd_bridge_initialized_ => c.hsm = "bridge_init"

LEMMA FeatureFacts ==
    /\ Len(Features) \in Nat /\ Len(Features) > 0 /\ DOMAIN Features = 1 .. Len(Features)
    /\ \A i \in 1 .. Len(Features) : Features[i] \in FeatureErd /\ Features[i] \in ErdName
BY AcquisitionConstants DEF FeatureErd, ErdName

LEMMA KeptTransitive ==
    ASSUME NEW c, NEW d, NEW e, Kept(c, d), Kept(d, e)
    PROVE  Kept(c, e)
BY DEF Kept

LEMMA KeptReflexive == ASSUME NEW c \in Managers PROVE Kept(c, c)
BY DEF Kept

LEMMA RequestKeeps ==
    ASSUME NEW c \in Managers, NEW r \in Requests, NEW room \in BOOLEAN,
           c.client \in Bus, r.op = "read", c.identity_client
    PROVE  LET d == Request(c, c.client, r, room)
           IN  /\ Kept(c, d) /\ IdentityPartKept(c, d) /\ FeaturePartKept(c, d)
               /\ Accepted(c, c.client, r, room) => Held(d, c.client, r)
<1> DEFINE d == Request(c, c.client, r, room)
<1>1. /\ d \in Managers
      /\ d = [c EXCEPT !.requests = d.requests]
      /\ HeldOnce(c) => HeldOnce(d)
      /\ Accepted(c, c.client, r, room) => Held(d, c.client, r)
      /\ \A b \in Bus : \A q : Held(c, b, q) => Held(d, b, q)
      /\ \A b \in Bus : \A q : Held(d, b, q) => Held(c, b, q) \/ q = r
  BY RequestFacts
<1> HIDE DEF d
<1>2. IdentityPartKept(c, d) /\ FeaturePartKept(c, d)
  BY <1>1 DEF IdentityPartKept, FeaturePartKept, Managers
<1>3. /\ d.discovery = c.discovery /\ d.host = c.host /\ d.client = c.client
      /\ d.gea2 = c.gea2 /\ d.identity_client = c.identity_client
      /\ d.erd_bridge_initialized_ = c.erd_bridge_initialized_
  BY <1>1 DEF Managers
<1>4. Kept(c, d)
  BY <1>1, <1>2, <1>3 DEF Kept, FeaturePartKept
<1> QED
  BY <1>1, <1>2, <1>4 DEF d

LEMMA RequestElsewhere ==
    ASSUME NEW c \in Managers, NEW bus \in Bus, NEW r \in Requests, NEW room \in BOOLEAN,
           NEW b \in Bus, NEW q, Held(Request(c, bus, r, room), b, q), ~Held(c, b, q)
    PROVE  b = bus
<1> SUFFICES ASSUME b # bus PROVE FALSE
  OBVIOUS
<1>1. Request(c, bus, r, room).requests[b] = c.requests[b]
  <2>1. CASE Request(c, bus, r, room) = c
    BY <2>1
  <2>2. CASE Request(c, bus, r, room) = [c EXCEPT !.requests[bus] = Append(@, r)]
    BY <2>2 DEF Managers
  <2> QED
    BY <2>1, <2>2 DEF Request
<1> QED
  BY <1>1 DEF Held

\* Fields that are not the queues do not matter to what is held.
LEMMA HeldByQueues ==
    ASSUME NEW c, NEW d, c.requests = d.requests
    PROVE  /\ HeldOnce(c) <=> HeldOnce(d)
           /\ \A bus, r : Held(c, bus, r) <=> Held(d, bus, r)
BY DEF HeldOnce, Held

(* Device identity: a read that is queued is held unless it was refused.   *)
LEMMA TryQueueRead ==
    ASSUME NEW c \in Managers, NEW erd \in IdentityErd \cup ErdName, NEW room \in BOOLEAN,
           c.identity_client => c.client \in Bus
    PROVE  LET d == try_queue_read(c, erd, room)
           IN  /\ Kept(c, d) /\ FeaturePartKept(c, d)
               /\ d.identity = c.identity /\ d.hsm = c.hsm
               /\ d.type_empty = c.type_empty
               /\ ~d.identity_refused => ~c.identity_refused
               /\ c.identity_client /\ ~d.identity_refused =>
                      Held(d, c.client, ReadOf(c.host, erd))
<1> DEFINE r == ReadOf(c.host, erd)
           e == Request(c, c.client, r, room)
           x == c.identity_refused \/ ~Accepted(c, c.client, r, room)
           d == try_queue_read(c, erd, room)
<1>1. CASE ~c.identity_client
  <2>1. d = c
    BY <1>1 DEF try_queue_read
  <2> QED
    BY <1>1, <2>1, KeptReflexive DEF FeaturePartKept
<1>2. CASE c.identity_client
  <2>0. r \in Requests /\ r.op = "read"
    BY DEF ReadOf, Requests, Managers, ErdName
  <2>1. /\ Kept(c, e) /\ IdentityPartKept(c, e) /\ FeaturePartKept(c, e)
        /\ Accepted(c, c.client, r, room) => Held(e, c.client, r)
    BY <1>2, <2>0, RequestKeeps
  <2>2. e \in Managers /\ e.identity_refused = c.identity_refused /\ x \in BOOLEAN
    BY <2>1 DEF Kept, IdentityPartKept, Managers
  <2>3. d = [e EXCEPT !.identity_refused = x]
    BY <1>2, <2>2 DEF try_queue_read
  <2> HIDE DEF e, r, x, d
  <2>4. /\ d \in Managers /\ d.requests = e.requests /\ d.identity_refused = x
        /\ IdentityPartKept(c, e) => /\ d.identity = c.identity /\ d.hsm = c.hsm
                                    /\ d.type_empty = c.type_empty
        /\ FeaturePartKept(e, d)
        /\ d.discovery = e.discovery /\ d.host = e.host /\ d.client = e.client
        /\ d.gea2 = e.gea2 /\ d.identity_client = e.identity_client
        /\ d.erd_bridge_initialized_ = e.erd_bridge_initialized_
    BY <2>2, <2>3 DEF Managers, IdentityPartKept, FeaturePartKept
  <2>5. Kept(e, d)
    BY <2>4, HeldByQueues DEF Kept, FeaturePartKept
  <2>6. Kept(c, d) /\ FeaturePartKept(c, d)
    BY <2>1, <2>4, <2>5, KeptTransitive DEF FeaturePartKept
  <2>7. ~d.identity_refused => ~c.identity_refused /\ Held(d, c.client, r)
    BY <2>1, <2>4, HeldByQueues DEF x
  <2> QED
    BY <2>1, <2>4, <2>6, <2>7 DEF d, r
<1> QED
  BY <1>1, <1>2

-----------------------------------------------------------------------------
(* The feature bit manager's next read is held, or its retry timer runs.   *)
LEMMA QueueErdRead ==
    ASSUME NEW c \in Managers, NEW room \in BOOLEAN, c.client \in Bus, c.identity_client,
           c.reading_idx < Len(Features), ~c.read_queued
    PROVE  LET d == queue_erd_read(c, room)
           IN  /\ Kept(c, d) /\ IdentityPartKept(c, d)
               /\ d.features = c.features /\ d.reading_idx = c.reading_idx
               /\ d.feature_bit_reading_started_ = c.feature_bit_reading_started_
               /\ FeatureReadOK(d)
<1> DEFINE r == ReadOf(c.host, Features[c.reading_idx + 1])
           e == Request(c, c.client, r, room)
           d == queue_erd_read(c, room)
<1>0. c.reading_idx \in Nat /\ c.reading_idx + 1 \in 1 .. Len(Features)
  BY FeatureFacts DEF Managers
<1>1. r \in Requests /\ r.op = "read"
  BY <1>0, FeatureFacts DEF ReadOf, Requests, Managers
<1>2. /\ Kept(c, e) /\ IdentityPartKept(c, e) /\ FeaturePartKept(c, e)
      /\ Accepted(c, c.client, r, room) => Held(e, c.client, r)
  BY <1>1, RequestKeeps
<1>3. CASE Accepted(c, c.client, r, room)
  <2>1. d = [e EXCEPT !.read_queued = TRUE]
    BY <1>3 DEF queue_erd_read
  <2>2. e \in Managers /\ e.requests = e.requests
    BY <1>2 DEF Kept
  <2> HIDE DEF e, d
  <2>3. /\ d \in Managers /\ d.requests = e.requests /\ d.read_queued
        /\ IdentityPartKept(e, d)
        /\ d.features = e.features /\ d.reading_idx = e.reading_idx
        /\ d.feature_bit_reading_started_ = e.feature_bit_reading_started_
        /\ d.discovery = e.discovery /\ d.host = e.host /\ d.client = e.client
        /\ d.gea2 = e.gea2 /\ d.identity_client = e.identity_client
        /\ d.erd_bridge_initialized_ = e.erd_bridge_initialized_
    BY <2>1, <2>2 DEF Managers, IdentityPartKept
  <2>4. Kept(c, d)
    <3>1. Kept(e, d)
      BY <2>3, HeldByQueues DEF Kept
    <3> QED
      BY <1>2, <3>1, KeptTransitive
  <2>5. Held(d, c.client, r)
    BY <1>2, <1>3, <2>3, HeldByQueues
  <2>6. IdentityPartKept(c, d)
    BY <1>2, <2>3 DEF IdentityPartKept
  <2>7. /\ d.features = c.features /\ d.reading_idx = c.reading_idx
        /\ d.feature_bit_reading_started_ = c.feature_bit_reading_started_
    BY <1>2, <2>3 DEF FeaturePartKept
  <2>8. FeatureReadOK(d)
    BY <2>3, <2>4, <2>5, <2>7 DEF FeatureReadOK, Kept
  <2> QED
    BY <2>4, <2>6, <2>7, <2>8 DEF d
<1>4. CASE ~Accepted(c, c.client, r, room)
  <2>1. d = [c EXCEPT !.retry_timer = TRUE]
    BY <1>4 DEF queue_erd_read
  <2> HIDE DEF d
  <2>3. /\ d \in Managers /\ d.requests = c.requests /\ d.retry_timer /\ ~d.read_queued
        /\ IdentityPartKept(c, d)
        /\ d.features = c.features /\ d.reading_idx = c.reading_idx
        /\ d.feature_bit_reading_started_ = c.feature_bit_reading_started_
        /\ d.discovery = c.discovery /\ d.host = c.host /\ d.client = c.client
        /\ d.gea2 = c.gea2 /\ d.identity_client = c.identity_client
        /\ d.erd_bridge_initialized_ = c.erd_bridge_initialized_
    BY <2>1 DEF Managers, IdentityPartKept
  <2>4. Kept(c, d)
    BY <2>3, HeldByQueues DEF Kept
  <2>5. FeatureReadOK(d)
    BY <2>3 DEF FeatureReadOK
  <2> QED
    BY <2>3, <2>4, <2>5 DEF d
<1> QED
  BY <1>3, <1>4

\* A step that only works on the managers' reads keeps the stages together.
LEMMA StagesKept ==
    ASSUME NEW c, NEW d, StagesOK(c), Kept(c, d), d.hsm = c.hsm,
           c.identity_client \/ d.identity \in {"type", "model"},
           d.feature_bit_reading_started_ <=> c.feature_bit_reading_started_,
           ~c.feature_bit_reading_started_ => FeaturePartKept(c, d),
           d.features = "reading" => d.reading_idx < Len(Features)
    PROVE  StagesOK(d)
BY DEF StagesOK, Kept, FeaturePartKept

\* Where the identity manager and the feature bit manager may be running.
LEMMA StageFacts ==
    ASSUME NEW c \in Managers, StagesOK(c)
    PROVE  /\ c.identity_client => c.client \in Bus
           /\ c.hsm \in {"device_id", "feature_bits", "bridge_init"} => c.identity_client
           /\ c.feature_bit_reading_started_ => c.identity_client
           /\ c.client \in Bus => c.host \in Address
BY AcquisitionConstants DEF StagesOK, Managers, Bus, None

LEMMA FeatureReadKept ==
    ASSUME NEW c \in Managers, NEW d, StagesOK(c), Kept(c, d), FeaturePartKept(c, d),
           FeatureReadOK(c)
    PROVE  FeatureReadOK(d)
<1> SUFFICES ASSUME d.feature_bit_reading_started_, d.features = "reading"
             PROVE  IF d.read_queued
                    THEN Held(d, d.client, ReadOf(d.host, Features[d.reading_idx + 1]))
                    ELSE d.retry_timer
  BY DEF FeatureReadOK
<1>1. c.feature_bit_reading_started_ /\ c.features = "reading"
  BY DEF FeaturePartKept
<1>2. c.client \in Bus
  BY <1>1, StageFacts
<1>3. CASE c.read_queued
  <2>1. Held(c, c.client, ReadOf(c.host, Features[c.reading_idx + 1]))
    BY <1>1, <1>3 DEF FeatureReadOK
  <2> QED
    BY <1>2, <1>3, <2>1 DEF Kept, FeaturePartKept
<1>4. CASE ~c.read_queued
  BY <1>1, <1>4, Zenon DEF FeatureReadOK, FeaturePartKept
<1> QED
  BY <1>3, <1>4

LEMMA IdentityReadKept ==
    ASSUME NEW c \in Managers, NEW d, StagesOK(c), Kept(c, d), IdentityPartKept(c, d),
           IdentityReadOK(c)
    PROVE  IdentityReadOK(d)
<1> SUFFICES ASSUME d.hsm = "device_id", ~d.identity_refused
             PROVE  /\ d.identity \in IdentityErd
                    /\ \/ Held(d, d.client, ReadOf(d.host, d.identity))
                       \/ d.identity = "type" /\ d.type_empty
  BY DEF IdentityReadOK
<1>1. /\ c.identity \in IdentityErd
      /\ \/ Held(c, c.client, ReadOf(c.host, c.identity))
         \/ c.identity = "type" /\ c.type_empty
  BY DEF IdentityReadOK, IdentityPartKept
<1>2. c.client \in Bus
  BY StageFacts DEF IdentityPartKept
<1> QED
  BY <1>1, <1>2 DEF Kept, IdentityPartKept

LEMMA DeviceIdStep ==
    ASSUME NEW c \in Managers, StagesOK(c), NEW room \in BOOLEAN
    PROVE  LET d == DeviceIdComplete(c, room)
           IN  /\ Kept(c, d) /\ StagesOK(d) /\ IdentityReadOK(d)
               /\ FeatureReadOK(c) => FeatureReadOK(d)
<1>1. CASE c.hsm # "device_id"
  <2>1. DeviceIdComplete(c, room) = c
    BY <1>1 DEF DeviceIdComplete
  <2> QED
    BY <1>1, <2>1, KeptReflexive DEF IdentityReadOK
<1>2. CASE c.hsm = "device_id"
  <2> DEFINE b == [c EXCEPT !.hsm = "feature_bits"]
             a == [b EXCEPT !.feature_bit_reading_started_ = TRUE]
             d == DeviceIdComplete(c, room)
  <2>1. /\ c.identity_client /\ c.client \in Bus /\ c.discovery = "complete"
        /\ ~c.feature_bit_reading_started_ /\ c.features = "reading"
        /\ c.reading_idx = 0 /\ ~c.read_queued /\ ~c.erd_bridge_initialized_
    BY <1>2, StageFacts DEF StagesOK, Managers
  <2>2. /\ a \in Managers /\ a.requests = c.requests
        /\ a.hsm = "feature_bits" /\ a.feature_bit_reading_started_
        /\ a.discovery = c.discovery /\ a.host = c.host /\ a.client = c.client
        /\ a.gea2 = c.gea2 /\ a.identity_client = c.identity_client
        /\ a.erd_bridge_initialized_ = c.erd_bridge_initialized_
        /\ a.features = "reading" /\ a.reading_idx = 0 /\ ~a.read_queued
    BY <2>1 DEF Managers
  <2>3. d = queue_erd_read(a, room)
    <3>1. b.features = "reading" /\ ~b.feature_bit_reading_started_ /\ b.client # None
      BY <2>1 DEF Managers, Bus, None
    <3> HIDE DEF b
    <3>2. start_feature_bit_reading(b, room) = queue_erd_read(a, room)
      BY <3>1 DEF start_feature_bit_reading
    <3> QED
      BY <1>2, <3>2 DEF DeviceIdComplete, b
  <2> HIDE DEF a, d
  <2>4. Kept(c, a)
    BY <2>2, HeldByQueues DEF Kept
  <2>5. /\ Kept(a, d) /\ IdentityPartKept(a, d)
        /\ d.features = a.features /\ d.reading_idx = a.reading_idx
        /\ d.feature_bit_reading_started_ = a.feature_bit_reading_started_
        /\ FeatureReadOK(d)
    BY <2>1, <2>2, <2>3, FeatureFacts, QueueErdRead
  <2>6. Kept(c, d)
    BY <2>4, <2>5, KeptTransitive
  <2>7. d.hsm = "feature_bits" /\ d.feature_bit_reading_started_ /\ d.reading_idx = 0
    BY <2>2, <2>5 DEF IdentityPartKept
  <2>8. StagesOK(d)
    <3>1. c.client # None /\ c.host # None /\ c.gea2 = (c.client = "gea2")
      BY <2>1 DEF StagesOK
    <3> QED
      BY <2>1, <2>6, <2>7, <3>1, FeatureFacts DEF StagesOK, Kept, Bus
  <2> QED
    BY <2>5, <2>6, <2>7, <2>8 DEF IdentityReadOK, d
<1> QED
  BY <1>1, <1>2

-----------------------------------------------------------------------------
(* The events of the clients.  Before the identity manager runs, the only  *)
(* reads are those of autodiscovery.                                       *)
Events == [erd : ErdName, address : Address \cup {Broadcast, None}, completed : BOOLEAN,
           empty : BOOLEAN]
EventOK(c, e) == e \in Events /\ (~c.identity_client => e.erd = "type")

\* The event ends the read that the identity manager waits for ...
EndsIdentityRead(c, e) == e.address = c.host /\ e.erd = c.identity /\ c.identity \in IdentityErd

\* ... or the one that the feature bit manager waits for.
EndsFeatureRead(c, e) == /\ c.read_queued /\ e.address = c.host
                         /\ e.erd = Features[c.reading_idx + 1]

\* The identity manager goes on to the next ERD.
LEMMA IdentityNext ==
    ASSUME NEW c \in Managers, StagesOK(c), NEW room \in BOOLEAN, NEW erd \in {"model", "serial"},
           c.identity_client \/ erd = "model"
    PROVE  LET d == try_queue_read([c EXCEPT !.identity = erd], erd, room)
           IN  /\ Kept(c, d) /\ StagesOK(d) /\ IdentityReadOK(d)
               /\ d.identity = erd
               /\ FeatureReadOK(c) => FeatureReadOK(d)
<1> DEFINE b == [c EXCEPT !.identity = erd]
           d == try_queue_read(b, erd, room)
<1>1. /\ b \in Managers /\ b.requests = c.requests /\ b.identity = erd /\ b.hsm = c.hsm
      /\ FeaturePartKept(c, b)
      /\ b.discovery = c.discovery /\ b.host = c.host /\ b.client = c.client
      /\ b.gea2 = c.gea2 /\ b.identity_client = c.identity_client
      /\ b.erd_bridge_initialized_ = c.erd_bridge_initialized_
  BY DEF Managers, IdentityErd, FeaturePartKept
<1> HIDE DEF b
<1>2. Kept(c, b)
  BY <1>1, HeldByQueues DEF Kept, FeaturePartKept
<1>3. /\ Kept(b, d) /\ FeaturePartKept(b, d)
      /\ d.identity = b.identity /\ d.hsm = b.hsm
      /\ b.identity_client /\ ~d.identity_refused => Held(d, b.client, ReadOf(b.host, erd))
  <2>1. b.identity_client => b.client \in Bus
    BY <1>1, StageFacts
  <2>2. erd \in IdentityErd \cup ErdName
    BY DEF IdentityErd
  <2> QED
    BY <1>1, <2>1, <2>2, TryQueueRead
<1> HIDE DEF d
<1>4. Kept(c, d) /\ FeaturePartKept(c, d)
  BY <1>1, <1>2, <1>3, KeptTransitive DEF FeaturePartKept
<1>5. StagesOK(d)
  <2>1. c.identity_client \/ d.identity \in {"type", "model"}
    BY <1>1, <1>3
  <2>2. d.features = "reading" => d.reading_idx < Len(Features)
    BY <1>4 DEF FeaturePartKept, StagesOK
  <2>3. d.feature_bit_reading_started_ <=> c.feature_bit_reading_started_
    BY <1>4 DEF FeaturePartKept
  <2> QED
    BY <1>1, <1>3, <1>4, <2>1, <2>2, <2>3, StagesKept
<1>6. IdentityReadOK(d)
  <2>1. d.hsm = "device_id" => c.identity_client
    BY <1>1, <1>3, StageFacts
  <2> QED
    BY <1>1, <1>3, <1>4, <2>1 DEF IdentityReadOK, IdentityErd, Kept
<1>7. FeatureReadOK(c) => FeatureReadOK(d)
  BY <1>4, FeatureReadKept
<1> QED
  BY <1>1, <1>3, <1>4, <1>5, <1>6, <1>7 DEF b, d

LEMMA RouteStep ==
    ASSUME NEW c \in Managers, StagesOK(c), NEW room \in BOOLEAN, NEW e, EventOK(c, e)
    PROVE  LET d == RouteToIdentity(c, e, room)
           IN  /\ Kept(c, d) /\ StagesOK(d)
               /\ IdentityReadOK(c) \/ EndsIdentityRead(c, e) => IdentityReadOK(d)
               /\ FeatureReadOK(c) => FeatureReadOK(d)
               /\ e.erd \in FeatureErd /\ c.features = "reading" => d = c
<1> DEFINE d == RouteToIdentity(c, e, room)
           routed == ~(c.erd_bridge_initialized_ \/ e.address # c.host
                       \/ should_route_to_feature_bits(c, e.erd))
<1>0. /\ e.erd \in ErdName /\ e.completed \in BOOLEAN /\ e.empty \in BOOLEAN
      /\ ~c.identity_client => e.erd = "type"
  BY DEF EventOK, Events
<1>1. CASE ~routed
  <2>1. d = c
    BY <1>1 DEF RouteToIdentity
  <2>2. EndsIdentityRead(c, e) => c.erd_bridge_initialized_
    BY <1>1, AcquisitionConstants DEF EndsIdentityRead, should_route_to_feature_bits
  <2>3. c.erd_bridge_initialized_ => c.hsm = "bridge_init"
    BY DEF StagesOK
  <2>4. EndsIdentityRead(c, e) => IdentityReadOK(c)
    BY <2>2, <2>3 DEF IdentityReadOK
  <2> QED
    BY <2>1, <2>4, KeptReflexive
<1>2. CASE routed /\ ~e.completed
  <2>1. d = try_queue_read(c, e.erd, room)
    BY <1>2 DEF RouteToIdentity, IdentityFailed
  <2>2. e.erd \in IdentityErd \cup ErdName /\ (c.identity_client => c.client \in Bus)
    BY <1>0, StageFacts
  <2>3. /\ Kept(c, d) /\ FeaturePartKept(c, d)
        /\ d.identity = c.identity /\ d.hsm = c.hsm /\ d.type_empty = c.type_empty
        /\ ~d.identity_refused => ~c.identity_refused
        /\ c.identity_client /\ ~d.identity_refused =>
               Held(d, c.client, ReadOf(c.host, e.erd))
    BY <2>1, <2>2, TryQueueRead
  <2>4. ~(e.erd \in FeatureErd /\ c.features = "reading")
    BY <1>2 DEF should_route_to_feature_bits
  <2> HIDE DEF d
  <2>5. StagesOK(d)
    <3>1. /\ d.features = "reading" => d.reading_idx < Len(Features)
          /\ d.feature_bit_reading_started_ <=> c.feature_bit_reading_started_
      BY <2>3 DEF FeaturePartKept, StagesOK
    <3>2. c.identity_client \/ d.identity \in {"type", "model"}
      BY <2>3 DEF StagesOK
    <3> QED
      BY <2>3, <3>1, <3>2, StagesKept
  <2>6. FeatureReadOK(c) => FeatureReadOK(d)
    BY <2>3, FeatureReadKept
  <2>7. ASSUME IdentityReadOK(c) \/ EndsIdentityRead(c, e)
        PROVE  IdentityReadOK(d)
    <3> SUFFICES ASSUME d.hsm = "device_id", ~d.identity_refused
                 PROVE  /\ d.identity \in IdentityErd
                        /\ \/ Held(d, d.client, ReadOf(d.host, d.identity))
                           \/ d.identity = "type" /\ d.type_empty
      BY DEF IdentityReadOK
    <3>1. c.identity_client /\ c.client \in Bus
      BY <2>3, StageFacts
    <3>2. CASE IdentityReadOK(c)
      <4>1. /\ c.identity \in IdentityErd
            /\ \/ Held(c, c.client, ReadOf(c.host, c.identity))
               \/ c.identity = "type" /\ c.type_empty
        BY <2>3, <3>2 DEF IdentityReadOK
      <4> QED
        BY <2>3, <3>1, <4>1 DEF Kept
    <3>3. CASE EndsIdentityRead(c, e)
      BY <2>3, <3>1, <3>3 DEF Kept, EndsIdentityRead
    <3> QED
      BY <2>7, <3>2, <3>3
  <2> QED
    BY <2>3, <2>4, <2>5, <2>6, <2>7 DEF d
<1>3. CASE routed /\ e.completed
  <2> DEFINE b == IdentityCompleted(c, e.erd, e.empty, room)
  <2>1. d = IF b.identity = "complete" THEN DeviceIdComplete(b, room) ELSE b
    BY <1>3 DEF RouteToIdentity
  <2>2. ~(e.erd \in FeatureErd /\ c.features = "reading")
    BY <1>3 DEF should_route_to_feature_bits
  <2>3. /\ Kept(c, b) /\ StagesOK(b)
        /\ FeatureReadOK(c) => FeatureReadOK(b)
        /\ b.identity # "complete" /\ (IdentityReadOK(c) \/ EndsIdentityRead(c, e))
               => IdentityReadOK(b)
    <3>0. CASE e.erd = "type" /\ e.empty
      <4>1. b = [c EXCEPT !.type_empty = TRUE]
        BY <3>0 DEF IdentityCompleted
      <4> HIDE DEF b
      <4>2. /\ b \in Managers /\ b.requests = c.requests /\ b.identity = c.identity
            /\ b.hsm = c.hsm /\ FeaturePartKept(c, b) /\ b.type_empty
            /\ b.identity_refused = c.identity_refused
            /\ b.discovery = c.discovery /\ b.host = c.host /\ b.client = c.client
            /\ b.gea2 = c.gea2 /\ b.identity_client = c.identity_client
            /\ b.erd_bridge_initialized_ = c.erd_bridge_initialized_
        BY <4>1 DEF Managers, FeaturePartKept
      <4>3. Kept(c, b)
        BY <4>2, HeldByQueues DEF Kept, FeaturePartKept
      <4>4. FeatureReadOK(c) => FeatureReadOK(b)
        BY <4>2, <4>3, FeatureReadKept
      <4>5. StagesOK(b)
        <5>1. /\ b.features = "reading" => b.reading_idx < Len(Features)
              /\ b.feature_bit_reading_started_ <=> c.feature_bit_reading_started_
              /\ c.identity_client \/ b.identity \in {"type", "model"}
          BY <4>2 DEF FeaturePartKept, StagesOK
        <5> QED
          BY <4>2, <4>3, <5>1, StagesKept
      <4>6. ASSUME IdentityReadOK(c) \/ EndsIdentityRead(c, e)
            PROVE  IdentityReadOK(b)
        <5> SUFFICES ASSUME b.hsm = "device_id", ~b.identity_refused
                     PROVE  /\ b.identity \in IdentityErd
                            /\ \/ Held(b, b.client, ReadOf(b.host, b.identity))
                               \/ b.identity = "type" /\ b.type_empty
          BY DEF IdentityReadOK
        <5>1. c.client \in Bus
          BY <4>2, StageFacts
        <5>2. CASE IdentityReadOK(c)
          BY <4>2, <4>3, <5>1, <5>2 DEF IdentityReadOK, Kept
        <5>3. CASE EndsIdentityRead(c, e)
          BY <3>0, <4>2, <5>3 DEF EndsIdentityRead, IdentityErd
        <5> QED
          BY <4>6, <5>2, <5>3
      <4> QED
        BY <4>3, <4>4, <4>5, <4>6
    <3>1. CASE e.erd = "type" /\ ~e.empty
      <4>1. b = try_queue_read([c EXCEPT !.identity = "model"], "model", room)
        BY <3>1 DEF IdentityCompleted
      <4> HIDE DEF b
      <4> QED
        BY <4>1, IdentityNext
    <3>2. CASE e.erd = "model"
      <4>1. b = try_queue_read([c EXCEPT !.identity = "serial"], "serial", room)
        BY <3>2 DEF IdentityCompleted
      <4>2. c.identity_client
        BY <1>0, <3>2
      <4> HIDE DEF b
      <4> QED
        BY <4>1, <4>2, IdentityNext
    <3>3. CASE e.erd = "serial"
      <4>1. b = [c EXCEPT !.identity = "complete"]
        BY <3>3 DEF IdentityCompleted
      <4>2. c.identity_client
        BY <1>0, <3>3
      <4> HIDE DEF b
      <4>3. /\ b \in Managers /\ b.requests = c.requests /\ b.identity = "complete"
            /\ b.hsm = c.hsm /\ FeaturePartKept(c, b)
            /\ b.discovery = c.discovery /\ b.host = c.host /\ b.client = c.client
            /\ b.gea2 = c.gea2 /\ b.identity_client = c.identity_client
            /\ b.erd_bridge_initialized_ = c.erd_bridge_initialized_
        BY <4>1 DEF Managers, FeaturePartKept
      <4>4. Kept(c, b)
        BY <4>3, HeldByQueues DEF Kept, FeaturePartKept
      <4>5. FeatureReadOK(c) => FeatureReadOK(b)
        BY <4>3, <4>4, FeatureReadKept
      <4>6. StagesOK(b)
        <5>1. /\ b.features = "reading" => b.reading_idx < Len(Features)
              /\ b.feature_bit_reading_started_ <=> c.feature_bit_reading_started_
          BY <4>3 DEF FeaturePartKept, StagesOK
        <5> QED
          BY <4>2, <4>3, <4>4, <5>1, StagesKept
      <4> QED
        BY <4>3, <4>4, <4>5, <4>6
    <3>4. CASE e.erd \notin {"type", "model", "serial"}
      <4>1. b = c
        BY <3>4 DEF IdentityCompleted
      <4>2. ~EndsIdentityRead(c, e)
        BY <3>4 DEF EndsIdentityRead, IdentityErd
      <4> QED
        BY <4>1, <4>2, KeptReflexive
    <3> QED
      BY <1>0, <3>0, <3>1, <3>2, <3>3, <3>4
  <2> HIDE DEF b
  <2>4. b \in Managers
    BY <2>3 DEF Kept
  <2>5. CASE b.identity = "complete"
    <3>1. /\ Kept(b, d) /\ StagesOK(d) /\ IdentityReadOK(d)
          /\ FeatureReadOK(b) => FeatureReadOK(d)
      BY <2>1, <2>3, <2>4, <2>5, DeviceIdStep
    <3> QED
      BY <2>2, <2>3, <3>1, KeptTransitive
  <2>6. CASE b.identity # "complete"
    BY <2>1, <2>2, <2>3, <2>6
  <2> QED
    BY <2>5, <2>6
<1> QED
  BY <1>0, <1>1, <1>2, <1>3

LEMMA FeatureStep ==
    ASSUME NEW c \in Managers, StagesOK(c), NEW room \in BOOLEAN, NEW e, e \in Events,
           c.feature_bit_reading_started_
    PROVE  LET d == FeatureActivity(c, e, room)
           IN  /\ Kept(c, d) /\ StagesOK(d)
               /\ IdentityReadOK(c) => IdentityReadOK(d)
               /\ FeatureReadOK(c) \/ EndsFeatureRead(c, e) => FeatureReadOK(d)
<1> DEFINE d == FeatureActivity(c, e, room)
<1>0. /\ c.identity_client /\ c.client \in Bus
      /\ c.features = "reading" => c.reading_idx < Len(Features)
      /\ c.reading_idx \in 0 .. Len(Features) /\ Len(Features) \in Nat
  BY StageFacts, FeatureFacts DEF StagesOK, Managers
<1>1. ASSUME NEW b \in Managers, Kept(c, b), IdentityPartKept(c, b), NEW x, Kept(b, x),
             IdentityPartKept(b, x), FeatureReadOK(x),
             x.features = "reading" => x.reading_idx < Len(Features),
             x.feature_bit_reading_started_
      PROVE  /\ Kept(c, x) /\ StagesOK(x) /\ FeatureReadOK(x)
             /\ IdentityReadOK(c) => IdentityReadOK(x)
  <2>1. Kept(c, x) /\ IdentityPartKept(c, x)
    BY <1>1, KeptTransitive DEF IdentityPartKept
  <2>2. StagesOK(x)
    BY <1>0, <1>1, <2>1, StagesKept DEF IdentityPartKept
  <2> QED
    BY <1>1, <2>1, <2>2, IdentityReadKept
<1>2. ASSUME NEW b \in Managers, Kept(c, b), IdentityPartKept(c, b),
             ~b.read_queued, b.reading_idx < Len(Features), b.feature_bit_reading_started_
      PROVE  LET x == queue_erd_read(b, room)
             IN  /\ Kept(c, x) /\ StagesOK(x) /\ FeatureReadOK(x)
                 /\ IdentityReadOK(c) => IdentityReadOK(x)
  <2> DEFINE x == queue_erd_read(b, room)
  <2>1. b.client \in Bus /\ b.identity_client
    BY <1>0, <1>2 DEF Kept
  <2>2. /\ Kept(b, x) /\ IdentityPartKept(b, x)
        /\ x.features = b.features /\ x.reading_idx = b.reading_idx
        /\ x.feature_bit_reading_started_ = b.feature_bit_reading_started_
        /\ FeatureReadOK(x)
    BY <1>2, <2>1, QueueErdRead
  <2> HIDE DEF x
  <2>3. x.reading_idx < Len(Features) /\ x.feature_bit_reading_started_
    BY <1>2, <2>2
  <2>4. /\ Kept(c, x) /\ StagesOK(x) /\ FeatureReadOK(x)
        /\ IdentityReadOK(c) => IdentityReadOK(x)
    BY <1>1, <1>2, <2>2, <2>3
  <2> QED
    BY <2>4 DEF x
<1>3. CASE e.address # c.host \/ c.features # "reading"
  <2>1. d = c
    BY <1>3 DEF FeatureActivity
  <2>2. EndsFeatureRead(c, e) => FeatureReadOK(c)
    BY <1>3 DEF EndsFeatureRead, FeatureReadOK
  <2> QED
    BY <2>1, <2>2, KeptReflexive
<1>4. CASE e.address = c.host /\ c.features = "reading" /\ ~c.read_queued
  <2>1. d = queue_erd_read(c, room)
    BY <1>4 DEF FeatureActivity
  <2>2. IdentityPartKept(c, c)
    BY DEF IdentityPartKept
  <2> HIDE DEF d
  <2> QED
    BY <1>0, <1>2, <1>4, <2>1, <2>2, KeptReflexive DEF d
<1>5. CASE /\ e.address = c.host /\ c.features = "reading" /\ c.read_queued
           /\ e.erd # Features[c.reading_idx + 1]
  <2>1. d = c
    BY <1>5 DEF FeatureActivity
  <2>2. ~EndsFeatureRead(c, e)
    BY <1>5 DEF EndsFeatureRead
  <2> QED
    BY <2>1, <2>2, KeptReflexive
<1>6. CASE /\ e.address = c.host /\ c.features = "reading" /\ c.read_queued
           /\ e.erd = Features[c.reading_idx + 1]
  <2>1. CASE d = [c EXCEPT !.read_queued = FALSE, !.features = "failed"]
    <3> HIDE DEF d
    <3>1. /\ d \in Managers /\ d.requests = c.requests /\ d.features = "failed"
          /\ IdentityPartKept(c, d) /\ d.feature_bit_reading_started_
          /\ d.discovery = c.discovery /\ d.host = c.host /\ d.client = c.client
          /\ d.gea2 = c.gea2 /\ d.identity_client = c.identity_client
          /\ d.erd_bridge_initialized_ = c.erd_bridge_initialized_
      BY <2>1 DEF Managers, IdentityPartKept
    <3>2. Kept(c, d) /\ FeatureReadOK(d)
      BY <3>1, HeldByQueues DEF Kept, FeatureReadOK
    <3>3. Kept(d, d) /\ IdentityPartKept(d, d)
      BY <3>1, KeptReflexive DEF IdentityPartKept
    <3> QED
      BY <1>1, <3>1, <3>2, <3>3 DEF d
  <2>2. CASE d = NextFeature(c, room)
    <3> DEFINE n == c.reading_idx + 1
               b == [c EXCEPT !.read_queued = FALSE, !.reading_idx = n]
               a == [b EXCEPT !.features = "parsing"]
    <3>0. n \in 0 .. Len(Features)
      BY <1>0, <1>6
    <3>1. /\ b \in Managers /\ b.requests = c.requests /\ ~b.read_queued
          /\ b.reading_idx = n
          /\ IdentityPartKept(c, b) /\ b.feature_bit_reading_started_
          /\ b.discovery = c.discovery /\ b.host = c.host /\ b.client = c.client
          /\ b.gea2 = c.gea2 /\ b.identity_client = c.identity_client
          /\ b.erd_bridge_initialized_ = c.erd_bridge_initialized_
      <4> HIDE DEF n
      <4> QED
        BY <3>0 DEF Managers, IdentityPartKept
    <3>2. d = IF b.reading_idx = Len(Features) THEN a ELSE queue_erd_read(b, room)
      BY <2>2 DEF NextFeature
    <3> HIDE DEF b, d
    <3>3. Kept(c, b)
      BY <3>1, HeldByQueues DEF Kept
    <3>4. CASE b.reading_idx = Len(Features)
      <4>1. /\ a \in Managers /\ a.requests = b.requests /\ a.features = "parsing"
            /\ IdentityPartKept(b, a) /\ a.feature_bit_reading_started_
            /\ a.discovery = b.discovery /\ a.host = b.host /\ a.client = b.client
            /\ a.gea2 = b.gea2 /\ a.identity_client = b.identity_client
            /\ a.erd_bridge_initialized_ = b.erd_bridge_initialized_
        BY <3>1 DEF Managers, IdentityPartKept
      <4> HIDE DEF a
      <4>2. Kept(b, a) /\ FeatureReadOK(a)
        BY <4>1, HeldByQueues DEF Kept, FeatureReadOK
      <4> QED
        BY <1>1, <3>1, <3>2, <3>3, <3>4, <4>1, <4>2 DEF d
    <3>5. CASE b.reading_idx # Len(Features)
      <4>1. b.reading_idx < Len(Features)
        BY <1>0, <1>6, <3>1, <3>5
      <4> QED
        BY <1>2, <3>1, <3>2, <3>3, <3>5, <4>1 DEF d
    <3> QED
      BY <3>4, <3>5
  <2> QED
    BY <1>6, <2>1, <2>2 DEF FeatureActivity, FeatureFailed
<1> QED
  BY <1>3, <1>4, <1>5, <1>6

LEMMA ActivityStep ==
    ASSUME NEW c \in Managers, StagesOK(c), NEW room \in BOOLEAN, NEW e, EventOK(c, e),
           NEW bus \in Bus
    PROVE  LET d == Activity(c, bus, e, room)
           IN  /\ Kept(c, d) /\ StagesOK(d)
               /\ IdentityReadOK(c) \/ EndsIdentityRead(c, e) => IdentityReadOK(d)
               /\ FeatureReadOK(c) \/ (bus = c.client /\ EndsFeatureRead(c, e))
                      => FeatureReadOK(d)
<1> DEFINE b == RouteToIdentity(c, e, room)
           d == Activity(c, bus, e, room)
<1>1. /\ Kept(c, b) /\ StagesOK(b)
      /\ IdentityReadOK(c) \/ EndsIdentityRead(c, e) => IdentityReadOK(b)
      /\ FeatureReadOK(c) => FeatureReadOK(b)
      /\ e.erd \in FeatureErd /\ c.features = "reading" => b = c
  BY RouteStep
<1>2. d = IF c.feature_bit_reading_started_ /\ bus = c.client
          THEN FeatureActivity(b, e, room) ELSE b
  BY DEF Activity
<1>3. CASE FeatureReadOK(c) \/ ~(bus = c.client /\ EndsFeatureRead(c, e))
  <2> HIDE DEF b
  <2>1. CASE c.feature_bit_reading_started_ /\ bus = c.client
    <3>1. b \in Managers /\ e \in Events /\ b.feature_bit_reading_started_
      BY <1>1, <2>1 DEF Kept, EventOK
    <3>2. /\ Kept(b, d) /\ StagesOK(d)
          /\ IdentityReadOK(b) => IdentityReadOK(d)
          /\ FeatureReadOK(b) => FeatureReadOK(d)
      BY <1>1, <1>2, <2>1, <3>1, FeatureStep
    <3> QED
      BY <1>1, <1>3, <3>2, KeptTransitive
  <2>2. CASE ~(c.feature_bit_reading_started_ /\ bus = c.client)
    BY <1>1, <1>2, <1>3, <2>2
  <2> QED
    BY <2>1, <2>2
<1>4. CASE ~FeatureReadOK(c) /\ bus = c.client /\ EndsFeatureRead(c, e)
  <2>1. c.feature_bit_reading_started_ /\ c.features = "reading"
    BY <1>4 DEF FeatureReadOK
  <2>2. e.erd \in FeatureErd
    <3>1. c.reading_idx + 1 \in 1 .. Len(Features)
      BY <2>1, FeatureFacts DEF StagesOK, Managers
    <3> QED
      BY <1>4, <3>1, FeatureFacts DEF EndsFeatureRead
  <2>3. b = c
    BY <1>1, <2>1, <2>2
  <2>4. d = FeatureActivity(c, e, room) /\ e \in Events
    BY <1>2, <1>4, <2>1, <2>3 DEF EventOK
  <2>5. EndsIdentityRead(c, e) => FALSE
    BY <2>2, AcquisitionConstants DEF EndsIdentityRead
  <2>6. /\ Kept(c, d) /\ StagesOK(d)
        /\ IdentityReadOK(c) => IdentityReadOK(d)
        /\ EndsFeatureRead(c, e) => FeatureReadOK(d)
    BY <2>1, <2>4, FeatureStep
  <2> QED
    BY <1>4, <2>5, <2>6
<1> QED
  BY <1>3, <1>4

-----------------------------------------------------------------------------
(* The state: what autodiscovery has found is a board of the setup, and    *)
(* the managers fit together.                                              *)
BoardOK(c) == c.client # None =>
                 /\ [bus |-> c.client, address |-> c.host] \in setup.boards
                 /\ c.client \in setup.uarts
                 /\ setup.target \in {c.host, Broadcast}

AcquisitionInv == /\ setup \in Setups /\ m \in Managers /\ HeldOnce(m)
                  /\ refusals \in 0 .. MaxRefusals
                  /\ StagesOK(m) /\ BoardOK(m)
                  /\ IdentityReadOK(m) /\ FeatureReadOK(m)

LEMMA SetupFacts ==
    ASSUME setup \in Setups
    PROVE  /\ setup.uarts \subseteq Bus /\ setup.boards \subseteq Board
           /\ setup.target \in Address \cup {Broadcast}
           /\ \E bus \in Bus : bus \in setup.uarts
BY AcquisitionConstants DEF Setup, Board

LEMMA RefusalsCounted ==
    ASSUME refusals \in 0 .. MaxRefusals, NEW room \in Room, CountRefusal(room)
    PROVE  room \in BOOLEAN /\ refusals' \in 0 .. MaxRefusals
<1>1. room \in BOOLEAN /\ (room \/ refusals < MaxRefusals)
  BY DEF Room
<1>2. CASE room
  BY <1>2 DEF CountRefusal
<1>3. CASE ~room
  BY <1>1, <1>3, AcquisitionConstants DEF CountRefusal
<1> QED
  BY <1>1, <1>2, <1>3

LEMMA AcquisitionInitOK == AcquisitionInit => AcquisitionInv
<1> SUFFICES ASSUME AcquisitionInit PROVE AcquisitionInv
  OBVIOUS
<1>1. <<>> \in Seq(Requests) /\ DOMAIN <<>> = {}
  OBVIOUS
<1>2. m.requests = [bus \in Bus |-> <<>>] /\ [bus \in Bus |-> <<>>] \in [Bus -> Seq(Requests)]
  BY <1>1 DEF AcquisitionInit
<1>3. Len(Features) \in Nat /\ 0 < Len(Features) /\ 0 \in 0 .. Len(Features)
  BY FeatureFacts
<1>4. m \in Managers
  BY <1>2, <1>3, Zenon DEF AcquisitionInit, Managers, IdentityErd
<1>5. HeldOnce(m) /\ \A bus \in Bus : \A r : ~Held(m, bus, r)
  BY <1>1, <1>2 DEF HeldOnce, Held
<1>6. StagesOK(m)
  BY <1>3, <1>5 DEF AcquisitionInit, StagesOK, Bus, None
<1>7. BoardOK(m) /\ IdentityReadOK(m) /\ FeatureReadOK(m)
  BY DEF AcquisitionInit, BoardOK, IdentityReadOK, FeatureReadOK
<1>8. setup \in Setups /\ refusals \in 0 .. MaxRefusals
  BY AcquisitionConstants DEF AcquisitionInit
<1> QED
  BY <1>4, <1>5, <1>6, <1>7, <1>8 DEF AcquisitionInv

\* Steps that are not about writes leave them with the clients, and the
\* board they go to stays the same.
WritesKept(c, d) ==
    /\ \A bus \in Bus : \A r : r.op = "write" => (Held(d, bus, r) <=> Held(c, bus, r))
    /\ c.erd_bridge_initialized_ =>
           d.erd_bridge_initialized_ /\ d.client = c.client /\ d.host = c.host

LEMMA KeptWrites ==
    ASSUME NEW c, NEW d, Kept(c, d)
    PROVE  WritesKept(c, d)
BY DEF Kept, WritesKept

(* A client ends a read: the manager that waits for it goes on.            *)
LEMMA ReadEnds ==
    ASSUME AcquisitionInv, NEW bus \in Bus, NEW completed \in BOOLEAN,
           NEW source \in Address \cup {Broadcast}, ClientEvent(bus, completed, source)
    PROVE  AcquisitionInv' /\ WritesKept(m, m')
<1> DEFINE r == Head(m.requests[bus])
           c == Done(m, bus)
           Event(empty) == [erd |-> r.erd, address |-> source, completed |-> completed,
                            empty |-> empty]
<1>0. /\ setup \in Setups /\ m \in Managers /\ HeldOnce(m) /\ refusals \in 0 .. MaxRefusals
      /\ StagesOK(m) /\ BoardOK(m) /\ IdentityReadOK(m) /\ FeatureReadOK(m)
  BY DEF AcquisitionInv
<1>1. PICK room \in Room, empty \in BOOLEAN :
          m' = Activity(c, bus, Event(empty), room) /\ CountRefusal(room)
  BY DEF ClientEvent, Done
<1> DEFINE e == Event(empty)
<1>2. room \in BOOLEAN /\ refusals' \in 0 .. MaxRefusals /\ setup' = setup
  BY <1>0, <1>1, RefusalsCounted DEF ClientEvent
<1>3. m.requests[bus] # <<>> /\ r.op = "read"
      /\ (r.address = source \/ (completed /\ r.address = Broadcast))
  BY DEF ClientEvent
<1>4. /\ c \in Managers /\ r \in Requests /\ Held(m, bus, r)
      /\ c = [m EXCEPT !.requests = c.requests]
      /\ HeldOnce(m) => HeldOnce(c) /\ ~Held(c, bus, r)
      /\ \A b \in Bus : \A q : Held(c, b, q) => Held(m, b, q)
      /\ \A b \in Bus : \A q : Held(m, b, q) => Held(c, b, q) \/ (b = bus /\ q = r)
  BY <1>0, <1>3, DoneFacts
<1> HIDE DEF c, r
<1>5. /\ IdentityPartKept(m, c) /\ FeaturePartKept(m, c)
      /\ c.discovery = m.discovery /\ c.host = m.host /\ c.client = m.client
      /\ c.gea2 = m.gea2 /\ c.identity_client = m.identity_client
      /\ c.erd_bridge_initialized_ = m.erd_bridge_initialized_
  BY <1>0, <1>4 DEF Managers, IdentityPartKept, FeaturePartKept
<1>6. StagesOK(c)
  BY <1>0, <1>4, <1>5 DEF StagesOK, IdentityPartKept, FeaturePartKept
<1>7. EventOK(c, e)
  <2>1. e \in Events
    BY <1>4 DEF Events, Requests
  <2>2. ~c.identity_client => r.erd = "type"
    BY <1>0, <1>4, <1>5 DEF StagesOK
  <2> QED
    BY <2>1, <2>2 DEF EventOK
<1>8. ASSUME NEW erd, Held(m, m.client, ReadOf(m.host, erd)), m.client \in Bus
      PROVE  \/ Held(c, c.client, ReadOf(c.host, erd))
             \/ bus = c.client /\ e.address = c.host /\ e.erd = erd
  <2>1. CASE Held(c, m.client, ReadOf(m.host, erd))
    BY <1>5, <2>1
  <2>2. CASE m.client = bus /\ ReadOf(m.host, erd) = r
    <3>1. r.address = m.host /\ r.erd = erd
      BY <2>2 DEF ReadOf
    <3>2. m.host \in Address /\ Broadcast \notin Address
      BY <1>0, <1>8, StageFacts, AcquisitionConstants
    <3> QED
      BY <1>3, <1>5, <2>2, <3>1, <3>2
  <2> QED
    BY <1>4, <1>8, <2>1, <2>2
<1>9. IdentityReadOK(c) \/ EndsIdentityRead(c, e)
  <2> SUFFICES ASSUME c.hsm = "device_id", ~c.identity_refused
               PROVE  \/ /\ c.identity \in IdentityErd
                         /\ \/ Held(c, c.client, ReadOf(c.host, c.identity))
                            \/ c.identity = "type" /\ c.type_empty
                      \/ EndsIdentityRead(c, e)
    BY DEF IdentityReadOK
  <2>1. /\ m.identity \in IdentityErd
        /\ \/ Held(m, m.client, ReadOf(m.host, m.identity))
           \/ m.identity = "type" /\ m.type_empty
    BY <1>0, <1>5 DEF IdentityReadOK, IdentityPartKept
  <2>2. m.client \in Bus
    BY <1>0, <1>5, StageFacts DEF IdentityPartKept
  <2> QED
    BY <1>5, <1>8, <2>1, <2>2 DEF EndsIdentityRead, IdentityPartKept
<1>10. FeatureReadOK(c) \/ (bus = c.client /\ EndsFeatureRead(c, e))
  <2> SUFFICES ASSUME c.feature_bit_reading_started_, c.features = "reading"
               PROVE  \/ IF c.read_queued
                         THEN Held(c, c.client, ReadOf(c.host, Features[c.reading_idx + 1]))
                         ELSE c.retry_timer
                      \/ bus = c.client /\ EndsFeatureRead(c, e)
    BY DEF FeatureReadOK
  <2>1. m.feature_bit_reading_started_ /\ m.features = "reading"
    BY <1>5 DEF FeaturePartKept
  <2>2. m.client \in Bus
    BY <1>0, <2>1, StageFacts
  <2>3. CASE m.read_queued
    <3>1. Held(m, m.client, ReadOf(m.host, Features[m.reading_idx + 1]))
      BY <1>0, <2>1, <2>3 DEF FeatureReadOK
    <3> QED
      BY <1>5, <1>8, <2>2, <2>3, <3>1 DEF EndsFeatureRead, FeaturePartKept
  <2>4. CASE ~m.read_queued
    BY <1>0, <1>5, <2>1, <2>4, Zenon DEF FeatureReadOK, FeaturePartKept
  <2> QED
    BY <2>3, <2>4
<1>11. /\ Kept(c, m') /\ StagesOK(m') /\ IdentityReadOK(m') /\ FeatureReadOK(m')
  BY <1>1, <1>2, <1>4, <1>6, <1>7, <1>9, <1>10, ActivityStep
<1>12. BoardOK(m)'
  BY <1>0, <1>2, <1>5, <1>11 DEF BoardOK, Kept
<1>13. m' \in Managers /\ HeldOnce(m')
  BY <1>0, <1>4, <1>11 DEF Kept
<1>14. AcquisitionInv'
  BY <1>0, <1>2, <1>11, <1>12, <1>13
     DEF AcquisitionInv, StagesOK, IdentityReadOK, FeatureReadOK, HeldOnce, Held
<1>15. WritesKept(m, m')
  BY <1>3, <1>4, <1>5, <1>11 DEF Kept, WritesKept
<1> QED
  BY <1>14, <1>15

\* A step that leaves the stages alone.
LEMMA Unchanged ==
    ASSUME AcquisitionInv, setup' = setup, refusals' \in 0 .. MaxRefusals,
           Kept(m, m'), StagesOK(m'), IdentityReadOK(m'), FeatureReadOK(m')
    PROVE  AcquisitionInv'
<1>1. BoardOK(m)'
  BY DEF AcquisitionInv, BoardOK, Kept
<1> QED
  BY <1>1 DEF AcquisitionInv, Kept, StagesOK, IdentityReadOK, FeatureReadOK, HeldOnce, Held

(* Autodiscovery asks any board, or the configured one, for its type.      *)
LEMMA ProbeStep ==
    ASSUME NEW c \in Managers, HeldOnce(c), NEW bus \in Bus, NEW room \in BOOLEAN,
           setup \in Setups, ~c.identity_client,
           \A b \in Bus : \A q : Held(c, b, q) => q.erd = "type"
    PROVE  LET d == Probe(c, bus, room)
           IN  /\ d \in Managers /\ HeldOnce(d) /\ d.discovery = bus
               /\ d.host = c.host /\ d.client = c.client /\ d.hsm = c.hsm
               /\ d.identity_client = c.identity_client /\ d.identity = c.identity
               /\ d.erd_bridge_initialized_ = c.erd_bridge_initialized_
               /\ FeaturePartKept(c, d)
               /\ \A b \in Bus : \A q : Held(d, b, q) => q.erd = "type"
               /\ \A b \in Bus : \A q : Held(d, b, q) => Held(c, b, q) \/ q.op = "read"
               /\ \A b \in Bus : \A q : Held(c, b, q) => Held(d, b, q)
<1> DEFINE r == ReadOf(setup.target, "type")
           e == Request(c, bus, r, room)
           d == Probe(c, bus, room)
<1>1. r \in Requests /\ r.erd = "type" /\ r.op = "read"
  BY SetupFacts DEF ReadOf, Requests, ErdName, IdentityErd
<1>2. /\ e \in Managers /\ e = [c EXCEPT !.requests = e.requests]
      /\ HeldOnce(c) => HeldOnce(e)
      /\ \A b \in Bus : \A q : Held(c, b, q) => Held(e, b, q)
      /\ \A b \in Bus : \A q : Held(e, b, q) => Held(c, b, q) \/ q = r
  BY <1>1, RequestFacts
<1>3. d = [e EXCEPT !.discovery = bus]
  BY DEF Probe
<1> HIDE DEF d, e, r
<1>4. /\ d \in Managers /\ d.requests = e.requests /\ d.discovery = bus
      /\ d.host = e.host /\ d.client = e.client /\ d.hsm = e.hsm
      /\ d.identity_client = e.identity_client /\ d.identity = e.identity
      /\ d.erd_bridge_initialized_ = e.erd_bridge_initialized_
      /\ FeaturePartKept(e, d)
  BY <1>2, <1>3 DEF Managers, FeaturePartKept
<1>5. /\ e.host = c.host /\ e.client = c.client /\ e.hsm = c.hsm
      /\ e.identity_client = c.identity_client /\ e.identity = c.identity
      /\ e.erd_bridge_initialized_ = c.erd_bridge_initialized_
      /\ FeaturePartKept(c, e)
  BY <1>2 DEF Managers, FeaturePartKept
<1>6. HeldOnce(d) /\ \A b, q : Held(d, b, q) <=> Held(e, b, q)
  BY <1>2, <1>4, HeldByQueues
<1>7. FeaturePartKept(c, d)
  BY <1>4, <1>5 DEF FeaturePartKept
<1> QED
  BY <1>1, <1>2, <1>4, <1>5, <1>6, <1>7 DEF d, e, r

LEMMA StartDiscoveryStep ==
    ASSUME AcquisitionInv, StartDiscovery
    PROVE  AcquisitionInv' /\ WritesKept(m, m')
<1> DEFINE c == [m EXCEPT !.hsm = "autodiscovery"]
           bus == IF "gea3" \in setup.uarts THEN "gea3" ELSE "gea2"
<1>0. /\ setup \in Setups /\ m \in Managers /\ HeldOnce(m) /\ refusals \in 0 .. MaxRefusals
      /\ StagesOK(m) /\ m.hsm = "startup_delay"
  BY DEF AcquisitionInv, StartDiscovery
<1>1. PICK room \in Room : m' = Probe(c, bus, room) /\ CountRefusal(room)
  BY DEF StartDiscovery
<1>2. room \in BOOLEAN /\ refusals' \in 0 .. MaxRefusals /\ setup' = setup
  BY <1>0, <1>1, RefusalsCounted DEF StartDiscovery
<1>3. bus \in Bus
  BY DEF Bus
<1>4. /\ m.discovery = "idle" /\ m.client = None /\ m.host = None /\ ~m.identity_client
      /\ m.identity \in {"type", "model"} /\ ~m.feature_bit_reading_started_
      /\ ~m.erd_bridge_initialized_
      /\ \A b \in Bus : \A q : Held(m, b, q) => q.erd = "type"
  BY <1>0 DEF StagesOK, Bus
<1>5. /\ c \in Managers /\ c.requests = m.requests /\ c.hsm = "autodiscovery"
      /\ c.host = None /\ c.client = None /\ ~c.identity_client
      /\ c.identity \in {"type", "model"} /\ ~c.erd_bridge_initialized_
      /\ FeaturePartKept(m, c)
  BY <1>0, <1>4 DEF Managers, FeaturePartKept
<1> HIDE DEF c, bus
<1>6. HeldOnce(c) /\ \A b, q : Held(c, b, q) <=> Held(m, b, q)
  BY <1>0, <1>5, HeldByQueues
<1>7. /\ m' \in Managers /\ HeldOnce(m') /\ m'.discovery = bus
      /\ m'.host = None /\ m'.client = None /\ m'.hsm = "autodiscovery"
      /\ ~m'.identity_client /\ m'.identity \in {"type", "model"}
      /\ ~m'.erd_bridge_initialized_ /\ FeaturePartKept(c, m')
      /\ \A b \in Bus : \A q : Held(m', b, q) => q.erd = "type"
      /\ \A b \in Bus : \A q : Held(m', b, q) => Held(m, b, q) \/ q.op = "read"
      /\ \A b \in Bus : \A q : Held(m, b, q) => Held(m', b, q)
  BY <1>0, <1>1, <1>2, <1>3, <1>4, <1>5, <1>6, ProbeStep
<1>8. FeaturePartKept(m, m')
  BY <1>5, <1>7 DEF FeaturePartKept
<1>9. StagesOK(m')
  BY <1>0, <1>3, <1>4, <1>7, <1>8 DEF StagesOK, FeaturePartKept, Bus
<1>10. IdentityReadOK(m') /\ FeatureReadOK(m')
  BY <1>4, <1>7, <1>8 DEF IdentityReadOK, FeatureReadOK, FeaturePartKept
<1>11. BoardOK(m)'
  BY <1>7 DEF BoardOK
<1>12. AcquisitionInv'
  BY <1>0, <1>2, <1>7, <1>9, <1>10, <1>11
     DEF AcquisitionInv, StagesOK, IdentityReadOK, FeatureReadOK, HeldOnce, Held
<1> QED
  BY <1>4, <1>7, <1>12 DEF WritesKept

LEMMA BroadcastStep ==
    ASSUME AcquisitionInv, BroadcastResponse
    PROVE  AcquisitionInv' /\ WritesKept(m, m')
<1>0. /\ setup \in Setups /\ m \in Managers /\ HeldOnce(m) /\ refusals \in 0 .. MaxRefusals
      /\ StagesOK(m) /\ IdentityReadOK(m) /\ FeatureReadOK(m)
  BY DEF AcquisitionInv
<1>1. PICK board \in setup.boards : board.bus \in setup.uarts /\ AnswerInWindow(board)
  BY DEF BroadcastResponse
<1>2. board = [bus |-> board.bus, address |-> board.address]
      /\ board.bus \in Bus /\ board.address \in Address
  BY <1>0, <1>1, SetupFacts DEF Board
<1>3. /\ m.discovery = board.bus /\ m.client = None
      /\ setup.target \in {board.address, Broadcast}
      /\ m' = [m EXCEPT !.host = board.address, !.client = board.bus]
      /\ setup' = setup /\ refusals' = refusals
  BY <1>1 DEF AnswerInWindow, BroadcastResponse
<1>4. /\ m' \in Managers /\ m'.requests = m.requests
      /\ m'.host = board.address /\ m'.client = board.bus
      /\ IdentityPartKept(m, m') /\ FeaturePartKept(m, m')
      /\ m'.discovery = m.discovery /\ m'.identity_client = m.identity_client
      /\ m'.erd_bridge_initialized_ = m.erd_bridge_initialized_
  BY <1>0, <1>2, <1>3 DEF Managers, IdentityPartKept, FeaturePartKept
<1>5. HeldOnce(m') /\ \A b, q : Held(m', b, q) <=> Held(m, b, q)
  BY <1>0, <1>4, HeldByQueues
<1>6. BoardOK(m)'
  BY <1>1, <1>2, <1>3, <1>4 DEF BoardOK
<1>7. /\ m.hsm = "autodiscovery" /\ m.discovery # "complete" /\ ~m.feature_bit_reading_started_
      /\ ~m.identity_client
  BY <1>0, <1>2, <1>3 DEF StagesOK, Bus
<1>8. StagesOK(m')
  BY <1>0, <1>2, <1>3, <1>4, <1>5, <1>7, AcquisitionConstants
     DEF StagesOK, IdentityPartKept, FeaturePartKept, Bus, None
<1>9. IdentityReadOK(m') /\ FeatureReadOK(m')
  BY <1>4, <1>7 DEF IdentityReadOK, FeatureReadOK, IdentityPartKept, FeaturePartKept
<1>10. AcquisitionInv'
  BY <1>0, <1>3, <1>4, <1>5, <1>6, <1>8, <1>9
     DEF AcquisitionInv, StagesOK, IdentityReadOK, FeatureReadOK, HeldOnce, Held
<1>11. ~m.erd_bridge_initialized_
  BY <1>0, <1>7 DEF StagesOK
<1> QED
  BY <1>5, <1>10, <1>11 DEF WritesKept

LEMMA WindowStep ==
    ASSUME AcquisitionInv, WindowEnds
    PROVE  AcquisitionInv' /\ WritesKept(m, m')
<1>0. /\ setup \in Setups /\ m \in Managers /\ HeldOnce(m) /\ refusals \in 0 .. MaxRefusals
      /\ StagesOK(m) /\ BoardOK(m) /\ m.discovery \in Bus
  BY DEF AcquisitionInv, WindowEnds
<1> DEFINE c == [m EXCEPT !.discovery = "complete", !.hsm = "device_id",
                          !.gea2 = m.discovery = "gea2"]
<1>1. PICK room \in Room :
          /\ m' = IF m.client = None THEN Probe(m, NextBus, room)
                  ELSE init_device_id_reading(c, room)
          /\ CountRefusal(room)
  BY DEF WindowEnds
<1>2. room \in BOOLEAN /\ refusals' \in 0 .. MaxRefusals /\ setup' = setup
  BY <1>0, <1>1, RefusalsCounted DEF WindowEnds
<1>3. /\ m.discovery \notin {"idle", "complete"} /\ m.hsm = "autodiscovery"
      /\ ~m.identity_client /\ m.identity \in {"type", "model"}
      /\ ~m.feature_bit_reading_started_ /\ ~m.erd_bridge_initialized_
      /\ m.client \in {None, m.discovery} /\ (m.client # None <=> m.host # None)
      /\ m.features = "reading" /\ m.reading_idx = 0 /\ ~m.read_queued /\ ~m.retry_timer
      /\ \A b \in Bus : \A q : Held(m, b, q) => q.erd = "type"
  BY <1>0 DEF StagesOK, Bus
<1>4. CASE m.client = None
  <2>1. NextBus \in Bus
    <3>1. \E bus \in Bus : bus # m.discovery
      BY DEF Bus
    <3> QED
      BY <1>0, <3>1, Zenon DEF NextBus
  <2>2. /\ m' \in Managers /\ HeldOnce(m') /\ m'.discovery \in Bus
        /\ m'.host = None /\ m'.client = None /\ m'.hsm = "autodiscovery"
        /\ ~m'.identity_client /\ m'.identity \in {"type", "model"}
        /\ ~m'.erd_bridge_initialized_ /\ FeaturePartKept(m, m')
        /\ \A b \in Bus : \A q : Held(m', b, q) => q.erd = "type"
        /\ \A b \in Bus : \A q : Held(m', b, q) => Held(m, b, q) \/ q.op = "read"
        /\ \A b \in Bus : \A q : Held(m, b, q) => Held(m', b, q)
    <3>1. m' = Probe(m, NextBus, room)
      BY <1>1, <1>4
    <3>2. m.host = None
      BY <1>3, <1>4
    <3> HIDE DEF NextBus
    <3> QED
      BY <1>0, <1>2, <1>3, <1>4, <2>1, <3>1, <3>2, ProbeStep
  <2>3. StagesOK(m')
    BY <1>0, <1>3, <2>2 DEF StagesOK, FeaturePartKept, Bus
  <2>4. IdentityReadOK(m') /\ FeatureReadOK(m')
    BY <1>3, <2>2 DEF IdentityReadOK, FeatureReadOK, FeaturePartKept
  <2>5. BoardOK(m)'
    BY <2>2 DEF BoardOK
  <2>6. AcquisitionInv'
    BY <1>0, <1>2, <2>2, <2>3, <2>4, <2>5
       DEF AcquisitionInv, StagesOK, IdentityReadOK, FeatureReadOK, HeldOnce, Held
  <2> QED
    BY <1>3, <2>2, <2>6 DEF WritesKept
<1>5. CASE m.client # None
  <2> DEFINE b == [c EXCEPT !.identity = "type", !.identity_client = TRUE,
                            !.type_empty = FALSE]
  <2>1. /\ c \in Managers /\ c.requests = m.requests /\ c.identity = m.identity
        /\ c.discovery = "complete" /\ c.hsm = "device_id"
        /\ c.gea2 = (m.discovery = "gea2") /\ c.host = m.host /\ c.client = m.client
        /\ ~c.erd_bridge_initialized_ /\ FeaturePartKept(m, c)
    BY <1>0, <1>3 DEF Managers, FeaturePartKept
  <2>2. m' = try_queue_read(b, "type", room)
    <3>1. c.identity # "complete"
      BY <1>3, <2>1
    <3> HIDE DEF c
    <3> QED
      BY <1>1, <1>5, <3>1 DEF init_device_id_reading
  <2> HIDE DEF c
  <2>3. /\ b \in Managers /\ b.requests = m.requests /\ b.identity = "type"
        /\ b.identity_client
        /\ b.discovery = "complete" /\ b.hsm = "device_id"
        /\ b.gea2 = (m.discovery = "gea2") /\ b.host = m.host /\ b.client = m.client
        /\ ~b.erd_bridge_initialized_ /\ FeaturePartKept(m, b)
    BY <2>1 DEF Managers, FeaturePartKept, IdentityErd
  <2> HIDE DEF b
  <2>4. HeldOnce(b) /\ \A bus, q : Held(b, bus, q) <=> Held(m, bus, q)
    BY <1>0, <2>3, HeldByQueues
  <2>5. b.client = m.discovery /\ b.client \in Bus
    BY <1>0, <1>3, <1>5, <2>3
  <2>6. /\ Kept(b, m') /\ FeaturePartKept(b, m')
        /\ m'.identity = "type" /\ m'.hsm = "device_id"
        /\ ~m'.identity_refused => Held(m', b.client, ReadOf(b.host, "type"))
    BY <1>2, <2>2, <2>3, <2>5, TryQueueRead DEF IdentityErd
  <2>7. FeaturePartKept(m, m')
    BY <2>3, <2>6 DEF FeaturePartKept
  <2>8. /\ m' \in Managers /\ HeldOnce(m') /\ m'.discovery = "complete"
        /\ m'.client = m.discovery /\ m'.client = m.client /\ m'.host = m.host
        /\ m'.gea2 = (m'.client = "gea2") /\ m'.identity_client
        /\ ~m'.erd_bridge_initialized_
    BY <2>3, <2>4, <2>5, <2>6 DEF Kept
  <2>9. StagesOK(m')
    BY <1>3, <1>5, <2>5, <2>6, <2>7, <2>8, FeatureFacts
       DEF StagesOK, FeaturePartKept, Bus, None
  <2>10. IdentityReadOK(m') /\ FeatureReadOK(m')
    BY <1>3, <2>3, <2>6, <2>7, <2>8
       DEF IdentityReadOK, FeatureReadOK, FeaturePartKept, IdentityErd
  <2>11. BoardOK(m)'
    BY <1>0, <1>2, <1>5, <2>8 DEF BoardOK
  <2>12. AcquisitionInv'
    BY <1>0, <1>2, <2>8, <2>9, <2>10, <2>11
       DEF AcquisitionInv, StagesOK, IdentityReadOK, FeatureReadOK, HeldOnce, Held
  <2>13. \A bus \in Bus : \A q :
             q.op = "write" => (Held(m', bus, q) <=> Held(m, bus, q))
    BY <2>4, <2>6 DEF Kept
  <2> QED
    BY <1>3, <2>12, <2>13 DEF WritesKept
<1> QED
  BY <1>4, <1>5

LEMMA RetryStep ==
    ASSUME AcquisitionInv, RetryTimer
    PROVE  AcquisitionInv' /\ WritesKept(m, m')
<1>0. /\ setup \in Setups /\ m \in Managers /\ refusals \in 0 .. MaxRefusals
      /\ StagesOK(m) /\ IdentityReadOK(m) /\ FeatureReadOK(m) /\ m.retry_timer
  BY DEF AcquisitionInv, RetryTimer
<1> DEFINE c == [m EXCEPT !.retry_timer = FALSE]
<1>1. PICK room \in Room :
          /\ m' = IF c.features = "reading" /\ ~c.read_queued
                  THEN queue_erd_read(c, room) ELSE c
          /\ CountRefusal(room)
  BY Zenon DEF RetryTimer
<1>2. room \in BOOLEAN /\ refusals' \in 0 .. MaxRefusals /\ setup' = setup
  BY <1>0, <1>1, RefusalsCounted DEF RetryTimer
<1>3. /\ c \in Managers /\ c.requests = m.requests /\ IdentityPartKept(m, c)
      /\ c.features = m.features /\ c.reading_idx = m.reading_idx
      /\ c.read_queued = m.read_queued
      /\ c.feature_bit_reading_started_ = m.feature_bit_reading_started_
      /\ c.discovery = m.discovery /\ c.host = m.host /\ c.client = m.client
      /\ c.gea2 = m.gea2 /\ c.identity_client = m.identity_client
      /\ c.erd_bridge_initialized_ = m.erd_bridge_initialized_
  BY <1>0 DEF Managers, IdentityPartKept
<1> HIDE DEF c
<1>4. Kept(m, c) /\ \A b, q : Held(c, b, q) <=> Held(m, b, q)
  BY <1>3, HeldByQueues DEF Kept
<1>5. StagesOK(c)
  BY <1>0, <1>3, <1>4 DEF StagesOK, IdentityPartKept
<1>6. IdentityReadOK(c)
  BY <1>0, <1>3, <1>4, IdentityReadKept
<1>7. CASE c.features = "reading" /\ ~c.read_queued /\ c.feature_bit_reading_started_
  <2>1. m' = queue_erd_read(c, room)
    BY <1>1, <1>7
  <2>2. c.client \in Bus /\ c.identity_client /\ c.reading_idx < Len(Features)
    BY <1>3, <1>5, <1>7, StageFacts DEF StagesOK
  <2>3. /\ Kept(c, m') /\ IdentityPartKept(c, m')
        /\ m'.features = c.features /\ m'.reading_idx = c.reading_idx
        /\ m'.feature_bit_reading_started_ = c.feature_bit_reading_started_
        /\ FeatureReadOK(m')
    BY <1>2, <1>3, <1>7, <2>1, <2>2, QueueErdRead
  <2>4. StagesOK(m')
    BY <1>5, <1>7, <2>2, <2>3, StagesKept DEF IdentityPartKept
  <2>5. IdentityReadOK(m') /\ Kept(m, m')
    BY <1>3, <1>4, <1>5, <1>6, <2>3, IdentityReadKept, KeptTransitive
  <2> QED
    BY <1>2, <2>3, <2>4, <2>5, Unchanged, KeptWrites
<1>8. CASE ~(c.features = "reading" /\ ~c.read_queued)
  <2>1. m' = c
    BY <1>1, <1>8
  <2>2. FeatureReadOK(c)
    <3> SUFFICES ASSUME c.feature_bit_reading_started_, c.features = "reading"
                 PROVE  /\ c.read_queued
                        /\ Held(c, c.client, ReadOf(c.host, Features[c.reading_idx + 1]))
      BY DEF FeatureReadOK
    <3> QED
      BY <1>0, <1>3, <1>4, <1>8 DEF FeatureReadOK
  <2> QED
    BY <1>2, <1>4, <1>5, <1>6, <2>1, <2>2, Unchanged, KeptWrites
<1>9. m.feature_bit_reading_started_
  BY <1>0 DEF StagesOK
<1> QED
  BY <1>3, <1>7, <1>8, <1>9

LEMMA LocalSteps ==
    ASSUME AcquisitionInv, ParseDone \/ FeatureBitsSeen \/ InitializeBridge
    PROVE  AcquisitionInv' /\ WritesKept(m, m')
<1>0. /\ setup \in Setups /\ m \in Managers /\ HeldOnce(m) /\ refusals \in 0 .. MaxRefusals
      /\ StagesOK(m) /\ BoardOK(m) /\ IdentityReadOK(m) /\ FeatureReadOK(m)
  BY DEF AcquisitionInv
<1>1. /\ setup' = setup /\ refusals' = refusals
      /\ m' \in Managers /\ m'.requests = m.requests
      /\ m'.discovery = m.discovery /\ m'.host = m.host /\ m'.client = m.client
      /\ m'.gea2 = m.gea2 /\ m'.identity_client = m.identity_client
      /\ m'.identity = m.identity /\ m'.identity_refused = m.identity_refused
      /\ m'.type_empty = m.type_empty
      /\ m'.reading_idx = m.reading_idx
      /\ m'.read_queued = m.read_queued /\ m'.retry_timer = m.retry_timer
      /\ m'.feature_bit_reading_started_ = m.feature_bit_reading_started_
      /\ m'.features = m.features \/ (m.features = "parsing" /\ m'.features = "complete")
      /\ m'.hsm = m.hsm \/ (m.hsm = "feature_bits" /\ m'.hsm = "bridge_init")
      /\ \/ m'.erd_bridge_initialized_ = m.erd_bridge_initialized_
         \/ m.hsm = "bridge_init" /\ m'.hsm = "bridge_init" /\ ~m.erd_bridge_initialized_
  <2>1. CASE ParseDone
    BY <1>0, <2>1 DEF ParseDone, Managers
  <2>2. CASE FeatureBitsSeen
    BY <1>0, <2>2 DEF FeatureBitsSeen, Managers
  <2>3. CASE InitializeBridge
    BY <1>0, <2>3 DEF InitializeBridge, Managers
  <2> QED
    BY <2>1, <2>2, <2>3
<1>2. HeldOnce(m') /\ \A b, q : Held(m', b, q) <=> Held(m, b, q)
  BY <1>0, <1>1, HeldByQueues
<1>3. StagesOK(m')
  <2>1. /\ m'.hsm = "startup_delay" <=> m.hsm = "startup_delay"
        /\ m'.hsm = "autodiscovery" <=> m.hsm = "autodiscovery"
    BY <1>1
  <2>2. m'.feature_bit_reading_started_ => m'.hsm \in {"feature_bits", "bridge_init"}
    BY <1>0, <1>1 DEF StagesOK
  <2>3. m'.erd_bridge_initialized_ => m'.hsm = "bridge_init"
    BY <1>0, <1>1 DEF StagesOK
  <2>4. ~m'.feature_bit_reading_started_ => m'.features = "reading"
    BY <1>0, <1>1 DEF StagesOK
  <2> QED
    BY <1>0, <1>1, <1>2, <2>1, <2>2, <2>3, <2>4 DEF StagesOK
<1>4. IdentityReadOK(m') /\ FeatureReadOK(m')
  <2>1. IdentityReadOK(m')
    BY <1>0, <1>1, <1>2 DEF IdentityReadOK
  <2>2. FeatureReadOK(m')
    BY <1>0, <1>1, <1>2 DEF FeatureReadOK
  <2> QED
    BY <2>1, <2>2
<1>5. BoardOK(m)'
  BY <1>0, <1>1 DEF BoardOK
<1>6. AcquisitionInv'
  BY <1>0, <1>1, <1>2, <1>3, <1>4, <1>5
     DEF AcquisitionInv, StagesOK, IdentityReadOK, FeatureReadOK, HeldOnce, Held
<1>7. WritesKept(m, m')
  BY <1>1, <1>2 DEF WritesKept
<1> QED
  BY <1>6, <1>7

LEMMA AcquisitionStep ==
    ASSUME AcquisitionInv, AcquisitionNext
    PROVE  AcquisitionInv' /\ WritesKept(m, m')
<1>1. ASSUME NEW bus \in Bus, ReadCompleted(bus)
      PROVE  AcquisitionInv' /\ WritesKept(m, m')
  BY <1>1, ReadEnds DEF ReadCompleted
<1>2. ASSUME NEW bus \in Bus, ReadFailed(bus)
      PROVE  AcquisitionInv' /\ WritesKept(m, m')
  BY <1>2, ReadEnds DEF ReadFailed
<1> QED
  BY <1>1, <1>2, StartDiscoveryStep, BroadcastStep, WindowStep, RetryStep, LocalSteps
     DEF AcquisitionNext, Timers, RunLoop, ClientReads

-----------------------------------------------------------------------------
(* The write bridge.                                                       *)
WriteRequests == [op : {"write"}, erd : WriteErd, address : Address]

WriteInv == /\ pending \in Write \cup {NoWrite}
            /\ unanswered = IF pending = NoWrite THEN {} ELSE {pending}
            /\ pending # NoWrite => m.erd_bridge_initialized_
            /\ \A bus \in Bus : \A r : r.op = "write" =>
                  (Held(m, bus, r) <=>
                       pending # NoWrite /\ bus = m.client /\ r = WriteOf(pending))

LEMMA WriteFacts ==
    ASSUME AcquisitionInv, m.erd_bridge_initialized_, NEW w \in Write
    PROVE  /\ m.client \in Bus /\ m.host \in Address /\ m.host # Broadcast
           /\ WriteOf(w) \in WriteRequests /\ WriteOf(w) \in Requests
           /\ w # NoWrite
<1>1. m \in Managers /\ StagesOK(m)
  BY DEF AcquisitionInv
<1>2. m.client \in Bus /\ m.host \in Address
  BY <1>1, StageFacts DEF StagesOK
<1>3. w.erd \in WriteErd /\ w.board \in Address \cup {Primary}
  BY WriteConstants
<1>4. w # NoWrite
  BY <1>3, WriteConstants DEF NoWrite
<1>5. WriteOf(w) \in WriteRequests
  BY <1>2, <1>3 DEF WriteOf, WriteRequests
<1>6. WriteOf(w) \in Requests
  BY <1>5 DEF WriteRequests, Requests, ErdName
<1> QED
  BY <1>2, <1>4, <1>5, <1>6, AcquisitionConstants

LEMMA WriteInit == Init => AcquisitionInv /\ WriteInv
<1> SUFFICES ASSUME Init PROVE AcquisitionInv /\ WriteInv
  OBVIOUS
<1>1. AcquisitionInv
  BY AcquisitionInitOK DEF Init
<1>2. \A bus \in Bus : \A r : ~Held(m, bus, r)
  BY DEF Init, AcquisitionInit, Held
<1>3. WriteInv
  BY <1>2 DEF Init, WriteInv
<1> QED
  BY <1>1, <1>3

LEMMA RequestedStep ==
    ASSUME AcquisitionInv, WriteInv, NEW w \in Write, WriteRequested(w)
    PROVE  AcquisitionInv' /\ WriteInv'
<1> DEFINE r == WriteOf(w)
<1>0. /\ setup \in Setups /\ m \in Managers /\ HeldOnce(m) /\ refusals \in 0 .. MaxRefusals
      /\ StagesOK(m) /\ BoardOK(m) /\ IdentityReadOK(m) /\ FeatureReadOK(m)
      /\ m.erd_bridge_initialized_ /\ pending = NoWrite /\ unanswered = {}
  BY DEF AcquisitionInv, WriteRequested, WriteInv
<1>1. /\ m.client \in Bus /\ m.host \in Address /\ m.host # Broadcast
      /\ r \in WriteRequests /\ r \in Requests /\ w # NoWrite
  BY <1>0, WriteFacts
<1>2. PICK room \in Room :
          /\ m' = Request(m, m.client, r, room)
          /\ pending' = IF room THEN w ELSE NoWrite
          /\ unanswered' = IF room THEN unanswered \cup {w} ELSE unanswered
          /\ CountRefusal(room)
  <2>1. PICK room \in Room :
            LET accepted == room /\ m.host # Broadcast
            IN  /\ m' = Request(m, m.client, r, accepted)
                /\ pending' = IF accepted THEN w ELSE NoWrite
                /\ unanswered' = IF accepted THEN unanswered \cup {w} ELSE unanswered
                /\ CountRefusal(room)
    BY DEF WriteRequested
  <2>2. room \in BOOLEAN
    BY <2>1 DEF Room
  <2>3. (room /\ m.host # Broadcast) = room
    BY <1>1, <2>2
  <2> QED
    BY <2>1, <2>3
<1>3. room \in BOOLEAN /\ refusals' \in 0 .. MaxRefusals /\ setup' = setup
  BY <1>0, <1>2, RefusalsCounted DEF WriteRequested
<1>4. /\ m' \in Managers /\ m' = [m EXCEPT !.requests = m'.requests]
      /\ HeldOnce(m')
      /\ room => Held(m', m.client, r)
      /\ ~room => m' = m
      /\ \A b \in Bus : \A q : Held(m, b, q) => Held(m', b, q)
      /\ \A b \in Bus : \A q : Held(m', b, q) => Held(m, b, q) \/ q = r
  BY <1>0, <1>1, <1>2, <1>3, RequestFacts DEF Accepted, Request
<1>5. /\ IdentityPartKept(m, m') /\ FeaturePartKept(m, m')
      /\ m'.discovery = m.discovery /\ m'.host = m.host /\ m'.client = m.client
      /\ m'.gea2 = m.gea2 /\ m'.identity_client = m.identity_client
      /\ m'.erd_bridge_initialized_ = m.erd_bridge_initialized_
  BY <1>0, <1>4 DEF Managers, IdentityPartKept, FeaturePartKept
<1>6. m.identity_client
  BY <1>0, StageFacts DEF StagesOK
<1>7. StagesOK(m')
  BY <1>0, <1>5, <1>6 DEF StagesOK, IdentityPartKept, FeaturePartKept
<1>8. IdentityReadOK(m')
  BY <1>0, <1>1, <1>4, <1>5 DEF IdentityReadOK, IdentityPartKept
<1>9. FeatureReadOK(m')
  BY <1>0, <1>1, <1>4, <1>5 DEF FeatureReadOK, FeaturePartKept
<1>10. BoardOK(m)'
  BY <1>0, <1>3, <1>5 DEF BoardOK
<1>11. AcquisitionInv'
  BY <1>0, <1>3, <1>4, <1>7, <1>8, <1>9, <1>10
     DEF AcquisitionInv, StagesOK, IdentityReadOK, FeatureReadOK, HeldOnce, Held
<1>12. r.op = "write" /\ WriteOf(w)' = r
  BY <1>5 DEF WriteOf
<1>13. \A b \in Bus : \A q : q.op = "write" => ~Held(m, b, q)
  BY <1>0 DEF WriteInv
<1> HIDE DEF r
<1>14. CASE room
  <2>1. \A b \in Bus : \A q : Held(m', b, q) /\ q.op = "write" => b = m.client /\ q = r
    <3> SUFFICES ASSUME NEW b \in Bus, NEW q, Held(m', b, q), q.op = "write"
                 PROVE  b = m.client /\ q = r
      OBVIOUS
    <3>1. ~Held(m, b, q) /\ q = r
      BY <1>4, <1>13
    <3>2. Held(Request(m, m.client, r, room), b, q) /\ ~Held(m, b, q)
      BY <1>2, <3>1
    <3>3. b = m.client
      BY <1>0, <1>1, <1>3, <3>2, RequestElsewhere
    <3> QED
      BY <3>1, <3>3
  <2>2. pending' = w /\ unanswered' = {w} /\ w # NoWrite
    BY <1>0, <1>1, <1>2, <1>14
  <2>3. \A b \in Bus : \A q : q.op = "write" =>
           (Held(m', b, q) <=> b = m'.client /\ q = r)
    BY <1>4, <1>5, <1>14, <2>1
  <2>4. WriteOf(pending)' = r
    BY <1>12, <2>2 DEF WriteOf
  <2> QED
    BY <1>0, <1>5, <1>11, <2>2, <2>3, <2>4 DEF WriteInv, Held
<1>15. CASE ~room
  <2>1. m' = m /\ pending' = NoWrite /\ unanswered' = {}
    BY <1>0, <1>2, <1>4, <1>15
  <2> QED
    BY <1>11, <1>13, <2>1 DEF WriteInv, Held
<1> QED
  BY <1>3, <1>14, <1>15

LEMMA ClientWritesStep ==
    ASSUME AcquisitionInv, WriteInv, NEW bus \in Bus, ClientWrites(bus)
    PROVE  AcquisitionInv' /\ WriteInv'
<1> DEFINE r == Head(m.requests[bus])
<1>0. /\ setup \in Setups /\ m \in Managers /\ HeldOnce(m) /\ refusals \in 0 .. MaxRefusals
      /\ StagesOK(m) /\ BoardOK(m) /\ IdentityReadOK(m) /\ FeatureReadOK(m)
      /\ m.requests[bus] # <<>> /\ r.op = "write"
      /\ setup' = setup /\ refusals' = refusals
  BY DEF AcquisitionInv, ClientWrites
<1>1. m' = Done(m, bus)
  BY DEF ClientWrites, Done
<1>2. PICK ok \in BOOLEAN : WriteDone(r, ok)
  BY DEF ClientWrites
<1>3. /\ m' \in Managers /\ r \in Requests /\ Held(m, bus, r)
      /\ m' = [m EXCEPT !.requests = m'.requests]
      /\ HeldOnce(m') /\ ~Held(m', bus, r)
      /\ \A b \in Bus : \A q : Held(m', b, q) => Held(m, b, q)
      /\ \A b \in Bus : \A q : Held(m, b, q) => Held(m', b, q) \/ (b = bus /\ q = r)
  BY <1>0, <1>1, DoneFacts
<1> HIDE DEF r
<1>4. /\ IdentityPartKept(m, m') /\ FeaturePartKept(m, m')
      /\ m'.discovery = m.discovery /\ m'.host = m.host /\ m'.client = m.client
      /\ m'.gea2 = m.gea2 /\ m'.identity_client = m.identity_client
      /\ m'.erd_bridge_initialized_ = m.erd_bridge_initialized_
  BY <1>0, <1>3 DEF Managers, IdentityPartKept, FeaturePartKept
<1>5. \A b \in Bus : \A a, erd : Held(m, b, ReadOf(a, erd)) => Held(m', b, ReadOf(a, erd))
  BY <1>0, <1>3 DEF ReadOf
<1>6. StagesOK(m')
  BY <1>0, <1>3, <1>4 DEF StagesOK, IdentityPartKept, FeaturePartKept
<1>7. IdentityReadOK(m')
  <2>1. m.hsm = "device_id" => m.client \in Bus
    BY <1>0, StageFacts
  <2> QED
    BY <1>0, <1>4, <1>5, <2>1 DEF IdentityReadOK, IdentityPartKept
<1>8. FeatureReadOK(m')
  <2>1. m.feature_bit_reading_started_ => m.client \in Bus
    BY <1>0, StageFacts
  <2>2. CASE m.read_queued
    BY <1>0, <1>4, <1>5, <2>1, <2>2 DEF FeatureReadOK, FeaturePartKept
  <2>3. CASE ~m.read_queued
    BY <1>0, <1>4, <2>3, Zenon DEF FeatureReadOK, FeaturePartKept
  <2> QED
    BY <2>2, <2>3
<1>9. BoardOK(m)'
  BY <1>0, <1>4 DEF BoardOK
<1>10. AcquisitionInv'
  BY <1>0, <1>3, <1>6, <1>7, <1>8, <1>9
     DEF AcquisitionInv, StagesOK, IdentityReadOK, FeatureReadOK, HeldOnce, Held
<1>11. pending # NoWrite /\ bus = m.client /\ r = WriteOf(pending)
  BY <1>0, <1>3 DEF WriteInv
<1>12. pending' = NoWrite /\ unanswered' = {}
  BY <1>2, <1>11 DEF WriteDone, WriteInv
<1>13. \A b \in Bus : \A q : q.op = "write" => ~Held(m', b, q)
  <2> SUFFICES ASSUME NEW b \in Bus, NEW q, q.op = "write", Held(m', b, q)
               PROVE  FALSE
    OBVIOUS
  <2>1. b = bus /\ q = r
    BY <1>3, <1>11 DEF WriteInv
  <2> QED
    BY <1>3, <2>1
<1> QED
  BY <1>10, <1>12, <1>13 DEF WriteInv, Held

LEMMA WriteStep ==
    ASSUME AcquisitionInv, WriteInv, [Next]_vars
    PROVE  AcquisitionInv' /\ WriteInv'
<1>1. CASE AcquisitionNext /\ UNCHANGED <<pending, unanswered>>
  <2>1. AcquisitionInv' /\ WritesKept(m, m')
    BY <1>1, AcquisitionStep
  <2>2. pending # NoWrite => /\ m'.erd_bridge_initialized_ /\ m'.client = m.client
                             /\ WriteOf(pending)' = WriteOf(pending)
    BY <1>1, <2>1 DEF WriteInv, WritesKept, WriteOf
  <2>3. ASSUME NEW bus \in Bus, NEW r, r.op = "write"
        PROVE  Held(m', bus, r) <=>
                   pending # NoWrite /\ bus = m'.client /\ r = WriteOf(pending)'
    <3>1. Held(m', bus, r) <=> Held(m, bus, r)
      BY <2>1, <2>3 DEF WritesKept
    <3>2. Held(m, bus, r) <=> pending # NoWrite /\ bus = m.client /\ r = WriteOf(pending)
      BY <2>3 DEF WriteInv
    <3> QED
      BY <2>2, <3>1, <3>2
  <2> QED
    BY <1>1, <2>1, <2>2, <2>3 DEF WriteInv, Held
<1>2. CASE \E w \in Write : WriteRequested(w)
  BY <1>2, RequestedStep
<1>3. CASE \E bus \in Bus : ClientWrites(bus)
  BY <1>3, ClientWritesStep
<1>4. CASE UNCHANGED vars
  BY <1>4 DEF vars, AcquisitionInv, StagesOK, BoardOK, IdentityReadOK, FeatureReadOK,
     HeldOnce, Held, WriteInv, WriteOf
<1> QED
  BY <1>1, <1>2, <1>3, <1>4 DEF Next

(* What the managers and the write bridge know of each other, and of the   *)
(* queues of the clients.                                                  *)
THEOREM AcquisitionSafe == Spec => [](AcquisitionInv /\ WriteInv)
<1>1. (AcquisitionInv /\ WriteInv) /\ [Next]_vars => (AcquisitionInv /\ WriteInv)'
  BY WriteStep
<1> QED
  BY <1>1, WriteInit, PTL DEF Spec

(* The managers' states, indices and the clients' queues stay in their     *)
(* ranges: no feature ERD is asked for beyond the list.                    *)
THEOREM AcquisitionTypeCorrect == Spec => []AcquisitionTypeOK
<1>1. AcquisitionInv => AcquisitionTypeOK
  BY DEF AcquisitionInv, StagesOK, AcquisitionTypeOK, Managers
<1> QED
  BY <1>1, AcquisitionSafe, PTL

(* Whatever answers, on whichever bus and however late: autodiscovery only *)
(* ever reports a board that is there, with its bus and protocol.          *)
THEOREM BoardIsFound == Spec => []BoardFound
<1>1. AcquisitionInv => BoardFound
  BY DEF AcquisitionInv, StagesOK, BoardOK, BoardFound
<1> QED
  BY <1>1, AcquisitionSafe, PTL

(* The startup never waits for an identity read that nobody holds, unless  *)
(* the client refused it or the appliance type was answered with no data.  *)
THEOREM IdentityIsAsked == Spec => []IdentityReadHeld
<1>1. AcquisitionInv => IdentityReadHeld
  BY DEF AcquisitionInv, IdentityReadOK, IdentityReadHeld
<1> QED
  BY <1>1, AcquisitionSafe, PTL

(* The feature bit manager never waits for a read that nobody holds.       *)
THEOREM FeatureIsAsked == Spec => []FeatureReadHeld
<1>1. AcquisitionInv => FeatureReadHeld
  BY DEF AcquisitionInv, FeatureReadOK, FeatureReadHeld
<1> QED
  BY <1>1, AcquisitionSafe, PTL

(* The write bridge waits for exactly the write that the client holds.     *)
THEOREM WriteIsHeld == Spec => []PendingWriteHeld
<1>1. ASSUME AcquisitionInv, WriteInv
      PROVE  PendingWriteHeld
  <2> SUFFICES ASSUME NEW bus \in Bus
               PROVE  {m.requests[bus][i] : i \in DOMAIN m.requests[bus]} \cap WriteRequests
                      = IF pending # NoWrite /\ bus = m.client
                        THEN {WriteOf(pending)} ELSE {}
    BY DEF PendingWriteHeld, WriteRequests
  <2> DEFINE H == {m.requests[bus][i] : i \in DOMAIN m.requests[bus]}
  <2>1. \A r : r \in H <=> Held(m, bus, r)
    BY DEF Held
  <2>2. \A r \in WriteRequests : r.op = "write"
    BY DEF WriteRequests
  <2>3. pending # NoWrite => WriteOf(pending) \in WriteRequests
    BY <1>1, WriteFacts DEF WriteInv
  <2>4. \A r \in WriteRequests :
            r \in H <=> pending # NoWrite /\ bus = m.client /\ r = WriteOf(pending)
    BY <1>1, <2>1, <2>2 DEF WriteInv
  <2>5. H \cap WriteRequests = IF pending # NoWrite /\ bus = m.client
                              THEN {WriteOf(pending)} ELSE {}
    <3> DEFINE x == WriteOf(pending)
    <3> HIDE DEF H, x
    <3>1. CASE pending # NoWrite /\ bus = m.client
      <4>1. x \in WriteRequests
        BY <2>3, <3>1 DEF x
      <4>2. \A r \in WriteRequests : r \in H <=> r = x
        BY <2>4, <3>1 DEF x
      <4>3. H \cap WriteRequests = {x}
        BY <4>1, <4>2
      <4> QED
        BY <3>1, <4>3 DEF x
    <3>2. CASE ~(pending # NoWrite /\ bus = m.client)
      <4>1. \A r \in WriteRequests : r \notin H
        BY <2>4, <3>2
      <4> QED
        BY <3>2, <4>1
    <3> QED
      BY <3>1, <3>2
  <2> QED
    BY <2>5
<1> QED
  BY <1>1, AcquisitionSafe, PTL
=============================================================================
