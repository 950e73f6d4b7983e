---------------------------- MODULE StartupProofs ----------------------------
(***************************************************************************)
(* The safety properties of StartupBridge, for every configuration, every  *)
(* set of ERDs and every length of the poll list StartupConstants allows.  *)
(***************************************************************************)
EXTENDS StartupBridge, FiniteSetTheorems, TLAPS

Component ==
    [hsm : States, discovered : BOOLEAN, identified : BOOLEAN,
     features : {"idle", "reading", "complete", "failed"},
     valid_erds : SUBSET (Feature \cup Mandatory),
     mqtt_client_adapter_initialized_ : BOOLEAN,
     erd_bridge_initialized_ : BOOLEAN,
     subscription_bridge_initialized_ : BOOLEAN,
     polling_bridge_initialized_ : BOOLEAN,
     write_bridge_initialized_ : BOOLEAN,
     custom_erd_polling_started_ : BOOLEAN,
     steady_state_reached_ : BOOLEAN,
     registry : SUBSET Erd, registry_wired : BOOLEAN, seen : SUBSET Published,
     sub : {"none", "subscribing", "subscribed", "steady", "failed"},
     poll : {"none", "probing", "polling", "failed"}, poll_list : SUBSET Erd,
     poll_callbacks : Nat, sub_callbacks : Nat]

LateStates == {"bridge_init", "subscription_watch", "running"}

\* What a step must leave behind: BridgesOwned, ...
Owned(c) ==
    /\ c.polling_bridge_initialized_ <=> c.poll # "none"
    /\ c.subscription_bridge_initialized_ <=> c.sub # "none"
    /\ c.poll_callbacks = IF c.polling_bridge_initialized_ THEN 1 ELSE 0
    /\ c.sub_callbacks = IF c.subscription_bridge_initialized_ THEN 1 ELSE 0

\* ... DataPath, from the list the builder makes, whichever that is, ...
Wanted(c) == ListedErds(c) \cup (IF AllFit(c) THEN config.custom_erds ELSE {})

Path(c) ==
    c.erd_bridge_initialized_ =>
        /\ c.sub # "none" \/ c.poll # "none"
        /\ c.sub = "none" => Wanted(c) \subseteq c.poll_list
        /\ c.sub # "none" /\ c.poll # "none" => c.poll_list \subseteq config.custom_erds

\* ... CustomErdsCovered, ...
Complete(c) == config.custom_erds \subseteq c.seen \cup
                   (IF c.poll = "none" THEN {} ELSE c.poll_list)

Covered(c) == c.custom_erd_polling_started_ => Complete(c)

\* ... and the order of the startup: no bridge before its initialisation, which
\* waits for the feature bits; a subscription only where the configuration has
\* one; beside it a polling bridge only for custom polling.
Order(c) ==
    /\ c.erd_bridge_initialized_ => c.hsm \in LateStates
    /\ c.hsm \in LateStates => c.features \in {"complete", "failed"}
    /\ ~c.erd_bridge_initialized_ => c.poll = "none" /\ c.sub = "none"
    /\ c.sub # "none" => /\ c.hsm \in {"subscription_watch", "running"}
                         /\ config.mode # "poll" /\ ~config.gea2
    /\ c.custom_erd_polling_started_ => c.sub # "none"
    /\ c.sub # "none" /\ ~c.custom_erd_polling_started_ => c.poll = "none"

Good(c) == c \in Component /\ Owned(c) /\ Path(c) /\ Covered(c) /\ Order(c)

StartupInv == config \in Configuration /\ Good(b)

-----------------------------------------------------------------------------
(* Good says nothing of these four flags and of the registry.              *)
SameButFlags(c, d) ==
    /\ d.hsm = c.hsm /\ d.features = c.features /\ d.valid_erds = c.valid_erds
    /\ d.erd_bridge_initialized_ = c.erd_bridge_initialized_
    /\ d.subscription_bridge_initialized_ = c.subscription_bridge_initialized_
    /\ d.polling_bridge_initialized_ = c.polling_bridge_initialized_
    /\ d.custom_erd_polling_started_ = c.custom_erd_polling_started_
    /\ d.seen = c.seen /\ d.sub = c.sub /\ d.poll = c.poll
    /\ d.poll_list = c.poll_list /\ d.poll_callbacks = c.poll_callbacks
    /\ d.sub_callbacks = c.sub_callbacks

LEMMA SameIsGood ==
    ASSUME NEW c, NEW d, Good(c), d \in Component, SameButFlags(c, d)
    PROVE  Good(d)
BY Z3
   DEF Good, SameButFlags, Owned, Path, Wanted, AllFit, ListedErds,
       subscription_is_active, Complete, Covered, Order

LEMMA CheckSteady ==
    ASSUME NEW c \in Component
    PROVE  /\ check_steady_state(c) \in Component
           /\ SameButFlags(c, check_steady_state(c))
<1> DEFINE s == c.steady_state_reached_ \/ Steady(c)
<1>1. s \in BOOLEAN
  OBVIOUS
<1>2. check_steady_state(c) = [c EXCEPT !.steady_state_reached_ = s]
  BY Zenon DEF check_steady_state
<1> HIDE DEF s
<1>3. [c EXCEPT !.steady_state_reached_ = s] \in Component
  BY <1>1 DEF Component
<1>4. SameButFlags(c, [c EXCEPT !.steady_state_reached_ = s])
  BY <1>1 DEF Component, SameButFlags
<1> QED
  BY <1>2, <1>3, <1>4

-----------------------------------------------------------------------------
(* The steady state: what it means, and the steps that judge it.           *)
Delivers(c) == /\ c.sub \in {"none", "steady"} /\ c.poll \in {"none", "polling"}
               /\ c.sub # "none" \/ AllFit(c) => Complete(c)

CustomConsidered(c) ==
    c.sub = "steady" /\ config.custom_erds # {} => c.custom_erd_polling_started_

\* What every handler does: Good is kept, and a steady state is declared only
\* of a component that delivers.
Step(c, d) == /\ Good(d)
              /\ d.steady_state_reached_ => c.steady_state_reached_ \/ Delivers(d)

LEMMA SteadyDelivers ==
    ASSUME NEW c, Good(c), Steady(c), CustomConsidered(c)
    PROVE  Delivers(c)
<1>1. c.sub \in {"none", "steady"} /\ c.poll \in {"none", "polling"}
  BY DEF Good, Owned, Steady
<1>2. c.sub # "none" \/ AllFit(c) => Complete(c)
  <2>1. CASE c.sub = "none"
    BY <2>1 DEF Good, Path, Wanted, Steady, Complete
  <2>2. CASE c.sub = "steady" /\ config.custom_erds = {}
    BY <2>2 DEF Complete
  <2>3. CASE c.sub = "steady" /\ config.custom_erds # {}
    BY <2>3 DEF Good, Covered, CustomConsidered
  <2> QED
    BY <1>1, <2>1, <2>2, <2>3
<1> QED
  BY <1>1, <1>2 DEF Delivers

LEMMA CheckSteadyStep ==
    ASSUME NEW c, Good(c), CustomConsidered(c)
    PROVE  /\ Step(c, check_steady_state(c))
           /\ CustomConsidered(check_steady_state(c))
           /\ Delivers(c) => Delivers(check_steady_state(c))
<1> DEFINE d == check_steady_state(c)
<1>1. c \in Component
  BY DEF Good
<1>2. d \in Component /\ SameButFlags(c, d)
  BY <1>1, CheckSteady
<1>3. Good(d)
  BY <1>2, SameIsGood
<1>4. d.steady_state_reached_ => c.steady_state_reached_ \/ Steady(c)
  BY <1>1, Z3 DEF check_steady_state, Component
<1>5. Delivers(c) => Delivers(d)
  BY <1>2 DEF Delivers, Complete, SameButFlags, AllFit, ListedErds, subscription_is_active
<1>6. CustomConsidered(d)
  BY <1>2 DEF CustomConsidered, SameButFlags
<1> QED
  BY <1>3, <1>4, <1>5, <1>6, SteadyDelivers DEF Step

\* A state of the startup that is as late as the present one.
LEMMA LaterState ==
    ASSUME NEW c, Good(c), c.hsm \in LateStates,
           NEW s \in {"subscription_watch", "running"}
    PROVE  /\ Good([c EXCEPT !.hsm = s])
           /\ CustomConsidered(c) => CustomConsidered([c EXCEPT !.hsm = s])
           /\ Delivers(c) => Delivers([c EXCEPT !.hsm = s])
           /\ [c EXCEPT !.hsm = s].steady_state_reached_ = c.steady_state_reached_
           /\ [c EXCEPT !.hsm = s].hsm = s
<1> DEFINE d == [c EXCEPT !.hsm = s]
<1>1. d \in Component /\ d.hsm = s
  BY DEF Good, Component, States
<1>2. /\ d.features = c.features /\ d.valid_erds = c.valid_erds
      /\ d.erd_bridge_initialized_ = c.erd_bridge_initialized_
      /\ d.subscription_bridge_initialized_ = c.subscription_bridge_initialized_
      /\ d.polling_bridge_initialized_ = c.polling_bridge_initialized_
      /\ d.custom_erd_polling_started_ = c.custom_erd_polling_started_
      /\ d.steady_state_reached_ = c.steady_state_reached_
      /\ d.seen = c.seen /\ d.sub = c.sub /\ d.poll = c.poll
      /\ d.poll_list = c.poll_list /\ d.poll_callbacks = c.poll_callbacks
      /\ d.sub_callbacks = c.sub_callbacks
  BY DEF Good, Component
<1> HIDE DEF d
<1>3. Good(d)
  BY <1>1, <1>2, Z3
     DEF Good, Owned, Path, Wanted, AllFit, ListedErds, subscription_is_active,
         Complete, Covered, Order, LateStates
<1>4. CustomConsidered(c) => CustomConsidered(d)
  BY <1>2 DEF CustomConsidered
<1>5. Delivers(c) => Delivers(d)
  BY <1>2 DEF Delivers, Complete, AllFit, ListedErds, subscription_is_active
<1> QED
  BY <1>1, <1>2, <1>3, <1>4, <1>5 DEF d

LEMMA EnterRunningStep ==
    ASSUME NEW c, Good(c), c.hsm \in LateStates, CustomConsidered(c)
    PROVE  /\ Step(c, EnterRunning(c))
           /\ EnterRunning(c).hsm = "running" /\ CustomConsidered(EnterRunning(c))
           /\ Delivers(c) => Delivers(EnterRunning(c))
<1> DEFINE d == [c EXCEPT !.hsm = "running"]
<1>1. /\ Good(d) /\ CustomConsidered(d) /\ d.hsm = "running"
      /\ d.steady_state_reached_ = c.steady_state_reached_
      /\ Delivers(c) => Delivers(d)
  BY LaterState
<1>2. EnterRunning(c) = check_steady_state(d)
  BY DEF EnterRunning
<1> HIDE DEF d
<1>3. /\ Step(d, check_steady_state(d)) /\ CustomConsidered(check_steady_state(d))
      /\ Delivers(d) => Delivers(check_steady_state(d))
  BY <1>1, CheckSteadyStep
<1>4. check_steady_state(d).hsm = "running"
  BY <1>1, CheckSteady DEF Good, SameButFlags
<1> QED
  BY <1>1, <1>2, <1>3, <1>4 DEF Step

-----------------------------------------------------------------------------
(* Starting and destroying a polling bridge.                               *)
LEMMA CustomIsFinite ==
    ASSUME NEW custom \in SUBSET Custom
    PROVE  /\ IsFiniteSet(custom) /\ Cardinality(custom) \in Nat
           /\ Cardinality(custom) <= ERD_POLL_LIST_MAX_SIZE
           /\ ERD_POLL_LIST_MAX_SIZE \in Nat
<1>1. /\ IsFiniteSet(Custom) /\ Cardinality(Custom) <= ERD_POLL_LIST_MAX_SIZE
      /\ ERD_POLL_LIST_MAX_SIZE \in Nat
  BY StartupConstants
<1>2. IsFiniteSet(custom) /\ Cardinality(custom) <= Cardinality(Custom)
  BY <1>1, FS_Subset
<1>3. Cardinality(custom) \in Nat /\ Cardinality(Custom) \in Nat
  BY <1>1, <1>2, FS_CardinalityType
<1> QED
  BY <1>1, <1>2, <1>3

LEMMA ListedIsFinite ==
    ASSUME NEW c \in Component
    PROVE  Cardinality(ListedErds(c)) \in Nat
<1>1. IsFiniteSet(Feature \cup Mandatory) /\ IsFiniteSet(Standard)
  BY StartupConstants
<1>2. IsFiniteSet(c.valid_erds)
  BY <1>1, FS_Subset DEF Component
<1>3. IsFiniteSet(ListedErds(c))
  BY <1>1, <1>2, FS_EmptySet DEF ListedErds
<1> QED
  BY <1>3, FS_CardinalityType

\* Custom ERDs that have room are all appended.
LEMMA AllAppended ==
    ASSUME NEW custom \in SUBSET Custom, NEW room \in Int, Cardinality(custom) <= room
    PROVE  append_custom_erds(custom, room) = custom
<1>1. ASSUME NEW x \in custom
      PROVE  Cardinality({y \in custom : Position[y] <= Position[x]}) <= room
  <2> DEFINE before == {y \in custom : Position[y] <= Position[x]}
  <2>1. IsFiniteSet(custom) /\ before \subseteq custom /\ Cardinality(custom) \in Nat
    BY CustomIsFinite
  <2> HIDE DEF before
  <2>2. IsFiniteSet(before) /\ Cardinality(before) <= Cardinality(custom)
    BY <2>1, FS_Subset
  <2>3. Cardinality(before) \in Nat
    BY <2>2, FS_CardinalityType
  <2> QED
    BY <2>1, <2>2, <2>3 DEF before
<1> QED
  BY <1>1 DEF append_custom_erds

\* A list contains what is listed, and the custom ERDs if there is room.
LEMMA PollListContents ==
    ASSUME NEW c \in Component, NEW custom \in SUBSET Custom
    PROVE  /\ ListedErds(c) \subseteq build_erd_poll_list(c, custom)
           /\ Cardinality(ListedErds(c)) + Cardinality(custom) <= ERD_POLL_LIST_MAX_SIZE
                  => build_erd_poll_list(c, custom) = ListedErds(c) \cup custom
<1> DEFINE room == ERD_POLL_LIST_MAX_SIZE - Cardinality(ListedErds(c))
<1>1. room \in Int /\ Cardinality(custom) \in Nat /\ Cardinality(ListedErds(c)) \in Nat
  BY CustomIsFinite, ListedIsFinite
<1>2. ASSUME Cardinality(ListedErds(c)) + Cardinality(custom) <= ERD_POLL_LIST_MAX_SIZE
      PROVE  append_custom_erds(custom, room) = custom
  <2>1. Cardinality(custom) <= room
    BY <1>1, <1>2, CustomIsFinite
  <2> QED
    BY <1>1, <2>1, AllAppended
<1> QED
  BY <1>2 DEF build_erd_poll_list

LEMMA CustomIsCustom ==
    ASSUME config \in Configuration
    PROVE  config.custom_erds \in SUBSET Custom
BY DEF Configuration

LEMMA WantedIsPolled ==
    ASSUME config \in Configuration, NEW c \in Component, NEW d, d.sub = c.sub,
           d.valid_erds = c.valid_erds,
           d.poll_list = build_erd_poll_list(c, config.custom_erds)
    PROVE  Wanted(d) \subseteq d.poll_list
<1>1. ListedErds(d) = ListedErds(c)
  BY DEF ListedErds, subscription_is_active
<1> QED
  BY <1>1, CustomIsCustom, PollListContents DEF Wanted, AllFit

LEMMA PollListIsErds ==
    ASSUME NEW c \in Component, NEW custom \in SUBSET Erd
    PROVE  build_erd_poll_list(c, custom) \in SUBSET Erd
BY DEF build_erd_poll_list, append_custom_erds, ListedErds, Component, Erd

LEMMA CustomIsErds ==
    ASSUME config \in Configuration
    PROVE  config.custom_erds \in SUBSET Erd
BY DEF Configuration, Erd

\* What start and end of the two bridges leave alone.
SameCourse(c, d) ==
    /\ d.hsm = c.hsm /\ d.features = c.features /\ d.valid_erds = c.valid_erds
    /\ d.erd_bridge_initialized_ = c.erd_bridge_initialized_
    /\ d.steady_state_reached_ = c.steady_state_reached_
    /\ d.seen = c.seen

SameSubscription(c, d) ==
    /\ d.subscription_bridge_initialized_ = c.subscription_bridge_initialized_
    /\ d.sub = c.sub /\ d.sub_callbacks = c.sub_callbacks

LEMMA PollingInitialised ==
    ASSUME NEW c \in Component, NEW custom \in SUBSET Erd
    PROVE  LET d == init_polling_bridge(c, custom)
           IN  /\ d \in Component /\ SameCourse(c, d) /\ SameSubscription(c, d)
               /\ d.custom_erd_polling_started_ = c.custom_erd_polling_started_
               /\ d.poll_list = build_erd_poll_list(c, custom)
               /\ d.poll = IF d.poll_list = {} THEN "polling" ELSE "probing"
               /\ d.poll_callbacks = c.poll_callbacks + 1
               /\ d.polling_bridge_initialized_ = TRUE
<1> DEFINE list == build_erd_poll_list(c, custom)
           poll == IF list = {} THEN "polling" ELSE "probing"
           n == c.poll_callbacks + 1
           d == [c EXCEPT !.poll_list = list, !.poll = poll, !.poll_callbacks = n,
                          !.polling_bridge_initialized_ = TRUE]
<1>1. list \in SUBSET Erd
  BY PollListIsErds
<1>2. init_polling_bridge(c, custom) = d
  BY DEF init_polling_bridge
<1>3. poll \in {"none", "probing", "polling", "failed"}
  OBVIOUS
<1>4. poll = IF list = {} THEN "polling" ELSE "probing"
  OBVIOUS
<1>5. n \in Nat
  BY DEF Component
<1> HIDE DEF list, poll, n
<1>6. d \in Component
  BY <1>1, <1>3, <1>5 DEF Component
<1>7. SameCourse(c, d) /\ SameSubscription(c, d)
  BY DEF Component, SameCourse, SameSubscription
<1>8. /\ d.custom_erd_polling_started_ = c.custom_erd_polling_started_
      /\ d.poll_list = list /\ d.poll = poll
      /\ d.poll_callbacks = n
      /\ d.polling_bridge_initialized_ = TRUE
  BY DEF Component
<1> QED
  BY <1>2, <1>4, <1>6, <1>7, <1>8 DEF list, n

LEMMA PollingDestroyed ==
    ASSUME NEW c \in Component
    PROVE  LET d == destroy_polling_bridge(c)
           IN  /\ d \in Component /\ SameCourse(c, d) /\ SameSubscription(c, d)
               /\ d.poll = "none" /\ d.poll_callbacks = 0
               /\ d.polling_bridge_initialized_ = FALSE
               /\ d.custom_erd_polling_started_ = FALSE
               /\ d.poll_list = c.poll_list
BY DEF Component, destroy_polling_bridge, SameCourse, SameSubscription

LEMMA CustomStarted ==
    ASSUME NEW c \in Component
    PROVE  LET d == [c EXCEPT !.custom_erd_polling_started_ = TRUE]
           IN  /\ d \in Component /\ SameCourse(c, d) /\ SameSubscription(c, d)
               /\ d.custom_erd_polling_started_ = TRUE
               /\ d.poll_list = c.poll_list /\ d.poll = c.poll
               /\ d.poll_callbacks = c.poll_callbacks
               /\ d.polling_bridge_initialized_ = c.polling_bridge_initialized_
BY DEF Component, SameCourse, SameSubscription

\* Custom polling, started beside a steady subscription: the bridge is not
\* there yet, and its list is the custom ERDs that were not seen.
LEMMA CustomPolling ==
    ASSUME config \in Configuration, NEW c, Good(c)
    PROVE  LET d == maybe_start_custom_erd_polling(c)
           IN  Good(d) /\ CustomConsidered(d) /\ SameCourse(c, d)
<1> DEFINE d == maybe_start_custom_erd_polling(c)
<1>0. c \in Component
  BY DEF Good
<1>1. CASE \/ config.custom_erds = {} \/ c.custom_erd_polling_started_
           \/ c.sub # "steady"
  <2>1. d = c
    BY <1>1 DEF maybe_start_custom_erd_polling
  <2> QED
    BY <1>1, <2>1 DEF CustomConsidered, SameCourse
<1>2. CASE /\ config.custom_erds # {} /\ ~c.custom_erd_polling_started_
           /\ c.sub = "steady"
  <2> DEFINE custom == Unseen(c)
             p == init_polling_bridge(c, custom)
             q == IF custom = {} THEN c ELSE p
  <2>1. d = [q EXCEPT !.custom_erd_polling_started_ = TRUE]
    BY <1>2 DEF maybe_start_custom_erd_polling, start_custom_erd_polling
  <2>2. custom \in SUBSET Erd /\ custom \subseteq config.custom_erds
    BY CustomIsErds DEF Unseen
  <2>3. /\ c.poll = "none" /\ c.hsm \in {"subscription_watch", "running"}
        /\ c.poll_callbacks = 0 /\ c.erd_bridge_initialized_
        /\ config.mode # "poll" /\ ~config.gea2
        /\ c.subscription_bridge_initialized_ /\ c.sub_callbacks = 1
        /\ c.features \in {"complete", "failed"}
        /\ ~c.polling_bridge_initialized_
    BY <1>2, Z3 DEF Good, Owned, Order, LateStates
  <2>4. build_erd_poll_list(c, custom) = custom
    <3>1. ListedErds(c) = {}
      BY <1>2, <2>3 DEF ListedErds, subscription_is_active, Configuration
    <3>2. custom \in SUBSET Custom
      BY <2>2, CustomIsCustom
    <3>3. Cardinality(ListedErds(c)) = 0
      BY <3>1, FS_EmptySet
    <3>4. Cardinality(custom) \in Nat /\ Cardinality(custom) <= ERD_POLL_LIST_MAX_SIZE
      BY <3>2, CustomIsFinite
    <3>5. Cardinality(ListedErds(c)) + Cardinality(custom) <= ERD_POLL_LIST_MAX_SIZE
      BY <3>3, <3>4
    <3> HIDE DEF custom
    <3>6. build_erd_poll_list(c, custom) = ListedErds(c) \cup custom
      BY <1>0, <3>2, <3>5, PollListContents
    <3> QED
      BY <3>1, <3>6
  <2>5. config.custom_erds \subseteq c.seen \cup custom
    BY DEF Unseen
  <2> HIDE DEF custom
  <2>6. q \in Component /\ SameCourse(c, q) /\ SameSubscription(c, q)
    BY <1>0, <2>2, PollingInitialised DEF SameCourse, SameSubscription
  <2>7. CASE custom = {}
    <3>1. d \in Component /\ SameCourse(c, d) /\ SameSubscription(c, d)
      BY <1>0, <2>1, <2>7, CustomStarted
    <3>2. /\ d.custom_erd_polling_started_ = TRUE /\ d.poll = "none"
          /\ d.poll_callbacks = 0 /\ d.polling_bridge_initialized_ = FALSE
      BY <1>0, <2>1, <2>3, <2>7, CustomStarted DEF Component
    <3> HIDE DEF d
    <3>3. Good(d) /\ CustomConsidered(d)
      BY <1>2, <2>3, <2>5, <2>7, <3>1, <3>2, Z3
         DEF Good, Owned, Path, Complete, Covered, Order, LateStates, CustomConsidered,
             SameCourse, SameSubscription
    <3> QED
      BY <3>1, <3>3 DEF d
  <2>8. CASE custom # {}
    <3>0. /\ p \in Component /\ SameCourse(c, p) /\ SameSubscription(c, p)
          /\ p.poll_list = build_erd_poll_list(c, custom)
          /\ p.poll = IF p.poll_list = {} THEN "polling" ELSE "probing"
          /\ p.poll_callbacks = c.poll_callbacks + 1
          /\ p.polling_bridge_initialized_ = TRUE
      BY <1>0, <2>2, PollingInitialised
    <3> HIDE DEF p
    <3>1. /\ p \in Component /\ SameCourse(c, p) /\ SameSubscription(c, p)
          /\ p.poll_list = custom /\ p.poll = "probing" /\ p.poll_callbacks = 1
          /\ p.polling_bridge_initialized_ = TRUE
      BY <2>3, <2>4, <2>8, <3>0
    <3>2. d = [p EXCEPT !.custom_erd_polling_started_ = TRUE]
      BY <2>1, <2>8 DEF p
    <3> HIDE DEF d
    <3>3. /\ d \in Component /\ SameCourse(c, d) /\ SameSubscription(c, d)
          /\ d.poll_list = custom /\ d.poll = "probing" /\ d.poll_callbacks = 1
          /\ d.polling_bridge_initialized_ = TRUE
          /\ d.custom_erd_polling_started_ = TRUE
      BY <3>1, <3>2, CustomStarted DEF SameCourse, SameSubscription
    <3>4. Good(d) /\ CustomConsidered(d)
      BY <1>2, <2>2, <2>3, <2>5, <3>3, Z3
         DEF Good, Owned, Path, Complete, Covered, Order, LateStates, CustomConsidered,
             SameCourse, SameSubscription
    <3> QED
      BY <3>3, <3>4 DEF d
  <2> QED
    BY <2>7, <2>8
<1> QED
  BY <1>1, <1>2 DEF Good, Component

\* Failed custom polling is destroyed, and is then to be started anew.
LEMMA PollingFailureHandled ==
    ASSUME NEW c, Good(c)
    PROVE  LET d == handle_polling_failed(c)
           IN  Good(d) /\ SameCourse(c, d) /\ SameSubscription(c, d)
<1> DEFINE d == handle_polling_failed(c)
<1>0. c \in Component
  BY DEF Good
<1>1. CASE c.polling_bridge_initialized_ /\ c.poll = "failed"
           /\ c.subscription_bridge_initialized_
  <2>1. d = destroy_polling_bridge(c)
    BY <1>1 DEF handle_polling_failed
  <2>2. /\ d \in Component /\ SameCourse(c, d) /\ SameSubscription(c, d)
        /\ d.poll = "none" /\ d.poll_callbacks = 0
        /\ d.polling_bridge_initialized_ = FALSE
        /\ d.custom_erd_polling_started_ = FALSE
    BY <1>0, <2>1, PollingDestroyed
  <2> HIDE DEF d
  <2>3. Good(d)
    BY <1>1, <2>2, Z3 DEF Good, Owned, Path, Complete, Covered, Order, LateStates,
       SameCourse, SameSubscription
  <2> QED
    BY <2>2, <2>3 DEF d
<1>2. CASE ~(c.polling_bridge_initialized_ /\ c.poll = "failed"
             /\ c.subscription_bridge_initialized_)
  BY <1>2, Zenon DEF handle_polling_failed, SameCourse, SameSubscription
<1> QED
  BY <1>1, <1>2

\* The fallback: the subscription is gone, and one polling bridge is there for
\* everything, custom polling having been destroyed before.
LEMMA FallenBack ==
    ASSUME config \in Configuration, NEW c, Good(c), c.sub = "failed"
    PROVE  LET d == handle_subscription_failed(c)
           IN  Good(d) /\ SameCourse(c, d) /\ CustomConsidered(d)
<1> DEFINE d == handle_subscription_failed(c)
<1>0. c \in Component
  BY DEF Good
<1>1. CASE config.mode # "auto"
  <2>1. d = c
    BY <1>1 DEF handle_subscription_failed
  <2> QED
    BY <2>1 DEF CustomConsidered, SameCourse
<1>2. CASE config.mode = "auto"
  <2> DEFINE n == [c EXCEPT !.sub = "none", !.sub_callbacks = 0,
                            !.subscription_bridge_initialized_ = FALSE]
             q == IF n.custom_erd_polling_started_ THEN destroy_polling_bridge(n) ELSE n
  <2>1. d = init_polling_bridge(q, config.custom_erds)
    BY <1>2 DEF handle_subscription_failed
  <2>2. /\ n \in Component /\ SameCourse(c, n)
        /\ n.sub = "none" /\ n.sub_callbacks = 0
        /\ n.subscription_bridge_initialized_ = FALSE
        /\ n.custom_erd_polling_started_ = c.custom_erd_polling_started_
        /\ n.poll = c.poll /\ n.poll_callbacks = c.poll_callbacks
    BY <1>0 DEF Component, SameCourse
  <2> HIDE DEF n
  <2>3. /\ q \in Component /\ SameCourse(c, q)
        /\ q.sub = "none" /\ q.sub_callbacks = 0
        /\ q.subscription_bridge_initialized_ = FALSE
        /\ q.custom_erd_polling_started_ = FALSE /\ q.poll_callbacks = 0
    <3>1. CASE n.custom_erd_polling_started_
      <4>1. q = destroy_polling_bridge(n)
        BY <3>1
      <4> HIDE DEF q
      <4> QED
        BY <2>2, <4>1, PollingDestroyed DEF SameCourse, SameSubscription
    <3>2. CASE ~n.custom_erd_polling_started_
      <4>1. q = n
        BY <3>2
      <4>2. c.poll = "none" /\ c.poll_callbacks = 0 /\ ~c.custom_erd_polling_started_
        BY <2>2, <3>2, Z3 DEF Good, Owned, Order
      <4>3. q.custom_erd_polling_started_ = FALSE
        BY <2>2, <3>2, <4>1 DEF Component
      <4> HIDE DEF q
      <4> QED
        BY <2>2, <4>1, <4>2, <4>3
    <3> QED
      BY <3>1, <3>2
  <2> HIDE DEF q
  <2>4. config.custom_erds \in SUBSET Erd
    BY CustomIsErds
  <2>5. /\ d \in Component /\ SameCourse(q, d) /\ SameSubscription(q, d)
        /\ d.custom_erd_polling_started_ = q.custom_erd_polling_started_
        /\ d.poll_list = build_erd_poll_list(q, config.custom_erds)
        /\ d.poll = IF d.poll_list = {} THEN "polling" ELSE "probing"
        /\ d.poll_callbacks = q.poll_callbacks + 1
        /\ d.polling_bridge_initialized_ = TRUE
    BY <2>1, <2>3, <2>4, PollingInitialised
  <2> HIDE DEF d
  <2>6. Wanted(d) \subseteq d.poll_list
    BY <2>3, <2>5, WantedIsPolled DEF SameCourse, SameSubscription
  <2>7. /\ d.sub = "none" /\ d.sub_callbacks = 0
        /\ d.subscription_bridge_initialized_ = FALSE
        /\ d.custom_erd_polling_started_ = FALSE /\ d.poll_callbacks = 1
        /\ d.poll \in {"polling", "probing"} /\ SameCourse(c, d)
    BY <2>3, <2>5 DEF SameCourse, SameSubscription
  <2>8. c.erd_bridge_initialized_ = TRUE
    BY Z3 DEF Good, Order, Component
  <2>9. Good(d) /\ CustomConsidered(d)
    BY <2>5, <2>6, <2>7, <2>8, Z3 DEF Good, Owned, Path, Covered, Order, LateStates,
       CustomConsidered, SameCourse
  <2> QED
    BY <2>7, <2>9 DEF d
<1> QED
  BY <1>1, <1>2

-----------------------------------------------------------------------------
(* The end of bridge initialisation.                                       *)
LEMMA WatchEntered ==
    ASSUME config \in Configuration, NEW c \in Component,
           Good([c EXCEPT !.hsm = "subscription_watch"])
    PROVE  Step(c, EnterSubscriptionWatch(c))
<1> DEFINE d == [c EXCEPT !.hsm = "subscription_watch"]
<1>1. /\ Good(d) /\ d.hsm = "subscription_watch"
      /\ d.steady_state_reached_ = c.steady_state_reached_
  BY DEF Component
<1>2. EnterSubscriptionWatch(c) = IF config.mode = "auto" THEN d
                     ELSE EnterRunning(maybe_start_custom_erd_polling(d))
  BY DEF EnterSubscriptionWatch
<1> HIDE DEF d
<1>3. CASE config.mode = "auto"
  BY <1>1, <1>2, <1>3 DEF Step
<1>4. CASE config.mode # "auto"
  <2> DEFINE e == maybe_start_custom_erd_polling(d)
  <2>1. Good(e) /\ CustomConsidered(e) /\ SameCourse(d, e)
    BY <1>1, CustomPolling
  <2> HIDE DEF e
  <2>2. e.hsm \in LateStates /\ e.steady_state_reached_ = c.steady_state_reached_
    BY <1>1, <2>1 DEF SameCourse, LateStates
  <2>3. Step(e, EnterRunning(e))
    BY <2>1, <2>2, EnterRunningStep
  <2> QED
    BY <1>2, <1>4, <2>2, <2>3 DEF Step, e
<1> QED
  BY <1>3, <1>4

LEMMA BridgeReadyStep ==
    ASSUME config \in Configuration, NEW c, Good(c)
    PROVE  Step(c, BridgeReady(c))
<1>1. CASE c.hsm = "bridge_init"
  <2>1. Good([c EXCEPT !.hsm = "subscription_watch"])
    BY <1>1, LaterState DEF LateStates
  <2>2. BridgeReady(c) = EnterSubscriptionWatch(c)
    BY <1>1 DEF BridgeReady
  <2> QED
    BY <2>1, <2>2, WatchEntered DEF Good
<1>2. CASE c.hsm # "bridge_init"
  <2>1. BridgeReady(c) = c
    BY <1>2 DEF BridgeReady
  <2> QED
    BY <2>1 DEF Step
<1> QED
  BY <1>1, <1>2

LEMMA FilterApplied ==
    ASSUME config \in Configuration, NEW c, Good(c)
    PROVE  /\ Good(ApplyFilter(c)) /\ SameButFlags(c, ApplyFilter(c))
           /\ ApplyFilter(c).steady_state_reached_ = c.steady_state_reached_
<1> DEFINE r == IF config.appliance_api_parsing /\ c.features = "complete"
                   /\ c.valid_erds # {}
                THEN c.valid_erds \cup config.custom_erds ELSE c.registry
           d == [c EXCEPT !.registry = r, !.registry_wired = TRUE]
<1>1. ApplyFilter(c) = d
  BY DEF ApplyFilter
<1>2. c \in Component
  BY DEF Good
<1>3. r \in SUBSET Erd
  BY <1>2, CustomIsErds DEF Component, Erd
<1> HIDE DEF r
<1>4. d \in Component
  BY <1>2, <1>3 DEF Component
<1>5. SameButFlags(c, d) /\ d.steady_state_reached_ = c.steady_state_reached_
  BY <1>2 DEF Component, SameButFlags
<1> QED
  BY <1>1, <1>4, <1>5, SameIsGood

LEMMA SubscriptionInitialised ==
    ASSUME config \in Configuration, NEW c, Good(c), c.hsm = "bridge_init",
           ~c.erd_bridge_initialized_, config.mode # "poll", ~config.gea2
    PROVE  Step(c, BridgeReady(init_subscription_bridge(c)))
<1> DEFINE x == init_subscription_bridge(c)
           d == [x EXCEPT !.hsm = "subscription_watch"]
           n == c.sub_callbacks + 1
<1>1. c \in Component
  BY DEF Good
<1>2. c.poll = "none" /\ c.sub = "none" /\ ~c.custom_erd_polling_started_
      /\ ~c.polling_bridge_initialized_ /\ c.poll_callbacks = 0 /\ n = 1
      /\ c.features \in {"complete", "failed"}
  BY Z3 DEF Good, Owned, Order, LateStates
<1>3. x = [c EXCEPT !.sub = "subscribing", !.sub_callbacks = n, !.registry_wired = FALSE,
                    !.subscription_bridge_initialized_ = TRUE,
                    !.erd_bridge_initialized_ = TRUE]
  BY DEF init_subscription_bridge
<1>4. n \in Nat
  BY <1>2
<1> HIDE DEF x, n
<1>5. x \in Component
  BY <1>1, <1>3, <1>4 DEF Component
<1>6. x.hsm = c.hsm /\ x.steady_state_reached_ = c.steady_state_reached_
  BY <1>1, <1>3 DEF Component
<1>7. d \in Component
  BY <1>5 DEF Component, States
<1>8. /\ d.hsm = "subscription_watch" /\ d.sub = "subscribing" /\ d.sub_callbacks = n
      /\ d.subscription_bridge_initialized_ = TRUE
      /\ d.erd_bridge_initialized_ = TRUE /\ d.features = c.features
      /\ d.poll = c.poll /\ d.poll_callbacks = c.poll_callbacks
      /\ d.polling_bridge_initialized_ = c.polling_bridge_initialized_
      /\ d.custom_erd_polling_started_ = c.custom_erd_polling_started_
  BY <1>1, <1>3, <1>5 DEF Component
<1> HIDE DEF d
<1>9. Good(d)
  BY <1>2, <1>7, <1>8, Z3 DEF Good, Owned, Path, Covered, Order, LateStates
<1>10. BridgeReady(x) = EnterSubscriptionWatch(x)
  BY <1>6 DEF BridgeReady
<1>11. Step(x, EnterSubscriptionWatch(x))
  BY <1>5, <1>9, WatchEntered DEF d
<1> QED
  BY <1>6, <1>10, <1>11 DEF Step, x

(* An empty poll list takes the startup state machine on before the flags  *)
(* of the bridge are set: it finds no bridge initialised, starts no custom *)
(* polling and declares no steady state.                                   *)
LEMMA EarlyReady ==
    ASSUME config \in Configuration, NEW c \in Component, c.hsm = "bridge_init",
           ~c.erd_bridge_initialized_, c.sub = "none"
    PROVE  LET d == BridgeReady(c)
           IN  /\ d \in Component /\ d.hsm \in {"subscription_watch", "running"}
               /\ d.steady_state_reached_ = c.steady_state_reached_
               /\ SameButFlags([c EXCEPT !.hsm = d.hsm], d)
<1> DEFINE w == [c EXCEPT !.hsm = "subscription_watch"]
           r == [w EXCEPT !.hsm = "running"]
<1>1. /\ w \in Component /\ w.sub = "none" /\ w.hsm = "subscription_watch"
      /\ w.steady_state_reached_ = c.steady_state_reached_
  BY DEF Component, States
<1>2. BridgeReady(c) = IF config.mode = "auto" THEN w
                       ELSE EnterRunning(maybe_start_custom_erd_polling(w))
  BY DEF BridgeReady, EnterSubscriptionWatch
<1>3. CASE config.mode = "auto"
  <2>1. BridgeReady(c) = w
    BY <1>2, <1>3
  <2>2. SameButFlags(w, w)
    BY DEF SameButFlags
  <2> QED
    BY <1>1, <2>1, <2>2
<1>4. CASE config.mode # "auto"
  <2>1. maybe_start_custom_erd_polling(w) = w
    BY <1>1 DEF maybe_start_custom_erd_polling
  <2>2. BridgeReady(c) = check_steady_state(r)
    BY <1>2, <1>4, <2>1 DEF EnterRunning
  <2>3. /\ r \in Component /\ r.hsm = "running" /\ r = [c EXCEPT !.hsm = "running"]
        /\ r.steady_state_reached_ = c.steady_state_reached_
        /\ ~r.erd_bridge_initialized_
    BY DEF Component, States
  <2> HIDE DEF r
  <2>4. check_steady_state(r) \in Component /\ SameButFlags(r, check_steady_state(r))
    BY <2>3, CheckSteady
  <2>5. check_steady_state(r).steady_state_reached_ = r.steady_state_reached_
    <3>1. (r.steady_state_reached_ \/ Steady(r)) = r.steady_state_reached_
      BY <2>3, Zenon DEF Steady, Component
    <3>2. check_steady_state(r) = [r EXCEPT !.steady_state_reached_ = r.steady_state_reached_]
      BY <3>1, Zenon DEF check_steady_state
    <3> QED
      BY <2>3, <3>2 DEF Component
  <2>6. check_steady_state(r).hsm = "running"
    BY <2>3, <2>4 DEF SameButFlags
  <2> QED
    BY <2>2, <2>3, <2>4, <2>5, <2>6
<1> QED
  BY <1>3, <1>4

LEMMA PrimaryPollingInitialised ==
    ASSUME config \in Configuration, NEW c, Good(c), c.hsm = "bridge_init",
           ~c.erd_bridge_initialized_, config.mode = "poll" \/ config.gea2
    PROVE  Step(c, initialize_primary_polling(c))
<1> DEFINE d == init_polling_bridge(c, config.custom_erds)
           early == [d EXCEPT !.polling_bridge_initialized_ = FALSE]
           e == IF d.poll = "polling" THEN BridgeReady(early) ELSE d
           x == initialize_primary_polling(c)
<1>1. x = [e EXCEPT !.polling_bridge_initialized_ = TRUE,
                    !.erd_bridge_initialized_ = TRUE]
  BY DEF initialize_primary_polling
<1>2. c \in Component
  BY DEF Good
<1>3. /\ c.poll = "none" /\ c.sub = "none" /\ ~c.custom_erd_polling_started_
      /\ c.poll_callbacks = 0 /\ ~c.subscription_bridge_initialized_
      /\ c.sub_callbacks = 0 /\ c.features \in {"complete", "failed"}
  BY Z3 DEF Good, Owned, Order, LateStates
<1>4. config.custom_erds \in SUBSET Erd
  BY CustomIsErds
<1>5. /\ d \in Component /\ SameCourse(c, d) /\ SameSubscription(c, d)
      /\ d.custom_erd_polling_started_ = c.custom_erd_polling_started_
      /\ d.poll_list = build_erd_poll_list(c, config.custom_erds)
      /\ d.poll = IF d.poll_list = {} THEN "polling" ELSE "probing"
      /\ d.poll_callbacks = c.poll_callbacks + 1
      /\ d.polling_bridge_initialized_ = TRUE
  BY <1>2, <1>4, PollingInitialised
<1> HIDE DEF d
<1>6. /\ early \in Component /\ SameCourse(c, early) /\ SameSubscription(c, early)
      /\ early.custom_erd_polling_started_ = c.custom_erd_polling_started_
      /\ early.poll_list = d.poll_list /\ early.poll = d.poll
      /\ early.poll_callbacks = d.poll_callbacks
  BY <1>5 DEF Component, SameCourse, SameSubscription
<1> HIDE DEF early
\* Whether or not the startup went on early.
<1>7. /\ e \in Component /\ e.hsm \in LateStates /\ e.features = c.features
      /\ e.valid_erds = c.valid_erds /\ e.seen = c.seen
      /\ e.steady_state_reached_ = c.steady_state_reached_
      /\ SameSubscription(c, e)
      /\ e.custom_erd_polling_started_ = c.custom_erd_polling_started_
      /\ e.poll_list = d.poll_list /\ e.poll = d.poll
      /\ e.poll_callbacks = d.poll_callbacks
  <2>1. CASE d.poll = "polling"
    <3> DEFINE h == BridgeReady(early)
    <3>1. early.hsm = "bridge_init" /\ early.sub = "none" /\ ~early.erd_bridge_initialized_
      BY <1>3, <1>6 DEF SameCourse, SameSubscription
    <3>2. /\ h \in Component /\ h.hsm \in {"subscription_watch", "running"}
          /\ h.steady_state_reached_ = early.steady_state_reached_
          /\ SameButFlags([early EXCEPT !.hsm = h.hsm], h)
      BY <1>6, <3>1, EarlyReady
    <3>3. e = h
      BY <2>1
    <3> HIDE DEF h
    <3>4. /\ h.features = early.features /\ h.valid_erds = early.valid_erds
          /\ h.seen = early.seen /\ SameSubscription(early, h)
          /\ h.custom_erd_polling_started_ = early.custom_erd_polling_started_
          /\ h.poll_list = early.poll_list /\ h.poll = early.poll
          /\ h.poll_callbacks = early.poll_callbacks
      BY <1>6, <3>2 DEF Component, SameButFlags, SameSubscription
    <3> HIDE DEF e
    <3> QED
      BY <1>6, <3>2, <3>3, <3>4 DEF SameCourse, SameSubscription, LateStates
  <2>2. CASE d.poll # "polling"
    <3>1. e = d
      BY <2>2
    <3> HIDE DEF e
    <3> QED
      BY <1>5, <3>1 DEF SameCourse, LateStates
  <2> QED
    BY <2>1, <2>2
<1> HIDE DEF e, x
<1>8. /\ x \in Component /\ x.hsm = e.hsm /\ x.features = e.features
      /\ x.valid_erds = e.valid_erds /\ x.seen = e.seen
      /\ x.steady_state_reached_ = e.steady_state_reached_
      /\ SameSubscription(e, x)
      /\ x.custom_erd_polling_started_ = e.custom_erd_polling_started_
      /\ x.poll_list = e.poll_list /\ x.poll = e.poll
      /\ x.poll_callbacks = e.poll_callbacks
      /\ x.polling_bridge_initialized_ = TRUE /\ x.erd_bridge_initialized_ = TRUE
  BY <1>1, <1>7 DEF Component, SameSubscription
<1>9. Wanted(x) \subseteq x.poll_list
  <2>1. /\ x.sub = c.sub /\ x.valid_erds = c.valid_erds
        /\ x.poll_list = build_erd_poll_list(c, config.custom_erds)
    BY <1>3, <1>5, <1>7, <1>8 DEF SameCourse, SameSubscription
  <2> QED
    BY <1>2, <2>1, WantedIsPolled
<1>10. /\ x.sub = "none" /\ x.sub_callbacks = 0 /\ ~x.subscription_bridge_initialized_
       /\ ~x.custom_erd_polling_started_ /\ x.poll_callbacks = 1
       /\ x.poll \in {"polling", "probing"} /\ x.features \in {"complete", "failed"}
       /\ x.hsm \in LateStates
       /\ x.steady_state_reached_ = c.steady_state_reached_
  BY <1>3, <1>5, <1>7, <1>8 DEF SameSubscription
<1>11. Good(x)
  BY <1>8, <1>9, <1>10, Z3 DEF Good, Owned, Path, Covered, Order, LateStates
<1> QED
  BY <1>10, <1>11 DEF Step, x

LEMMA BridgeInitialised ==
    ASSUME config \in Configuration, NEW c, Good(c), c.hsm = "bridge_init",
           ~c.erd_bridge_initialized_
    PROVE  Step(c, initialize_erd_bridge(c))
<1> DEFINE a == ApplyFilter(c)
           x == IF UsePolling THEN initialize_primary_polling(a)
                ELSE BridgeReady(init_subscription_bridge(a))
           y == [x EXCEPT !.write_bridge_initialized_ = TRUE]
<1>1. initialize_erd_bridge(c) = y
  BY DEF initialize_erd_bridge
<1>2. /\ Good(a) /\ a.hsm = "bridge_init" /\ ~a.erd_bridge_initialized_
      /\ a.steady_state_reached_ = c.steady_state_reached_
  BY FilterApplied DEF SameButFlags
<1> HIDE DEF a
<1>3. Step(a, x)
  <2>1. CASE UsePolling
    <3>1. config.mode = "poll" \/ config.gea2
      BY <2>1 DEF UsePolling
    <3>2. x = initialize_primary_polling(a)
      BY <2>1
    <3> HIDE DEF x
    <3> QED
      BY <1>2, <3>1, <3>2, PrimaryPollingInitialised
  <2>2. CASE ~UsePolling
    <3>1. config.mode # "poll" /\ ~config.gea2
      BY <2>2 DEF UsePolling
    <3>2. x = BridgeReady(init_subscription_bridge(a))
      BY <2>2
    <3> HIDE DEF x
    <3> QED
      BY <1>2, <3>1, <3>2, SubscriptionInitialised
  <2> QED
    BY <2>1, <2>2
<1> HIDE DEF x
<1>4. /\ y \in Component /\ SameButFlags(x, y)
      /\ y.steady_state_reached_ = x.steady_state_reached_
  BY <1>3 DEF Step, Good, Component, SameButFlags
<1>5. Good(y)
  BY <1>3, <1>4, SameIsGood DEF Step
<1>6. Delivers(x) => Delivers(y)
  BY <1>4 DEF Delivers, Complete, SameButFlags, AllFit, ListedErds, subscription_is_active
<1> QED
  BY <1>1, <1>2, <1>3, <1>4, <1>5, <1>6 DEF Step

-----------------------------------------------------------------------------
(* Each action is a Step.                                                  *)
LEMMA StartupInit == Init => StartupInv
<1> SUFFICES ASSUME Init PROVE StartupInv
  OBVIOUS
<1>1. b \in Component
  BY Z3 DEF Init, Component, States
<1>2. Good(b)
  BY <1>1, Z3 DEF Init, Good, Owned, Path, Covered, Order, LateStates
<1> QED
  BY <1>2 DEF Init, StartupInv

LEMMA EarlyStep ==
    ASSUME StartupInv, StartupDelayElapsed \/ FeatureBitsSeen \/ Discovered \/ Identified
    PROVE  Step(b, b')
<1>1. b \in Component /\ config' = config
  BY DEF StartupInv, Good, StartupDelayElapsed, FeatureBitsSeen, Discovered, Identified
<1>2. /\ b' \in Component
      /\ b'.erd_bridge_initialized_ = b.erd_bridge_initialized_
      /\ b'.custom_erd_polling_started_ = b.custom_erd_polling_started_
      /\ b'.steady_state_reached_ = b.steady_state_reached_
      /\ b'.polling_bridge_initialized_ = b.polling_bridge_initialized_
      /\ b'.poll = b.poll /\ b'.poll_callbacks = b.poll_callbacks
      /\ SameSubscription(b, b')
      /\ b.hsm \notin LateStates
      /\ b'.hsm \in LateStates => b'.features \in {"complete", "failed"}
  <2>1. CASE StartupDelayElapsed
    BY <1>1, <2>1 DEF StartupDelayElapsed, Component, States, LateStates, SameSubscription
  <2>2. CASE FeatureBitsSeen
    BY <1>1, <2>2 DEF FeatureBitsSeen, Component, States, LateStates, SameSubscription
  <2>3. CASE Discovered
    BY <1>1, <2>3 DEF Discovered, Component, States, LateStates, SameSubscription
  <2>4. CASE Identified
    BY <1>1, <2>4 DEF Identified, EnterMqttClientInit, Component, States, LateStates,
       SameSubscription
  <2> QED
    BY <2>1, <2>2, <2>3, <2>4
<1>3. ~b.erd_bridge_initialized_ /\ b.poll = "none" /\ b.sub = "none"
      /\ ~b.custom_erd_polling_started_
  BY <1>2 DEF StartupInv, Good, Order
<1>4. Good(b')
  BY <1>2, <1>3, Z3 DEF StartupInv, Good, Owned, Path, Covered, Order, SameSubscription
<1> QED
  BY <1>2, <1>4 DEF Step

LEMMA FeatureBitsDoneStep ==
    ASSUME StartupInv, FeatureBitsDone
    PROVE  Step(b, b')
<1>1. b \in Component /\ b.features = "reading"
  BY DEF StartupInv, Good, FeatureBitsDone
<1>2. ~b.erd_bridge_initialized_ /\ b.hsm \notin LateStates
  BY <1>1, Z3 DEF StartupInv, Good, Order
<1>3. PICK v \in SUBSET (Feature \cup Mandatory), f \in {"complete", "failed"} :
          b' = [b EXCEPT !.features = f, !.valid_erds = v]
  <2>1. CASE b' = [b EXCEPT !.features = "failed"]
    <3>1. b' = [b EXCEPT !.features = "failed", !.valid_erds = b.valid_erds]
      BY <1>1, <2>1 DEF Component
    <3> QED
      BY <1>1, <3>1 DEF Component
  <2>2. CASE \E erds \in SUBSET Feature :
                 b' = [b EXCEPT !.features = "complete",
                                !.valid_erds = erds \cup Mandatory]
    <3>1. PICK erds \in SUBSET Feature :
                 b' = [b EXCEPT !.features = "complete",
                                !.valid_erds = erds \cup Mandatory]
      BY <2>2
    <3>2. erds \cup Mandatory \in SUBSET (Feature \cup Mandatory)
      OBVIOUS
    <3> QED
      BY <3>1, <3>2
  <2> QED
    BY <2>1, <2>2 DEF FeatureBitsDone
<1>4. /\ b' \in Component /\ b'.hsm = b.hsm
      /\ b'.erd_bridge_initialized_ = b.erd_bridge_initialized_
      /\ b'.custom_erd_polling_started_ = b.custom_erd_polling_started_
      /\ b'.steady_state_reached_ = b.steady_state_reached_
      /\ b'.polling_bridge_initialized_ = b.polling_bridge_initialized_
      /\ b'.poll = b.poll /\ b'.poll_callbacks = b.poll_callbacks
      /\ SameSubscription(b, b')
  BY <1>1, <1>3 DEF Component, SameSubscription
<1>5. Good(b')
  BY <1>2, <1>4, Z3 DEF StartupInv, Good, Owned, Path, Covered, Order, SameSubscription
<1> QED
  BY <1>4, <1>5 DEF Step

LEMMA PublicationStep ==
    ASSUME StartupInv, Publication
    PROVE  Step(b, b')
<1>1. PICK erd \in Published : b' = [b EXCEPT !.seen = b.seen \cup {erd}]
  BY DEF Publication
<1> DEFINE s == b.seen \cup {erd}
<1>2. b \in Component
  BY DEF StartupInv, Good
<1>3. s \in SUBSET Published /\ b.seen \subseteq s
  BY <1>2 DEF Component
<1>4. b' = [b EXCEPT !.seen = s]
  BY <1>1
<1> HIDE DEF s
<1>5. /\ b' \in Component /\ SameSubscription(b, b')
      /\ b'.hsm = b.hsm /\ b'.features = b.features /\ b'.valid_erds = b.valid_erds
      /\ b'.erd_bridge_initialized_ = b.erd_bridge_initialized_
      /\ b'.custom_erd_polling_started_ = b.custom_erd_polling_started_
      /\ b'.steady_state_reached_ = b.steady_state_reached_
      /\ b'.polling_bridge_initialized_ = b.polling_bridge_initialized_
      /\ b'.poll = b.poll /\ b'.poll_callbacks = b.poll_callbacks
      /\ b'.poll_list = b.poll_list /\ b'.seen = s
  BY <1>2, <1>3, <1>4 DEF Component, SameSubscription
<1>6. Covered(b')
  BY <1>3, <1>5 DEF StartupInv, Good, Covered, Complete
<1>7. Good(b')
  BY <1>5, <1>6, Z3
     DEF StartupInv, Good, Owned, Path, Wanted, AllFit, ListedErds,
         subscription_is_active, Order, SameSubscription
<1> QED
  BY <1>5, <1>7 DEF Step

LEMMA SubscribeBridgeStepStep ==
    ASSUME StartupInv, SubscribeBridgeStep
    PROVE  Step(b, b')
<1>1. PICK s \in SubscribeNext[b.sub] : b' = [b EXCEPT !.sub = s]
  BY DEF SubscribeBridgeStep
<1>2. b \in Component
  BY DEF StartupInv, Good
<1>3. b.sub # "none" /\ s \in {"subscribing", "subscribed", "steady", "failed"}
  BY <1>2 DEF Component, SubscribeNext
<1>4. /\ b' \in Component /\ b'.sub = s
      /\ b'.subscription_bridge_initialized_ = b.subscription_bridge_initialized_
      /\ b'.sub_callbacks = b.sub_callbacks
      /\ b'.hsm = b.hsm /\ b'.features = b.features
      /\ b'.erd_bridge_initialized_ = b.erd_bridge_initialized_
      /\ b'.custom_erd_polling_started_ = b.custom_erd_polling_started_
      /\ b'.steady_state_reached_ = b.steady_state_reached_
      /\ b'.polling_bridge_initialized_ = b.polling_bridge_initialized_
      /\ b'.poll = b.poll /\ b'.poll_callbacks = b.poll_callbacks
      /\ b'.poll_list = b.poll_list /\ b'.seen = b.seen
  BY <1>1, <1>2, <1>3 DEF Component
<1>5. Good(b')
  BY <1>3, <1>4, Z3 DEF StartupInv, Good, Owned, Path, Covered, Complete, Order
<1> QED
  BY <1>4, <1>5 DEF Step

LEMMA PollBridgeStepStep ==
    ASSUME StartupInv, PollBridgeStep
    PROVE  Step(b, b')
<1>1. PICK s \in PollNext[b.poll] :
          LET c == [b EXCEPT !.poll = s]
          IN  b' = IF s = "polling" THEN BridgeReady(c) ELSE c
  BY DEF PollBridgeStep
<1> DEFINE c == [b EXCEPT !.poll = s]
<1>2. b \in Component
  BY DEF StartupInv, Good
<1>3. b.poll # "none" /\ s \in {"probing", "polling", "failed"}
  BY <1>2 DEF Component, PollNext
<1>4. /\ c \in Component /\ c.poll = s
      /\ SameSubscription(b, c)
      /\ c.hsm = b.hsm /\ c.features = b.features /\ c.valid_erds = b.valid_erds
      /\ c.erd_bridge_initialized_ = b.erd_bridge_initialized_
      /\ c.custom_erd_polling_started_ = b.custom_erd_polling_started_
      /\ c.steady_state_reached_ = b.steady_state_reached_
      /\ c.polling_bridge_initialized_ = b.polling_bridge_initialized_
      /\ c.poll_callbacks = b.poll_callbacks
      /\ c.poll_list = b.poll_list /\ c.seen = b.seen
  BY <1>2, <1>3 DEF Component, SameSubscription
<1>5. b' = IF s = "polling" THEN BridgeReady(c) ELSE c
  BY <1>1
<1> HIDE DEF c
<1>6. Good(c)
  BY <1>3, <1>4, Z3
     DEF StartupInv, Good, Owned, Path, Wanted, AllFit, ListedErds,
         subscription_is_active, Covered, Complete, Order,
     SameSubscription
<1>7. Step(c, BridgeReady(c))
  BY <1>6, BridgeReadyStep DEF StartupInv
<1> QED
  BY <1>4, <1>5, <1>6, <1>7 DEF Step

LEMMA InitializeBridgeStep ==
    ASSUME StartupInv, InitializeBridge
    PROVE  Step(b, b')
BY BridgeInitialised DEF StartupInv, InitializeBridge

LEMMA WatchSubscriptionStep ==
    ASSUME StartupInv, WatchSubscription
    PROVE  Step(b, b')
<1>0. Good(b) /\ b.hsm \in LateStates /\ config \in Configuration
  BY DEF StartupInv, WatchSubscription, LateStates
<1>1. CASE b.sub = "failed"
  <2> DEFINE f == handle_subscription_failed(b)
             r == EnterRunning(f)
  <2>1. b' = EnterRunning(r)
    BY <1>1 DEF WatchSubscription
  <2>2. Good(f) /\ SameCourse(b, f) /\ CustomConsidered(f)
    BY <1>0, <1>1, FallenBack
  <2>3. f.hsm \in LateStates /\ f.steady_state_reached_ = b.steady_state_reached_
    BY <1>0, <2>2 DEF SameCourse
  <2> HIDE DEF f
  <2>4. Step(f, r) /\ r.hsm = "running" /\ CustomConsidered(r)
    BY <2>2, <2>3, EnterRunningStep
  <2> HIDE DEF r
  <2>5. Step(r, EnterRunning(r)) /\ (Delivers(r) => Delivers(EnterRunning(r)))
    BY <2>4, EnterRunningStep DEF Step, LateStates
  <2> QED
    BY <2>1, <2>3, <2>4, <2>5 DEF Step
<1>2. CASE b.sub # "failed"
  <2> DEFINE h == handle_polling_failed(b)
             c == maybe_start_custom_erd_polling(h)
             d == check_steady_state(c)
  <2>1. b' = IF Steady(c) /\ ~c.steady_state_reached_ THEN EnterRunning(d) ELSE c
    BY <1>2 DEF WatchSubscription
  <2>2. Good(h) /\ SameCourse(b, h)
    BY <1>0, PollingFailureHandled
  <2> HIDE DEF h
  <2>3. Good(c) /\ CustomConsidered(c) /\ SameCourse(h, c)
    BY <1>0, <2>2, CustomPolling
  <2>4. c.hsm \in LateStates /\ c.steady_state_reached_ = b.steady_state_reached_
    BY <1>0, <2>2, <2>3 DEF SameCourse
  <2> HIDE DEF c
  <2>5. Step(c, d) /\ CustomConsidered(d) /\ d.hsm = c.hsm
    BY <2>3, CheckSteadyStep, CheckSteady DEF Good, SameButFlags
  <2> HIDE DEF d
  <2>6. Step(d, EnterRunning(d)) /\ (Delivers(d) => Delivers(EnterRunning(d)))
    BY <2>4, <2>5, EnterRunningStep DEF Step
  <2> QED
    BY <2>1, <2>3, <2>4, <2>5, <2>6 DEF Step
<1> QED
  BY <1>1, <1>2

LEMMA RunningLoopStep ==
    ASSUME StartupInv, RunningLoop
    PROVE  Step(b, b')
<1> DEFINE c == IF b.sub = "failed" THEN handle_subscription_failed(b) ELSE b
           h == handle_polling_failed(c)
           d == maybe_start_custom_erd_polling(h)
<1>0. Good(b) /\ config \in Configuration
  BY DEF StartupInv
<1>1. b' = check_steady_state(d)
  BY DEF RunningLoop
<1>2. Good(c) /\ c.steady_state_reached_ = b.steady_state_reached_
  <2>1. CASE b.sub = "failed"
    BY <1>0, <2>1, FallenBack DEF SameCourse
  <2>2. CASE b.sub # "failed"
    BY <1>0, <2>2
  <2> QED
    BY <2>1, <2>2
<1> HIDE DEF c
<1>3. Good(h) /\ SameCourse(c, h)
  BY <1>2, PollingFailureHandled
<1> HIDE DEF h
<1>4. Good(d) /\ CustomConsidered(d) /\ SameCourse(h, d)
  BY <1>0, <1>3, CustomPolling
<1> HIDE DEF d
<1>5. Step(d, check_steady_state(d))
  BY <1>4, CheckSteadyStep
<1> QED
  BY <1>1, <1>2, <1>3, <1>4, <1>5 DEF Step, SameCourse

LEMMA StartupStep ==
    ASSUME StartupInv, [Next]_vars
    PROVE  config' = config /\ Step(b, b')
<1>1. config' = config
  BY DEF Next, RunLoop, Environment, vars, StartupDelayElapsed, InitializeBridge,
     FeatureBitsSeen, WatchSubscription, RunningLoop, Discovered, Identified,
     FeatureBitsDone, Publication, PollBridgeStep, SubscribeBridgeStep
<1>2. CASE RunLoop
  BY <1>1, <1>2, EarlyStep, InitializeBridgeStep, WatchSubscriptionStep, RunningLoopStep
     DEF RunLoop
<1>3. CASE Environment
  BY <1>1, <1>3, EarlyStep, FeatureBitsDoneStep, PublicationStep, PollBridgeStepStep,
     SubscribeBridgeStepStep DEF Environment
<1>4. CASE UNCHANGED vars
  BY <1>4 DEF vars, StartupInv, Step
<1> QED
  BY <1>1, <1>2, <1>3, <1>4 DEF Next

LEMMA StartupInvKept ==
    ASSUME StartupInv, [Next]_vars
    PROVE  StartupInv'
<1>1. config' = config /\ Good(b')
  BY StartupStep DEF Step
<1> QED
  BY <1>1
     DEF StartupInv, Good, Owned, Path, Wanted, AllFit, ListedErds,
         subscription_is_active, Covered, Complete, Order

LEMMA StartupInvHolds == Spec => []StartupInv
BY StartupInit, StartupInvKept, PTL DEF Spec

(* The component's flags, lists and states stay in their ranges; no bridge *)
(* is ever registered twice.                                               *)
THEOREM StartupTypeCorrect == Spec => []StartupTypeOK
<1>1. StartupInv => StartupTypeOK
  BY Z3 DEF StartupInv, Good, Component, Owned, StartupTypeOK, SubscribeNext, PollNext
<1> QED
  BY <1>1, StartupInvHolds, PTL

(* The flags by which bridges are destroyed agree with the bridges and     *)
(* with their registrations, through fallback, failure and restart.        *)
THEOREM BridgesAlwaysOwned == Spec => []BridgesOwned
<1>1. StartupInv => BridgesOwned
  BY DEF StartupInv, Good, Owned, BridgesOwned
<1> QED
  BY <1>1, StartupInvHolds, PTL

(* Initialised bridges include one that brings data; one that polls without*)
(* a subscription has every standard ERD, or every valid one when the      *)
(* feature bits were read and filter, and the custom ERDs there is room    *)
(* for, wherever DataPath asks for them.                                   *)
THEOREM DataPathKept == Spec => []DataPath
<1>1. StartupInv => DataPath
  BY
     DEF StartupInv, Good, Path, Wanted, AllFit, ListedErds, subscription_is_active,
         Order, DataPath
<1> QED
  BY <1>1, StartupInvHolds, PTL

(* Each custom ERD has been seen or is polled once custom polling started. *)
THEOREM CustomErdsKept == Spec => []CustomErdsCovered
<1>1. StartupInv => CustomErdsCovered
  BY DEF StartupInv, Good, Covered, Complete, CustomErdsCovered
<1> QED
  BY <1>1, StartupInvHolds, PTL

(* A steady state is declared only when every bridge delivers and no       *)
(* custom ERD is missing that there is room for, from whichever of the     *)
(* handlers that judge it.                                                 *)
THEOREM SteadyTruly == Spec => SteadyIsComplete
<1>1. ASSUME StartupInv, [Next]_vars
      PROVE  [~b.steady_state_reached_ /\ b'.steady_state_reached_ =>
                 /\ b'.sub \in {"none", "steady"} /\ b'.poll \in {"none", "polling"}
                 /\ b'.sub # "none" \/ AllFit(b)' =>
                        config.custom_erds \subseteq b'.seen \cup
                            (IF b'.poll = "none" THEN {} ELSE b'.poll_list)]_vars
  BY <1>1, StartupStep DEF Step, Delivers, Complete, AllFit, ListedErds, subscription_is_active
<1> QED
  BY <1>1, StartupInvHolds, PTL DEF Spec, SteadyIsComplete
-----------------------------------------------------------------------------
(* The registry: only the initialisation of the component sets it, and only*)
(* init_subscription_bridge brings a subscription bridge.                  *)
Linked(c) == {"sub", "registry_wired"} \subseteq DOMAIN c

SameLink(c, d) == /\ DOMAIN d = DOMAIN c
                  /\ d.registry_wired = c.registry_wired
                  /\ d.sub # "none" => c.sub # "none"

LEMMA SteadySameLink ==
    ASSUME NEW c, Linked(c)
    PROVE  SameLink(c, check_steady_state(c))
BY DEF Linked, SameLink, check_steady_state

LEMMA RunningSameLink ==
    ASSUME NEW c, Linked(c)
    PROVE  SameLink(c, EnterRunning(c))
<1> DEFINE d == [c EXCEPT !.hsm = "running"]
<1>1. SameLink(c, d) /\ Linked(d)
  BY DEF SameLink, Linked
<1>2. EnterRunning(c) = check_steady_state(d)
  BY DEF EnterRunning
<1> HIDE DEF d
<1> QED
  BY <1>1, <1>2, SteadySameLink DEF SameLink

LEMMA PollingSameLink ==
    ASSUME NEW c, Linked(c), NEW custom
    PROVE  /\ SameLink(c, init_polling_bridge(c, custom))
           /\ SameLink(c, destroy_polling_bridge(c))
<1> DEFINE list == build_erd_poll_list(c, custom)
           poll == IF list = {} THEN "polling" ELSE "probing"
           n == c.poll_callbacks + 1
<1>1. init_polling_bridge(c, custom) =
          [c EXCEPT !.poll_list = list, !.poll = poll, !.poll_callbacks = n,
                    !.polling_bridge_initialized_ = TRUE]
  BY DEF init_polling_bridge
<1> HIDE DEF list, poll, n
<1>2. SameLink(c, init_polling_bridge(c, custom))
  BY <1>1 DEF Linked, SameLink
<1>3. SameLink(c, destroy_polling_bridge(c))
  BY DEF Linked, SameLink, destroy_polling_bridge
<1> QED
  BY <1>2, <1>3

LEMMA CustomSameLink ==
    ASSUME NEW c, Linked(c)
    PROVE  SameLink(c, maybe_start_custom_erd_polling(c))
<1> DEFINE p == IF Unseen(c) = {} THEN c ELSE init_polling_bridge(c, Unseen(c))
<1>1. SameLink(c, p)
  BY PollingSameLink DEF SameLink
<1> HIDE DEF p
<1>2. SameLink(c, [p EXCEPT !.custom_erd_polling_started_ = TRUE])
  BY <1>1 DEF Linked, SameLink
<1>3. start_custom_erd_polling(c) = [p EXCEPT !.custom_erd_polling_started_ = TRUE]
  BY DEF start_custom_erd_polling, p
<1> QED
  BY <1>2, <1>3 DEF maybe_start_custom_erd_polling, SameLink

LEMMA FailureSameLink ==
    ASSUME NEW c, Linked(c)
    PROVE  /\ SameLink(c, handle_polling_failed(c))
           /\ SameLink(c, handle_subscription_failed(c))
<1>1. SameLink(c, handle_polling_failed(c))
  BY PollingSameLink DEF handle_polling_failed, SameLink
<1>2. SameLink(c, handle_subscription_failed(c))
  <2> DEFINE d == [c EXCEPT !.sub = "none", !.sub_callbacks = 0,
                            !.subscription_bridge_initialized_ = FALSE]
             q == IF d.custom_erd_polling_started_ THEN destroy_polling_bridge(d) ELSE d
  <2>1. SameLink(c, d) /\ Linked(d)
    BY DEF Linked, SameLink
  <2>2. handle_subscription_failed(c) =
            IF config.mode # "auto" THEN c ELSE init_polling_bridge(q, config.custom_erds)
    BY DEF handle_subscription_failed
  <2> HIDE DEF d
  <2>3. SameLink(d, q) /\ Linked(q)
    BY <2>1, PollingSameLink DEF SameLink, Linked
  <2> HIDE DEF q
  <2>4. SameLink(q, init_polling_bridge(q, config.custom_erds))
    BY <2>3, PollingSameLink
  <2> QED
    BY <2>1, <2>2, <2>3, <2>4 DEF SameLink
<1> QED
  BY <1>1, <1>2

LEMMA ReadySameLink ==
    ASSUME NEW c, Linked(c)
    PROVE  SameLink(c, BridgeReady(c))
<1> DEFINE d == [c EXCEPT !.hsm = "subscription_watch"]
           e == maybe_start_custom_erd_polling(d)
<1>1. SameLink(c, d) /\ Linked(d)
  BY DEF Linked, SameLink
<1>2. BridgeReady(c) = IF c.hsm # "bridge_init" THEN c
                       ELSE IF config.mode = "auto" THEN d ELSE EnterRunning(e)
  BY DEF BridgeReady, EnterSubscriptionWatch
<1> HIDE DEF d
<1>3. SameLink(d, e) /\ Linked(e)
  BY <1>1, CustomSameLink DEF SameLink, Linked
<1> HIDE DEF e
<1>4. SameLink(e, EnterRunning(e))
  BY <1>3, RunningSameLink
<1> QED
  BY <1>1, <1>2, <1>3, <1>4 DEF SameLink

LEMMA InitializedForgets ==
    ASSUME NEW c, Linked(c), c.sub = "none"
    PROVE  LET d == initialize_erd_bridge(c) IN d.sub # "none" => d.registry_wired = FALSE
<1> DEFINE a == ApplyFilter(c)
           p == init_polling_bridge(a, config.custom_erds)
           early == [p EXCEPT !.polling_bridge_initialized_ = FALSE]
           r == IF p.poll = "polling" THEN BridgeReady(early) ELSE p
           s == init_subscription_bridge(a)
           x == IF UsePolling THEN initialize_primary_polling(a) ELSE BridgeReady(s)
<1>1. Linked(a) /\ a.sub = "none"
  BY DEF ApplyFilter, Linked
<1>2. initialize_erd_bridge(c) = [x EXCEPT !.write_bridge_initialized_ = TRUE]
  BY DEF initialize_erd_bridge
<1>3. initialize_primary_polling(a) =
          [r EXCEPT !.polling_bridge_initialized_ = TRUE, !.erd_bridge_initialized_ = TRUE]
  BY DEF initialize_primary_polling
<1> HIDE DEF a
<1>4. Linked(s) /\ s.registry_wired = FALSE
  BY <1>1 DEF Linked, init_subscription_bridge
<1>5. SameLink(a, p) /\ Linked(p)
  BY <1>1, PollingSameLink DEF SameLink, Linked
<1> HIDE DEF p, s
<1>6. SameLink(p, early) /\ Linked(early)
  BY <1>5 DEF SameLink, Linked
<1> HIDE DEF early
<1>7. SameLink(early, BridgeReady(early)) /\ SameLink(s, BridgeReady(s))
  BY <1>4, <1>6, ReadySameLink
<1>8. Linked(r) /\ r.sub = "none"
  BY <1>1, <1>5, <1>6, <1>7 DEF SameLink, Linked
<1> HIDE DEF r
<1>9. Linked(x) /\ (x.sub # "none" => x.registry_wired = FALSE)
  <2>1. CASE UsePolling
    BY <1>3, <1>8, <2>1 DEF Linked
  <2>2. CASE ~UsePolling
    BY <1>4, <1>7, <2>2 DEF SameLink, Linked
  <2> QED
    BY <2>1, <2>2
<1> HIDE DEF x
<1> QED
  BY <1>2, <1>9 DEF Linked

(* The registry never filters what a subscription brings: whenever there is*)
(* a subscription bridge, its registry is the null pointer that            *)
(* erd_bridge_subscribe_init left.                                         *)
THEOREM FilterNeverReached == Spec => []RegistryForgotten
<1>1. Init => RegistryForgotten
  BY DEF Init, RegistryForgotten
<1>2. ASSUME StartupInv, RegistryForgotten, [Next]_vars
      PROVE  RegistryForgotten'
  <2>0. b \in Component /\ Linked(b)
    BY <1>2 DEF StartupInv, Good, Component, Linked
  <2>1. CASE InitializeBridge
    <3>1. b.sub = "none" /\ b' = initialize_erd_bridge(b)
      BY <1>2, <2>1, Z3 DEF InitializeBridge, StartupInv, Good, Order
    <3> QED
      BY <2>0, <3>1, InitializedForgets DEF RegistryForgotten
  <2>2. CASE WatchSubscription
    <3> DEFINE f == handle_subscription_failed(b)
               r == EnterRunning(f)
               h == handle_polling_failed(b)
               c == maybe_start_custom_erd_polling(h)
               d == check_steady_state(c)
    <3>1. b' = EnterRunning(r) \/ b' = EnterRunning(d) \/ b' = c
      BY <2>2 DEF WatchSubscription
    <3>2. SameLink(b, f) /\ Linked(f) /\ SameLink(b, h) /\ Linked(h)
      BY <2>0, FailureSameLink DEF SameLink, Linked
    <3> HIDE DEF f, h
    <3>3. SameLink(f, r) /\ Linked(r) /\ SameLink(h, c) /\ Linked(c)
      BY <3>2, RunningSameLink, CustomSameLink DEF SameLink, Linked
    <3> HIDE DEF r, c
    <3>4. SameLink(c, d) /\ Linked(d)
      BY <3>3, SteadySameLink DEF SameLink, Linked
    <3> HIDE DEF d
    <3>5. SameLink(r, EnterRunning(r)) /\ SameLink(d, EnterRunning(d))
      BY <3>3, <3>4, RunningSameLink
    <3> QED
      BY <1>2, <3>1, <3>2, <3>3, <3>4, <3>5 DEF SameLink, RegistryForgotten
  <2>3. CASE RunningLoop
    <3> DEFINE c == IF b.sub = "failed" THEN handle_subscription_failed(b) ELSE b
               h == handle_polling_failed(c)
               d == maybe_start_custom_erd_polling(h)
    <3>1. b' = check_steady_state(d)
      BY <2>3 DEF RunningLoop
    <3>2. SameLink(b, c) /\ Linked(c)
      BY <2>0, FailureSameLink DEF SameLink, Linked
    <3> HIDE DEF c
    <3>3. SameLink(c, h) /\ Linked(h)
      BY <3>2, FailureSameLink DEF SameLink, Linked
    <3> HIDE DEF h
    <3>4. SameLink(h, d) /\ Linked(d)
      BY <3>3, CustomSameLink DEF SameLink, Linked
    <3> HIDE DEF d
    <3>5. SameLink(d, check_steady_state(d))
      BY <3>4, SteadySameLink
    <3> QED
      BY <1>2, <3>1, <3>2, <3>3, <3>4, <3>5 DEF SameLink, RegistryForgotten
  <2>4. CASE PollBridgeStep
    <3>1. PICK s \in PollNext[b.poll] :
              b' = IF s = "polling" THEN BridgeReady([b EXCEPT !.poll = s])
                   ELSE [b EXCEPT !.poll = s]
      BY <2>4 DEF PollBridgeStep
    <3> DEFINE c == [b EXCEPT !.poll = s]
    <3>2. SameLink(b, c) /\ Linked(c)
      BY <2>0 DEF SameLink, Linked
    <3>3. b' = BridgeReady(c) \/ b' = c
      BY <3>1
    <3> HIDE DEF c
    <3> QED
      BY <1>2, <3>2, <3>3, ReadySameLink DEF SameLink, RegistryForgotten
  <2>5. CASE SubscribeBridgeStep
    <3>1. PICK s \in SubscribeNext[b.sub] : b' = [b EXCEPT !.sub = s]
      BY <2>5 DEF SubscribeBridgeStep
    <3>2. b.sub # "none"
      BY <2>0, <3>1 DEF Component, SubscribeNext
    <3> QED
      BY <1>2, <2>0, <3>1, <3>2 DEF Component, RegistryForgotten
  <2>6. CASE \/ StartupDelayElapsed \/ FeatureBitsSeen \/ Discovered \/ Identified
             \/ FeatureBitsDone \/ Publication
    <3>1. b'.sub = b.sub /\ b'.registry_wired = b.registry_wired
      BY <2>0, <2>6 DEF Component, StartupDelayElapsed, FeatureBitsSeen, Discovered,
         Identified, EnterMqttClientInit, FeatureBitsDone, Publication
    <3> QED
      BY <1>2, <3>1 DEF RegistryForgotten
  <2>7. CASE UNCHANGED vars
    BY <1>2, <2>7 DEF vars, RegistryForgotten
  <2> QED
    BY <1>2, <2>1, <2>2, <2>3, <2>4, <2>5, <2>6, <2>7 DEF Next, RunLoop, Environment
<1> QED
  BY <1>1, <1>2, StartupInvHolds, PTL DEF Spec
=============================================================================
