---------------------------- MODULE StartupBridge ----------------------------
(***************************************************************************)
(* GeappliancesBridge from the end of setup() on: the startup state        *)
(* machine, the initialisation of the bridges, and what loop() does about  *)
(* bridges that fail (geappliances_bridge_startup_hsm.cpp and              *)
(* geappliances_bridge_bridge_init.cpp).  The managers and the two bridges *)
(* are the state machines the program sees of them.                        *)
(*                                                                         *)
(* Signals are handled at once, also when they are sent from within        *)
(* another handler, so the component is the record b and handlers are      *)
(* operators from a component to a component.                              *)
(***************************************************************************)
EXTENDS Integers, FiniteSets, BridgeStates

CONSTANTS Standard,  \* ERDs of the generated lists
          Feature,   \* ERDs the feature bits can name
          Mandatory, \* ERDs that are valid whatever the feature bits say
          Custom,    \* custom ERDs of the configurations that have any
          Published, \* ERDs the appliance publishes to subscribers
          Position,  \* the place of each custom ERD in the configured list
          ERD_POLL_LIST_MAX_SIZE \* the entries a poll list has room for

\* The array is as long as the longest standard list; 128 custom ERDs are the
\* most a configuration has.
ASSUME StartupConstants ==
    /\ ERD_POLL_LIST_MAX_SIZE \in Nat
    /\ \A erds \in {Standard, Feature \cup Mandatory, Custom} :
           IsFiniteSet(erds) /\ Cardinality(erds) <= ERD_POLL_LIST_MAX_SIZE

Erd == Standard \cup Feature \cup Mandatory \cup Custom \cup Published

\* The configuration, and the protocol autodiscovery will find.
Configuration == [mode : {"poll", "subscribe", "auto"}, gea2 : BOOLEAN,
                  appliance_api_parsing : BOOLEAN, custom_erds : {{}, Custom}]

VARIABLES config, \* the configuration, which never changes
          b       \* the GeappliancesBridge

vars == <<config, b>>

States == {"startup_delay", "autodiscovery", "device_id", "feature_bits",
           "bridge_init", "subscription_watch", "running"}

StartupTypeOK ==
    /\ config \in Configuration
    /\ b.hsm \in States
    /\ {b.discovered, b.identified, b.mqtt_client_adapter_initialized_,
        b.erd_bridge_initialized_, b.subscription_bridge_initialized_,
        b.polling_bridge_initialized_, b.write_bridge_initialized_,
        b.custom_erd_polling_started_, b.steady_state_reached_} \subseteq BOOLEAN
    /\ b.features \in {"idle", "reading", "complete", "failed"}
    /\ b.valid_erds \subseteq Feature \cup Mandatory
    /\ b.registry \subseteq Erd /\ b.registry_wired \in BOOLEAN
    /\ b.seen \subseteq Published
    /\ b.sub \in DOMAIN SubscribeNext /\ b.poll \in DOMAIN PollNext
    /\ b.poll_list \subseteq Erd
    /\ b.poll_callbacks \in 0 .. 1 /\ b.sub_callbacks \in 0 .. 1

Init == /\ config \in Configuration
        /\ b = [hsm |-> "startup_delay", discovered |-> FALSE, identified |-> FALSE,
                features |-> "idle", valid_erds |-> {},
                mqtt_client_adapter_initialized_ |-> FALSE,
                erd_bridge_initialized_ |-> FALSE,
                subscription_bridge_initialized_ |-> FALSE,
                polling_bridge_initialized_ |-> FALSE,
                write_bridge_initialized_ |-> FALSE,
                custom_erd_polling_started_ |-> FALSE,
                steady_state_reached_ |-> FALSE,
                registry |-> {}, registry_wired |-> FALSE, seen |-> {},
                sub |-> "none", poll |-> "none", poll_list |-> {},
                poll_callbacks |-> 0, sub_callbacks |-> 0]

-----------------------------------------------------------------------------
(* Helpers of the component.                                               *)

subscription_is_active(c) == c.sub \notin {"none", "failed"}

\* append_custom_erds: the first ones, as far as there is room.
append_custom_erds(custom, room) ==
    {x \in custom : Cardinality({y \in custom : Position[y] <= Position[x]}) <= room}

\* The ERDs of the generated lists that are polled.
ListedErds(c) ==
    IF config.mode = "subscribe" \/ (config.mode = "auto" /\ subscription_is_active(c))
    THEN {}
    ELSE IF config.appliance_api_parsing THEN c.valid_erds ELSE Standard

\* For the custom ERDs that are to be polled.  Entries are counted before
\* duplicates are dropped.
build_erd_poll_list(c, custom) ==
    ListedErds(c) \cup append_custom_erds(custom, ERD_POLL_LIST_MAX_SIZE
                                                     - Cardinality(ListedErds(c)))

\* erd_bridge_poll_init and _destroy, with the flag their callers keep.  The
\* bridge is a callback of the client: poll_callbacks counts its registrations.
init_polling_bridge(c, custom) ==
    LET list == build_erd_poll_list(c, custom)
    IN  [c EXCEPT !.poll_list = list,
                  !.poll = IF list = {} THEN "polling" ELSE "probing",
                  !.poll_callbacks = @ + 1,
                  !.polling_bridge_initialized_ = TRUE]

destroy_polling_bridge(c) ==
    [c EXCEPT !.poll = "none", !.poll_callbacks = 0, !.polling_bridge_initialized_ = FALSE,
              !.custom_erd_polling_started_ = FALSE]

Steady(c) == /\ ~c.subscription_bridge_initialized_ \/ c.sub = "steady"
             /\ ~c.polling_bridge_initialized_ \/ c.poll = "polling"
             /\ c.erd_bridge_initialized_

check_steady_state(c) ==
    [c EXCEPT !.steady_state_reached_ = c.steady_state_reached_ \/ Steady(c)]

\* Mutant: subscribed ERDs are polled, the others are not.
UnseenSwapped(c) == config.custom_erds \cap c.seen

\* Custom ERDs that the subscription has not brought yet.
Unseen(c) == config.custom_erds \ c.seen

start_custom_erd_polling(c) ==
    [(IF Unseen(c) = {} THEN c ELSE init_polling_bridge(c, Unseen(c)))
        EXCEPT !.custom_erd_polling_started_ = TRUE]

maybe_start_custom_erd_polling(c) ==
    IF config.custom_erds = {} \/ c.custom_erd_polling_started_ \/ c.sub # "steady"
    THEN c ELSE start_custom_erd_polling(c)

\* Mutant: the flag is left set.
PollFailedUnowned(c) ==
    IF c.polling_bridge_initialized_ /\ c.poll = "failed"
       /\ c.subscription_bridge_initialized_
    THEN [destroy_polling_bridge(c) EXCEPT !.polling_bridge_initialized_ = TRUE] ELSE c

handle_polling_failed(c) ==
    IF c.polling_bridge_initialized_ /\ c.poll = "failed"
       /\ c.subscription_bridge_initialized_
    THEN destroy_polling_bridge(c) ELSE c

\* Mutant: the custom polling bridge is not destroyed first.
FallBackOnTop(c) ==
    IF config.mode # "auto" THEN c
    ELSE init_polling_bridge([c EXCEPT !.sub = "none", !.sub_callbacks = 0,
                                       !.subscription_bridge_initialized_ = FALSE,
                                       !.custom_erd_polling_started_ = FALSE],
                             config.custom_erds)

handle_subscription_failed(c) ==
    IF config.mode # "auto" THEN c
    ELSE LET d == [c EXCEPT !.sub = "none", !.sub_callbacks = 0,
                            !.subscription_bridge_initialized_ = FALSE]
         IN  init_polling_bridge(IF d.custom_erd_polling_started_
                                 THEN destroy_polling_bridge(d) ELSE d,
                                 config.custom_erds)

-----------------------------------------------------------------------------
(* Entry actions of the startup states, and the signals they wait for.     *)

EnterRunning(c) == check_steady_state([c EXCEPT !.hsm = "running"])

EnterSubscriptionWatch(c) ==
    LET d == [c EXCEPT !.hsm = "subscription_watch"]
    IN  IF config.mode = "auto" THEN d
        ELSE EnterRunning(maybe_start_custom_erd_polling(d))

\* signal_bridge_ready; every other state leaves it to the top state.
BridgeReady(c) == IF c.hsm = "bridge_init" THEN EnterSubscriptionWatch(c) ELSE c

\* startup_state_mqtt_client_init is left in its own entry action.
EnterMqttClientInit(c) ==
    [c EXCEPT !.hsm = "feature_bits", !.mqtt_client_adapter_initialized_ = TRUE,
              !.features = IF @ = "idle" THEN "reading" ELSE @]

-----------------------------------------------------------------------------
(* Bridge initialisation.                                                  *)

\* The valid ERDs reach the registry, and the registry the subscription
\* bridge (erd_bridge_subscribe_set_erd_registry).
ApplyFilter(c) ==
    [c EXCEPT !.registry = IF config.appliance_api_parsing /\ c.features = "complete"
                              /\ c.valid_erds # {}
                           THEN c.valid_erds \cup config.custom_erds ELSE @,
              !.registry_wired = TRUE]

\* erd_bridge_subscribe_init, which forgets the registry.
init_subscription_bridge(c) ==
    [c EXCEPT !.sub = "subscribing", !.sub_callbacks = @ + 1, !.registry_wired = FALSE,
              !.subscription_bridge_initialized_ = TRUE, !.erd_bridge_initialized_ = TRUE]

\* An empty list completes its probe within the initialisation of the bridge,
\* before the callers have set their flags.
initialize_primary_polling(c) ==
    LET d == init_polling_bridge(c, config.custom_erds)
        early == [d EXCEPT !.polling_bridge_initialized_ = FALSE]
    IN  [(IF d.poll = "polling" THEN BridgeReady(early) ELSE d)
            EXCEPT !.polling_bridge_initialized_ = TRUE, !.erd_bridge_initialized_ = TRUE]

\* Mutant: GEA2 is not recognised.
UsePollingByMode == config.mode = "poll"

UsePolling == config.gea2 \/ config.mode = "poll"

initialize_erd_bridge(c) ==
    [(IF UsePolling THEN initialize_primary_polling(ApplyFilter(c))
      ELSE BridgeReady(init_subscription_bridge(ApplyFilter(c))))
        EXCEPT !.write_bridge_initialized_ = TRUE]

-----------------------------------------------------------------------------
(* loop(): signal_run_loop, by startup state.                              *)

StartupDelayElapsed == /\ b.hsm = "startup_delay"
                       /\ b' = [b EXCEPT !.hsm = "autodiscovery"]
                       /\ UNCHANGED config

InitializeBridge == /\ b.hsm = "bridge_init"
                    /\ ~b.erd_bridge_initialized_ /\ b.discovered
                    /\ b.mqtt_client_adapter_initialized_
                    /\ b' = initialize_erd_bridge(b)
                    /\ UNCHANGED config

\* Mutant: failed feature bits are waited for.
FeatureBitsComplete == /\ b.hsm = "feature_bits" /\ b.features = "complete"
                       /\ b' = [b EXCEPT !.hsm = "bridge_init"]
                       /\ UNCHANGED config

FeatureBitsSeen == /\ b.hsm = "feature_bits" /\ b.features \in {"complete", "failed"}
                   /\ b' = [b EXCEPT !.hsm = "bridge_init"]
                   /\ UNCHANGED config

\* Mutant: the steady state is judged before custom polling is considered.
WatchSteadyFirst ==
    /\ b.hsm = "subscription_watch"
    /\ \/ /\ b.sub = "failed"
          /\ b' = EnterRunning(EnterRunning(handle_subscription_failed(b)))
       \/ /\ b.sub # "failed"
          /\ LET c == handle_polling_failed(b)
             IN  b' = maybe_start_custom_erd_polling(
                          IF Steady(c) THEN EnterRunning(check_steady_state(c)) ELSE c)
    /\ UNCHANGED config

\* The fallback enters state_running by its signal, and once more itself.
WatchSubscription ==
    /\ b.hsm = "subscription_watch"
    /\ \/ /\ b.sub = "failed"
          /\ b' = EnterRunning(EnterRunning(handle_subscription_failed(b)))
       \/ /\ b.sub # "failed"
          /\ LET c == maybe_start_custom_erd_polling(handle_polling_failed(b))
             IN  b' = IF Steady(c) /\ ~c.steady_state_reached_
                      THEN EnterRunning(check_steady_state(c)) ELSE c
    /\ UNCHANGED config

RunningLoop ==
    /\ b.hsm = "running"
    /\ LET c == IF b.sub = "failed" THEN handle_subscription_failed(b) ELSE b
       IN  b' = check_steady_state(maybe_start_custom_erd_polling(handle_polling_failed(c)))
    /\ UNCHANGED config

RunLoop == \/ StartupDelayElapsed \/ InitializeBridge \/ FeatureBitsSeen
           \/ WatchSubscription \/ RunningLoop

-----------------------------------------------------------------------------
(* Managers and bridges, from the timers and callbacks of loop().          *)

\* autodiscovery completes and calls back.
Discovered == /\ b.hsm = "autodiscovery" /\ ~b.discovered
              /\ b' = [b EXCEPT !.discovered = TRUE, !.hsm = "device_id"]
              /\ UNCHANGED config

\* The last identity ERD has been read (read also when an id is configured).
Identified == /\ b.hsm = "device_id" /\ ~b.identified
              /\ b' = EnterMqttClientInit([b EXCEPT !.identified = TRUE])
              /\ UNCHANGED config

\* The feature bits are parsed, or ERD 0x0092 could not be read.
FeatureBitsDone == /\ b.features = "reading"
                   /\ \/ \E erds \in SUBSET Feature :
                             b' = [b EXCEPT !.features = "complete",
                                            !.valid_erds = erds \cup Mandatory]
                      \/ b' = [b EXCEPT !.features = "failed"]
                   /\ UNCHANGED config

\* handle_erd_client_activity_ remembers what the subscription brings.
Publication == /\ b.erd_bridge_initialized_ /\ ~config.gea2
               /\ \E erd \in Published : b' = [b EXCEPT !.seen = @ \cup {erd}]
               /\ UNCHANGED config

\* Entering state_polling reports the end of discovery.
PollBridgeStep ==
    /\ \E s \in PollNext[b.poll] :
           LET c == [b EXCEPT !.poll = s]
           IN  b' = IF s = "polling" THEN BridgeReady(c) ELSE c
    /\ UNCHANGED config

SubscribeBridgeStep == /\ \E s \in SubscribeNext[b.sub] : b' = [b EXCEPT !.sub = s]
                       /\ UNCHANGED config

Environment == \/ Discovered \/ Identified \/ FeatureBitsDone
               \/ Publication \/ PollBridgeStep \/ SubscribeBridgeStep

Next == RunLoop \/ Environment

Spec == Init /\ [][Next]_vars

\* loop() runs and its managers finish; probing ends; a loop() happens while
\* a bridge that recovers again and again is polling.
FairSpec == /\ Spec
            /\ WF_vars(RunLoop)
            /\ WF_vars(Discovered) /\ WF_vars(Identified) /\ WF_vars(FeatureBitsDone)
            /\ WF_vars(PollBridgeStep /\ b.poll = "probing")
            /\ SF_vars(RunLoop /\ b.poll = "polling")

-----------------------------------------------------------------------------
(* Ownership: each bridge is registered with the client exactly while the  *)
(* component's flag says so and never twice, through fallback, failure and *)
(* restart of custom polling; teardown() relies on the flags.              *)
BridgesOwned ==
    /\ b.polling_bridge_initialized_ <=> b.poll # "none"
    /\ b.subscription_bridge_initialized_ <=> b.sub # "none"
    /\ b.poll_callbacks = IF b.polling_bridge_initialized_ THEN 1 ELSE 0
    /\ b.sub_callbacks = IF b.subscription_bridge_initialized_ THEN 1 ELSE 0

(* An initialised component has a bridge, on GEA2 no subscription, and its *)
(* polling bridge polls enough: without a subscription, all standard ERDs, *)
(* or the valid ones when the feature bits were read and filter, and the   *)
(* custom ERDs if all fit; beside a subscription custom ERDs only.  Three  *)
(* cases are left out because the code does not provide for them: failed   *)
(* feature bits with filtering configured (FailedFeaturesPollAll below) and*)
(* GEA2 in mode SUBSCRIBE leave only the custom ERDs, perhaps none, and a  *)
(* failed subscription of mode SUBSCRIBE is kept.                          *)
AllFit(c) == Cardinality(ListedErds(c)) + Cardinality(config.custom_erds)
                 <= ERD_POLL_LIST_MAX_SIZE

DataPath ==
    b.erd_bridge_initialized_ =>
        /\ b.sub # "none" \/ b.poll # "none"
        /\ config.gea2 => b.sub = "none"
        /\ b.sub = "none" /\ config.mode # "subscribe" =>
               /\ ~config.appliance_api_parsing => Standard \subseteq b.poll_list
               /\ config.appliance_api_parsing /\ b.features = "complete" =>
                      b.valid_erds \subseteq b.poll_list
        /\ b.sub = "none" /\ AllFit(b) => config.custom_erds \subseteq b.poll_list
        /\ b.sub # "none" /\ b.poll # "none" => b.poll_list \subseteq config.custom_erds

(* Once custom polling has been started, each custom ERD has been seen in  *)
(* a subscription publication or is polled.                                *)
CustomErdsCovered ==
    b.custom_erd_polling_started_ =>
        config.custom_erds \subseteq b.seen \cup
            (IF b.poll = "none" THEN {} ELSE b.poll_list)

(* The steady state is declared, once, when every bridge there is delivers *)
(* and no custom ERD is missing that there is room for, beside a           *)
(* subscription none at all: check_discovery_changes relies on it.         *)
SteadyIsComplete ==
    [][~b.steady_state_reached_ /\ b'.steady_state_reached_ =>
           /\ b'.sub \in {"none", "steady"} /\ b'.poll \in {"none", "polling"}
           /\ b'.sub # "none" \/ AllFit(b)' =>
                  config.custom_erds \subseteq b'.seen \cup
                      (IF b'.poll = "none" THEN {} ELSE b'.poll_list)]_vars

(* The startup state machine reaches state_running, and reports a steady   *)
(* state, when the subscription settles and polling does not fail for ever.*)
Settled == <>[](/\ b.sub \in {"steady", "failed", "none"} /\ b.poll # "failed")
StartupCompletes ==
    Settled => <>[](b.hsm = "running" /\ (b.steady_state_reached_ \/ b.sub = "failed"))

-----------------------------------------------------------------------------
(* What the source says of itself, and what the code does.                 *)

(* "Mark as failed so the bridge falls back to full polling": the list is  *)
(* chosen by appliance_api_parsing alone, and the failed manager has no    *)
(* valid ERDs to put on it.                                                *)
FailedFeaturesPollAll ==
    b.features = "failed" /\ b.poll # "none" /\ b.sub = "none"
        /\ config.mode # "subscribe" => Standard \subseteq b.poll_list

(* "Wire the ErdRegistry to the subscription bridge so it filters          *)
(* subscription publications before they enter the cache": no subscription *)
(* bridge ever has it, since its initialisation comes later and forgets it.*)
RegistryForgotten == b.sub # "none" => ~b.registry_wired
=============================================================================
