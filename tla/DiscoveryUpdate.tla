-------------------------- MODULE DiscoveryUpdate ---------------------------
(***************************************************************************)
(* Home Assistant discovery over several boots (ota_cleanup_manager.cpp    *)
(* with ha_discovery_manager_start, _run and _init, and the cleanup of     *)
(* DiscoveryCleanup).  In each boot the bridge compares what it would      *)
(* publish with a record in flash; if they differ, or if the user asks for *)
(* it, it clears the device's topics, publishes them anew, writes the      *)
(* record and reboots.  Power may fail at any time, and each boot may be   *)
(* one of another firmware or configuration.                               *)
(*                                                                         *)
(* The parts of OtaCleanupManager::loop() are actions of their own: what   *)
(* else runs on the main loop does nothing between two parts of one call,  *)
(* because the flags that the earlier part has set keep it out.            *)
(***************************************************************************)
EXTENDS DiscoveryCleanup

CONSTANTS Config,      \* builds: firmware, custom data and configuration flags
          Entities,    \* the discovery topics of each
          PayloadOf,   \* what each publishes, availability topic included
          Generates,   \* those with generate_device_config
          NoRecord,    \* nothing usable in flash
          MaxTrouble   \* power failures, failed runs and button presses

ASSUME UpdateConstants ==
    /\ Entities \in [Config -> SUBSET Topic]
    /\ PayloadOf \in [Config -> Payload]
    /\ Generates \subseteq Config
    /\ MaxTrouble \in Nat

VARIABLES
    \* durable: the build that is installed; DiscoveryNVS
    config, record,
    \* OtaCleanupManager
    ota_cleanup_needed, ota_cleanup_in_progress, ota_discovery_publishing,
    ota_reboot_pending, discovery_refresh_in_progress, initial_discovery_needed,
    cleanup_trigger,
    \* ha_discovery_manager_t: state, entities to go, availability buffers filled?
    ha_state, unpublished, availability,
    \* is_ready(): steady state, MQTT initialised, device id complete
    ready,
    \* environment: its troubles so far, entities whose message was lost
    trouble, lost,
    \* history: a discovery run has failed in this boot, or in the one before
    failed_run

flagVars == <<ota_cleanup_needed, ota_cleanup_in_progress, ota_discovery_publishing,
              ota_reboot_pending, discovery_refresh_in_progress,
              initial_discovery_needed, cleanup_trigger>>
managerVars == <<ha_state, unpublished, availability>>
updateVars == <<config, record, flagVars, managerVars, ready, trouble, lost, failed_run>>
vars == <<cleanupVars, updateVars>>

-----------------------------------------------------------------------------
\* ha_discovery_manager_data_hash with the device id and the flags stored
\* beside it: different for different builds, and for empty availability
\* buffers.
DiscoveryState == <<config, availability>>
Upset == trouble < MaxTrouble /\ trouble' = trouble + 1

\* Between two calls from the main loop.
MainIdle == flushing = "" /\ ~subscribing /\ cleanup_state # "done"

\* What the broker retains of a build that was published completely.
PublishedBy(c) == [t \in Topic |-> IF t \in Entities[c] THEN PayloadOf[c] ELSE NoPayload]

\* A new device, or one whose flash was erased.
Init == /\ CleanupInit
        /\ config \in Config /\ record = NoRecord
        /\ broker \in {PublishedBy(config), [t \in Topic |-> NoPayload]}
        /\ ota_cleanup_needed = FALSE /\ ota_cleanup_in_progress = FALSE
        /\ ota_discovery_publishing = FALSE /\ ota_reboot_pending = FALSE
        /\ discovery_refresh_in_progress = FALSE
        /\ initial_discovery_needed = FALSE /\ cleanup_trigger = "NONE"
        /\ ha_state = "idle" /\ unpublished = {} /\ availability = FALSE
        /\ ready = FALSE
        /\ trouble = 0 /\ lost = {} /\ failed_run = "no"

\* Everything in RAM is as in Init, and the client connects anew.  The broker
\* delivers nothing to a client that has not subscribed.
Boot == /\ ha_discovery_cleanup_destroy
        /\ disturbed_passes' = 0
        /\ ota_cleanup_needed' = FALSE /\ ota_cleanup_in_progress' = FALSE
        /\ ota_discovery_publishing' = FALSE /\ ota_reboot_pending' = FALSE
        /\ discovery_refresh_in_progress' = FALSE
        /\ initial_discovery_needed' = FALSE /\ cleanup_trigger' = "NONE"
        /\ ha_state' = "idle" /\ unpublished' = {} /\ availability' = FALSE
        /\ ready' = FALSE
        /\ failed_run' = IF failed_run = "this_boot" THEN "last_boot" ELSE "no"
        /\ UNCHANGED <<record, broker, lost>>

-----------------------------------------------------------------------------
(* Triggers.                                                               *)

Working == ota_cleanup_needed \/ ota_cleanup_in_progress
           \/ ota_discovery_publishing \/ ota_reboot_pending

\* Mutant: the availability topic is not read before the comparison.
CompareWithoutAvailability ==
    /\ UNCHANGED availability
    /\ initial_discovery_needed' = (record = NoRecord)
    /\ ota_cleanup_needed' = (record # NoRecord /\ record # <<config, availability>>)
    /\ cleanup_trigger' = IF record = NoRecord THEN "INITIAL"
                          ELSE IF record # <<config, availability>> THEN "OTA"
                          ELSE cleanup_trigger

\* check_discovery_changes, when nothing is under way yet.  Without a record
\* the topics are only published; one that differs (or has an older version)
\* also has the old ones removed.
CompareWithRecord ==
    /\ availability' = TRUE
    /\ initial_discovery_needed' = (record = NoRecord)
    /\ ota_cleanup_needed' = (record # NoRecord /\ record # <<config, TRUE>>)
    /\ cleanup_trigger' = IF record = NoRecord THEN "INITIAL"
                          ELSE IF record # <<config, TRUE>> THEN "OTA"
                          ELSE cleanup_trigger

\* check_steady_state, once per boot.
BecomeReady ==
    /\ MainIdle /\ ~ready
    /\ ready' = TRUE
    /\ IF config \in Generates /\ ~discovery_refresh_in_progress
       THEN CompareWithRecord
       ELSE UNCHANGED <<availability, initial_discovery_needed, ota_cleanup_needed,
                        cleanup_trigger>>
    /\ UNCHANGED <<cleanupVars, config, record, ota_cleanup_in_progress,
                   ota_discovery_publishing, ota_reboot_pending,
                   discovery_refresh_in_progress, ha_state, unpublished,
                   trouble, lost, failed_run>>

\* trigger_discovery_refresh: the button may be pressed at any time.
PressRefresh ==
    /\ MainIdle /\ Upset
    /\ ~Working /\ ~discovery_refresh_in_progress
    /\ discovery_refresh_in_progress' = TRUE
    /\ cleanup_trigger' = "DISCOVERY_REFRESH"
    /\ UNCHANGED <<cleanupVars, config, record, ota_cleanup_needed,
                   ota_cleanup_in_progress, ota_discovery_publishing,
                   ota_reboot_pending, initial_discovery_needed, managerVars,
                   ready, lost, failed_run>>

-----------------------------------------------------------------------------
(* OtaCleanupManager::loop().                                              *)

\* Mutant: the availability topic is not read again after the init.
StartManagerBare ==
    /\ availability' = FALSE
    /\ ha_state' = "building" /\ unpublished' = Entities[config]
    /\ ota_discovery_publishing' = TRUE
    /\ UNCHANGED trouble

\* ha_discovery_manager_init, _configure, _set_availability and _start: the
\* buffers of the run may not fit into the heap.
StartManager ==
    /\ availability' = TRUE
    /\ \/ /\ ha_state' = "building" /\ unpublished' = Entities[config]
          /\ UNCHANGED trouble
       \/ /\ ha_state' = "failed" /\ unpublished' = {}
          /\ Upset
    /\ ota_discovery_publishing' = TRUE

InitialDue == /\ initial_discovery_needed /\ config \in Generates /\ ready
              /\ ~ota_cleanup_in_progress /\ ~ota_discovery_publishing
              /\ ~ota_reboot_pending

StartInitial ==
    /\ InitialDue
    /\ StartManager
    /\ initial_discovery_needed' = FALSE
    /\ cleanup_trigger' = "INITIAL"
    /\ failed_run' = "no"
    /\ UNCHANGED <<cleanupVars, config, record, ota_cleanup_needed,
                   ota_cleanup_in_progress, ota_reboot_pending,
                   discovery_refresh_in_progress, ready, lost>>

StartCleanup ==
    /\ ready /\ ~InitialDue
    /\ ~ota_cleanup_in_progress /\ ~ota_discovery_publishing /\ ~ota_reboot_pending
    /\ (ota_cleanup_needed /\ config \in Generates) \/ discovery_refresh_in_progress
    /\ ha_discovery_cleanup_start
    /\ ota_cleanup_in_progress' = TRUE
    /\ discovery_refresh_in_progress' = FALSE
    /\ UNCHANGED <<config, record, ota_cleanup_needed, ota_discovery_publishing,
                   ota_reboot_pending, initial_discovery_needed, cleanup_trigger,
                   managerVars, ready, trouble, lost, failed_run>>

RunCleanup == ota_cleanup_in_progress /\ CleanupRun /\ UNCHANGED updateVars

FinishCleanup ==
    /\ ota_cleanup_in_progress /\ cleanup_state = "done"
    /\ ha_discovery_cleanup_destroy
    /\ ota_cleanup_in_progress' = FALSE
    /\ ota_cleanup_needed' = (ota_cleanup_needed /\ cleanup_trigger # "OTA")
    /\ StartManager
    /\ failed_run' = "no"
    /\ UNCHANGED <<broker, disturbed_passes, config, record,
                   ota_reboot_pending, discovery_refresh_in_progress,
                   initial_discovery_needed, cleanup_trigger, ready, lost>>

\* ha_discovery_manager_run: the first call begins, ...
BeginDiscovering ==
    /\ ota_discovery_publishing /\ ha_state = "building"
    /\ ha_state' = "discovering"
    /\ UNCHANGED <<cleanupVars, config, record, flagVars, unpublished, availability,
                   ready, trouble, lost, failed_run>>

\* Mutant: a refused entity is skipped.
PublishOrSkipEntity(t) ==
    /\ ota_discovery_publishing /\ ha_state = "discovering" /\ t \in unpublished
    /\ unpublished' = unpublished \ {t}
    /\ \/ /\ broker' = [broker EXCEPT ![t] = PayloadOf[config]]
          /\ lost' = lost \ {t}
       \/ UNCHANGED <<broker, lost>>
    /\ UNCHANGED <<topic_buf, passVars, activityVars, subscribed_long, flushVars,
                   subscribing, inbound, linkVars, config, record, flagVars, ha_state,
                   availability, ready, trouble, failed_run>>

\* ... each later one publishes at most one entity (a refused one is tried
\* again by the next call: nothing changes), which may be lost (QoS 0), ...
PublishEntity(t) ==
    /\ ota_discovery_publishing /\ ha_state = "discovering" /\ t \in unpublished
    /\ unpublished' = unpublished \ {t}
    /\ \/ /\ broker' = [broker EXCEPT ![t] = PayloadOf[config]]
          /\ lost' = lost \ {t}
       \/ /\ lost' = lost \cup {t}
          /\ UNCHANGED broker
    /\ UNCHANGED <<topic_buf, passVars, activityVars, subscribed_long, flushVars,
                   subscribing, inbound, linkVars, config, record, flagVars, ha_state,
                   availability, ready, trouble, failed_run>>

\* ... or fails to decompress a chunk, ...
DecompressFails ==
    /\ ota_discovery_publishing /\ ha_state = "discovering" /\ unpublished # {}
    /\ Upset
    /\ ha_state' = "failed"
    /\ UNCHANGED <<cleanupVars, config, record, flagVars, unpublished, availability,
                   ready, lost, failed_run>>

\* ... until all categories are done.
CompleteDiscovering ==
    /\ ota_discovery_publishing /\ ha_state = "discovering" /\ unpublished = {}
    /\ ha_state' = "complete"
    /\ UNCHANGED <<cleanupVars, config, record, flagVars, unpublished, availability,
                   ready, trouble, lost, failed_run>>

\* The run has ended.  A failed one is not recorded and needs no reboot.
DropFailure == /\ ha_state' = "idle" /\ unpublished' = {} /\ availability' = FALSE
               /\ failed_run' = "this_boot"
               /\ UNCHANGED <<record, ota_reboot_pending>>

RecordSuccess == /\ record' = DiscoveryState
                 /\ ota_reboot_pending' = TRUE
                 /\ UNCHANGED <<managerVars, failed_run>>

EndDiscovery ==
    /\ ota_discovery_publishing /\ ha_state \in {"failed", "complete"}
    /\ ota_discovery_publishing' = FALSE
    /\ cleanup_trigger' = "NONE"
    /\ IF ha_state = "failed" THEN DropFailure ELSE RecordSuccess
    /\ UNCHANGED <<cleanupVars, config, ota_cleanup_needed, ota_cleanup_in_progress,
                   discovery_refresh_in_progress, initial_discovery_needed,
                   ready, trouble, lost>>

\* Five seconds later; App.safe_reboot().
Reboot == /\ ota_reboot_pending
          /\ Boot
          /\ UNCHANGED <<config, trouble>>

Loop == \/ StartInitial \/ StartCleanup \/ RunCleanup \/ FinishCleanup
        \/ BeginDiscovering \/ (\E t \in Topic : PublishEntity(t))
        \/ DecompressFails \/ CompleteDiscovering \/ EndDiscovery \/ Reboot

-----------------------------------------------------------------------------
\* Power fails, or another build is installed (or rolled back to).
NewBoot == /\ Upset /\ Boot
           /\ config' \in Config

Environment == \/ CleanupEnvironment /\ UNCHANGED updateVars
               \/ NewBoot

Next == BecomeReady \/ PressRefresh \/ Loop \/ Environment

Spec == Init /\ [][Next]_vars

\* The main loop and the MQTT task run, time passes, and a client that is
\* offered a message again and again sends it in the end.
Fairness ==
    /\ WF_vars(BecomeReady \/ Loop)
    /\ WF_vars((\E t \in Topic : TopicCallback(t)) /\ UNCHANGED updateVars)
    /\ WF_vars(SecondPasses /\ UNCHANGED updateVars)
    /\ \A t \in Topic : SF_vars(ClearArrives /\ saved # <<>> /\ Head(saved) = t
                                /\ UNCHANGED updateVars)

FairSpec == Spec /\ Fairness

-----------------------------------------------------------------------------
UpdateTypeOK ==
    /\ CleanupTypeOK
    /\ config \in Config /\ record \in (Config \X BOOLEAN) \cup {NoRecord}
    /\ {ota_cleanup_needed, ota_cleanup_in_progress, ota_discovery_publishing,
        ota_reboot_pending, discovery_refresh_in_progress,
        initial_discovery_needed, availability, ready} \subseteq BOOLEAN
    /\ cleanup_trigger \in {"NONE", "OTA", "DISCOVERY_REFRESH", "INITIAL"}
    /\ ha_state \in {"idle", "building", "discovering", "complete", "failed"}
    /\ unpublished \subseteq Topic /\ lost \subseteq Topic
    /\ trouble \in 0 .. MaxTrouble
    /\ failed_run \in {"no", "this_boot", "last_boot"}

(* Cleanup, publishing and the wait for the reboot exclude each other, and *)
(* the flags of OtaCleanupManager agree with the state machines they stand *)
(* for.  A reboot leaves behind the record that the next boot compares     *)
(* with: nothing makes the bridge update and reboot for ever.              *)
UpdateStages ==
    /\ ota_cleanup_in_progress <=> cleanup_state # "idle"
    /\ ota_discovery_publishing => ~ota_cleanup_in_progress /\ ~ota_reboot_pending
    /\ ota_discovery_publishing <=> ha_state # "idle" /\ ~ota_reboot_pending
    /\ ota_reboot_pending => /\ ~ota_cleanup_in_progress
                             /\ ha_state = "complete"
                             /\ record = <<config, TRUE>>

(* What the record says has been done: when it is written, each entity of  *)
(* the installed build is retained with that build's payload (unless its   *)
(* message was accepted and lost), and after a cleanup nothing else of the *)
(* device is, unless both clean passes of that cleanup were disturbed,     *)
(* whatever presses, refusals, failed runs, boots and builds came before.  *)
RecordedIsPublished ==
    [][record' # record =>
         /\ \A t \in Entities[config] \ lost : broker[t] = PayloadOf[config]
         /\ cleanup_trigger # "INITIAL" /\ disturbed_passes < 2 =>
                \A t \in Topic \ Entities[config] : broker[t] = NoPayload]_vars

(* When power failures, presses and failures come to an end, so do the     *)
(* reboots: the bridge comes to rest with a record that matches the build, *)
(* or with a failed run that is left to the next boot.                     *)
AtRest == /\ ready /\ ~Working /\ ~discovery_refresh_in_progress
          /\ ~initial_discovery_needed
Settles == <>[](AtRest /\ (config \in Generates =>
                             record = <<config, TRUE>> \/ failed_run = "this_boot"))

(* "Leaving the stored hash stale/absent is what makes                     *)
(* check_discovery_changes() re-trigger discovery on the next boot"        *)
(* (ota_cleanup_manager.cpp:292): after a failed run the next boot has     *)
(* discovery to do.                                                        *)
FailedRunIsRetried ==
    failed_run = "last_boot" /\ ready /\ config \in Generates =>
        Working \/ initial_discovery_needed \/ discovery_refresh_in_progress
=============================================================================
