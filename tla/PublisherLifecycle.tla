------------------------- MODULE PublisherLifecycle -------------------------
(***************************************************************************)
(* Starting, stopping and destroying the publisher task                    *)
(* (erd_cache_mqtt_publisher_init, _start, _stop, _destroy): the handshake *)
(* over task_running, work_semaphore and done_semaphore between the main   *)
(* loop and the task, which run on two cores.  What the task publishes is  *)
(* left to CachePublisher; here publish_one is a step that may take long.  *)
(*                                                                         *)
(* The acknowledgement comes before the task is gone: it still has to call *)
(* vTaskDelete, and the idle task then has to unlink its TCB, both inside  *)
(* the struct.  stop() yields for 100 ms to let that happen, so the yield  *)
(* is measured in ticks and the two steps take a bounded number of them.   *)
(***************************************************************************)
EXTENDS Naturals

CONSTANTS
    DeleteTicks,      \* the task calls vTaskDelete within so many ticks of its give
    UnlinkTicks,      \* the idle task unlinks a deleted task's TCB within so many
    YieldTicks        \* vTaskDelay(pdMS_TO_TICKS(100)) in stop()

ASSUME TicksAssumption == DeleteTicks \in Nat /\ UnlinkTicks \in Nat /\ YieldTicks \in Nat

\* What the comment above the delay relies on: the idle task "can finish".
ASSUME YieldAssumption == DeleteTicks + UnlinkTicks < YieldTicks

VARIABLES
    live,             \* the publisher struct is initialised
    task_running, mqtt_connected,
    work_semaphore,   \* binary, given?
    done_semaphore,   \* "none": creation failed; "empty"; "given"
    mpc,              \* main loop
    tpc,              \* task
    received,         \* stop() took done_semaphore
    clock,            \* ticks of stop()'s yield that are over
    age               \* of them, the ticks in the task's present step

ticks == <<clock, age>>
vars == <<live, task_running, mqtt_connected, work_semaphore, done_semaphore,
          mpc, tpc, received, ticks>>

\* Where the task still uses the struct, its semaphores or its static stack.
UsesStruct == {"while", "take", "state", "publish", "finish", "given", "deleted"}

Init == /\ live = FALSE /\ task_running = FALSE /\ mqtt_connected = FALSE
        /\ work_semaphore = FALSE /\ done_semaphore = "none"
        /\ mpc = "idle" /\ tpc = "absent" /\ received = FALSE
        /\ clock = 0 /\ age = 0

-----------------------------------------------------------------------------
(* The main loop.                                                          *)

\* init_erd_cache_publisher_: memset, create the semaphores, ask the client
\* whether it is connected, create the task on the struct's static stack.
InitAndStart == /\ mpc = "idle" /\ ~live
                /\ live' = TRUE
                /\ mqtt_connected' \in BOOLEAN
                /\ work_semaphore' = FALSE
                /\ done_semaphore' \in {"none", "empty"}
                /\ task_running' = TRUE
                /\ tpc' = "while"
                /\ received' = FALSE
                /\ UNCHANGED <<mpc, ticks>>

SignalWork == /\ mpc = "idle" /\ live
              /\ work_semaphore' = TRUE
              /\ UNCHANGED <<live, task_running, mqtt_connected, done_semaphore,
                             mpc, tpc, received, ticks>>

\* on_disconnected; on_connected ends with a signal.
MqttChange == /\ mpc = "idle" /\ live
              /\ mqtt_connected' = ~mqtt_connected
              /\ work_semaphore' = (work_semaphore \/ ~mqtt_connected)
              /\ UNCHANGED <<live, task_running, done_semaphore, mpc, tpc, received, ticks>>

\* destroy() calls stop(), which gives the semaphore first ...
StopSignal == /\ mpc = "idle" /\ live /\ task_running
              /\ work_semaphore' = TRUE
              /\ mpc' = "signalled"
              /\ UNCHANGED <<live, task_running, mqtt_connected, done_semaphore,
                             tpc, received, ticks>>

\* ... and clears the flag afterwards.
StopClear == /\ mpc = "signalled"
             /\ task_running' = FALSE
             /\ mpc' = "cleared"
             /\ UNCHANGED <<live, mqtt_connected, work_semaphore, done_semaphore,
                            tpc, received, ticks>>

StopTakesDone == /\ mpc = "cleared" /\ done_semaphore = "given"
                 /\ done_semaphore' = "empty"
                 /\ received' = TRUE
                 /\ mpc' = "yield"
                 /\ clock' = 0 /\ age' = 0
                 /\ UNCHANGED <<live, task_running, mqtt_connected, work_semaphore, tpc>>

\* One second is over.  Without a done_semaphore stop() polls task_handle,
\* which the task never clears, so it always waits the full second.
StopTimesOut == /\ mpc = "cleared"
                /\ mpc' = "yield"
                /\ clock' = 0 /\ age' = 0
                /\ UNCHANGED <<live, task_running, mqtt_connected, work_semaphore,
                               done_semaphore, tpc, received>>

\* Mutant: stop() trusts the acknowledgement and does not yield.
StopDoesNotYield == /\ mpc = "yield"
                    /\ mpc' = "stopped"
                    /\ UNCHANGED <<live, task_running, mqtt_connected, work_semaphore,
                                   done_semaphore, tpc, received, ticks>>

StopYields == /\ mpc = "yield" /\ clock = YieldTicks
              /\ mpc' = "stopped"
              /\ UNCHANGED <<live, task_running, mqtt_connected, work_semaphore,
                             done_semaphore, tpc, received, ticks>>

\* Semaphores deleted, struct and static stack zeroed: what a task that
\* still uses them does from here on is undefined.
DestroyStruct == /\ mpc = "stopped"
                 /\ live' = FALSE
                 /\ mqtt_connected' = FALSE
                 /\ work_semaphore' = FALSE /\ done_semaphore' = "none"
                 /\ received' = FALSE
                 /\ tpc' = IF tpc \in UsesStruct THEN "undefined" ELSE "absent"
                 /\ mpc' = "idle"
                 /\ UNCHANGED <<task_running, ticks>>

Main == \/ InitAndStart \/ SignalWork \/ MqttChange \/ StopSignal \/ StopClear
        \/ StopTakesDone \/ StopTimesOut \/ StopYields \/ DestroyStruct

-----------------------------------------------------------------------------
(* mqtt_publisher_task.                                                    *)

TaskStep(from, to) == tpc = from /\ tpc' = to

\* Mutant: the task ends when the connection is lost.
TaskEndsOffline ==
    /\ TaskStep("while", IF task_running /\ mqtt_connected THEN "take" ELSE "finish")
    /\ UNCHANGED <<live, task_running, mqtt_connected, work_semaphore,
                   done_semaphore, mpc, received, ticks>>

TaskWhile == /\ TaskStep("while", IF task_running THEN "take" ELSE "finish")
             /\ UNCHANGED <<live, task_running, mqtt_connected, work_semaphore,
                            done_semaphore, mpc, received, ticks>>

TaskTake == /\ TaskStep("take", "state")
            /\ work_semaphore
            /\ work_semaphore' = FALSE
            /\ UNCHANGED <<live, task_running, mqtt_connected, done_semaphore,
                           mpc, received, ticks>>

TaskReadState == /\ TaskStep("state", IF mqtt_connected THEN "publish" ELSE "while")
                 /\ UNCHANGED <<live, task_running, mqtt_connected, work_semaphore,
                                done_semaphore, mpc, received, ticks>>

TaskPublishOne == /\ TaskStep("publish", "while")
                  /\ UNCHANGED <<live, task_running, mqtt_connected, work_semaphore,
                                 done_semaphore, mpc, received, ticks>>

TaskGivesDone == /\ TaskStep("finish", "given")
                 /\ done_semaphore' = IF done_semaphore = "none" THEN "none" ELSE "given"
                 /\ age' = 0
                 /\ UNCHANGED <<live, task_running, mqtt_connected, work_semaphore,
                                mpc, received, clock>>

\* vTaskDelete(NULL), the last thing that runs on the static stack; the TCB
\* stays on the kernel's list of terminated tasks.
TaskDeletes == /\ TaskStep("given", "deleted")
               /\ age' = 0
               /\ UNCHANGED <<live, task_running, mqtt_connected, work_semaphore,
                              done_semaphore, mpc, received, clock>>

\* The idle task takes the TCB, which is part of the struct, off that list.
IdleUnlinks == /\ TaskStep("deleted", "unlinked")
               /\ UNCHANGED <<live, task_running, mqtt_connected, work_semaphore,
                              done_semaphore, mpc, received, ticks>>

Task == \/ TaskWhile \/ TaskTake \/ TaskReadState \/ TaskPublishOne
        \/ TaskGivesDone \/ TaskDeletes

\* A tick of the yield; the task's last steps and the idle task do not
\* outlast theirs.
Tick == /\ mpc = "yield" /\ clock < YieldTicks
        /\ tpc = "given" => age < DeleteTicks
        /\ tpc = "deleted" => age < UnlinkTicks
        /\ clock' = clock + 1
        /\ age' = IF tpc \in {"given", "deleted"} THEN age + 1 ELSE age
        /\ UNCHANGED <<live, task_running, mqtt_connected, work_semaphore,
                       done_semaphore, mpc, tpc, received>>

Next == tpc # "undefined" /\ (Main \/ Task \/ IdleUnlinks \/ Tick)

Spec == Init /\ [][Next]_vars

\* Both cores run, and the wait for done_semaphore is bounded.
FairSpec == /\ Spec
            /\ WF_vars(tpc # "undefined" /\ Task)
            /\ WF_vars(tpc # "undefined" /\ (IdleUnlinks \/ Tick))
            /\ WF_vars(tpc # "undefined" /\ (StopClear \/ StopTakesDone \/ StopTimesOut
                                                \/ StopYields \/ DestroyStruct))

-----------------------------------------------------------------------------
(* A stop that was acknowledged is safe: when stop() returns to destroy(), *)
(* which zeroes the struct, the task has left its static stack and its TCB *)
(* is off the kernel's list.  The acknowledgement itself comes two steps   *)
(* too early for that; what bridges them is the yield.                     *)
AcknowledgedStopIsSafe == received /\ mpc = "stopped" => tpc \notin UsesStruct

(* The task only gives up after a stop: as long as nobody stops it, every  *)
(* signal leads to another look at the cache.                              *)
SignalsAreServed == (live /\ work_semaphore /\ tpc \in UsesStruct)
                        ~> (tpc = "state" \/ ~task_running)

-----------------------------------------------------------------------------
(* What the documentation says, and the code does not do.                  *)

(* stop() signals first and clears the flag afterwards "so the task sees   *)
(* the flag on wake": the task cannot be left waiting for a signal that    *)
(* never comes.                                                            *)
TaskSeesFlagOnWake == ~(mpc = "cleared" /\ tpc = "take" /\ ~work_semaphore)
=============================================================================
