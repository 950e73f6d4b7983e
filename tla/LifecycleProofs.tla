-------------------------- MODULE LifecycleProofs --------------------------
(***************************************************************************)
(* A stop that was acknowledged is safe, over any number of starts, stops  *)
(* and destroys, any interleaving of the two cores, and any durations for  *)
(* which the yield outlasts the task's last two steps.                     *)
(***************************************************************************)
EXTENDS PublisherLifecycle, TLAPS

\* done_semaphore is given by the task's ending only, and both the
\* semaphore and what stop() took from it belong to the current task.
AckInv == /\ received => mpc \in {"yield", "stopped"}
          /\ done_semaphore = "given" \/ received => tpc \in {"given", "deleted", "unlinked"}

\* After an acknowledged stop the yield is never further along than the
\* steps the task is late with.
YieldInv ==
    /\ clock \in Nat /\ age \in Nat
    /\ received /\ mpc = "yield" /\ tpc = "given" => clock <= age /\ age <= DeleteTicks
    /\ received /\ mpc = "yield" /\ tpc = "deleted"
           => clock <= DeleteTicks + age /\ age <= UnlinkTicks
    /\ received /\ mpc = "stopped" => tpc = "unlinked"

LifecycleInv == AckInv /\ YieldInv

\* Until the task gives done_semaphore nothing has been acknowledged.
LEMMA TaskRuns ==
    ASSUME LifecycleInv, TaskWhile \/ TaskTake \/ TaskReadState \/ TaskPublishOne
    PROVE  LifecycleInv'
<1>1. tpc \notin {"given", "deleted", "unlinked"} /\ UNCHANGED <<received, mpc, done_semaphore, ticks>>
  BY DEF TaskStep, TaskWhile, TaskTake, TaskReadState, TaskPublishOne
<1>2. ~received /\ done_semaphore # "given"
  BY <1>1 DEF LifecycleInv, AckInv
<1> QED
  BY <1>1, <1>2 DEF LifecycleInv, AckInv, YieldInv, ticks

\* The last two steps of the task start their own count of ticks.
LEMMA TaskEnds ==
    ASSUME LifecycleInv, TaskGivesDone \/ TaskDeletes \/ IdleUnlinks
    PROVE  LifecycleInv'
<1>1. CASE TaskGivesDone
  <2>1. ~received
    BY <1>1 DEF TaskGivesDone, TaskStep, LifecycleInv, AckInv
  <2> QED
    BY <1>1, <2>1 DEF TaskGivesDone, TaskStep, LifecycleInv, AckInv, YieldInv
<1>2. CASE TaskDeletes
  <2>1. AckInv'
    BY <1>2 DEF TaskDeletes, TaskStep, LifecycleInv, AckInv
  <2>2. YieldInv'
    BY <1>2, TicksAssumption DEF TaskDeletes, TaskStep, LifecycleInv, YieldInv
  <2> QED
    BY <2>1, <2>2 DEF LifecycleInv
<1>3. CASE IdleUnlinks
  BY <1>3 DEF IdleUnlinks, TaskStep, LifecycleInv, AckInv, YieldInv, ticks
<1> QED
  BY <1>1, <1>2, <1>3

\* A tick ages the step the task is in as much as it advances the yield.
LEMMA TickKeepsInv ==
    ASSUME LifecycleInv, Tick
    PROVE  LifecycleInv'
<1>1. AckInv'
  BY DEF Tick, LifecycleInv, AckInv
<1>2. YieldInv'
  BY TicksAssumption DEF Tick, LifecycleInv, YieldInv
<1> QED
  BY <1>1, <1>2 DEF LifecycleInv

\* Starting and destroying reset what was acknowledged; stop() takes what
\* the task has given and ends its yield when the task's ticks are used up.
LEMMA MainKeepsInv ==
    ASSUME LifecycleInv, Main
    PROVE  LifecycleInv'
<1>1. CASE InitAndStart \/ DestroyStruct
  BY <1>1 DEF InitAndStart, DestroyStruct, LifecycleInv, AckInv, YieldInv, ticks
<1>2. CASE StopTakesDone
  BY <1>2, TicksAssumption DEF StopTakesDone, LifecycleInv, AckInv, YieldInv
<1>3. CASE StopTimesOut
  BY <1>3 DEF StopTimesOut, LifecycleInv, AckInv, YieldInv
<1>4. CASE StopYields
  <2>1. received => tpc = "unlinked"
    BY <1>4, TicksAssumption, YieldAssumption DEF StopYields, LifecycleInv, AckInv, YieldInv
  <2> QED
    BY <1>4, <2>1 DEF StopYields, LifecycleInv, AckInv, YieldInv, ticks
<1>5. CASE SignalWork \/ MqttChange \/ StopSignal \/ StopClear
  BY <1>5 DEF SignalWork, MqttChange, StopSignal, StopClear, LifecycleInv, AckInv,
              YieldInv, ticks
<1> QED
  BY <1>1, <1>2, <1>3, <1>4, <1>5 DEF Main

(* When a stop() that received the acknowledgement returns, the task is    *)
(* off its stack and its TCB off the kernel's list, so that destroy() may  *)
(* zero them: it suffices that the yield outlasts vTaskDelete and the      *)
(* unlinking, however long stop() took to notice the acknowledgement.      *)
THEOREM AcknowledgedStopSafe == Spec => []AcknowledgedStopIsSafe
<1>1. Init => LifecycleInv
  BY DEF Init, LifecycleInv, AckInv, YieldInv
<1>2. LifecycleInv /\ [Next]_vars => LifecycleInv'
  <2>1. SUFFICES ASSUME LifecycleInv, [Next]_vars PROVE LifecycleInv'
    OBVIOUS
  <2>2. CASE UNCHANGED vars
    BY <2>1, <2>2 DEF vars, ticks, LifecycleInv, AckInv, YieldInv
  <2>3. CASE Next
    BY <2>1, <2>3, TaskRuns, TaskEnds, TickKeepsInv, MainKeepsInv DEF Next, Task
  <2> QED
    BY <2>1, <2>2, <2>3
<1>3. LifecycleInv => AcknowledgedStopIsSafe
  BY DEF LifecycleInv, YieldInv, AcknowledgedStopIsSafe, UsesStruct
<1> QED
  BY <1>1, <1>2, <1>3, PTL DEF Spec
=============================================================================
