----------------------------- MODULE Scheduler -----------------------------
(***************************************************************************)
(* The scheduler (tasks.c): the ready, delayed, suspended and pending      *)
(* lists, the tick and its wraparound, suspension of the scheduler, yields *)
(* and context switches, suspension, deletion and priorities of tasks, and *)
(* the tickless sleep of the idle task.                                    *)
(*                                                                         *)
(* An action is one critical section, or one step that the code takes with *)
(* interrupts enabled; a loop run with interrupts masked (the wake loop of *)
(* the tick, the two loops of xTaskResumeAll) is an action for each turn,  *)
(* and masked keeps everything else out until it ends.  A requested yield  *)
(* sets pendSV; the switch comes before the running task goes on.          *)
(*                                                                         *)
(* Kernel objects other than tasks are kept to one event list; mutexes and *)
(* priority inheritance are in Mutex.                                      *)
(***************************************************************************)
EXTENDS KernelLists

CONSTANTS Tasks,            \* the application's tasks
          Idle,             \* the idle task
          Victims,          \* tasks that others suspend, delete, reprioritise
          InitPrio,         \* the priority a task is created with
          MaxPriority,      \* configMAX_PRIORITIES - 1
          TickModulus,      \* tick counts wrap at this (2^32 in the code)
          Delays,           \* the delays and block times that are asked for
          OpsOf,            \* the operations each task may call
          IsrOps,           \* what interrupts may do
          NewPriorities,    \* the values given to vTaskPrioritySet
          ExpectedIdleTimeBeforeSleep,    \* configEXPECTED_IDLE_TIME_BEFORE_SLEEP
          MaximumSuppressedTicks,         \* xMaximumPossibleSuppressedTicks
          PendedBound,      \* bound: ticks while the scheduler is suspended
          NestingBound      \* bound: depth of vTaskSuspendAll

Operations == {"delay", "delayUntil", "wait", "signal", "yield", "hold", "suspend",
               "resume", "prioritySet", "delete", "create", "sleep"}
Priorities == 0 .. MaxPriority
AllTasks   == Tasks \cup {Idle}
Periodic   == {t \in Tasks : "delayUntil" \in OpsOf[t]}

\* The argument of vTaskDelayUntil must not be 0 (configASSERT); a task that
\* relies on its own period is not suspended or deleted by others.
ASSUME SchedulerAssumption ==
    /\ Idle \notin Tasks /\ IsFiniteSet(Tasks) /\ Victims \subseteq Tasks \ Periodic
    /\ MaxPriority \in Nat /\ InitPrio \in [AllTasks -> Priorities] /\ InitPrio[Idle] = 0
    /\ TickModulus \in Nat \ {0} /\ Delays \subseteq 1 .. TickModulus - 1
    /\ OpsOf \in [AllTasks -> SUBSET Operations] /\ OpsOf[Idle] \subseteq {"sleep"}
    /\ IsrOps \subseteq {"resume", "signal"}
    /\ NewPriorities \subseteq Priorities
    /\ ExpectedIdleTimeBeforeSleep \in Nat \ {0, 1} /\ MaximumSuppressedTicks \in Nat \ {0}
    /\ PendedBound \in Nat /\ NestingBound \in Nat \ {0}

VARIABLES
    ready,                                   \* pxReadyTasksLists, uxTopReadyPriority
    pxDelayedTaskList, pxOverflowDelayedTaskList,
    xSuspendedTaskList, xTasksWaitingTermination,
    xPendingReadyList, xEventList,
    xItemValue,      \* the value of each state list item: when to wake
    uxPriority, xEventValue,
    xTickCount, xNextTaskUnblockTime,
    uxPendedTicks, uxSchedulerSuspended, xYieldPending,
    pxCurrentTCB,
    pendSV,          \* a context switch was requested of the processor
    masked,          \* the loop that runs with interrupts masked, or "no"
    xSwitchRequired, \* of xTaskIncrementTick
    pc,
    xExpectedIdleTime,
    xPreviousWakeTime,
    due,             \* history: ticks until a delay ends, 0 for none
    phase            \* history: ticks since the time in xPreviousWakeTime

blockLists == <<pxDelayedTaskList, pxOverflowDelayedTaskList, xSuspendedTaskList>>
eventLists == <<xPendingReadyList, xEventList>>
priorities == <<uxPriority, xEventValue>>
time       == <<xTickCount, xItemValue, due>>
periods    == <<xPreviousWakeTime, phase>>
switching  == <<pxCurrentTCB, pendSV>>
interrupts == <<masked, xSwitchRequired>>
vars == <<ready, blockLists, xTasksWaitingTermination, eventLists, priorities, time,
          xNextTaskUnblockTime, uxPendedTicks, uxSchedulerSuspended, xYieldPending,
          switching, interrupts, pc, xExpectedIdleTime, periods>>

portMAX_DELAY == TickModulus - 1

PCs == {"run", "hold",                                   \* the application's code
        "delay", "delayUntil", "wait",                   \* in a call, scheduler suspended
        "resumeAll", "yield",                            \* the end of that call
        "resetSelf", "reset",                            \* in vTaskSuspend
        "idleYield", "idleTest", "idleSuspend",          \* in prvIdleTask
        "idleSample", "idleSleep", "idleResume"}

EventValueOf(priority) == -priority

\* The scheduler has been started and every task is ready; the first one chosen
\* is of the highest priority.
Init ==
    /\ ready = [lists |-> [p \in Priorities |->
                   [items |-> SetToSeq({t \in AllTasks : InitPrio[t] = p}), idx |-> 0]],
                top   |-> {InitPrio[t] : t \in AllTasks}]
    /\ pxDelayedTaskList = << >> /\ pxOverflowDelayedTaskList = << >>
    /\ xSuspendedTaskList = {} /\ xTasksWaitingTermination = {}
    /\ xPendingReadyList = << >> /\ xEventList = << >>
    /\ xItemValue = [t \in AllTasks |-> 0]
    /\ uxPriority = InitPrio /\ xEventValue = [t \in AllTasks |-> EventValueOf(InitPrio[t])]
    /\ xTickCount = 0 /\ xNextTaskUnblockTime = portMAX_DELAY
    /\ uxPendedTicks = 0 /\ uxSchedulerSuspended = 0 /\ xYieldPending = FALSE
    /\ pxCurrentTCB \in {t \in AllTasks : \A u \in AllTasks : InitPrio[u] <= InitPrio[t]}
    /\ pendSV = FALSE /\ masked = "no" /\ xSwitchRequired = FALSE
    /\ pc = [t \in AllTasks |-> "run"]
    /\ xExpectedIdleTime = 0
    /\ xPreviousWakeTime = [t \in Periodic |-> 0]
    /\ due = [t \in AllTasks |-> 0] /\ phase = [t \in Periodic |-> 0]
-----------------------------------------------------------------------------
(* Helpers. *)

Without(list, t) == IF t \in ToSet(list) THEN uxListRemove(list, t) ELSE list

Delayed == ToSet(pxDelayedTaskList) \cup ToSet(pxOverflowDelayedTaskList)

InReadyList(t) == t \in ToSet(ready.lists[uxPriority[t]].items)

Exists(t) == InReadyList(t) \/ t \in Delayed \cup xSuspendedTaskList

\* t runs, and the processor has nothing more urgent to do.
Executes(t) == masked = "no" /\ ~pendSV /\ pxCurrentTCB = t

Goto(t, place) == pc' = [pc EXCEPT ![t] = place]

\* Application code, with or without the scheduler suspended.
InApplication(t) == Executes(t) /\ t # Idle /\ pc[t] \in {"run", "hold"}

Calls(t, operation) == InApplication(t) /\ operation \in OpsOf[t]

UnblockTime(list) == IF list = << >> THEN portMAX_DELAY ELSE xItemValue[Head(list)]

prvResetNextTaskUnblockTime == xNextTaskUnblockTime' = UnblockTime(pxDelayedTaskList')

YieldIf(condition) == pendSV' = (pendSV \/ condition)

\* Mutant: the time of the next wake is that of the task just added.
InsertDelayedForgetsNext(t, at) ==
    /\ pxDelayedTaskList' = vListInsert(pxDelayedTaskList, t, xItemValue')
    /\ xNextTaskUnblockTime' = at
    /\ UNCHANGED pxOverflowDelayedTaskList

InsertDelayed(t, at) ==
    /\ pxDelayedTaskList' = vListInsert(pxDelayedTaskList, t, xItemValue')
    /\ xNextTaskUnblockTime' = IF at < xNextTaskUnblockTime THEN at ELSE xNextTaskUnblockTime
    /\ UNCHANGED pxOverflowDelayedTaskList

InsertOverflow(t) ==
    /\ pxOverflowDelayedTaskList' = vListInsert(pxOverflowDelayedTaskList, t, xItemValue')
    /\ UNCHANGED <<pxDelayedTaskList, xNextTaskUnblockTime>>

prvAddCurrentTaskToDelayedList(ticks, canBlockIndefinitely) ==
    LET t  == pxCurrentTCB
        at == (xTickCount + ticks) % TickModulus
    IN  /\ ready' = RemoveFromReadyList(ready, t, uxPriority[t])
        /\ \/ /\ ticks = portMAX_DELAY /\ canBlockIndefinitely
              /\ xSuspendedTaskList' = xSuspendedTaskList \cup {t}
              /\ UNCHANGED <<pxDelayedTaskList, pxOverflowDelayedTaskList, xItemValue,
                             xNextTaskUnblockTime, due>>
           \/ /\ ~(ticks = portMAX_DELAY /\ canBlockIndefinitely)
              /\ xItemValue' = [xItemValue EXCEPT ![t] = at]
              /\ due' = [due EXCEPT ![t] = ticks]
              /\ \/ at < xTickCount /\ InsertOverflow(t)
                 \/ at >= xTickCount /\ InsertDelayed(t, at)
              /\ UNCHANGED xSuspendedTaskList

\* Take the state item of t out of its list; a value that no list is sorted by
\* is forgotten.
OutOfBlockLists(t) ==
    /\ pxDelayedTaskList' = Without(pxDelayedTaskList, t)
    /\ pxOverflowDelayedTaskList' = Without(pxOverflowDelayedTaskList, t)
    /\ xItemValue' = [xItemValue EXCEPT ![t] = 0]

\* From the list t is blocked in to the ready list of its priority.
Unblock(t) ==
    /\ OutOfBlockLists(t)
    /\ xSuspendedTaskList' = xSuspendedTaskList \ {t}
    /\ ready' = prvAddTaskToReadyList(ready, t, uxPriority[t])

\* Mutant: the event item stays in its list.
StaysInEventList(t) == UNCHANGED <<xEventList, xPendingReadyList>>

OutOfEventList(t) ==
    /\ xEventList' = Without(xEventList, t)
    /\ xPendingReadyList' = Without(xPendingReadyList, t)
-----------------------------------------------------------------------------
(* The tick. *)

\* Mutant: the count does not wrap.
NextTickUnwrapped == xTickCount + 1

NextTick == (xTickCount + 1) % TickModulus

taskSWITCH_DELAYED_LISTS ==
    IF NextTick = 0
    THEN /\ pxDelayedTaskList' = pxOverflowDelayedTaskList
         /\ pxOverflowDelayedTaskList' = pxDelayedTaskList
         /\ prvResetNextTaskUnblockTime
    ELSE UNCHANGED <<pxDelayedTaskList, pxOverflowDelayedTaskList, xNextTaskUnblockTime>>

\* k ticks pass: the histories.
Pass(k) ==
    /\ due' = [t \in AllTasks |-> IF due[t] > k THEN due[t] - k ELSE 0]
    /\ phase' = [t \in Periodic |-> IF phase[t] + k < TickModulus THEN phase[t] + k ELSE TickModulus]

\* The first half of xTaskIncrementTick, with the scheduler running: count, and
\* enter the wake loop if a wake time has been reached.
IncrementTick(loop, otherwise) ==
    /\ xTickCount' = NextTick
    /\ Pass(1)
    /\ taskSWITCH_DELAYED_LISTS
    /\ masked' = IF NextTick >= xNextTaskUnblockTime' THEN loop ELSE otherwise
    /\ xSwitchRequired' = FALSE

\* The SysTick interrupt.
TickSuspended ==
    /\ masked = "no" /\ uxSchedulerSuspended > 0 /\ uxPendedTicks < PendedBound
    /\ uxPendedTicks' = uxPendedTicks + 1
    /\ YieldIf(xYieldPending)
    /\ UNCHANGED <<ready, blockLists, xTasksWaitingTermination, eventLists, priorities, time,
                   xNextTaskUnblockTime, uxSchedulerSuspended, xYieldPending, pxCurrentTCB,
                   interrupts, pc, xExpectedIdleTime, periods>>

Tick ==
    /\ masked = "no" /\ uxSchedulerSuspended = 0
    /\ IncrementTick("tick", "no")
    /\ YieldIf(masked' = "no" /\ xYieldPending)
    /\ UNCHANGED <<ready, xSuspendedTaskList, xTasksWaitingTermination, eventLists, priorities,
                   xItemValue, uxPendedTicks, uxSchedulerSuspended, xYieldPending, pxCurrentTCB,
                   pc, xExpectedIdleTime, xPreviousWakeTime>>

\* Mutant: the wake time itself is too early to wake.
HeadIsDueLater ==
    pxDelayedTaskList # << >> /\ xItemValue[Head(pxDelayedTaskList)] < xTickCount

HeadIsDue == pxDelayedTaskList # << >> /\ xItemValue[Head(pxDelayedTaskList)] <= xTickCount

\* One turn of the wake loop.
WakeDelayed ==
    LET t == Head(pxDelayedTaskList) IN
    /\ masked \in {"tick", "pendedTick"} /\ HeadIsDue
    /\ Unblock(t)
    /\ OutOfEventList(t)
    /\ xSwitchRequired' = (xSwitchRequired \/ uxPriority[t] >= uxPriority[pxCurrentTCB])
    /\ UNCHANGED <<xTasksWaitingTermination, priorities, xTickCount, due, xNextTaskUnblockTime,
                   uxPendedTicks, uxSchedulerSuspended, xYieldPending, switching, masked, pc,
                   xExpectedIdleTime, periods>>

\* The loop ends: the tick returns to SysTick or to xTaskResumeAll.
WakeLoopEnds ==
    /\ masked \in {"tick", "pendedTick"} /\ ~HeadIsDue
    /\ xNextTaskUnblockTime' = UnblockTime(pxDelayedTaskList)
    /\ \/ /\ masked = "tick"
          /\ masked' = "no"
          /\ YieldIf(xSwitchRequired \/ xYieldPending)
          /\ UNCHANGED xYieldPending
       \/ /\ masked = "pendedTick"
          /\ masked' = "resumeAll"
          /\ xYieldPending' = (xYieldPending \/ xSwitchRequired)
          /\ UNCHANGED pendSV
    /\ xSwitchRequired' = FALSE
    /\ UNCHANGED <<ready, blockLists, xTasksWaitingTermination, eventLists, priorities, time,
                   uxPendedTicks, uxSchedulerSuspended, pxCurrentTCB, pc, xExpectedIdleTime, periods>>
-----------------------------------------------------------------------------
(* Suspending and resuming the scheduler. *)

vTaskSuspendAll(t, next) ==
    /\ uxSchedulerSuspended' = uxSchedulerSuspended + 1
    /\ Goto(t, next)
    /\ UNCHANGED <<ready, blockLists, xTasksWaitingTermination, eventLists, priorities, time,
                   xNextTaskUnblockTime, uxPendedTicks, xYieldPending, switching, interrupts,
                   xExpectedIdleTime, periods>>

\* The calls that begin with vTaskSuspendAll.  A periodic task is not a whole
\* wrap of the tick count late: it would read the count again.
Delay(t)      == Calls(t, "delay") /\ pc[t] = "run" /\ vTaskSuspendAll(t, "delay")
DelayUntil(t) == /\ Calls(t, "delayUntil") /\ pc[t] = "run" /\ phase[t] < TickModulus
                 /\ vTaskSuspendAll(t, "delayUntil")
Wait(t)       == Calls(t, "wait") /\ pc[t] = "run" /\ vTaskSuspendAll(t, "wait")
Hold(t)       == Calls(t, "hold") /\ uxSchedulerSuspended < NestingBound /\ vTaskSuspendAll(t, "hold")

\* xTaskResumeAll: where it was called, and where its caller goes on.
Resumes(t) == Executes(t) /\ pc[t] \in {"hold", "resumeAll", "idleResume"}

ReturnsTo(place, alreadyYielded) ==
    IF place = "resumeAll" /\ ~alreadyYielded THEN "yield" ELSE "run"

ResumeNested(t) ==
    /\ Resumes(t) /\ uxSchedulerSuspended > 1
    /\ uxSchedulerSuspended' = uxSchedulerSuspended - 1
    /\ UNCHANGED <<ready, blockLists, xTasksWaitingTermination, eventLists, priorities, time,
                   xNextTaskUnblockTime, uxPendedTicks, xYieldPending, switching, interrupts,
                   pc, xExpectedIdleTime, periods>>

ResumeAll(t) ==
    /\ Resumes(t) /\ uxSchedulerSuspended = 1
    /\ uxSchedulerSuspended' = 0
    /\ masked' = "resumeAll"
    /\ UNCHANGED <<ready, blockLists, xTasksWaitingTermination, eventLists, priorities, time,
                   xNextTaskUnblockTime, uxPendedTicks, xYieldPending, switching,
                   xSwitchRequired, pc, xExpectedIdleTime, periods>>

\* One turn of the loop over xPendingReadyList.
DrainPending ==
    LET t == Head(xPendingReadyList) IN
    /\ masked = "resumeAll" /\ xPendingReadyList # << >>
    /\ xPendingReadyList' = Tail(xPendingReadyList)
    /\ Unblock(t)
    /\ due' = [due EXCEPT ![t] = 0]
    /\ prvResetNextTaskUnblockTime
    /\ xYieldPending' = (xYieldPending \/ uxPriority[t] >= uxPriority[pxCurrentTCB])
    /\ UNCHANGED <<xTasksWaitingTermination, xEventList, priorities, xTickCount, uxPendedTicks,
                   uxSchedulerSuspended, switching, interrupts, pc, xExpectedIdleTime, periods>>

\* One turn of the loop over the ticks held back.
PendedTick ==
    /\ masked = "resumeAll" /\ xPendingReadyList = << >> /\ uxPendedTicks > 0
    /\ uxPendedTicks' = uxPendedTicks - 1
    /\ IncrementTick("pendedTick", "resumeAll")
    /\ UNCHANGED <<ready, xSuspendedTaskList, xTasksWaitingTermination, eventLists, priorities,
                   xItemValue, uxSchedulerSuspended, xYieldPending, switching, pc,
                   xExpectedIdleTime, xPreviousWakeTime>>

ResumeAllEnds ==
    LET t == pxCurrentTCB IN
    /\ masked = "resumeAll" /\ xPendingReadyList = << >> /\ uxPendedTicks = 0
    /\ masked' = "no"
    /\ YieldIf(xYieldPending)
    /\ Goto(t, ReturnsTo(pc[t], xYieldPending))
    /\ UNCHANGED <<ready, blockLists, xTasksWaitingTermination, eventLists, priorities, time,
                   xNextTaskUnblockTime, uxPendedTicks, uxSchedulerSuspended, xYieldPending,
                   pxCurrentTCB, xSwitchRequired, xExpectedIdleTime, periods>>
-----------------------------------------------------------------------------
(* Blocking, with the scheduler suspended by the call itself. *)

DelayTicks(t) ==
    /\ Executes(t) /\ pc[t] = "delay"
    /\ \E ticks \in Delays : prvAddCurrentTaskToDelayedList(ticks, FALSE)
    /\ Goto(t, "resumeAll")
    /\ UNCHANGED <<xTasksWaitingTermination, eventLists, priorities, xTickCount, uxPendedTicks,
                   uxSchedulerSuspended, xYieldPending, switching, interrupts, xExpectedIdleTime,
                   periods>>

\* Mutant: a wake time past the wrap is not told from one already gone.
ShouldDelayUnlessWrapped(previous, wake, now) == wake > now

\* Whether the wake time is in the future, the tick count having wrapped since
\* the previous wake time, or the wake time being past the wrap, or neither.
ShouldDelay(previous, wake, now) ==
    IF now < previous THEN wake < previous /\ wake > now
                      ELSE wake < previous \/ wake > now

DelayUntilTicks(t) ==
    /\ Executes(t) /\ pc[t] = "delayUntil"
    /\ \E increment \in Delays :
          LET previous == xPreviousWakeTime[t]
              wake     == (previous + increment) % TickModulus
          IN  /\ xPreviousWakeTime' = [xPreviousWakeTime EXCEPT ![t] = wake]
              /\ phase' = [phase EXCEPT ![t] = @ - increment]
              /\ IF ShouldDelay(previous, wake, xTickCount)
                 THEN prvAddCurrentTaskToDelayedList((wake - xTickCount) % TickModulus, FALSE)
                 ELSE UNCHANGED <<ready, blockLists, xItemValue, xNextTaskUnblockTime, due>>
    /\ Goto(t, "resumeAll")
    /\ UNCHANGED <<xTasksWaitingTermination, eventLists, priorities, xTickCount, uxPendedTicks,
                   uxSchedulerSuspended, xYieldPending, switching, interrupts, xExpectedIdleTime>>

\* A periodic task that may be a whole wrap late reads the tick count again.
ReadTickCount(t) ==
    /\ Calls(t, "delayUntil") /\ pc[t] = "run"
    /\ xPreviousWakeTime' = [xPreviousWakeTime EXCEPT ![t] = xTickCount]
    /\ phase' = [phase EXCEPT ![t] = 0]
    /\ UNCHANGED <<ready, blockLists, xTasksWaitingTermination, eventLists, priorities, time,
                   xNextTaskUnblockTime, uxPendedTicks, uxSchedulerSuspended, xYieldPending,
                   switching, interrupts, pc, xExpectedIdleTime>>

vTaskPlaceOnEventList(t) ==
    /\ Executes(t) /\ pc[t] = "wait"
    /\ xEventList' = vListInsert(xEventList, t, xEventValue)
    /\ \E ticks \in Delays \cup {portMAX_DELAY} : prvAddCurrentTaskToDelayedList(ticks, TRUE)
    /\ Goto(t, "resumeAll")
    /\ UNCHANGED <<xTasksWaitingTermination, xPendingReadyList, priorities, xTickCount,
                   uxPendedTicks, uxSchedulerSuspended, xYieldPending, switching, interrupts,
                   xExpectedIdleTime, periods>>

\* portYIELD_WITHIN_API at the end of a call, or taskYIELD.
Yield(t) ==
    /\ \/ Executes(t) /\ pc[t] = "yield"
       \/ Calls(t, "yield") /\ pc[t] = "run"
    /\ YieldIf(TRUE)
    /\ Goto(t, IF uxSchedulerSuspended > 0 THEN "hold" ELSE "run")
    /\ UNCHANGED <<ready, blockLists, xTasksWaitingTermination, eventLists, priorities, time,
                   xNextTaskUnblockTime, uxPendedTicks, uxSchedulerSuspended, xYieldPending,
                   pxCurrentTCB, interrupts, xExpectedIdleTime, periods>>

\* The PendSV interrupt: vTaskSwitchContext.
PendSV ==
    /\ masked = "no" /\ pendSV
    /\ pendSV' = FALSE
    /\ IF uxSchedulerSuspended > 0
       THEN xYieldPending' = TRUE /\ UNCHANGED <<ready, pxCurrentTCB>>
       ELSE LET p == Max(ready.top)
                l == listGET_OWNER_OF_NEXT_ENTRY(ready.lists[p])
            IN  /\ xYieldPending' = FALSE
                /\ ready' = [ready EXCEPT !.lists[p] = l]
                /\ pxCurrentTCB' = l.items[l.idx]
    /\ UNCHANGED <<blockLists, xTasksWaitingTermination, eventLists, priorities, time,
                   xNextTaskUnblockTime, uxPendedTicks, uxSchedulerSuspended, interrupts, pc,
                   xExpectedIdleTime, periods>>
-----------------------------------------------------------------------------
(* What tasks and interrupts do to other tasks. *)

\* xTaskRemoveFromEventList on the list's head, by a task or by an interrupt; the
\* caller yields if the task woken has a higher priority.
xTaskRemoveFromEventList ==
    LET t == Head(xEventList)
        higher == uxPriority[t] > uxPriority[pxCurrentTCB]
    IN  /\ xEventList # << >>
        /\ xEventList' = Tail(xEventList)
        /\ IF uxSchedulerSuspended = 0
           THEN /\ Unblock(t)
                /\ due' = [due EXCEPT ![t] = 0]
                /\ prvResetNextTaskUnblockTime
                /\ UNCHANGED xPendingReadyList
           ELSE /\ xPendingReadyList' = Append(xPendingReadyList, t)
                /\ UNCHANGED <<ready, blockLists, xItemValue, due, xNextTaskUnblockTime>>
        /\ xYieldPending' = (xYieldPending \/ higher)
        /\ YieldIf(higher)
        /\ UNCHANGED <<xTasksWaitingTermination, priorities, xTickCount, uxPendedTicks,
                       uxSchedulerSuspended, pxCurrentTCB, interrupts, pc, xExpectedIdleTime,
                       periods>>

Signal(t) == Calls(t, "signal") /\ xTaskRemoveFromEventList

\* While a task is between locking and unlocking the object, interrupts leave
\* the event list alone.
SignalFromISR ==
    /\ "signal" \in IsrOps /\ masked = "no" /\ pc[pxCurrentTCB] # "wait"
    /\ xTaskRemoveFromEventList

\* First critical section of vTaskSuspend.
vTaskSuspend(t, u) ==
    /\ Calls(t, "suspend") /\ u \in Victims /\ Exists(u)
    /\ u = t => uxSchedulerSuspended = 0
    /\ ready' = IF InReadyList(u) THEN RemoveFromReadyList(ready, u, uxPriority[u]) ELSE ready
    /\ OutOfBlockLists(u) /\ OutOfEventList(u)
    /\ due' = [due EXCEPT ![u] = 0]
    /\ xSuspendedTaskList' = xSuspendedTaskList \cup {u}
    /\ Goto(t, IF u = t THEN "resetSelf" ELSE "reset")
    /\ UNCHANGED <<xTasksWaitingTermination, priorities, xTickCount, xNextTaskUnblockTime,
                   uxPendedTicks, uxSchedulerSuspended, xYieldPending, switching, interrupts,
                   xExpectedIdleTime, periods>>

\* Second critical section of vTaskSuspend.
ResetUnblockTime(t) ==
    /\ Executes(t) /\ pc[t] \in {"resetSelf", "reset"}
    /\ xNextTaskUnblockTime' = UnblockTime(pxDelayedTaskList)
    /\ Goto(t, IF pc[t] = "resetSelf" THEN "yield"
               ELSE IF uxSchedulerSuspended > 0 THEN "hold" ELSE "run")
    /\ UNCHANGED <<ready, blockLists, xTasksWaitingTermination, eventLists, priorities, time,
                   uxPendedTicks, uxSchedulerSuspended, xYieldPending, switching, interrupts,
                   xExpectedIdleTime, periods>>

prvTaskIsTaskSuspended(u) ==
    /\ u \in xSuspendedTaskList
    /\ u \notin ToSet(xPendingReadyList)
    /\ u \notin ToSet(xEventList)

MakeResumedReady(u) ==
    /\ xSuspendedTaskList' = xSuspendedTaskList \ {u}
    /\ ready' = prvAddTaskToReadyList(ready, u, uxPriority[u])

vTaskResume(t, u) ==
    /\ Calls(t, "resume") /\ u \in Victims \ {t}
    /\ prvTaskIsTaskSuspended(u)
    /\ MakeResumedReady(u)
    /\ YieldIf(uxPriority[u] >= uxPriority[t])
    /\ UNCHANGED <<pxDelayedTaskList, pxOverflowDelayedTaskList, xTasksWaitingTermination,
                   eventLists, priorities, time, xNextTaskUnblockTime, uxPendedTicks,
                   uxSchedulerSuspended, xYieldPending, pxCurrentTCB, interrupts, pc,
                   xExpectedIdleTime, periods>>

\* The interrupt yields when it is told to.
xTaskResumeFromISR(u) ==
    /\ "resume" \in IsrOps /\ masked = "no" /\ u \in Victims
    /\ prvTaskIsTaskSuspended(u)
    /\ IF uxSchedulerSuspended = 0
       THEN /\ MakeResumedReady(u)
            /\ YieldIf(uxPriority[u] >= uxPriority[pxCurrentTCB])
            /\ UNCHANGED xPendingReadyList
       ELSE /\ xPendingReadyList' = Append(xPendingReadyList, u)
            /\ UNCHANGED <<xSuspendedTaskList, ready, pendSV>>
    /\ UNCHANGED <<pxDelayedTaskList, pxOverflowDelayedTaskList, xTasksWaitingTermination,
                   xEventList, priorities, time, xNextTaskUnblockTime, uxPendedTicks,
                   uxSchedulerSuspended, xYieldPending, pxCurrentTCB, interrupts, pc,
                   xExpectedIdleTime, periods>>

\* Mutant: a task that lowers its own priority goes on.
YieldRequiredByRaise(t, u, p) == p > uxPriority[u] /\ u # t /\ p >= uxPriority[t]

\* The yield that a new priority p of u calls for.
YieldRequired(t, u, p) == IF p > uxPriority[u] THEN u # t /\ p >= uxPriority[t] ELSE u = t

vTaskPrioritySet(t, u, p) ==
    /\ Calls(t, "prioritySet") /\ u \in Victims /\ p \in NewPriorities \ {uxPriority[u]}
    /\ Exists(u)
    /\ uxPriority' = [uxPriority EXCEPT ![u] = p]
    /\ xEventValue' = [xEventValue EXCEPT ![u] = EventValueOf(p)]
    /\ ready' = IF InReadyList(u)
                THEN prvAddTaskToReadyList(RemoveFromReadyList(ready, u, uxPriority[u]), u, p)
                ELSE ready
    /\ YieldIf(YieldRequired(t, u, p))
    /\ UNCHANGED <<blockLists, xTasksWaitingTermination, eventLists, time, xNextTaskUnblockTime,
                   uxPendedTicks, uxSchedulerSuspended, xYieldPending, pxCurrentTCB, interrupts,
                   pc, xExpectedIdleTime, periods>>

\* A task that deletes itself is freed by the idle task later; another's memory
\* is freed at once.
vTaskDelete(t, u) ==
    /\ Calls(t, "delete") /\ u \in Victims /\ Exists(u)
    /\ u = t => uxSchedulerSuspended = 0
    /\ ready' = IF InReadyList(u) THEN RemoveFromReadyList(ready, u, uxPriority[u]) ELSE ready
    /\ OutOfBlockLists(u) /\ OutOfEventList(u)
    /\ xSuspendedTaskList' = xSuspendedTaskList \ {u}
    /\ due' = [due EXCEPT ![u] = 0]
    /\ IF u = t
       THEN /\ xTasksWaitingTermination' = xTasksWaitingTermination \cup {t}
            /\ Goto(t, "yield")
            /\ UNCHANGED xNextTaskUnblockTime
       ELSE /\ prvResetNextTaskUnblockTime
            /\ Goto(u, "run")
            /\ UNCHANGED xTasksWaitingTermination
    /\ UNCHANGED <<priorities, xTickCount, uxPendedTicks, uxSchedulerSuspended, xYieldPending,
                   switching, interrupts, xExpectedIdleTime, periods>>

\* xTaskCreate: prvInitialiseNewTask and prvAddNewTaskToReadyList, which yields
\* after its critical section.
xTaskCreate(t, u) ==
    /\ Calls(t, "create") /\ u \in Victims \ xTasksWaitingTermination /\ ~Exists(u)
    /\ uxPriority' = [uxPriority EXCEPT ![u] = InitPrio[u]]
    /\ xEventValue' = [xEventValue EXCEPT ![u] = EventValueOf(InitPrio[u])]
    /\ ready' = prvAddTaskToReadyList(ready, u, InitPrio[u])
    /\ Goto(t, IF uxPriority[t] < InitPrio[u] THEN "yield" ELSE pc[t])
    /\ UNCHANGED <<blockLists, xTasksWaitingTermination, eventLists, time, xNextTaskUnblockTime,
                   uxPendedTicks, uxSchedulerSuspended, xYieldPending, switching, interrupts,
                   xExpectedIdleTime, periods>>
-----------------------------------------------------------------------------
(* The idle task and its tickless sleep. *)

IdleAt(place) == Executes(Idle) /\ pc[Idle] = place

\* One turn of prvCheckTasksWaitingTermination.
Reclaim(u) ==
    /\ IdleAt("run") /\ u \in xTasksWaitingTermination
    /\ xTasksWaitingTermination' = xTasksWaitingTermination \ {u}
    /\ Goto(u, "run")
    /\ UNCHANGED <<ready, blockLists, eventLists, priorities, time, xNextTaskUnblockTime,
                   uxPendedTicks, uxSchedulerSuspended, xYieldPending, switching, interrupts,
                   xExpectedIdleTime, periods>>

prvGetExpectedIdleTime ==
    IF \/ uxPriority[pxCurrentTCB] > 0
       \/ Len(ready.lists[0].items) > 1
       \/ \E p \in ready.top : p > 0
    THEN 0
    ELSE (xNextTaskUnblockTime - xTickCount) % TickModulus

LongEnough(idleTime) == idleTime >= ExpectedIdleTimeBeforeSleep

IdleGoes(from, to) ==
    /\ IdleAt(from)
    /\ Goto(Idle, to)
    /\ UNCHANGED <<ready, blockLists, xTasksWaitingTermination, eventLists, priorities, time,
                   xNextTaskUnblockTime, uxPendedTicks, uxSchedulerSuspended, xYieldPending,
                   pxCurrentTCB, interrupts, periods>>

IdleChecked ==
    /\ xTasksWaitingTermination = {} /\ IdleGoes("run", "idleYield")
    /\ UNCHANGED <<pendSV, xExpectedIdleTime>>

IdleYields ==
    /\ IdleGoes("idleYield", IF "sleep" \in OpsOf[Idle] THEN "idleTest" ELSE "run")
    /\ YieldIf(Len(ready.lists[0].items) > 1)
    /\ UNCHANGED xExpectedIdleTime

IdleTests ==
    /\ IdleGoes("idleTest", IF LongEnough(prvGetExpectedIdleTime) THEN "idleSuspend" ELSE "run")
    /\ UNCHANGED <<pendSV, xExpectedIdleTime>>

IdleSuspends == IdleAt("idleSuspend") /\ vTaskSuspendAll(Idle, "idleSample")

IdleSamples ==
    /\ IdleGoes("idleSample", IF LongEnough(prvGetExpectedIdleTime) THEN "idleSleep" ELSE "idleResume")
    /\ xExpectedIdleTime' =
          IF LongEnough(prvGetExpectedIdleTime) THEN prvGetExpectedIdleTime ELSE 0
    /\ UNCHANGED pendSV

eTaskConfirmSleepModeStatus == xPendingReadyList = << >> /\ ~xYieldPending

AbortsSleep ==
    /\ ~eTaskConfirmSleepModeStatus
    /\ IdleGoes("idleSleep", "idleResume")
    /\ xExpectedIdleTime' = 0
    /\ UNCHANGED pendSV

\* vPortSuppressTicksAndSleep: the tick count is stepped by the complete tick
\* periods that passed.  When it is the tick that ends the sleep, the interrupt
\* adds the last period.
Sleep(count, tickWakes) ==
    /\ IdleAt("idleSleep") /\ eTaskConfirmSleepModeStatus
    /\ xTickCount' = xTickCount + count
    /\ Pass(count)
    /\ uxPendedTicks' = IF tickWakes THEN uxPendedTicks + 1 ELSE uxPendedTicks
    /\ uxPendedTicks' <= PendedBound
    /\ xExpectedIdleTime' = 0
    /\ Goto(Idle, "idleResume")
    /\ UNCHANGED <<ready, blockLists, xTasksWaitingTermination, eventLists, priorities, xItemValue,
                   xNextTaskUnblockTime, uxSchedulerSuspended, xYieldPending, switching, interrupts,
                   xPreviousWakeTime>>

Suppressed == IF xExpectedIdleTime > MaximumSuppressedTicks
              THEN MaximumSuppressedTicks ELSE xExpectedIdleTime

\* Mutant: the period the interrupt adds is counted twice.
SleepsThroughAndOneMore == Sleep(Suppressed, TRUE)

SleepsThrough == Sleep(Suppressed - 1, TRUE)
IsWoken       == \E k \in 0 .. Suppressed - 1 : Sleep(k, FALSE)
-----------------------------------------------------------------------------
\* A call in progress goes on.
Continue(t) ==
    \/ DelayTicks(t) \/ DelayUntilTicks(t) \/ vTaskPlaceOnEventList(t)
    \/ ResumeAll(t) \/ ResumeNested(t) \/ ResetUnblockTime(t)
    \/ pc[t] = "yield" /\ Yield(t)

IdleStep ==
    \/ \E u \in Tasks : Reclaim(u)
    \/ IdleChecked \/ IdleYields \/ IdleTests \/ IdleSuspends \/ IdleSamples
    \/ AbortsSleep \/ SleepsThrough \/ IsWoken

Loops == WakeDelayed \/ WakeLoopEnds \/ DrainPending \/ PendedTick \/ ResumeAllEnds

Next ==
    \/ \E t \in Tasks :
          \/ Delay(t) \/ DelayUntil(t) \/ Wait(t) \/ Hold(t) \/ Signal(t) \/ Yield(t)
          \/ ReadTickCount(t)
          \/ \E u \in Victims : \/ vTaskSuspend(t, u) \/ vTaskResume(t, u)
                               \/ vTaskDelete(t, u) \/ xTaskCreate(t, u)
                               \/ \E p \in NewPriorities : vTaskPrioritySet(t, u, p)
    \/ \E t \in AllTasks : Continue(t)
    \/ IdleStep
    \/ Tick \/ TickSuspended \/ PendSV \/ Loops
    \/ SignalFromISR \/ \E u \in Victims : xTaskResumeFromISR(u)

Spec == Init /\ [][Next]_vars

\* The processor does what it does: interrupts are taken, ticks keep coming, and
\* the running task goes on with its call; the application calls xTaskResumeAll
\* in the end.
Fairness ==
    /\ SF_vars(PendSV) /\ WF_vars(Loops) /\ SF_vars(Tick)
    /\ \A t \in AllTasks : SF_vars(Continue(t))
    /\ SF_vars(IdleStep)

FairSpec == Spec /\ Fairness
-----------------------------------------------------------------------------
(* Properties. *)

TypeOK ==
    /\ ready \in [lists : [Priorities -> [items : Seq(AllTasks), idx : Nat]], top : SUBSET Priorities]
    /\ pxDelayedTaskList \in Seq(AllTasks) /\ pxOverflowDelayedTaskList \in Seq(AllTasks)
    /\ xSuspendedTaskList \subseteq AllTasks /\ xTasksWaitingTermination \subseteq Tasks
    /\ xPendingReadyList \in Seq(AllTasks) /\ xEventList \in Seq(AllTasks)
    /\ xItemValue \in [AllTasks -> 0..portMAX_DELAY]
    /\ uxPriority \in [AllTasks -> Priorities] /\ xEventValue \in [AllTasks -> Int]
    /\ xTickCount \in 0..portMAX_DELAY /\ xNextTaskUnblockTime \in 0..portMAX_DELAY
    /\ uxPendedTicks \in 0..PendedBound /\ uxSchedulerSuspended \in 0..NestingBound
    /\ xYieldPending \in BOOLEAN /\ pendSV \in BOOLEAN /\ xSwitchRequired \in BOOLEAN
    /\ pxCurrentTCB \in AllTasks
    /\ masked \in {"no", "tick", "resumeAll", "pendedTick"}
    /\ pc \in [AllTasks -> PCs]
    /\ xExpectedIdleTime \in 0..portMAX_DELAY
    /\ xPreviousWakeTime \in [Periodic -> 0..portMAX_DELAY]
    /\ due \in [AllTasks -> 0..portMAX_DELAY]
    /\ phase \in [Periodic -> -portMAX_DELAY..TickModulus]

ReadyAt(t) == {p \in Priorities : t \in ToSet(ready.lists[p].items)}

\* A task is in one list: the ready list of its own priority, a delayed list, the
\* suspended list or the list of tasks to free, and once in it.
EveryTaskInOneList ==
    /\ \A t \in AllTasks :
          /\ ReadyAt(t) \subseteq {uxPriority[t]}
          /\ Cardinality({l \in {"ready", "delayed", "overflow", "suspended", "terminating"} :
                \/ l = "ready" /\ ReadyAt(t) # {}
                \/ l = "delayed" /\ t \in ToSet(pxDelayedTaskList)
                \/ l = "overflow" /\ t \in ToSet(pxOverflowDelayedTaskList)
                \/ l = "suspended" /\ t \in xSuspendedTaskList
                \/ l = "terminating" /\ t \in xTasksWaitingTermination}) <= 1
    /\ \A p \in Priorities : NoDuplicates(ready.lists[p].items)
    /\ NoDuplicates(pxDelayedTaskList) /\ NoDuplicates(pxOverflowDelayedTaskList)

\* A task waits for an event, or is woken and waits for the scheduler, only while
\* it is blocked, and not both; no task is pending once the scheduler runs.
EventItemsAreOfBlockedTasks ==
    LET E == ToSet(xEventList)  P == ToSet(xPendingReadyList) IN
    /\ E \cap P = {} /\ NoDuplicates(xEventList) /\ NoDuplicates(xPendingReadyList)
    /\ E \cup P \subseteq Delayed \cup xSuspendedTaskList
    /\ xPendingReadyList # << >> => uxSchedulerSuspended > 0 \/ masked = "resumeAll"

\* Every task is where someone will find it, whatever its states were before: in one
\* list of the scheduler, and in the list of its event while it waits for it.
TasksAreListed == EveryTaskInOneList /\ EventItemsAreOfBlockedTasks

\* The bit of a priority is set exactly while a task of that priority is ready:
\* taskSELECT_HIGHEST_PRIORITY_TASK asserts one half, the other starves a task.
ReadyBitsAreExact == \A p \in Priorities : p \in ready.top <=> ready.lists[p].items # << >>

\* Whenever application code runs with the scheduler running, it is that of a
\* ready task of the highest priority: every operation that makes a task ready
\* or changes a priority asks for the context switch it calls for.
RunningIsHighest ==
    (/\ masked = "no" /\ ~pendSV /\ uxSchedulerSuspended = 0
     /\ pc[pxCurrentTCB] \notin {"yield", "resetSelf"})
    => /\ InReadyList(pxCurrentTCB)
       /\ \A p \in Priorities : ready.lists[p].items # << >> => p <= uxPriority[pxCurrentTCB]

\* A delay ends at its tick, neither before nor after, whichever list its wake
\* time put it in and however often the tick count wrapped.
WakesWhenDue ==
    \A t \in AllTasks :
        /\ due[t] > 0 => t \in Delayed
        /\ t \in Delayed => due[t] > 0 \/ masked \in {"tick", "pendedTick"}

\* xNextTaskUnblockTime is the wake time of the first delayed task, but for the
\* time between the two critical sections of vTaskSuspend: the tick looks at the
\* delayed list neither too late nor in vain.
UnblockTimeIsExact ==
    (masked = "no" /\ \A t \in AllTasks : pc[t] \notin {"resetSelf", "reset"})
    => xNextTaskUnblockTime = UnblockTime(pxDelayedTaskList)

\* A task in vTaskDelayUntil wakes a whole number of periods after it started,
\* and returns no earlier, across the wraps of the count and of its wake time.
PeriodIsKept ==
    \A t \in Periodic : IF t \in Delayed THEN due[t] = -phase[t] \/ due[t] = 0
                                          ELSE phase[t] >= 0

\* Delays and periods end at their ticks, across every wrap of the count, on its
\* own and when a sleep or a suspended scheduler makes several ticks one step.
DelaysAreExact == WakesWhenDue /\ PeriodIsKept

\* The processor sleeps only while no task but the idle one can run, and in the
\* kernel's time a sleep never goes past the wake of a delayed task, nor past the
\* wrap of the count (the configASSERT of vTaskStepTick).
SleepSkipsNoWake ==
    [][pc[Idle] = "idleSleep" /\ pc'[Idle] # "idleSleep" =>
          /\ \A t \in Tasks : ~InReadyList(t)
          /\ \A t \in Delayed : xTickCount' - xTickCount + uxPendedTicks' - uxPendedTicks <= due[t]
          /\ xTickCount' <= xNextTaskUnblockTime]_vars

\* The comments of the idle task: with the scheduler suspended the expected idle
\* time can be used.  A sleep ends, then, before any delay is overdue.
SleepEndsInTime ==
    [][pc[Idle] = "idleSleep" /\ pc'[Idle] # "idleSleep" =>
          \A t \in Delayed : xTickCount' - xTickCount + uxPendedTicks' <= due[t]]_vars

TopTasks == {t \in Tasks : \A u \in AllTasks \ {t} : uxPriority[u] < uxPriority[t]}

\* A delayed task of the highest priority runs again.
DelayEnds ==
    \A t \in Tasks : (t \in TopTasks /\ due[t] > 0) ~> (pxCurrentTCB = t /\ due[t] = 0)
=============================================================================
