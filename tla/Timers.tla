------------------------------- MODULE Timers -------------------------------
(***************************************************************************)
(* The software timers (timers.c): the daemon task, its command queue and  *)
(* its two lists of active timers, against the tick interrupt and the      *)
(* application's commands.                                                 *)
(*                                                                         *)
(* A tick or a command may come between two actions of the daemon, but for *)
(* ticks where the scheduler is suspended.  Times are modulo TickModulus;  *)
(* the lists are sorted within one turn of the tick count, and switch      *)
(* places when the daemon sees that it has wrapped.                        *)
(***************************************************************************)
EXTENDS KernelLists

CONSTANTS Timer,            \* created in advance
          Periods,
          Setups,           \* bound: how the timers are created and what is asked
          TickModulus,      \* ticks until the tick count wraps
          MaxLate,          \* bound: ticks by which the daemon is ever late
          QueueLength,      \* configTIMER_QUEUE_LENGTH
          MaxCommands,      \* bound: commands of the application in the queue
          NoTimer

Requests == {"start", "stop", "changePeriod", "delete", "setReloadMode"}

\* A lateness and a period together are less than a turn of the tick count.
ASSUME TimersAssumption ==
    /\ Periods \subseteq Nat \ {0} /\ MaxLate \in Nat
    /\ TickModulus \in Nat \ {0} /\ \A p \in Periods : p + MaxLate < TickModulus
    /\ QueueLength \in Nat \ {0} /\ MaxCommands \in 1..QueueLength
    /\ NoTimer \notin Timer
    /\ Setups \subseteq [period : [Timer -> Periods], autoReload : [Timer -> BOOLEAN],
                         asks : [Timer -> SUBSET Requests]]

Ticks == 0..TickModulus - 1

VARIABLES
    xTickCount, xLastTime,
    pxCurrentTimerList, pxOverflowTimerList,
    xTimerItemValue,        \* of each timer's list item, 0 in no list
    xTimerPeriodInTicks, ucStatus,
    xTimerQueue,
    daemonAt, xMessage, xTimeNow, xNextExpireTime,    \* the daemon's
    xDaemonWait,            \* of the blocked daemon
    sending,                \* the command of a call that waits for a place
    asks,                   \* of the setup
    asserted,               \* a configASSERT( xResult ) has stopped the program
    called,                 \* history: how often this step called each callback,
    hurried                 \*   and the application asked for a timer that had a message under way

lists  == <<pxCurrentTimerList, pxOverflowTimerList, xTimerItemValue>>
timers == <<xTimerPeriodInTicks, ucStatus, asks>>
daemon == <<daemonAt, xMessage, xTimeNow, xNextExpireTime, xDaemonWait>>
timersVars == <<xTickCount, xLastTime, lists, timers, xTimerQueue, daemon, sending, asserted, called, hurried>>

Forever == TickModulus + 1

Command(id, timer, value) == [id |-> id, timer |-> timer, value |-> value]
NoCommand == Command("none", NoTimer, 0)

\* A timer that is started; "reload" is tmrCOMMAND_START_DONT_TRACE.
Starts(m) == m.id \in {"start", "reload"}

Commands ==
    [id : {"start", "reload"}, timer : Timer, value : Ticks]
    \cup [id : {"stop", "delete"}, timer : Timer, value : {0}]
    \cup [id : {"changePeriod"}, timer : Timer, value : Periods]

Status == [active : BOOLEAN, autoReload : BOOLEAN]

NoneCalled == [t \in Timer |-> 0]

TimersInit ==
    /\ xTickCount = 0 /\ xLastTime = 0
    /\ pxCurrentTimerList = << >> /\ pxOverflowTimerList = << >>
    /\ xTimerItemValue = [t \in Timer |-> 0]
    /\ \E s \in Setups :
          /\ asks = s.asks
          /\ xTimerPeriodInTicks = s.period
          /\ ucStatus = [t \in Timer |-> [active |-> FALSE, autoReload |-> s.autoReload[t]]]
    /\ xTimerQueue = << >>
    /\ daemonAt = "loop" /\ xMessage = NoCommand /\ xTimeNow = 0 /\ xNextExpireTime = 0
    /\ xDaemonWait = 0 /\ sending = NoCommand
    /\ asserted = FALSE /\ called = NoneCalled /\ hurried = FALSE
-----------------------------------------------------------------------------
InList(t) == Contains(pxCurrentTimerList, t) \/ Contains(pxOverflowTimerList, t)

\* How long ago a time was.
Age(time) == (xTickCount - time) % TickModulus

Plus(time, ticks) == (time + ticks) % TickModulus

Calls(t) == called' = [NoneCalled EXCEPT ![t] = 1] /\ UNCHANGED hurried

CallsNothing == called' = NoneCalled /\ UNCHANGED hurried

\* A failed assertion stops the program.
Runs == ~asserted

\* xTimerGenericCommand from the daemon: no block time, and configASSERT( xResult ).
Reload(t, time) ==
    IF Len(xTimerQueue) < QueueLength
    THEN xTimerQueue' = Append(xTimerQueue, Command("reload", t, time)) /\ UNCHANGED asserted
    ELSE asserted' = TRUE /\ UNCHANGED xTimerQueue

\* Mutant: an expiry before the tick count wrapped is not seen.
HasExpiredThisTurn(t, expiry, now, time) ==
    expiry <= now /\ (now - time) % TickModulus >= xTimerPeriodInTicks[t]

\* prvInsertTimerInActiveList returns TRUE, for a timer that has expired before
\* it is inserted ...
HasExpired(t, expiry, now, time) ==
    IF expiry <= now
    THEN (now - time) % TickModulus >= xTimerPeriodInTicks[t]
    ELSE now < time /\ expiry >= time

\* ... or puts it in a list; it has been removed from the current one.
Insert(current, t, expiry, now) ==
    LET value == [xTimerItemValue EXCEPT ![t] = expiry]
    IN  /\ xTimerItemValue' = value
        /\ IF expiry <= now
           THEN /\ pxOverflowTimerList' = vListInsert(pxOverflowTimerList, t, value)
                /\ pxCurrentTimerList' = current
           ELSE /\ pxCurrentTimerList' = vListInsert(current, t, value)
                /\ UNCHANGED pxOverflowTimerList

\* A blocked daemon is woken by a message.
Post(message) ==
    /\ xTimerQueue' = Append(xTimerQueue, message)
    /\ IF daemonAt = "blocked"
       THEN daemonAt' = "commands" /\ xDaemonWait' = 0
       ELSE UNCHANGED <<daemonAt, xDaemonWait>>
    /\ UNCHANGED <<xMessage, xTimeNow, xNextExpireTime>>
-----------------------------------------------------------------------------
(* The daemon: prvTimerTask. *)

\* prvGetNextExpireTime and prvProcessTimerOrBlockTask up to xTaskResumeAll; the
\* lists are the daemon's own.
NextExpireTime ==
    IF pxCurrentTimerList = << >> THEN 0 ELSE xTimerItemValue[Head(pxCurrentTimerList)]

Wrapped == xTickCount < xLastTime

\* Mutant: a timer is due after its time only.
DueLater == pxCurrentTimerList # << >> /\ NextExpireTime < xTickCount

Due == pxCurrentTimerList # << >> /\ NextExpireTime <= xTickCount

SwitchesFirst ==
    /\ Runs /\ daemonAt = "loop" /\ Wrapped
    /\ daemonAt' = "switch"
    /\ xTimeNow' = xTickCount
    /\ CallsNothing
    /\ UNCHANGED <<xTickCount, xLastTime, lists, timers, xTimerQueue, xMessage, xNextExpireTime,
                   xDaemonWait, sending, asserted>>

FindsExpired ==
    /\ Runs /\ daemonAt = "loop" /\ ~Wrapped /\ Due
    /\ daemonAt' = "expired"
    /\ xTimeNow' = xTickCount /\ xLastTime' = xTickCount
    /\ xNextExpireTime' = NextExpireTime
    /\ CallsNothing
    /\ UNCHANGED <<xTickCount, lists, timers, xTimerQueue, xMessage, xDaemonWait, sending, asserted>>

\* Mutant: the wait does not end at the wrap.
WaitsForCurrent ==
    IF pxCurrentTimerList = << >> THEN Forever ELSE NextExpireTime - xTickCount

\* With timers in the overflow list only, until the wrap.
WaitsFor ==
    IF pxCurrentTimerList = << >> /\ pxOverflowTimerList = << >>
    THEN Forever
    ELSE (NextExpireTime - xTickCount) % TickModulus

\* vQueueWaitForMessageRestricted does not block when there is a message.
Blocks ==
    /\ Runs /\ daemonAt = "loop" /\ ~Wrapped /\ ~Due
    /\ xLastTime' = xTickCount
    /\ IF xTimerQueue # << >>
       THEN daemonAt' = "commands" /\ UNCHANGED xDaemonWait
       ELSE daemonAt' = "blocked" /\ xDaemonWait' = WaitsFor
    /\ CallsNothing
    /\ UNCHANGED <<xTickCount, lists, timers, xTimerQueue, xMessage, xTimeNow, xNextExpireTime,
                   sending, asserted>>

\* Mutant: the timer is left in the list.
LeaveHead == UNCHANGED <<xTimerItemValue, pxCurrentTimerList>>

RemoveHead ==
    /\ xTimerItemValue' = [xTimerItemValue EXCEPT ![Head(pxCurrentTimerList)] = 0]
    /\ pxCurrentTimerList' = Tail(pxCurrentTimerList)

\* prvProcessExpiredTimer, with a time that may have passed by now.
prvProcessExpiredTimer ==
    LET t      == Head(pxCurrentTimerList)
        expiry == Plus(xNextExpireTime, xTimerPeriodInTicks[t])
    IN  /\ Runs /\ daemonAt = "expired"
        /\ daemonAt' = "commands" /\ xTimeNow' = 0 /\ xNextExpireTime' = 0
        /\ Calls(t)
        /\ \/ /\ ~ucStatus[t].autoReload
              /\ ucStatus' = [ucStatus EXCEPT ![t].active = FALSE]
              /\ RemoveHead
              /\ UNCHANGED <<pxOverflowTimerList, xTimerQueue, asserted>>
           \/ /\ ucStatus[t].autoReload /\ HasExpired(t, expiry, xTimeNow, xNextExpireTime)
              /\ RemoveHead
              /\ Reload(t, xNextExpireTime)
              /\ UNCHANGED <<pxOverflowTimerList, ucStatus>>
           \/ /\ ucStatus[t].autoReload /\ ~HasExpired(t, expiry, xTimeNow, xNextExpireTime)
              /\ Insert(Tail(pxCurrentTimerList), t, expiry, xTimeNow)
              /\ UNCHANGED <<ucStatus, xTimerQueue, asserted>>
        /\ UNCHANGED <<xTickCount, xLastTime, xTimerPeriodInTicks, asks, xMessage, xDaemonWait, sending>>

\* prvSwitchTimerLists: the timers left in the list have expired before the wrap.
SwitchOne ==
    LET t      == Head(pxCurrentTimerList)
        next   == xTimerItemValue[t]
        reload == Plus(next, xTimerPeriodInTicks[t])
    IN  /\ Runs /\ daemonAt = "switch" /\ pxCurrentTimerList # << >>
        /\ Calls(t)
        /\ \/ /\ ~ucStatus[t].autoReload
              /\ RemoveHead
              /\ UNCHANGED <<xTimerQueue, asserted>>
           \/ /\ ucStatus[t].autoReload /\ reload > next
              /\ xTimerItemValue' = [xTimerItemValue EXCEPT ![t] = reload]
              /\ pxCurrentTimerList' = vListInsert(Tail(pxCurrentTimerList), t, xTimerItemValue')
              /\ UNCHANGED <<xTimerQueue, asserted>>
           \/ /\ ucStatus[t].autoReload /\ reload <= next
              /\ RemoveHead
              /\ Reload(t, next)
        /\ UNCHANGED <<xTickCount, xLastTime, pxOverflowTimerList, timers, daemon, sending>>

\* The end of prvSwitchTimerLists and of prvSampleTimeNow.
SwitchLists ==
    /\ Runs /\ daemonAt = "switch" /\ pxCurrentTimerList = << >>
    /\ pxCurrentTimerList' = pxOverflowTimerList
    /\ pxOverflowTimerList' = pxCurrentTimerList
    /\ xLastTime' = xTimeNow
    /\ IF xMessage = NoCommand
       THEN daemonAt' = "commands" /\ xTimeNow' = 0
       ELSE daemonAt' = "handle" /\ UNCHANGED xTimeNow
    /\ CallsNothing
    /\ UNCHANGED <<xTickCount, xTimerItemValue, timers, xTimerQueue, xMessage, xNextExpireTime,
                   xDaemonWait, sending, asserted>>
-----------------------------------------------------------------------------
(* prvProcessReceivedCommands. *)

QueueIsEmpty ==
    /\ Runs /\ daemonAt = "commands" /\ xTimerQueue = << >>
    /\ daemonAt' = "loop"
    /\ CallsNothing
    /\ UNCHANGED <<xTickCount, xLastTime, lists, timers, xTimerQueue, xMessage, xTimeNow,
                   xNextExpireTime, xDaemonWait, sending, asserted>>

\* Mutant: the timer stays in its list while the command is processed.
LeftIn(list) == list

TakenOut(list) ==
    IF Contains(list, xMessage'.timer) THEN uxListRemove(list, xMessage'.timer) ELSE list

\* The timer is taken out of its list before the time is sampled.
ReceivesCommand ==
    /\ Runs /\ daemonAt = "commands" /\ xTimerQueue # << >>
    /\ daemonAt' = "sample"
    /\ xMessage' = Head(xTimerQueue) /\ xTimerQueue' = Tail(xTimerQueue)
    /\ pxCurrentTimerList' = TakenOut(pxCurrentTimerList)
    /\ pxOverflowTimerList' = TakenOut(pxOverflowTimerList)
    /\ xTimerItemValue' = [xTimerItemValue EXCEPT ![xMessage'.timer] = 0]
    /\ CallsNothing
    /\ UNCHANGED <<xTickCount, xLastTime, timers, xTimeNow, xNextExpireTime, xDaemonWait, sending,
                   asserted>>

SamplesTime ==
    /\ Runs /\ daemonAt = "sample"
    /\ xTimeNow' = xTickCount
    /\ IF Wrapped
       THEN daemonAt' = "switch" /\ UNCHANGED xLastTime
       ELSE daemonAt' = "handle" /\ xLastTime' = xTickCount
    /\ CallsNothing
    /\ UNCHANGED <<xTickCount, lists, timers, xTimerQueue, xMessage, xNextExpireTime, xDaemonWait,
                   sending, asserted>>

Handles(ids) ==
    /\ Runs /\ daemonAt = "handle" /\ xMessage.id \in ids
    /\ daemonAt' = "commands" /\ xMessage' = NoCommand /\ xTimeNow' = 0
    /\ UNCHANGED <<xTickCount, xLastTime, asks, xNextExpireTime, xDaemonWait, sending>>

SetStatus(t, active) == ucStatus' = [ucStatus EXCEPT ![t].active = active]

StartsTimer ==
    LET t      == xMessage.timer
        expiry == Plus(xMessage.value, xTimerPeriodInTicks[t])
    IN  /\ Handles({"start", "reload"})
        /\ SetStatus(t, TRUE)
        /\ IF HasExpired(t, expiry, xTimeNow, xMessage.value)
           THEN /\ Calls(t)
                /\ IF ucStatus[t].autoReload
                   THEN Reload(t, expiry)
                   ELSE UNCHANGED <<xTimerQueue, asserted>>
                /\ UNCHANGED lists
           ELSE /\ Insert(pxCurrentTimerList, t, expiry, xTimeNow)
                /\ CallsNothing
                /\ UNCHANGED <<xTimerQueue, asserted>>
        /\ UNCHANGED xTimerPeriodInTicks

StopsTimer ==
    /\ Handles({"stop"})
    /\ SetStatus(xMessage.timer, FALSE)
    /\ CallsNothing
    /\ UNCHANGED <<lists, xTimerPeriodInTicks, xTimerQueue, asserted>>

ChangesPeriod ==
    LET t == xMessage.timer
    IN  /\ Handles({"changePeriod"})
        /\ SetStatus(t, TRUE)
        /\ xTimerPeriodInTicks' = [xTimerPeriodInTicks EXCEPT ![t] = xMessage.value]
        /\ Insert(pxCurrentTimerList, t, Plus(xTimeNow, xMessage.value), xTimeNow)
        /\ CallsNothing
        /\ UNCHANGED <<xTimerQueue, asserted>>

\* The timer is allocated statically, and is not freed.
DeletesTimer ==
    /\ Handles({"delete"})
    /\ SetStatus(xMessage.timer, FALSE)
    /\ CallsNothing
    /\ UNCHANGED <<lists, xTimerPeriodInTicks, xTimerQueue, asserted>>

Daemon ==
    \/ SwitchesFirst \/ FindsExpired \/ Blocks \/ prvProcessExpiredTimer
    \/ SwitchOne \/ SwitchLists
    \/ QueueIsEmpty \/ ReceivesCommand \/ SamplesTime
    \/ StartsTimer \/ StopsTimer \/ ChangesPeriod \/ DeletesTimer
-----------------------------------------------------------------------------
(* The application and the tick. *)

InQueue(t) == \E i \in DOMAIN xTimerQueue : xTimerQueue[i].timer = t

Outstanding ==
    Cardinality({i \in DOMAIN xTimerQueue : xTimerQueue[i].id # "reload"})
    + IF sending = NoCommand THEN 0 ELSE 1

\* A start carries the time of the call.
MayAsk(m) ==
    /\ m.id # "reload" /\ m.id \in asks[m.timer]
    /\ m.id = "start" => m.value = xTickCount

UnderWay(t) == InQueue(t) \/ xMessage.timer = t

xTimerGenericCommand(m) ==
    /\ Runs /\ sending = NoCommand /\ Outstanding < MaxCommands
    /\ MayAsk(m)
    /\ sending' = m
    /\ hurried' = (hurried \/ UnderWay(m.timer)) /\ called' = NoneCalled
    /\ UNCHANGED <<xTickCount, xLastTime, lists, timers, xTimerQueue, daemon, asserted>>

\* xQueueSendToBack may have waited for a place; a call that found none in its time
\* has changed nothing.
Sent ==
    /\ Runs /\ sending # NoCommand /\ Len(xTimerQueue) < QueueLength
    /\ Post(sending)
    /\ sending' = NoCommand
    /\ CallsNothing
    /\ UNCHANGED <<xTickCount, xLastTime, lists, timers, asserted>>

vTimerSetReloadMode(t) ==
    /\ Runs /\ "setReloadMode" \in asks[t]
    /\ ucStatus' = [ucStatus EXCEPT ![t].autoReload = ~@]
    /\ CallsNothing
    /\ UNCHANGED <<xTickCount, xLastTime, lists, xTimerPeriodInTicks, asks, xTimerQueue, daemon,
                   sending, asserted>>

\* When a timer that a message starts expires, from now.
FromStart(m) == xTimerPeriodInTicks[m.timer] - Age(m.value)

Reloads(t) == {i \in DOMAIN xTimerQueue : xTimerQueue[i].id = "reload" /\ xTimerQueue[i].timer = t}

LastReload(t) == CHOOSE k \in Reloads(t) : \A j \in Reloads(t) : j <= k

\* The current list is of the turn before that of xTickCount: the count has wrapped, or
\* the daemon has seen that and is about to switch the lists.
TurnIsOver == daemonAt = "switch" \/ Wrapped

\* When the timer expires, from now, or Forever.
Deadline(t) ==
    CASE xMessage.timer = t /\ Starts(xMessage) -> FromStart(xMessage)
      [] xMessage.timer = t /\ xMessage.id = "changePeriod" /\ daemonAt = "handle"
            -> xMessage.value - Age(xTimeNow)
      [] Contains(pxCurrentTimerList, t)
            -> xTimerItemValue[t] - xTickCount - IF TurnIsOver THEN TickModulus ELSE 0
      [] Contains(pxOverflowTimerList, t)
            -> xTimerItemValue[t] - xTickCount + IF TurnIsOver THEN 0 ELSE TickModulus
      [] ~InList(t) /\ xMessage.timer # t /\ Reloads(t) # {}
            -> FromStart(xTimerQueue[LastReload(t)])
      [] OTHER -> Forever

\* The bound on lateness: of the daemon, also within a command, and of a call that
\* sends a start.
WithinBound ==
    /\ \A t \in Timer : Deadline(t) > -MaxLate
    /\ daemonAt \in {"switch", "handle", "expired"} => Age(xTimeNow) < MaxLate
    /\ \A m \in Range(xTimerQueue) \cup {sending} : Starts(m) => FromStart(m) > -MaxLate

\* No tick is counted while the scheduler is suspended.
xTaskIncrementTick ==
    /\ Runs /\ WithinBound
    /\ ~(daemonAt = "switch" /\ xMessage = NoCommand)
    /\ xTickCount' = Plus(xTickCount, 1)
    /\ CASE daemonAt # "blocked" \/ xDaemonWait = Forever -> UNCHANGED <<daemonAt, xDaemonWait>>
         [] daemonAt = "blocked" /\ xDaemonWait <= 1 -> daemonAt' = "commands" /\ xDaemonWait' = 0
         [] OTHER -> UNCHANGED daemonAt /\ xDaemonWait' = xDaemonWait - 1
    /\ CallsNothing
    /\ UNCHANGED <<xLastTime, lists, timers, xTimerQueue, xMessage, xTimeNow, xNextExpireTime,
                   sending, asserted>>

Stopped == asserted /\ UNCHANGED timersVars

TimersNext ==
    \/ Daemon
    \/ \E m \in Commands : xTimerGenericCommand(m)
    \/ Sent
    \/ \E t \in Timer : vTimerSetReloadMode(t)
    \/ xTaskIncrementTick
    \/ Stopped

TimersSpec == TimersInit /\ [][TimersNext]_timersVars /\ WF_timersVars(Daemon)
-----------------------------------------------------------------------------
(* Properties. *)

TimersTypeOK ==
    /\ xTickCount \in Ticks /\ xLastTime \in Ticks
    /\ pxCurrentTimerList \in Seq(Timer) /\ pxOverflowTimerList \in Seq(Timer)
    /\ xTimerItemValue \in [Timer -> Ticks] /\ xTimerPeriodInTicks \in [Timer -> Periods]
    /\ ucStatus \in [Timer -> Status] /\ asks \in [Timer -> SUBSET Requests]
    /\ xTimerQueue \in Seq(Commands) /\ Len(xTimerQueue) <= QueueLength
    /\ daemonAt \in {"loop", "expired", "switch", "commands", "sample", "handle", "blocked"}
    /\ xMessage \in Commands \cup {NoCommand} /\ sending \in Commands \cup {NoCommand}
    /\ xTimeNow \in Ticks /\ xNextExpireTime \in Ticks /\ xDaemonWait \in 0..Forever
    /\ called \in [Timer -> 0..1] /\ asserted \in BOOLEAN /\ hurried \in BOOLEAN

TakesCommandFor(t) == daemonAt' = "sample" /\ daemonAt # "sample" /\ xMessage'.timer = t

\* A callback is called when its timer is due and never before; an auto-reload
\* timer is due again one period after it was due, however late the daemon is, and
\* whatever the turn of the tick count; no deadline moves but by a command; until an
\* assertion stops the program.
ExpiresWhenDue ==
    [][ ~asserted' => \A t \in Timer :
           /\ called'[t] > 0 => Deadline(t) <= 0
           /\ Deadline(t) # Forever /\ ~TakesCommandFor(t) =>
                 CASE called'[t] = 0 ->
                         Deadline(t)' = Deadline(t) - ((xTickCount' - xTickCount) % TickModulus)
                   [] called'[t] > 0 /\ ucStatus[t].autoReload ->
                         Deadline(t)' = Deadline(t) + xTimerPeriodInTicks[t]
                   [] OTHER -> Reloads(t) # {} \/ Deadline(t)' = Forever ]_timersVars

\* A blocked daemon wakes for every timer: its wait is over before the timer is
\* due, also where that is after a wrap of the tick count; and for every message.
WakesInTime ==
    daemonAt = "blocked" =>
        /\ xTimerQueue = << >>
        /\ \A t \in Timer : xDaemonWait <= Deadline(t)

\* The daemon's configASSERT( xResult ): there is a place for its own command, unless
\* the application has asked for a timer while a message for it was under way.
ReloadsAreSent == asserted => hurried

\* A timer that is due is called, or its deadline is moved by a command, unless
\* commands come so fast that the daemon never empties its queue.
DueTimersExpire ==
    []<>(daemonAt = "loop") =>
        \A t \in Timer : Deadline(t) <= 0 ~> called[t] > 0 \/ Deadline(t) > 0

\* A stopped timer is started by the application only, not by a reload.
StopIsKept ==
    [][ daemonAt = "handle" /\ xMessage.id = "reload" /\ daemonAt' # "handle"
            => ucStatus[xMessage.timer].active ]_timersVars
=============================================================================
