# FreeRTOS kernel, Wire library and MQTT agent: models, checks and proofs

This directory verifies parts of the repository: the FreeRTOS kernel (V10.2.0, as
shipped with Amazon FreeRTOS 1.4.8 for the TI CC3220SF), its MQTT client, and the
Arduino Wire library that the repository reimplements on the Common IO I2C layer. It holds
TLA+ modules, TLC configurations and TLAPS proofs. All source paths below are
relative to the repository; `tasks.c`, `queue.c` and `list.c` are in
`src/lib/FreeRTOS/`, as are `stream_buffer.c`, `timers.c` and `event_groups.c`;
`aws_mqtt_agent.c` and `aws_mqtt_lib.c` are in `src/lib/mqtt/`;
`FreeRTOS_POSIX_pthread_barrier.c` is in `src/lib/FreeRTOS-Plus-POSIX/source/`, and `Wire.cpp` and `iot_i2c.c` are in
`src/demos/ti/cc3220_launchpad/common/application_code/`.

To check a module: `tlc -config QueueCounting.cfg MCQueue.tla`; to check the
proofs: `tlapm M.tla` for each of `KernelLists_proofs`, `Queue_proofs`, `Scheduler_proofs`, `Mutex_proofs`,
`EventsAndTimers_proofs`, `Wire_proofs`, `StreamBuffer_proofs` and `MqttAgent_proofs`.

The configuration modelled is that of the demo's `FreeRTOSConfig.h`: preemption
without time slicing, tickless idle (expected idle time 5), the idle task yields
to tasks of its priority, mutexes, recursive mutexes and counting semaphores,
optimised task selection (a bit for each ready list), 10 priorities, 32-bit tick
counts, software timers, no queue sets, no co-routines, `configASSERT` defined.

## 1. The system

| Component | State it keeps | Operations | Talks to |
|---|---|---|---|
| Kernel lists (`list.c`, the `list.h` macros) | sorted doubly linked lists with a walking index | sorted insert, insert before the index, remove, next owner | every kernel object |
| Scheduler (`tasks.c`) | ready lists and their bits, two delayed lists, suspended list, pending ready list, list of deleted tasks, tick count, next unblock time, suspension depth, pended ticks and yields, running task | create, delete, delay, delay until, suspend and resume (also from an interrupt), priority set, event waits and wakes, suspend and resume of the scheduler, tick, context switch, tickless sleep | queues and all blocking calls; the port |
| Queues and semaphores (`queue.c`) | a ring with two pointers and a count, two event lists sorted by priority, two lock counts | send to back or front, overwrite, receive, peek, reset; the forms for interrupts | scheduler (block, wake, time out) |
| Mutexes (`queue.c`, `tasks.c`) | holder, recursion count, each task's base priority and number of mutexes held | take, give, recursive take and give, inheritance and its end by give or by timeout | scheduler (ready lists, priorities) |
| Cortex-M3 port | the timer, the pended switch, the interrupt mask | SysTick, PendSV, `vPortSuppressTicksAndSleep` | scheduler |
| Wire library (`Wire.cpp`, `iot_i2c.c`) | read and write buffer, an error that stays, a binary semaphore, the descriptor with its one transaction | begin, end, beginTransmission, write, endTransmission, requestFrom, read, setClock, the slave calls | heap, one semaphore, the vendor's I2C driver and its completion interrupt |
| Sensor drivers (TMP006, BMP280, BMI160) | calibration data | reads and writes of registers | Wire |
| Task notifications (`tasks.c`) | a value and a state in each task | notify, wait, clear | scheduler |
| Stream and message buffers (`stream_buffer.c`) | a ring of bytes with a head and a tail, a trigger level, the task that waits to read and the one that waits to write | send, receive, their interrupt forms, next message length, reset, trigger level | notifications, for one reader and one writer |
| Software timers (`timers.c`) | a command queue, two lists of active timers by expiry time, which change places at the wrap of the tick count | start, stop, reset, change period, delete, from tasks, interrupts and callbacks; the daemon | queues, scheduler |
| Event groups (`event_groups.c`) | bits, and a list of tasks whose item says what they wait for | wait, sync, set, clear, delete | scheduler |
| Heap (`heap_4.c`) | address-ordered free list | malloc, free, with coalescing | scheduler suspension |
| POSIX layer | condition variables, barriers, semaphores, message queues over kernel objects | for a barrier: a counting semaphore, a mutex, a count and an event group | queues, event groups |
| MQTT agent (`aws_mqtt_agent.c`) | a command queue, a counter of identifiers, a socket, a slot for each caller that waits for an answer | connect, disconnect, subscribe, unsubscribe, publish; the events of the core library | queue, notifications, sockets, MQTT core |
| MQTT core (`aws_mqtt_lib.c`), buffer pool | connection state, requests that wait for their answer, the packet that comes in, subscriptions; which buffers are free | the requests, what was received, timeouts | agent (as callbacks), buffer pool |
| Logging task, hello-world demo | one queue; one message buffer | | queues, stream buffers |
| Network, Wi-Fi, PKCS#11 ports; vendored SDK, mbedTLS, board files | | | hardware |

**What is hard here.** Interrupts come between any two critical sections, and
on this processor also while the scheduler is suspended, when what they ready
goes to a pending list. A blocking call of a queue is a loop of seven critical
sections, so what a call saw of the queue is old by the time it acts on it. The
tick count wraps. The scheduler caches the next unblock time and the
set of ready priorities, in eight or more places that must agree. Priority
inheritance moves tasks between lists from four functions, one of them after
a timeout. The Wire library waits for an interrupt that may come after the wait
is over, with a buffer that it frees. A stream buffer is read and written without a
lock, each side moving its own end. The timer daemon decides from a sample of the tick
count that is old when it acts, and sends commands to itself. A task that waits for bits
goes on after others have changed them, and a barrier's next round begins before
the threads of the last have left. A caller of the MQTT agent waits without a timeout for one
notification, of an answer that may be late, refused, dropped for want of a buffer, or cut off by a
disconnection. `PROJECT.json` lists each hazard at its line,
with the property that would show it going wrong, or the reason none does yet.

**What makes each part correct.** Queue: a bounded FIFO to its users, with no
wakeup lost and no task left out of the list it waits in. Scheduler: every task
in one list, the highest ready one runs, delays end on their tick across every
wrap, sleep passes no wake. Mutex: one holder, whose priority is that of its
highest waiter and comes back; an inversion ends. Wire: the bytes queued go out
once and in order and the bytes received are read in order, until a transfer outlives its wait; no call but
the next transfer takes the buffer of a transfer away, and what else can go wrong has that one cause, or a caller that did not heed a short count. Stream buffer: what is received
is what was sent, whole and in order, and no side waits for what is there. Timers: a
callback is called when its timer is due, in the order and at the distance of its period
across every wrap, never before, and in the end. Event group: nobody waits for bits that are
set, and a bit that is cleared was given to a waiter. Barrier: threads leave together, as
many as it counts, one of them told so, and whoever waits gets through. MQTT agent: a call that
waits is never forgotten and returns, is told of success only when its own request had it, and no buffer is lost on any way out, nor a
socket on any but one; a granted subscription stays.

## 2. The modules

| Module | Models | Size |
|---|---|---|
| `KernelLists` | `list.c` as operators on sequences; the ready lists with their bits | helpers used by three modules |
| `BoundedFifo` | what a queue promises: a bounded FIFO that is also pushed at the front, peeked, overwritten and cleared | abstract |
| `Queue` | one queue or counting semaphore, its tasks and its interrupts | implements `BoundedFifo` |
| `Scheduler` | tasks, lists, time, interrupts, idle task and sleep | |
| `Mutex` | mutexes and priority inheritance with the ready lists | |
| `I2CMaster` | what Wire promises its caller | abstract |
| `Wire` | the Wire library, the I2C layer below it, and the vendor's driver (external) | implements `I2CMaster` |
| `Channel` | what a stream or message buffer promises: bytes or messages arrive once, whole and in order | abstract |
| `StreamBuffer` | a stream or message buffer, its writer, its reader and their notifications | implements `Channel` |
| `Timers` | the timer daemon, its command queue, its timers and who commands them | |
| `EventGroup` | an event group, and tasks that use it in every way | extended by `PthreadBarrier` |
| `Barrier` | what a barrier promises: rounds of a fixed number of threads | abstract |
| `PthreadBarrier` | `pthread_barrier_wait` over `EventGroup` | implements `Barrier` |
| `MqttCore` | the context of one client in the MQTT core library, and the count of free buffers | extended by `MqttAgent` |
| `MqttAgent` | the agent's task, its callers, and the broker as it is seen at the socket | |
| `MCQueue`, `MCScheduler`, `MCMutex`, `MCWire`, `MCStreamBuffer`, `MCTimers`, `MCBarrier`, `MCMqttAgent` | instances for TLC | |
| `KernelLists_proofs` | lemmas about sorted insertion, removal and the ready lists | extended by four of the next seven |
| `Queue_proofs`, `Scheduler_proofs`, `Mutex_proofs`, `EventsAndTimers_proofs`, `Wire_proofs`, `StreamBuffer_proofs`, `MqttAgent_proofs` | lemmas and theorems, each about the module of its name; `EventsAndTimers_proofs` about `EventGroup`, `PthreadBarrier` and `Timers` | |

`Queue`, `Scheduler` and `Mutex` extend `KernelLists`, so that the same sorted
insertion is the event list of a queue, the delayed list of the scheduler and the
list of the tasks waiting for a mutex. Definitions that appear in a module as a
variant of another and are not used by its `Next` (`CountInUnasked`,
`InsertDelayedForgetsNext`, `HeldUnlessInherited` and the like) are mutations:
`PROJECT.json` puts each in the place of its original to show that a property
notices.

### Queue

The variables have the code's names. `pcWriteTo` and `pcReadFrom` are slot
numbers, the two event lists are sequences of tasks, `cRxLock` and `cTxLock`
are -1 when unlocked and wrap at `INT8_MAX`. `xSuspender` is the task that
suspended the scheduler, `blocked` the tasks in no ready list, `xTicksToWait` the
kind of block time, with "elapsed" for one that is over.

An action is one critical section, or one step taken with the scheduler
suspended. A call goes `try` → `suspend` → `lock` → `check` → `place` →
`unlockTx` → `unlockRx` → `resume` → `recheck` and back to `try`, or leaves early
as the code does:

| Actions | Code |
|---|---|
| `TrySend`, `TryReceive`, `TryPeek`, `TryFails` | the first critical section of `xQueueGenericSend`, `xQueueReceive`, `xQueueSemaphoreTake`, `xQueuePeek`, with the wake of a waiting task |
| `vTaskSuspendAll`, `prvLockQueue`, `CheckForTimeOut`, `Place`, `UnlockTx`, `UnlockRx`, `xTaskResumeAll`, `Recheck` | the rest of the loop; `prvUnlockQueue` is two critical sections |
| `Reset` | `xQueueGenericReset` |
| `SendFromISR`, `ReceiveFromISR` | the interrupt forms, which count in the lock if the queue is locked; their outcomes on a queue in any state |
| `Elapse`, `TickWakes` | the tick, as one call sees it: its block time passes; its wait is ended |

A task runs (`Runs`) when it is ready, no other has suspended the scheduler, and no ready
task has a higher priority.

### Scheduler

One action for each critical section. Loops that run with interrupts masked (the wake
loop of `xTaskIncrementTick`, the two loops of `xTaskResumeAll`) take one
action for each turn while `masked` excludes all else; `pendSV` is a requested switch,
which happens before the running task goes on. Kernel objects are one event list, on
which tasks wait and which tasks and interrupts signal. `due` and `phase`
are history variables: they count ticks without wrapping, to state when a
delay should end. The idle task's loop is modelled from the reclaiming of deleted tasks
to the sleep; `Sleep` is the three ways `vPortSuppressTicksAndSleep` ends.

### Mutex

What a call does from `vTaskSuspendAll` to `xTaskResumeAll` is one action, because
interrupts may not use a mutex and no other task runs; every other critical section
is its own action. Ready lists and their bits are kept in full, since inheritance moves
tasks between them. `DelayEnds` and `WaitEnds` are what a tick does here.

### Wire

A call that transfers is two actions, the start and the end of its wait (`Transmits`, then `Transmitted` or
`NotTransmitted`; `Requests`, then `Received` or `NotReceived`), and `Complete`, the completion interrupt, comes at any point, before,
between or after them: the wait may end first. Nothing that may go wrong is excluded: a device does not acknowledge, a transfer lasts
longer than the second it is waited for, the heap is exhausted, `begin()` is called again, the application asks to be a slave, `write()` is called
on a full buffer. Memory is a set of blocks with their contents, so that a freed block under a transfer shows. The
driver is external: it copies the transaction when a transfer starts, lets later ones wait, and refuses a second open, as its header says.

`write` stores what there is room for and returns a count one too small when that fills the buffer (`Count`). Where the program leaves what C defines the
model stops in a place named for it (`Undefined`): `overrun`, a byte stored past the full buffer; `noMemory`, a byte stored through NULL; `noDescriptor`,
an interrupt that finds no descriptor with the driver's handle; `freedBlock`, a transfer that filled a block no longer its own. Nothing is assumed of what
follows. Three history variables say what led there: `told`, the last write into this buffer was told a short count; `outlived`, some wait has ended with
its transfer in progress; `stale`, the last call that transfers began with one in progress or with the semaphore given. `I2CMaster` is held to until
`outlived` or one of the four (`Lost`).

### StreamBuffer

`pucBuffer` is a ring of cells; a cell holds a byte or the length of a message, whose four bytes
are one cell. `setting`, chosen at the start, says whether it holds messages, whether each
side is a task or an interrupt, and which of two tasks is of higher priority: the higher goes on
whenever it is not blocked, the lower only when the other is out of its call or blocked, and
an interrupt at any step. A send is the look for space, the wait, the write of the length,
the write of the bytes, and the notification, each a step; a receive likewise. A wait has two
steps: in the critical section the state of the notification is cleared and the task enters
itself, then `xTaskNotifyWait` blocks it if it was not notified in between. `Careless`
says whether the reader looks at lengths while the writer may come between.

### Timers

One action for each critical section of the daemon: `sample` the time, look at the head of
the list, process what is due, take commands, wait. A callback is called inside its step and
`called` records it. Commands wait in `xTimerQueue` with the tick count at which they were
given. `asks` says what the application asks of each timer, `Setups` which timers there are; it may ask at any time, also while earlier messages
for the timer are under way, of which `hurried` keeps the record. Where a message of the daemon's own finds no place, an assertion fails (`asserted`) and the program stops.
`Deadline(t)` is a function of the state: the ticks from now to the expiry that was asked for, counted
without wrap, to which the properties compare what the daemon does. It looks for the timer in the lists, or in the command
that will put it there; a timer in the current list is of the turn before (`TurnIsOver`) from the wrap of the count until the daemon has
switched the lists. The tick may be `MaxLate` ahead of a due timer before the daemon must have run.
Where other modules say `Init`, `Next`, `pc` or `xItemValue`, this one says `TimersInit`, `TimersNext`, `daemonAt` and `xTimerItemValue`,
so that one module can extend it and `PthreadBarrier` and hold the proofs about both.

### EventGroup and PthreadBarrier

Setting bits and deciding to wait happen with the scheduler suspended or in a critical
section, so each is one action; what a task does after it has waited (`Resumes`) is
another, and anything may come between. `xItemValue` is the event list item that carries a
task's wait to whoever sets bits, and the bits back. A barrier's thread goes `outside` → `take`
→ `lock` → `increment` → `number` → `meet` → `met` and, if it is the first, → `reset` →
`give`; each arrow is one kernel call. In a behaviour the group belongs to a barrier or to tasks that
use it directly (`user`).

### MqttCore and MqttAgent

The agent's task is the only one that touches the core library, so a function of the library is an action,
and what the agent does with the event the library calls it back for is conjoined to it: `Granted` with the notification of
`GrantRead`, `prvResetMQTTContext` with the closing of the socket in `MQTT_Disconnect`, `BreakRead` and `Periodic`. The agent goes
`receive` (a command, or none in time) → `read` (any number of packets, or parts of them, from one read; a failing read
disconnects) → `receive`, through `Periodic`, which is the timeouts. Callers come between any two steps: `Call` takes an identifier
and clears the notification, `Send` waits for a place in the queue, `NotifyWait` for the notification.

A packet is its operation, its identifier and its topic. `atBroker` has the requests that were sent and not answered; the answer
to any of them, a yes, or a no to a subscription, may come at any time, also after its request timed out, or never. `late`
has the calls whose time is over. `answered` and `granted` are history: who was granted what. `SetupFails` is a connection that was not made, with
the socket closed, or left open where the last option was refused (`refused` remembers it): the next connect then fails its assertion (`SetupAsserts`), and the program
stops. `Faults` chooses the two things that the passing run excludes, notifications from others (`stray`) and identifiers given again (`wrap`), one counterexample each.

## 3. The runs

Each run's properties, with a mutant for every one, are in `PROJECT.json`.

| Run | Instance | Distinct states | What it shows |
|---|---|---|---|
| `queue_counting` | 3 tasks, counting semaphore of 2, interrupts give and take up to 2 under one lock | 404,000 | `EveryItemHasAReader`, `EveryPlaceHasAWriter`: no task waits for what is there; `BlockedIsListed`; `LockIsHeld`; `WakesInPriorityOrder` |
| `queue_fifo` | 2 tasks, 2 items, length 3, all operations and reset | 1,420,000 | `TypeOK`; `FifoSpec`: implements the bounded FIFO, with both pointers wrapping both ways |
| `queue_mailbox` | 3 tasks, length 1, overwritten | 35,600 | `FifoSpec` for overwriting; `TimedCallReturns`: a call with a block time returns |
| `scheduler_control` | 2 tasks, tick modulus 4, delete and create, suspend and resume, priorities, suspension to depth 2, an interrupt that resumes | 521,000 | `TasksAreListed`, `ReadyBitsAreExact`, `RunningIsHighest`, `UnblockTimeIsExact` |
| `scheduler_time` | a periodic task, one of idle priority that blocks in every way, a sleeping idle task, tick modulus 4 | 46,800 | `DelaysAreExact`, `SleepSkipsNoWake`; `DelayEnds` |
| `mutex_inheritance` | 3 tasks, a mutex and a recursive mutex, timeouts, priority changes | 27,500 | `HoldersAreCounted`, `PriorityFollowsWaiters`, `RunsByPriority`; `InversionEnds` |
| `wire_transfers` | 2 blocks, 2 byte values, a write buffer of 2, every call in any order, transfers of any duration, an exhausted heap | 3,441,000 | `FailuresHaveCauses`: what went wrong before a byte is stored past its buffer, or an interrupt finds a freed block or no descriptor; `TransfersUseLiveBuffers`, `NothingLeftOver`, also after a wait was outlived; `MasterSpec`: implements the abstract master until then |
| `stream_channel` | a ring of 3 cells and one spare, 2 byte values, messages of up to 2, levels 1 and 2, every choice of task, interrupt and priority | 1,527,000 | `WaitersAreNotified`; `ChannelSpec`: implements the abstract channel |
| `timers_expire` | one reloading timer of which everything is asked (in three parts), or two with periods 1 and 2, one of which reloads, that are started again and again; two commands waiting, tick modulus 4, daemon late by a tick | 842,000 | `WakesInTime`, `ReloadsAreSent`, `ExpiresWhenDue`; `DueTimersExpire` |
| `barrier_rounds` | 4 threads at a barrier of 3; or 2 tasks that wait for one or two bits in every way | 102,500 | `NoMissedWake`, `ReturnedBitsMeetWait`, `BitsGoToAWaiter`; `BarrierSpec`: implements the abstract barrier; `WaitersGetThrough` |
| `mqtt_operations` | 2 tasks, one that connects, publishes in both ways and disconnects, one that subscribes and unsubscribes; 3 buffers, 2 slots, 2 identifiers, a queue of 1 | 325,000 | `EveryCallIsKept`, `SuccessIsDeserved`, `NothingLeaks`, `SubscriptionIsKept`; `CallsReturn` |

Each module states a type invariant. That of `Queue` is among the runs, for the ring pointers it bounds;
those of the others hold in the same instances, and `TypeOK` can be added to the INVARIANTS of any configuration.

One run ends in a violation, a disagreement between the code and an assertion of the repository:
`mutex_ready_bit` (`SelectsReadyTask`, `tasks.c:4303`). When an inheritance is
undone after a timeout, the ready bit cleared is looked up under the new priority, not the
one the task left. The bit of an empty list stays set and the assertion of the
task selection fails.

More configurations are kept beside the runs, not among them: each takes under a minute
and ends in a violation of the one property it names, which the module states.

| Configuration | Property | What it shows |
|---|---|---|
| `SchedulerSleepTime.cfg` (`MCScheduler`) | `SleepEndsInTime` | `tasks.c:3547`: a tick that comes after the idle task suspended the scheduler is pended, and neither the expected idle time nor the confirmation of the sleep looks at pended ticks. The sleep lasts one tick too long, and a delayed task wakes late |
| `MutexRetry.cfg` (`MCMutex`) | `NoInheritanceWithoutTimeOut` | `queue.c:1594`: a take that timed out finds the mutex given, goes round its loop with a block time of 0, finds it taken again, and fails the assertion of `queue.c:1505` |
| `WireRetry.cfg` (`MCWire`) | `EndTransmits` | `Wire.cpp:204`: with an error still pending, of a transfer that timed out or of a slave call, `endTransmission` transmits nothing of what is queued and returns success |
| `WireReopen.cfg` (`MCWire`) | `OpensOnce` | `iot_i2c.c:107`: a second `begin()`, which each sensor makes, forgets the handle of the open driver; the driver is opened again and refuses, and no later transfer starts |
| `StreamPutBack.cfg` (`MCStreamBuffer`) | `PutBackKeepsMessages` | `stream_buffer.c:840`: the length of the next message is taken out, which moves the tail, and the tail is put back, although `stream_buffer.c:833` says that the message is not actually removed. A writer that comes between uses cells that are not free; after the tail is put back the buffer is empty and its messages are lost |
| `MqttStray.cfg` (`MCMqttAgent`) | `CallsReturn` | `aws_mqtt_agent.c:1272`: a task that calls has a notification from elsewhere; the agent's, which does not overwrite, is lost, and the call never returns |
| `MqttOption.cfg` (`MCMqttAgent`) | `SocketIsClosed` | `aws_mqtt_agent.c:977`: the send timeout of a new socket is refused; the call fails, the socket stays open, and the next connect fails the assertion of `aws_mqtt_agent.c:864` |
| `MqttWrap.cfg` (`MCMqttAgent`) | `SuccessIsDeserved` | `aws_mqtt_agent.c:1674`: an identifier is given again while its first call still waits; the answer to one is told to the other |
| `MqttSameTopic.cfg` (`MCMqttAgent`) | `SubscriptionIsKept` | `aws_mqtt_lib.c:3669`: a subscription that times out takes its topic out of the subscription manager, also when another task's subscription to it was granted since |
| `TimersStop.cfg` (`MCTimers`) | `StopIsKept` | `timers.c:899`: a late auto-reload timer is restarted by a command of the daemon's own, queued behind a stop, although `timers.h:524` says that stopping a timer ensures it is not active |

More that the models made plain, without a run: when a mutex is given to a
waiting task the result of `xTaskPriorityDisinherit` is not used
(`queue.c:859`), so a giver that was lowered goes on running although a task
that is now higher is ready, until the next switch; a NACK is reported as success
(`iot_i2c.c:79`); a completion that comes late leaves the semaphore given, and the next
transfer is taken for complete when it starts; the `write()` that fills the buffer returns one less than it stored, and the next
stores past the end before it looks at the size (`Wire.cpp:297`), or through NULL where the heap was exhausted (`Wire.cpp:291`); the assertion at `stream_buffer.c:848` fails when a reader of higher
priority asks for the next length between the length and the bytes of a message being read or
written; raising the trigger level, or setting it past what fits, leaves a waiting reader unnotified
(`stream_buffer.c:456`); a one-shot timer that is called when its start is handled stays marked
active (`timers.c:776`); a thread whose `xEventGroupSync` times out leaves its bit set, and the others
meet without it (`event_groups.c:273`); `xEventGroupSetBits` reads the group after it has let others
run, who may have deleted it (`event_groups.c:609`).

### Bounds, and why they are enough

- *Tasks.* Two or three. A queue needs a sender, a receiver, and one more for priority
  order among waiters; inheritance needs the three of the classic inversion. Two
  suffice for the scheduler, whose calls act on the caller and one other
  task, with the idle task as a third.
- *Queue length.* 3 makes the pointers wrap in either direction with items at both ends; 1 is
  the length overwriting is for; 2 separates empty, full and neither.
- *`IsrBound`* (1 or 2): interrupts counted under one lock. 2 is the
  first value where the unlock loop must go round twice. Its limit in the code is 127
  (`INT8_MAX`), and the proofs assume no more.
- *`TickModulus`* (4 or 8) stands for 2^32. Delays go up to the modulus less one, so every
  case of a wake time that has wrapped, with either list current, occurs.
- *`PendedBound`*, *`NestingBound`*: ticks and depth under a suspended scheduler. One tick
  exercises the loop that replays them, two show the late sleep; two levels show that only the
  outermost resumes.
- *`RecursionBound`* 2: the first take, one more, and both gives.
- *`MaxQuantity`* 2, *`BUFFER_LENGTH`* 2: one write fills the buffer at once or with a second, and may be
  cut off by it. Two *blocks*: as many as the library holds, so that a block freed by one side is the next one the other gets. *`QueueBound`*
  1: one transfer waits behind the one in progress.
- *Stream buffer.* 3 cells hold a message of two bytes but not two of them, so both sides wait, and
  head and tail wrap at every place; levels 1 and 2 differ in whether one byte is enough.
- *Timers.* Periods 1 and 2 meet, pass and wrap each other under `TickModulus` 4; being late by 1
  passes a whole period of the first, so that reloads are sent. `QueueLength` 3 with `MaxCommands` 2: the two commands of the application
  and one of the daemon's fill the queue, and the assertion is reached; two places for the timer that reloads, as `DaemonFindsRoom` asks, are there. The code's queue has 20.
- *Barrier.* Three places and four threads: the fourth starts the next round while the first is leaving.
  Two bits distinguish one, any and both; the third bit is the barrier's.
- *MQTT.* Two tasks put two requests under way at once; with 3 buffers both may wait and an answer still find one, and
  with those kept by the user there may be none. Two identifiers let a late answer meet a new request; with three the
  safety properties were checked also (`IdentifierMax = 4`, two buffers, 1,550,000 states). The code has 65,535. A queue of 1 is full as soon as a
  command waits; the code's has a place for each slot.
- *Deadlock.* Checked in every run but the mutexes'. Not for the mutexes: where
  an assertion fails (`MutexRetry.cfg`, `mutex_ready_bit`) the code stops, and so does the model.

### Fairness, and why the code justifies it

Liveness is stated for the tasks of highest priority only: the kernel promises
nothing to others.

- `Queue`: weak fairness for each step of a running task; strong
  fairness for the passing of a block time and for the tick that ends a wait, because ticks
  keep coming but a tick's effect on one call may be held back while the scheduler is suspended.
- `Scheduler`: the processor takes the switch and the tick interrupt (strong: they are masked
  again and again), masked loops go on, and a task whose turn it is goes on with its call.
  Nothing is assumed of what the application decides to call.
- `Mutex`: a switch that is requested happens, delays end, and a holder does not keep its
  mutex for ever. Without the last, a waiter has nothing to hope for.
- `Timers`: the daemon goes on when it can (it has the highest priority in the demo's configuration, and the
  property assumes that it empties its queue again and again: a task that sent commands for ever would keep it).
- `PthreadBarrier`: each thread goes on, also with its next call. Threads of a barrier block in it, so those of
  any priority run in the end.
- `MqttAgent`: the agent's task goes on, what it reads in one visit is finite (`Periodic` comes), callers go on, and time
  passes, until the assertion stops the program. Nothing is assumed of the broker, the network or the application.
- `Wire` and `StreamBuffer`: none; only safety is stated.

## 4. The proofs

`KernelLists_proofs` has the lemmas on sorted insertion and removal (the type of the result, which tasks it holds, that it
has no duplicates and stays in order) and on the ready lists with their bits (what adding and removing a task does to every list, and to
the bit of each). The other seven modules prove:

| Module | Theorem | States |
|---|---|---|
| `Queue_proofs` | `TypeCorrect` | `Spec => []TypeOK` |
| | `BlockedTasksAreListed` | `Spec => []BlockedIsListed` |
| | `QueueLockIsHeld` | `Spec => []LockIsHeld` |
| | `WakesFollowPriority` | `Spec => WakesInPriorityOrder` |
| | `NoReaderMissesAnItem` | `Spec => []EveryItemHasAReader` |
| | `NoWriterMissesAPlace` | `Spec => []EveryPlaceHasAWriter`, without resets |
| | `QueueIsAFifo` | `Spec => FifoSpec`, for queues of items |
| | `Invariance` | `Spec => []IInv` |
| `Scheduler_proofs` | `EveryTaskIsListed` | `Spec => []TasksAreListed` |
| | `ReadyBitsHold` | `Spec => []ReadyBitsAreExact` |
| | `HighestRuns` | `Spec => []RunningIsHighest` |
| | `UnblockTimeHolds` | `Spec => []UnblockTimeIsExact` |
| | `DelaysEnd` | `Spec => []WakesWhenDue` |
| | `DelaysEndOnTime` | `Spec => []DelaysAreExact`, for tasks delayed by `vTaskDelayUntil` alone |
| | `SleepsSafely` | `Spec => SleepSkipsNoWake` |
| | `Invariance`, `DelayInvariance` | `Spec => []IInv`, `Spec => []DelayIInv` |
| `Mutex_proofs` | `TypeCorrect` | `Spec => []TypeOK` |
| | `MutexesAreCounted` | `Spec => []HoldersAreCounted` |
| | `PrioritiesAreReturned` | `Spec => []PriorityIsReturned` |
| | `ReadyTasksAreNotLost` | `Spec => []ReadyTasksAreFound` |
| | `ReadyBitsStayExact` | `Spec => []ReadyListsAreExact`, without timeouts |
| | `HoldersInherit` | `Spec => []PriorityFollowsWaiters`, with one mutex for each task |
| | `HighestTaskRuns` | `Spec => []RunsByPriority`, with one mutex for each task and without timeouts |
| | `Invariance` | `Spec => []IInv` |
| `EventsAndTimers_proofs` | `NoWakeIsMissed` | `Spec => []NoMissedWake` |
| | `ReturnsTell` | `Spec => []ReturnedBitsMeetWait` |
| | `ClearedBitsAreGiven` | `Spec => BitsGoToAWaiter` |
| | `Invariance`, `DeletedIsEmpty` | `Spec => []IInv`, `Spec => []DeletedInv` |
| | `RoundsAreKept` | `Spec => RoundsSpec`: `BarrierSpec` without its fairness |
| | `RoundInvariance` | `Spec => []RoundInv` |
| | `DaemonWakesInTime` | `TimersSpec => []WakesInTime` |
| | `DaemonFindsRoom` | `TimersSpec => []ReloadsAreSent`, where the queue has two places for each timer |
| | `TimersExpireWhenDue` | `TimersSpec => ExpiresWhenDue` |
| | `TimersInvariant`, `TimersTypesHold` | `TimersSpec => []TimersInv`, `TimersSpec => []TimersTypeOK` |
| `Wire_proofs` | `Implements` | `Spec => MasterSpec` |
| | `CallsLeaveNothing` | `Spec => []NothingLeftOver` |
| | `BuffersStayLive` | `Spec => []TransfersUseLiveBuffers` |
| | `FailuresAreCaused` | `Spec => []FailuresHaveCauses` |
| | `Invariance` | `Spec => []IInv` |
| `StreamBuffer_proofs` | `WaitersNotified` | `Spec => []WaitersAreNotified`, where messages fit beside the trigger level |
| | `SentIsReceived` | `Spec => ChannelSpec` |
| | `PutBackIsHarmless` | `Spec => PutBackKeepsMessages` |
| | `TypeCorrect` | `Spec => []TypeOK` |
| | `Invariance` | `Spec => []Inv` |
| `MqttAgent_proofs` | `CallsAreKept` | `Spec => []EveryCallIsKept` |
| | `SuccessIsTrue` | `Spec => []SuccessIsDeserved` |
| | `LeaksNothing` | `Spec => []NothingLeaks` |
| | `SubscriptionsAreKept` | `Spec => []SubscriptionIsKept`, with a subscriber for each topic |
| | `Invariance` | `Spec => []Inv` |

**Queue**, for every finite set of tasks, every length, priority order and mix of operations. The assumptions are those of the module (`QueueAssumption`, `OperationAssumption`) and
`IsrBound <= INT8_MAX`: with more interrupts under one lock the counter
would wrap, which the code does not check. `TypeOK` and `BlockedIsListed` are not
inductive as they stand. What an action does to the event lists depends
on who may be running, so the invariant `IInv` adds `HolderInv`: exactly the
task between `vTaskSuspendAll` and `xTaskResumeAll` holds the scheduler, and while
it looks at the queue it is not blocked. `LockIsHeld` says the same of the queue's
lock. With these, a task that places itself in a list is in none before,
and one that is removed was in only one. The proof has a step for every action, and
under it the conjuncts that the action can disturb; typing is split into the parts (`RingType`,
`LockType`, `CallType`, `ListsType`) that actions change together.

That a wake goes to the waiting task of the highest priority is an action property; its proof is that the event lists stay
in order and that a task is taken from elsewhere than the head only by its own timeout. The two properties of lost wakeups compare
a count of items with a count of tasks that look for one. They are not inductive: a reader that has found the queue empty and is on
its way into the event list (`place`) is not in it yet, while interrupts give items. `ReadersInv` and `WritersInv` therefore count
from that step on (`Demand`), `ListedInv` says which calls the tasks of each list are in, and `LockingInv` that such a reader has the queue
locked, so that what an interrupt gives is counted in the lock or wakes somebody. The steps of unlocking trade one for the other;
the `Supply` lemmas say what happens to the count when tasks begin or stop to look. With `reset`
`EveryPlaceHasAWriter` does not hold, and the theorem excludes it. The refinement of `BoundedFifo` needs the place of the write pointer
as a function of the read pointer and the count (`RingInv`); the contents of the queue are then the ring read from there (`InRing`), and the sends to either end, the
receive, the overwriting and the reset are each a step of the FIFO. It is stated for queues with items (`uxItemSize # 0`):
a semaphore moves no pointer and stores nothing.

**Scheduler**, for every set of tasks, number of priorities, modulus of the tick count, set of delays and mix of calls. The inductive
invariant `IInv` has five parts. `ListsInv`: each task is in the ready list of its priority or in one of the lists of the
blocked, and event items are only of blocked tasks. `ControlInv` says where the running task can be while the scheduler is suspended or interrupts are
masked: only it holds the scheduler, and it is ready but on the way to a yield. Without it nothing tells that a task that blocks was
ready. `HighestInv` is the property `RunningIsHighest` for every moment: the running task is the highest, or a switch is pended, or it is on its way to one
(`SwitchIsDue`): that is what each of the wakes, resumes and changes of priority has to keep. `UnblockInv` says the same of
`xNextTaskUnblockTime`, with the one exception that the code has, the window between the two critical sections of `vTaskSuspend`.
Delays need a second invariant on top (`DelayIInv`): the item value of a delayed task is its due tick counted with
or without a wrap, according to the list it is in (`DueInv`), both lists are in order, and the next unblock time is not behind the tick count
nor ahead of the first delayed task (`WakeInv`); this holds also in the window, where the exact value does not. `SleepInv` adds that what
was found before the sleep still holds when the sleep begins. `DelaysEndOnTime` is about periods as well as delays (`InPhase`); it is stated for tasks that
`vTaskDelayUntil` alone delays, since one that blocks otherwise may come later than its period, and is then due at once.

**Mutex**, for every set of tasks, mutexes and priorities. The inductive invariant `IInv` has the types, the counts, the ready lists, the event lists and
`PriorityIsReturned`; it holds for any nesting, with timeouts and with `vTaskPrioritySet`. What it says of ready lists is
one-sided: no ready task is in a list whose bit is not set. The other side fails after a timeout
(`mutex_ready_bit`), so `ReadyBitsStayExact` assumes `NoTimeouts`. `HoldersInherit` and `HighestTaskRuns` assume `Unnested`: a task uses one mutex
at most, and a task whose priority is set uses none. Both hypotheses leave the classic inversion, any number of tasks and any number of mutexes side
by side. They are needed: a holder that waits for a second mutex and inherits meanwhile has its place in
that mutex's event list by its old priority, a task that is given a new priority while it holds a mutex
at its own is set below its waiters, and a holder lowered by giving its last mutex wakes for it only a low waiter, although the task whose priority it had, of the other mutex, is ready. With timeouts a holder
gives to a waiter below one that timed out, and goes on although that one is ready (`queue.c:859`). The invariants: `WaitersInv` has the event
lists in order of priority, no waiter above the holder, and for a mutex that is free with waiters a
task that is about to take it and is not below them (`FreeInv`). `RunsInv` says that a holder is above its own priority only while a
waiter of just that priority waits (`LentInv`). So when it gives, the waiter it wakes has the priority it loses, and the yield made for that waiter makes up
for the one that is dropped. The run goes beyond the hypotheses, with a second mutex, timeouts of the highest task and a victim that holds.

**Event group**, used directly or by a barrier, for every set of tasks and bits; the assumptions are the module's
(`EventGroupAssumption`, `ThresholdAssumption`). `NoMissedWake` is not inductive: whether setting bits wakes a task
is decided by the task's event item, not by its call. `WaitingInv` says that the item of a waiting task is that
of its call, so that `Matched` finds exactly the tasks whose waits are met. `ReturnedBitsMeetWait` needs the same of a
task that was woken and has not run since: `WokenInv` says that its item is still its own (it timed out) or holds
bits that met the wait, unless the group was deleted. `CallInv` is what is needed of the types. That a
bit is cleared only for a task that is told of it is an action property; its proof adds `DeletedInv`, that a deleted group has no
bits. The clearing when bits are set is matched with a task that is woken, that of a synchronisation with the caller or a
woken task, and that of a return after a time-out with the returning task.

**Barrier**, for every set of threads, also infinite ones, and every threshold: each step of `pthread_barrier_wait` over the event group is a step of
`Barrier` or a stutter (`RoundsAreKept`). All that the abstract barrier asks hangs on one fact: the thread
that sets its bit completes the bits of the barrier exactly when those who wait and itself are as many as the threshold. `RoundInv` carries it. `ThreadInv` ties
the place of a thread in the barrier to its call of the event group, and says that the bits are the numbers of those who wait. `NumberInv` says that
the threads inside have the numbers from 1 to the count, each its own; between the opening of the barrier and the reset of
the count that fails, and nobody is inside. That is `CountInv`: the threads admitted, the places left in the semaphore and
those that the serial thread has still to give back make up the threshold, and there is at most one serial thread. Three readings of the number
of the waiting threads (the set, the numbers, the count) are then brought together with the library's facts on cardinality (`AsManyNumbers`, `NumbersCount`).
`IInv` of the event group is needed for who is woken. TLC checked `RoundInv` on the instance of `barrier_rounds` before it was proved.

**Timers**, for every set of timers, also infinite ones, every modulus, length of the queue, choice of periods and mix of commands; the assumption is the
module's (`TimersAssumption`): a period and the lateness of the daemon together are less than a turn of the tick count. `WakesInTime` and
`ExpiresWhenDue` compare what the daemon reads from sorted lists and tick counts that wrap with `Deadline`, which does not wrap.
The invariant `TimersInv` says when the two agree. `SortedInv`: both lists are in order, no timer is in them twice, nor while a command for it is
in hand; so `Deadline` has one place to look at. `DaemonInv`: what the daemon has sampled is as old as it thinks, and the head it found is still the head.
`DueInv`: a timer in the current list is due within its period from the time last sampled, one in the overflow list is so past the wrap,
and none is later than `MaxLate`. From that it follows that an item value and the tick count are less than a turn apart, and so that the comparisons of
`prvInsertTimerInActiveList`, with up to three wrapped counts, decide as the unwrapped deadlines do. `SendingInv` keeps the daemon's own commands
from being the application's. The proof has a lemma for each action on the lists (what it does to the set of timers, to the order and to the
deadlines of all the others), and shows in one pass for each step that the invariant is kept and that every timer's deadline moves as `ExpiresWhenDue` asks (`Timely`).

The proof found `Deadline` imprecise: it told the turn of the lists by the tick count alone, and while a late daemon switches the lists,
ticks may bring the count up to the time it had sampled before the wrap; a deadline then jumped by a turn. `TurnIsOver` is the correction. In the instance
of `timers_expire` the two do not differ; they do with periods of 1 and a lateness of 4 ticks, where TLC checked the invariant also.

`ExpiresWhenDue` is proved for every length of the queue: where a reload of the daemon's finds no place the assertion stops the program, and till then every deadline moves as it should.

`ReloadsAreSent` is about the length of the queue: the assertion fails only after the application asked for a timer that had a message under way (`hurried`). `timers.c` checks
no such thing, and once the application hurries, a queue of any length can be filled. Until then a timer is at most twice among
its list, the command queue, the command in hand and the one that waits for a place (`LoadInv`): the daemon sends a command for a timer when it takes it out of a list
or has one in hand, and the application asks when there is none. A timer that is in a list or in hand is then once in the queue at most, and
with two places for each timer (`QueueHasRoom`) the daemon finds one free: the pigeonhole on pairs of a timer and a first or second place (`RoomForOne`). The demo's
queue of 20 so carries ten timers whose users wait until a command was taken.

**Wire**, for every heap of at least two blocks, every length, and every order of calls, interrupts and failures: no theorem has a hypothesis. The inductive invariant
`IInv` has a part that holds always and one that holds until something is lost. `OwnInv` is the first, with what the runs check. It speaks of two kinds of calls: one that began with the
driver idle and the semaphore taken (`~stale`) meets no transfer but its own, also when earlier waits were outlived, so its buffer is safe and what it takes from the
semaphore is its own completion; one that did not began after an outlived wait. That makes `outlived` the one cause of a freed block under a transfer and of a
lost descriptor, since `begin()` finds a transfer in progress only then. An overrun needs a full buffer, and the write that filled it returned a short count (`told`). `OpenInv` ties the driver to
the descriptor. Until something is lost, `BufferInv` (the two buffers are different blocks, with as many bytes as their lengths say) and `CallInv` (only the call that waits has a transfer, of the whole
buffer) make the refinement go through: `Outgoing` and `Incoming` are then plainly the contents of the blocks (`Views`), and each action is shown to be
a step of `I2CMaster` or a stutter. The library gives the bytes to the device when the interrupt comes, so `Complete` is the
abstract `Transmit` or `Receive`; that the call returns later is the abstract `Return`. Once `Lost`, the abstract master allows anything: what the code then does is in
`WireRetry.cfg` and `WireReopen.cfg`, and in the three invariants, which do not end there.

**Stream buffer**, for every size of the buffer, set of bytes and of frames, in every setting: bytes or messages, tasks of either priority or
interrupts. The condition of all five theorems is `Careless = {}`; it excludes the uses that go wrong where the writer may come between (`StreamPutBack.cfg`),
where a buffer is reset under a call, and where a level is raised under a waiter. `WaitersAreNotified` says nothing of the cells, but to prove it one must:
how much the reader takes out, and so whether it frees what the writer waits for, is decided by a length it reads from the ring. So `CellsInOrder` says that
the cells from tail to head are whole messages (`Framed`), but for the rest of one whose length is taken out and the length of one whose bytes are still to
come, with each cell counted from the tail (`View`), so that a step at one end is a shift or an addition at the other. The invariant needs no recursion for that: each length points at the next.
`WriterInOrder` and `ReaderInOrder` say what a side found that still holds when it acts on it, although the other has moved since: the spaces only grow under the
writer, the bytes under the reader; a length that may be put back keeps a cell free for it (`Held`). `WaitsInOrder` ties the flags of the waiting tasks to their calls and
notifications, and `WakesReader` and `WakesWriter` are the property for every task that is about to block as well. That the two tasks do not wait for each other is arithmetic
on top, and needs `CallsFit`: messages are shorter than the buffer, and a message fits beside as many bytes as the trigger level asks for, less one. TLC shows both
to be needed, with a buffer of 3 bytes: a message of 3 is refused for its length, and its writer waits for ever; with level 3, two bytes in the buffer and two to be written both sides wait. The code
asks for neither; `xStreamBufferSetTriggerLevel` takes a level as large as the buffer. `PutBackKeepsMessages` follows from the invariant, since the cell below the tail still holds the length.

`SentIsReceived` is the refinement of `Channel`: a step that moves the head with a whole message or with bytes is its `Send`, one that delivers is its `Receive`, a reset empties
it, and every other step leaves it as it is. `Channel` sees a queue of messages, which `StreamBuffer` computes from the cells with a recursive function (`Messages`), and the provers know of such a function only
that it is chosen among those that meet its equation. That there is one is proved by induction over the numbers, from the library's `NatLessThanWellFounded` and `WFMin`, which speak of a set and not of
an operator (`AllNumbers`; then `ChainExists` and `MessagesFromIs`; `FlattenBytes` is the same for `FlattenSeq`). The second induction is `MessagesShift`: where whole messages come first (`WholeMessages`, which `CellsInOrder` gives), the queue is these and
what follows them, so that writing appends and reading takes from the front. `AsksForSome` is one more invariant, that a receive call asks for something: what a stream delivers is then not empty.

**MQTT agent**, for every set of tasks, whatever operations and topics they use, every length of the command queue, number of
slots, buffers and identifiers. The one condition is `Faults = {}`: the agent alone notifies a task in a call, and an identifier still in use is not
given again. `MqttStray.cfg` and `MqttWrap.cfg` show what happens without each. Every failure of a connection is in the theorems, the refused last option too:
`LeakInv` says that the socket it leaves open is the only one without a connection, and `ConnectInv`, that one task connects at a time and only when there is no connection, that no other
socket makes the assertion fail. `Inv` is `IInv` and `ConnectInv` while the program runs, and what remains true when the assertion has stopped it. `IInv` follows a call through the agent. `QueueInv`, `SlotInv` and `NoticeInv` say that a command, a slot and a
notification are of a call that waits, `QueueOrSlot`, `QueueOnce` and `SlotOnce` that it has one of them only, `WaitInv` that it has one;
`TxInv` and `TxOnce` tie each request to its slot by its identifier, so that the slot of an answer is found and is
the only one. Most steps of the agent do the same to these: they tell some tasks, free their slots and drop
their requests; that is proved once (`Telling`), and each step is shown to be of that kind (`TellStep`). `SuccessIsDeserved` needs
`BrokerInv`: an identifier at the broker is of the call of its own task or of none. An answer to a CONNECT has no identifier; there
`ConnectionInv` says that while a connection is made there is one request, and the broker has no other. `NothingLeaks` counts
buffers with the library's facts on cardinality, and needs `TxInv` too: where all slots are freed, all requests are.
`SubscriptionsAreKept` assumes that a topic that one task subscribes to is no other's to subscribe to or to drop (`TopicsAreOwn`):
`MqttSameTopic.cfg` shows what happens otherwise. The core library takes topics out by name (`aws_mqtt_lib.c:3669`); the proof is that a request that
waits for its answer is the only one for its topic (`OneRequest`), and its topic was not granted since it was asked for (`KeptInv`).

**Only model-checked:** liveness and everything that needs `ENABLED` (out of the prover's
reach): `TimedCallReturns`, `DelayEnds`, `InversionEnds`, `DueTimersExpire`, `WaitersGetThrough`, `CallsReturn`; the fairness in `BarrierSpec`, that those let through leave;
`PriorityFollowsWaiters` and `RunsByPriority` of a mutex beyond the hypotheses above.

## 5. What the models leave out

- *Data.* Items are model values; a semaphore's have no bytes. List pointers and integrity
  bytes, stacks, task names, statistics and trace hooks are left out.
- *Asserts are guards.* A call that an assertion forbids is not made, except where a run shows
  that the code itself leads to it.
- *Queue.* `EveryPlaceHasAWriter` is not checked with `reset`: a reset wakes one
  sender although it frees every place, as the comment at `queue.c:271` says. Queue sets and
  the registry are configured out.
- *Scheduler.* No task notifications; `StreamBuffer` has those it needs, without their values, and there a
  task that waits for one without timeout is also resumed by `vTaskResume`, which takes it for a suspended one (`tasks.c:1842`).
- *Mutex.* In `mutex_inheritance` the lowest task only takes a mutex that is there: if it waited
  while holding another, the ready bit of `mutex_ready_bit` would be left set and the run would
  show that defect again. The failed retry of `MutexRetry.cfg` can happen in it; its
  behaviours end there. A task does not take a non-recursive mutex twice, and a priority is not set while
  its task waits for a mutex. There is no tick count and so no delayed list: `TimesOut` is the end of a wait, whichever of the two delayed lists the task was in;
  these are in `Scheduler`.
- *Wire.* One task calls the library, as in the demo; calls come after `begin()`, and after
  `end()` only `begin()`. What the program does after it stored outside its buffers, or after the driver filled a block that was
  freed, is not modelled. The synchronous transfers of `iot_i2c.c`, which the library does not use, are left out. Device addresses are kept to whether
  one was set.
- *Stream buffer.* One writer and one reader, as the code demands; `Careless` names the uses that are allowed and unsafe in some settings, off in `stream_channel`: lengths looked at under a writer, a reset between two steps, a level raised under a waiter. Resets by a third task, and callers that ask for
  lengths from elsewhere than the reader, are left out.
- *Timers.* `xTimerPendFunctionCall` is configured out (`INCLUDE_xTimerPendFunctionCall` is 0, `FreeRTOS.h:172`),
  and with it `xEventGroupSetBitsFromISR` and `xEventGroupClearBitsFromISR`. Timers are statically allocated: a delete leaves the timer
  stopped (`timers.c:835`), and the application may use it again. Of a dynamic timer the delete frees the memory (`timers.c:829`); a late reload queued behind it, as in
  `TimersStop.cfg`, would then name freed memory, which is not modelled.
- *Event group.* A group is not deleted while a task whose wait timed out has still to look at it.
- *Barrier.* Its destruction, which must not come with threads inside, is left out.
- *MQTT.* One connection, made by tasks that know there is none; so the assertion at `aws_mqtt_agent.c:864` is not failed by a caller that connects twice. A callback does not call the agent, which refuses
  it. Reading, sending and the waiting of the agent in `SOCKETS_Connect` are part of a step. A buffer is found in one step, although
  the pool is searched buffer by buffer: only the agent takes buffers, so a free one is not lost on the way. The keep alive does not
  touch requests or buffers and is left out, as are the bytes of packets, topic filters (a topic is a value; wild cards and too long topics
  are not told apart), requests refused for their size, agents created and deleted, and TLS options. A wakeup by the socket finds
  the queue empty and sends; commands may come between, but only one wakeup is in the queue.
- *Not modelled:* the components marked so in `PROJECT.json`, with the reason for each.

## 6. Plan

Done: lists, queues, scheduler, mutexes, the Wire library, stream buffers, timers, event groups, barriers, the MQTT agent, and the
theorems about queues, the scheduler, mutexes, event groups, the rounds of a barrier, timers, the Wire library, stream buffers and the MQTT agent. Every refinement is
proved, but for the fairness in `BarrierSpec`. No module declares a RECURSIVE operator: recursion is by functions, of which proofs can speak. Next, in order of what matters most to the system:

1. *POSIX condition variables* over semaphores, with the double count of `FreeRTOS_POSIX_pthread_cond.c:246`.
2. *Heap*: a sequential module, with the free list ordered, coalesced and disjoint from what is allocated.

The runs stay few: a new component takes one run for its safety and liveness and merges with or replaces runs that ask
less. Composition of `Queue` with the full `Scheduler` is not planned as one state space: each module keeps of the other
what it depends on.
