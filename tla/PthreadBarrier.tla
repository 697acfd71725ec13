--------------------------- MODULE PthreadBarrier ---------------------------
(***************************************************************************)
(* The POSIX barrier (FreeRTOS_POSIX_pthread_barrier.c): a counting        *)
(* semaphore admits as many threads as the barrier counts, each gets a     *)
(* number under a mutex and meets the others in an event group, and the    *)
(* first of them starts the next round.                                    *)
(*                                                                         *)
(* The event group belongs to a barrier, or to tasks that use it directly. *)
(***************************************************************************)
EXTENDS EventGroup

CONSTANTS uThreshold,       \* the threads that meet
          NoTask

ASSUME ThresholdAssumption ==
    /\ uThreshold \in Nat \ {0} /\ 1..uThreshold = Bits
    /\ NoTask \notin Tasks

VARIABLES
    user,                   \* of the event group: "barrier" or "tasks"
    uThreadCount, xThreadCountSemaphore,
    xThreadCountMutex,      \* its holder
    place,                  \* of each thread in pthread_barrier_wait
    uThreadNumber, i        \* of each thread

barrier == <<uThreadCount, xThreadCountSemaphore, xThreadCountMutex, place, uThreadNumber, i>>
vars    == <<user, barrier, events>>

Places == {"outside", "take", "lock", "increment", "number", "meet", "met", "reset", "give"}

Init ==
    /\ GroupInit
    /\ user \in {"barrier", "tasks"}
    /\ uThreadCount = 0 /\ xThreadCountSemaphore = uThreshold /\ xThreadCountMutex = NoTask
    /\ place = [t \in Tasks |-> "outside"]
    /\ uThreadNumber = [t \in Tasks |-> 0] /\ i = [t \in Tasks |-> 0]
-----------------------------------------------------------------------------
(* pthread_barrier_wait; a semaphore is taken with portMAX_DELAY. *)

From(t, here, there) ==
    /\ user = "barrier" /\ place[t] = here
    /\ place' = [place EXCEPT ![t] = there]
    /\ UNCHANGED user

pthread_barrier_wait(t) ==
    /\ From(t, "outside", "take")
    /\ UNCHANGED <<uThreadCount, xThreadCountSemaphore, xThreadCountMutex, uThreadNumber, i, events>>

TakesSemaphore(t) ==
    /\ From(t, "take", "lock") /\ xThreadCountSemaphore > 0
    /\ xThreadCountSemaphore' = xThreadCountSemaphore - 1
    /\ UNCHANGED <<uThreadCount, xThreadCountMutex, uThreadNumber, i, events>>

LocksCount(t) ==
    /\ From(t, "lock", "increment") /\ xThreadCountMutex = NoTask
    /\ xThreadCountMutex' = t
    /\ UNCHANGED <<uThreadCount, xThreadCountSemaphore, uThreadNumber, i, events>>

IncrementsCount(t) ==
    /\ From(t, "increment", "number")
    /\ uThreadCount' = uThreadCount + 1
    /\ UNCHANGED <<xThreadCountSemaphore, xThreadCountMutex, uThreadNumber, i, events>>

TakesNumber(t) ==
    /\ From(t, "number", "meet")
    /\ uThreadNumber' = [uThreadNumber EXCEPT ![t] = uThreadCount]
    /\ xThreadCountMutex' = NoTask
    /\ UNCHANGED <<uThreadCount, xThreadCountSemaphore, i, events>>

Meets(t) ==
    /\ From(t, "meet", "met")
    /\ xEventGroupSync(t, {uThreadNumber[t]}, 1..uThreshold, "forever")
    /\ UNCHANGED <<uThreadCount, xThreadCountSemaphore, xThreadCountMutex, uThreadNumber, i>>

GoesOn(t) ==
    /\ place[t] = "met" /\ Resumes(t)
    /\ UNCHANGED <<user, barrier>>

HasMet(t) ==
    /\ \/ uThreadNumber[t] = 1 /\ From(t, "met", "reset") /\ UNCHANGED uThreadNumber
       \/ uThreadNumber[t] # 1 /\ From(t, "met", "outside")
          /\ uThreadNumber' = [uThreadNumber EXCEPT ![t] = 0]
    /\ Returns(t)
    /\ UNCHANGED <<uThreadCount, xThreadCountSemaphore, xThreadCountMutex, i>>

\* Mutant: the count goes on from one round to the next.
KeepsCount(t) ==
    /\ From(t, "reset", "give")
    /\ UNCHANGED <<uThreadCount, xThreadCountSemaphore, xThreadCountMutex, uThreadNumber, i, events>>

ResetsCount(t) ==
    /\ From(t, "reset", "give")
    /\ uThreadCount' = 0
    /\ UNCHANGED <<xThreadCountSemaphore, xThreadCountMutex, uThreadNumber, i, events>>

LastGive(t) == i[t] + 1 = uThreshold

\* Mutant: the gives are not counted, and never end.
SameGive(t) == i[t]

NextGive(t) == IF LastGive(t) THEN 0 ELSE i[t] + 1

\* A semaphore that is full is not given.
GivesSemaphore(t) ==
    /\ From(t, "give", IF LastGive(t) THEN "outside" ELSE "give")
    /\ xThreadCountSemaphore' = IF xThreadCountSemaphore < uThreshold
                                THEN xThreadCountSemaphore + 1
                                ELSE xThreadCountSemaphore
    /\ i' = [i EXCEPT ![t] = NextGive(t)]
    /\ uThreadNumber' = [uThreadNumber EXCEPT ![t] = IF LastGive(t) THEN 0 ELSE @]
    /\ UNCHANGED <<uThreadCount, xThreadCountMutex, events>>

Thread(t) ==
    \/ pthread_barrier_wait(t) \/ TakesSemaphore(t) \/ LocksCount(t) \/ IncrementsCount(t)
    \/ TakesNumber(t) \/ Meets(t) \/ GoesOn(t) \/ HasMet(t) \/ ResetsCount(t) \/ GivesSemaphore(t)

Next ==
    \/ \E t \in Tasks : Thread(t)
    \/ user = "tasks" /\ GroupNext /\ UNCHANGED <<user, barrier>>

\* A thread that can take a step takes it, also the next call of the barrier.
Spec == Init /\ [][Next]_vars /\ \A t \in Tasks : WF_vars(Thread(t))
-----------------------------------------------------------------------------
(* Properties. *)

TypeOK ==
    /\ GroupTypeOK
    /\ user \in {"barrier", "tasks"}
    /\ uThreadCount \in 0..uThreshold /\ xThreadCountSemaphore \in 0..uThreshold
    /\ xThreadCountMutex \in Tasks \cup {NoTask}
    /\ place \in [Tasks -> Places] /\ uThreadNumber \in [Tasks -> 0..uThreshold]
    /\ i \in [Tasks -> 0..uThreshold - 1]

Waiting == {t \in Tasks : place[t] = "met" /\ pc[t] = "blocked"}

Through == {t \in Tasks : place[t] \in {"reset", "give"} \/ (place[t] = "met" /\ pc[t] # "blocked")}

\* The threads are let through together, as many as the barrier counts, and one of
\* them is the serial thread; threads of the next round may already arrive.
Rounds == INSTANCE Barrier WITH Threads <- Tasks, Count <- uThreshold, waiting <- Waiting,
                                through <- Through,
                                serial <- {t \in Through : uThreadNumber[t] = 1}
BarrierSpec == Rounds!Spec

\* While there are threads that call the barrier, a thread that waits gets through.
WaitersGetThrough == \A t \in Tasks : t \in Waiting ~> t \in Through
=============================================================================
