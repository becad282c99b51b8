----------------------- MODULE PolledConditionProofs -----------------------
(***************************************************************************)
(* Proofs, for any finite set of threads in any roles, any deadlines and   *)
(* any units of time, that the polled condition keeps its lock and its     *)
(* count of waiters, that the flag of ACQUIRE_THREAD has one owner, that   *)
(* no signal is stale and no timeout early.                                *)
(***************************************************************************)
EXTENDS PolledCondition, FiniteSetTheorems, TLAPS

Waiting == {t \in Threads : pc[t] \in InWait}

(* The program points that belong to a role, and its calls are counted. *)
RoleInv ==
    \A t \in Threads :
        /\ pc[t] \in {"first", "loop"} => t \notin TimedWaiters
        /\ pc[t] \in {"signal", "increment"} => t \in Signallers /\ rounds[t] > 0
        /\ pc[t] \in {"wake_read", "wake_write"} => t \in Wakers /\ rounds[t] > 0
        /\ pc[t] = "returned" => t \in TimedWaiters \cup Signallers

(* Nobody has run WAKEUP_THREAD; nobody has signalled either. *)
NoWaker     == \A k \in Wakers : rounds[k] = 0
NoSignaller == \A t \in Signallers \cup Wakers : rounds[t] = 0

Owning == {"owner", "work", "finish"}

(* The owner of the flag has set it. *)
OwnerInv ==
    NoWaker => /\ \A t \in Threads : pc[t] \in Owning => act
               /\ \A t, u \in Threads : {pc[t], pc[u]} \subseteq Owning => t = u

(* A thread that is counted without a signal of its own leaves one count   *)
(* over for its departure.                                                 *)
SignalInv ==
    NoSignaller =>
        /\ c_signaled <= c_waiting
        /\ \A t \in Threads :
            /\ pc[t] \in {"first", "leave"} => c_signaled <= c_waiting - 1
            /\ pc[t] = "decrement" => tmp[t] = c_signaled

(* A timed wait leaves its loop for a signal, which nobody takes away      *)
(* while it holds the lock, or with a time that is past the deadline.      *)
TimeInv ==
    /\ \A t \in Threads : tv[t] <= now
    /\ NoWaker => \A t \in TimedWaiters :
        /\ pc[t] = "timed_end" => c_signaled # 0 \/ ~Before(tv[t], deadline[t])
        /\ pc[t] \in {"consume", "decrement"} => ~expired[t]
        /\ pc[t] \in {"leave", "returned"} /\ expired[t] => now >= deadline[t]

Inv == TypeOK /\ WaitersCounted /\ RoleInv /\ OwnerInv /\ SignalInv /\ TimeInv

-----------------------------------------------------------------------------

LEMMA InitInv == Init => Inv
  <1> SUFFICES ASSUME Init PROVE Inv
    OBVIOUS
  <1> USE RolesAssumption DEF Init, Threads
  <1>1. TypeOK
    <2>1. lck \in Threads \cup {NULL} /\ act \in BOOLEAN
      OBVIOUS
    <2>2. MaxTime \in Nat /\ MaxRounds \in Nat
      OBVIOUS
    <2> QED  BY <2>1, <2>2 DEF TypeOK, Holding, NotHolding
  <1>2. WaitersCounted
    <2>1. {t \in Threads : pc[t] \in InWait} = {}
      BY DEF InWait
    <2> QED  BY <2>1, FS_EmptySet DEF WaitersCounted
  <1>3. RoleInv /\ OwnerInv /\ SignalInv
    BY DEF RoleInv, OwnerInv, Owning, SignalInv
  <1>4. TimeInv
    BY DEF TimeInv
  <1> QED  BY <1>1, <1>2, <1>3, <1>4 DEF Inv

LEMMA TypeStep == Inv /\ [Next]_vars => TypeOK'
  <1> SUFFICES ASSUME Inv, [Next]_vars PROVE TypeOK'
    OBVIOUS
  <1>0. act' \in BOOLEAN /\ MaxRounds \in Nat /\ MaxTime \in Nat
    <2>1. act' \in {act, TRUE, FALSE}
      BY DEF Next, LockStep, AcquireLock, RelockAndReturn, PollLock, WorkDone, Lock,
         CallStep, AcquireTest, EnterWait, EarlyReturn, NoSignalYet, PollUnlock, PollEnd,
         ReadSignaled, WriteSignaled, LeaveWait, TimedFirst, TimedUnlock, TimedRead,
         TimedEnd, TimedConsume, CallerUnlocks, ReleaseThread, SignalRead, SignalWrite,
         WakeupRead, WakeupWrite, Move, Unlock, BeginStep, BeginAcquire, WorkUnlocked,
         BeginTimedWait, SignalLock, WakeupThread, Begin, Tick, Finished, shared, vars
    <2> QED  BY <2>1, RolesAssumption DEF Inv, TypeOK
  <1> USE <1>0, RolesAssumption DEF Inv, TypeOK, Holding, NotHolding, Goto, time, shared
  <1>1. ASSUME NEW t \in Threads, LockStep(t) PROVE TypeOK'
    BY <1>1 DEF LockStep, AcquireLock, RelockAndReturn, PollLock, WorkDone, Lock
  <1>2. ASSUME NEW t \in Threads, CallStep(t) PROVE TypeOK'
    <2>1. CASE AcquireTest(t) \/ EnterWait(t) \/ EarlyReturn(t) \/ NoSignalYet(t) \/ LeaveWait(t)
      BY <2>1 DEF AcquireTest, EnterWait, EarlyReturn, NoSignalYet, LeaveWait, Move
    <2>2. CASE PollUnlock(t) \/ PollEnd(t) \/ ReadSignaled(t) \/ WriteSignaled(t)
      BY <2>2 DEF PollUnlock, PollEnd, ReadSignaled, WriteSignaled, Move, Unlock
    <2>3. CASE TimedFirst(t) \/ TimedUnlock(t) \/ TimedRead(t)
      BY <2>3 DEF TimedFirst, TimedUnlock, TimedRead, Unlock
    <2>4. CASE TimedEnd(t) \/ CallerUnlocks(t)
      BY <2>4 DEF TimedEnd, CallerUnlocks, Move, Unlock
    <2>5. CASE TimedConsume(t)
      <3>1. expired' \in [Threads -> BOOLEAN]
        BY <2>5 DEF TimedConsume
      <3> QED  BY <2>5, <3>1 DEF TimedConsume
    <2>6. CASE ReleaseThread(t) \/ SignalRead(t) \/ SignalWrite(t)
      BY <2>6 DEF ReleaseThread, SignalRead, SignalWrite
    <2>7. CASE WakeupRead(t) \/ WakeupWrite(t)
      BY <2>7 DEF WakeupRead, WakeupWrite
    <2> QED  BY <1>2, <2>1, <2>2, <2>3, <2>4, <2>5, <2>6, <2>7 DEF CallStep
  <1>3. ASSUME NEW t \in Threads, BeginStep(t) PROVE TypeOK'
    BY <1>3 DEF BeginStep, BeginAcquire, WorkUnlocked, BeginTimedWait, SignalLock,
       WakeupThread, Begin, Unlock
  <1>4. CASE Tick
    BY <1>4 DEF Tick
  <1>5. CASE UNCHANGED vars
    BY <1>5 DEF vars
  <1> QED  BY <1>1, <1>2, <1>3, <1>4, <1>5 DEF Next, Finished

(* Who enters a wait and who leaves it is counted in the same step. *)
LEMMA CountStep == Inv /\ [Next]_vars => WaitersCounted'
  <1> SUFFICES ASSUME Inv, [Next]_vars PROVE WaitersCounted'
    OBVIOUS
  <1> USE RolesAssumption DEF Inv, TypeOK, Goto, time, shared
  <1>1. IsFiniteSet(Waiting) /\ c_waiting = Cardinality(Waiting)
    BY FS_Subset DEF Waiting, WaitersCounted
  <1>2. ASSUME c_waiting' = c_waiting, Waiting' = Waiting PROVE WaitersCounted'
    BY <1>1, <1>2 DEF Waiting, WaitersCounted
  <1>3. ASSUME NEW t \in Threads, EnterWait(t) PROVE WaitersCounted'
    <2>1. Waiting' = Waiting \cup {t} /\ t \notin Waiting
      BY <1>3 DEF EnterWait, Waiting, InWait
    <2>2. Cardinality(Waiting') = Cardinality(Waiting) + 1
      BY <1>1, <2>1, FS_AddElement
    <2> QED  BY <1>1, <1>3, <2>2 DEF EnterWait, Waiting, WaitersCounted
  <1>4. ASSUME NEW t \in Threads, EarlyReturn(t) \/ LeaveWait(t) PROVE WaitersCounted'
    <2>1. Waiting' = Waiting \ {t} /\ t \in Waiting /\ c_waiting' = c_waiting - 1
      BY <1>4 DEF EarlyReturn, LeaveWait, Waiting, InWait
    <2>2. Cardinality(Waiting') = Cardinality(Waiting) - 1
      BY <1>1, <2>1, FS_RemoveElement
    <2> QED  BY <1>1, <2>1, <2>2 DEF Waiting, WaitersCounted
  <1> USE DEF Waiting, InWait
  <1>5. ASSUME NEW t \in Threads, LockStep(t) PROVE WaitersCounted'
    BY <1>2, <1>5 DEF LockStep, AcquireLock, RelockAndReturn, PollLock, WorkDone, Lock
  <1>6. ASSUME NEW t \in Threads, CallStep(t),
               ~EnterWait(t), ~EarlyReturn(t), ~LeaveWait(t)
        PROVE  WaitersCounted'
    <2>1. CASE AcquireTest(t) \/ NoSignalYet(t) \/ PollUnlock(t) \/ PollEnd(t)
               \/ ReadSignaled(t) \/ WriteSignaled(t)
      BY <1>2, <2>1 DEF AcquireTest, NoSignalYet, PollUnlock, PollEnd, ReadSignaled,
         WriteSignaled, Move, Unlock
    <2>2. CASE TimedFirst(t) \/ TimedUnlock(t) \/ TimedRead(t) \/ TimedEnd(t)
               \/ TimedConsume(t) \/ CallerUnlocks(t)
      BY <1>2, <2>2 DEF TimedFirst, TimedUnlock, TimedRead, TimedEnd, TimedConsume,
         CallerUnlocks, Move, Unlock
    <2>3. CASE ReleaseThread(t) \/ SignalRead(t) \/ SignalWrite(t) \/ WakeupRead(t)
               \/ WakeupWrite(t)
      BY <1>2, <2>3 DEF ReleaseThread, SignalRead, SignalWrite, WakeupRead, WakeupWrite
    <2> QED  BY <1>6, <2>1, <2>2, <2>3 DEF CallStep
  <1>7. ASSUME NEW t \in Threads, BeginStep(t) PROVE WaitersCounted'
    BY <1>2, <1>7 DEF BeginStep, BeginAcquire, WorkUnlocked, BeginTimedWait, SignalLock,
       WakeupThread, Begin, Unlock
  <1>8. CASE Tick
    BY <1>2, <1>8 DEF Tick
  <1>9. CASE UNCHANGED vars
    BY <1>2, <1>9 DEF vars
  <1> QED  BY <1>3, <1>4, <1>5, <1>6, <1>7, <1>8, <1>9 DEF Next, Finished

LEMMA RoleStep == Inv /\ [Next]_vars => RoleInv'
  <1> SUFFICES ASSUME Inv, [Next]_vars PROVE RoleInv'
    OBVIOUS
  <1> USE RolesAssumption DEF Inv, TypeOK, RoleInv, Goto, time, shared
  <1>1. ASSUME NEW t \in Threads, LockStep(t) PROVE RoleInv'
    BY <1>1 DEF LockStep, AcquireLock, RelockAndReturn, PollLock, WorkDone, Lock
  <1>2. ASSUME NEW t \in Threads, CallStep(t) PROVE RoleInv'
    BY <1>2 DEF CallStep, AcquireTest, EnterWait, EarlyReturn, NoSignalYet, PollUnlock,
       PollEnd, ReadSignaled, WriteSignaled, LeaveWait, TimedFirst, TimedUnlock, TimedRead,
       TimedEnd, TimedConsume, CallerUnlocks, ReleaseThread, SignalRead, SignalWrite,
       WakeupRead, WakeupWrite, Move, Unlock
  <1>3. ASSUME NEW t \in Threads, BeginStep(t) PROVE RoleInv'
    BY <1>3 DEF BeginStep, BeginAcquire, WorkUnlocked, BeginTimedWait, SignalLock,
       WakeupThread, Begin, Unlock
  <1>4. CASE Tick
    BY <1>4 DEF Tick
  <1>5. CASE UNCHANGED vars
    BY <1>5 DEF vars
  <1> QED  BY <1>1, <1>2, <1>3, <1>4, <1>5 DEF Next, Finished

(* Calls are never taken back: who has not run after a step had not run    *)
(* before it.                                                              *)
LEMMA QuietBefore ==
  ASSUME Inv, [Next]_vars
  PROVE  (NoWaker' => NoWaker) /\ (NoSignaller' => NoSignaller)
  <1>1. \A t \in Threads : rounds'[t] >= rounds[t]
    BY DEF Inv, TypeOK, Next, LockStep, AcquireLock, RelockAndReturn, PollLock, WorkDone,
       Lock, CallStep, AcquireTest, EnterWait, EarlyReturn, NoSignalYet, PollUnlock,
       PollEnd, ReadSignaled, WriteSignaled, LeaveWait, TimedFirst, TimedUnlock, TimedRead,
       TimedEnd, TimedConsume, CallerUnlocks, ReleaseThread, SignalRead, SignalWrite,
       WakeupRead, WakeupWrite, Move, Unlock, BeginStep, BeginAcquire, WorkUnlocked,
       BeginTimedWait, SignalLock, WakeupThread, Begin, Tick, Finished, shared, vars
  <1> QED  BY <1>1 DEF Inv, TypeOK, NoWaker, NoSignaller, Threads

(* The flag is taken by a thread that finds it free, and given back by the *)
(* owner.                                                                  *)
LEMMA OwnerStep == Inv /\ [Next]_vars => OwnerInv'
  <1> SUFFICES ASSUME Inv, [Next]_vars, NoWaker'
               PROVE  /\ \A t \in Threads : pc'[t] \in Owning => act'
                      /\ \A t, u \in Threads : {pc'[t], pc'[u]} \subseteq Owning => t = u
    BY DEF OwnerInv
  <1>1. NoWaker /\ OwnerInv
    BY QuietBefore DEF Inv
  <1> USE <1>1 DEF OwnerInv, Owning, TypeOK, Goto, time, shared
  <1>2. TypeOK
    BY DEF Inv
  <1> HIDE DEF Inv
  <1>3. ASSUME NEW t \in Threads, LockStep(t)
        PROVE  /\ \A u \in Threads : pc'[u] \in Owning => act'
               /\ \A u, v \in Threads : {pc'[u], pc'[v]} \subseteq Owning => u = v
    BY <1>2, <1>3 DEF LockStep, AcquireLock, RelockAndReturn, PollLock, WorkDone, Lock
  <1>4. ASSUME NEW t \in Threads, CallStep(t)
        PROVE  /\ \A u \in Threads : pc'[u] \in Owning => act'
               /\ \A u, v \in Threads : {pc'[u], pc'[v]} \subseteq Owning => u = v
    BY <1>2, <1>4 DEF CallStep, AcquireTest, EnterWait, EarlyReturn, NoSignalYet, PollUnlock,
       PollEnd, ReadSignaled, WriteSignaled, LeaveWait, TimedFirst, TimedUnlock, TimedRead,
       TimedEnd, TimedConsume, CallerUnlocks, ReleaseThread, SignalRead, SignalWrite,
       WakeupRead, WakeupWrite, Move, Unlock
  <1>5. ASSUME NEW t \in Threads, BeginStep(t)
        PROVE  /\ \A u \in Threads : pc'[u] \in Owning => act'
               /\ \A u, v \in Threads : {pc'[u], pc'[v]} \subseteq Owning => u = v
    BY <1>2, <1>5 DEF BeginStep, BeginAcquire, WorkUnlocked, BeginTimedWait, SignalLock,
       WakeupThread, Begin, Unlock, NoWaker
  <1>6. CASE Tick \/ UNCHANGED vars
    BY <1>6 DEF Tick, vars
  <1> QED  BY <1>3, <1>4, <1>5, <1>6 DEF Next, Finished

(* Who is inside a wait is counted. *)
LEMMA Counted == ASSUME Inv, NEW t \in Threads, pc[t] \in InWait PROVE c_waiting >= 1
  <1>1. IsFiniteSet(Waiting) /\ t \in Waiting /\ c_waiting = Cardinality(Waiting)
    BY RolesAssumption, FS_Subset DEF Inv, Waiting, WaitersCounted
  <1>2. Cardinality(Waiting) \in Nat /\ Cardinality(Waiting) # 0
    BY <1>1, FS_CardinalityType, FS_EmptySet
  <1> QED  BY <1>1, <1>2

(* While only broadcasts under the lock signal, both counters are written  *)
(* by the holder of the lock.                                              *)
LEMMA SignalStep == Inv /\ [Next]_vars => SignalInv'
  <1> DEFINE Goal == /\ c_signaled' <= c_waiting'
                     /\ \A u \in Threads :
                         /\ pc'[u] \in {"first", "leave"} => c_signaled' <= c_waiting' - 1
                         /\ pc'[u] = "decrement" => tmp'[u] = c_signaled'
  <1> SUFFICES ASSUME Inv, [Next]_vars, NoSignaller' PROVE Goal
    BY DEF SignalInv
  <1>1. NoSignaller /\ TypeOK /\ RoleInv
    BY QuietBefore DEF Inv
  <1>2. /\ c_signaled <= c_waiting
        /\ \A u \in Threads :
            /\ pc[u] \in {"first", "leave"} => c_signaled <= c_waiting - 1
            /\ pc[u] = "decrement" => tmp[u] = c_signaled
    BY <1>1 DEF Inv, SignalInv
  <1> USE <1>1, <1>2 DEF TypeOK, Holding, NotHolding, Goto, time, shared
  <1>3. ASSUME NEW t \in Threads, LockStep(t) PROVE Goal
    BY <1>3 DEF LockStep, AcquireLock, RelockAndReturn, PollLock, WorkDone, Lock
  <1>4. ASSUME NEW t \in Threads, CallStep(t) PROVE Goal
    <2>1. CASE EnterWait(t) \/ EarlyReturn(t) \/ LeaveWait(t)
      BY <2>1 DEF EnterWait, EarlyReturn, LeaveWait
    <2>2. CASE AcquireTest(t) \/ NoSignalYet(t) \/ PollUnlock(t) \/ PollEnd(t)
      BY <2>2 DEF AcquireTest, NoSignalYet, PollUnlock, PollEnd, Move, Unlock
    <2>3. CASE ReadSignaled(t) \/ WriteSignaled(t)
      BY <2>3 DEF ReadSignaled, WriteSignaled
    <2>4. CASE TimedFirst(t) \/ TimedUnlock(t) \/ TimedRead(t) \/ TimedEnd(t) \/ CallerUnlocks(t)
      BY <2>4 DEF TimedFirst, TimedUnlock, TimedRead, TimedEnd, CallerUnlocks, Move, Unlock
    <2>5. CASE TimedConsume(t)
      <3>1. c_waiting >= 1
        BY <2>5, Counted DEF TimedConsume, InWait
      <3> QED  BY <2>5, <3>1 DEF TimedConsume
    <2>6. CASE ReleaseThread(t)
      BY <2>6 DEF ReleaseThread
    <2>7. CASE SignalRead(t) \/ SignalWrite(t) \/ WakeupRead(t) \/ WakeupWrite(t)
      BY <2>7 DEF SignalRead, SignalWrite, WakeupRead, WakeupWrite, RoleInv, NoSignaller
    <2> QED  BY <1>4, <2>1, <2>2, <2>3, <2>4, <2>5, <2>6, <2>7 DEF CallStep
  <1>5. ASSUME NEW t \in Threads, BeginStep(t) PROVE Goal
    BY <1>5 DEF BeginStep, BeginAcquire, WorkUnlocked, BeginTimedWait, SignalLock,
       WakeupThread, Begin, Unlock
  <1>6. CASE Tick \/ UNCHANGED vars
    BY <1>6 DEF Tick, vars
  <1> QED  BY <1>3, <1>4, <1>5, <1>6 DEF Next, Finished

-----------------------------------------------------------------------------

(* Dividing keeps the order of two times. *)
LEMMA DivMonotonic ==
  ASSUME NEW x \in Nat, NEW y \in Nat, NEW c \in Nat \ {0}, x <= y
  PROVE  x \div c <= y \div c
  <1> DEFINE p == x \div c  q == y \div c
  <1>1. /\ p \in Nat /\ q \in Nat
        /\ c * p <= x /\ y < c * (q + 1)
    OBVIOUS
  <1>2. SUFFICES ASSUME p >= q + 1 PROVE FALSE
    BY <1>1
  <1>3. c * p >= c * (q + 1)
    BY <1>1, <1>2
  <1> QED  BY <1>1, <1>3

(* A time that is not before the deadline has reached it, although both    *)
(* are cut to microseconds.                                                *)
LEMMA NotBefore ==
  ASSUME NEW x \in Nat, NEW d \in Nat, ~Before(x, d)
  PROVE  x >= d
  <1>1. NsPerUs * UsPerSec \in Nat \ {0}
    <2>1. NsPerUs \in Nat \ {0} /\ UsPerSec \in Nat \ {0}
      BY RolesAssumption
    <2> QED  BY <2>1
  <1>2. SUFFICES ASSUME x <= d PROVE Sec(x) <= Sec(d)
    BY DEF Before
  <1> QED  BY <1>1, <1>2, DivMonotonic DEF Sec

LEMMA TimeTypes ==
  ASSUME TypeOK, NEW t \in Threads
  PROVE  now \in Nat /\ tv[t] \in Nat /\ deadline[t] \in Nat
  <1>1. (\A d \in Deadlines : d \in Nat) /\ MaxTime \in Nat
    BY RolesAssumption
  <1>2. now \in 0..MaxTime /\ tv[t] \in 0..MaxTime /\ deadline[t] \in Deadlines \cup {0}
    BY DEF TypeOK
  <1>3. deadline[t] \in Nat
    BY <1>1, <1>2
  <1>4. \A n \in 0..MaxTime : n \in Nat
    BY <1>1
  <1> QED  BY <1>2, <1>3, <1>4

(* The loop of condition_timedwait. *)
LEMMA TimeStep == Inv /\ [Next]_vars => TimeInv'
  <1> SUFFICES ASSUME Inv, [Next]_vars PROVE TimeInv'
    OBVIOUS
  <1>1. \A t \in Threads : tv'[t] <= now'
    BY DEF Inv, TypeOK, TimeInv, Next, LockStep, AcquireLock, RelockAndReturn, PollLock,
       WorkDone, Lock, CallStep, AcquireTest, EnterWait, EarlyReturn, NoSignalYet, PollUnlock,
       PollEnd, ReadSignaled, WriteSignaled, LeaveWait, TimedFirst, TimedUnlock, TimedRead,
       TimedEnd, TimedConsume, CallerUnlocks, ReleaseThread, SignalRead, SignalWrite,
       WakeupRead, WakeupWrite, Move, Unlock, BeginStep, BeginAcquire, WorkUnlocked,
       BeginTimedWait, SignalLock, WakeupThread, Begin, Tick, Finished, shared, time, vars
  <1> DEFINE Goal == \A w \in TimedWaiters :
                       /\ pc'[w] = "timed_end" => c_signaled' # 0 \/ ~Before(tv'[w], deadline'[w])
                       /\ pc'[w] \in {"consume", "decrement"} => ~expired'[w]
                       /\ pc'[w] \in {"leave", "returned"} /\ expired'[w] => now' >= deadline'[w]
  <1> SUFFICES ASSUME NoWaker' PROVE Goal
    BY <1>1 DEF TimeInv, Before, Sec, Usec
  <1>2. NoWaker /\ TypeOK /\ RoleInv
    BY QuietBefore DEF Inv
  <1>3. /\ \A t \in Threads : tv[t] <= now
        /\ \A w \in TimedWaiters :
             /\ pc[w] = "timed_end" => c_signaled # 0 \/ ~Before(tv[w], deadline[w])
             /\ pc[w] \in {"consume", "decrement"} => ~expired[w]
             /\ pc[w] \in {"leave", "returned"} /\ expired[w] => now >= deadline[w]
    BY <1>2 DEF Inv, TimeInv
  <1>4. TimedWaiters \subseteq Threads /\ TimedWaiters \cap Signallers = {}
    BY RolesAssumption DEF Threads
  <1> USE <1>2, <1>3, <1>4 DEF TypeOK, Holding, NotHolding, Goto, time, shared
  <1>5. ASSUME NEW t \in Threads, LockStep(t) PROVE Goal
    BY <1>5 DEF LockStep, AcquireLock, RelockAndReturn, PollLock, WorkDone, Lock
  <1>6. ASSUME NEW t \in Threads, CallStep(t) PROVE Goal
    <2>1. CASE AcquireTest(t) \/ EnterWait(t) \/ EarlyReturn(t) \/ NoSignalYet(t) \/ LeaveWait(t)
      BY <2>1 DEF AcquireTest, EnterWait, EarlyReturn, NoSignalYet, LeaveWait, Move
    <2>2. CASE PollUnlock(t) \/ PollEnd(t) \/ ReadSignaled(t) \/ WriteSignaled(t)
      BY <2>2 DEF PollUnlock, PollEnd, ReadSignaled, WriteSignaled, RoleInv, Move, Unlock
    <2>3. CASE TimedFirst(t) \/ TimedUnlock(t) \/ TimedRead(t)
      BY <2>3 DEF TimedFirst, TimedUnlock, TimedRead, Unlock
    <2>4. CASE TimedEnd(t) \/ CallerUnlocks(t)
      BY <2>4 DEF TimedEnd, CallerUnlocks, Move, Unlock
    <2>5. CASE TimedConsume(t)
      <3>1. t \in TimedWaiters /\ c_signaled = 0 => now >= deadline[t]
        <4> SUFFICES ASSUME t \in TimedWaiters, c_signaled = 0 PROVE now >= deadline[t]
          OBVIOUS
        <4>1. tv[t] \in Nat /\ deadline[t] \in Nat /\ now \in Nat
          BY TimeTypes
        <4>2. ~Before(tv[t], deadline[t])
          BY <2>5 DEF TimedConsume
        <4>3. tv[t] >= deadline[t]
          BY <4>1, <4>2, NotBefore
        <4> QED  BY <4>1, <4>3
      <3>2. /\ pc'[t] = IF c_signaled # 0 THEN "consume" ELSE "leave"
            /\ expired'[t] <=> c_signaled = 0
            /\ \A w \in TimedWaiters : w # t => pc'[w] = pc[w] /\ expired'[w] = expired[w]
        BY <2>5 DEF TimedConsume
      <3>3. UNCHANGED <<now, deadline, tv, c_signaled>>
        BY <2>5 DEF TimedConsume
      <3>4. ASSUME NEW w \in TimedWaiters, w # t
            PROVE  /\ pc'[w] = "timed_end" => c_signaled' # 0 \/ ~Before(tv'[w], deadline'[w])
                   /\ pc'[w] \in {"consume", "decrement"} => ~expired'[w]
                   /\ pc'[w] \in {"leave", "returned"} /\ expired'[w] => now' >= deadline'[w]
        BY <3>2, <3>3, <3>4
      <3> QED  BY <3>1, <3>2, <3>3, <3>4
    <2>6. CASE ReleaseThread(t)
      BY <2>6 DEF ReleaseThread
    <2>7. CASE SignalRead(t) \/ SignalWrite(t) \/ WakeupRead(t) \/ WakeupWrite(t)
      BY <2>7 DEF SignalRead, SignalWrite, WakeupRead, WakeupWrite, RoleInv, NoWaker
    <2> QED  BY <1>6, <2>1, <2>2, <2>3, <2>4, <2>5, <2>6, <2>7 DEF CallStep
  <1>7. ASSUME NEW t \in Threads, BeginStep(t) PROVE Goal
    BY <1>7 DEF BeginStep, BeginAcquire, WorkUnlocked, BeginTimedWait, SignalLock,
       WakeupThread, Begin, Unlock
  <1>8. CASE Tick
    <2>1. UNCHANGED <<pc, c_signaled, deadline, tv, expired>> /\ now' = now + 1
      BY <1>8 DEF Tick
    <2>2. \A w \in TimedWaiters : now \in Nat /\ deadline[w] \in Nat
      BY TimeTypes
    <2> QED  BY <2>1, <2>2
  <1>9. CASE UNCHANGED vars
    BY <1>9 DEF vars
  <1> QED  BY <1>5, <1>6, <1>7, <1>8, <1>9 DEF Next, Finished

-----------------------------------------------------------------------------

(* Inv is an inductive invariant of the polled condition. *)
THEOREM Invariance == Spec => []Inv
  <1>1. Inv /\ [Next]_vars => Inv'
    BY TypeStep, CountStep, RoleStep, OwnerStep, SignalStep, TimeStep DEF Inv
  <1> QED  BY <1>1, InitInv, PTL DEF Spec

(* Every variable keeps its type, and the lock is held exactly where the   *)
(* code of the waits and of the macros expects it.                         *)
THEOREM TypeCorrect == Spec => []TypeOK
  <1>1. Inv => TypeOK
    BY DEF Inv
  <1> QED  BY <1>1, Invariance, PTL

(* c_waiting is the number of threads inside a wait, on all of its exits. *)
THEOREM CountCorrect == Spec => []WaitersCounted
  <1>1. Inv => WaitersCounted
    BY DEF Inv
  <1> QED  BY <1>1, Invariance, PTL

(* ACQUIRE_THREAD lets one thread in at a time. *)
THEOREM ExclusionCorrect == Spec => []MutualExclusion
  <1>1. Inv => MutualExclusion
    BY DEF Inv, OwnerInv, Owning, NoWaker, MutualExclusion, Threads
  <1> QED  BY <1>1, Invariance, PTL

(* Broadcasts under the lock leave no signal behind. *)
THEOREM SignalCorrect == Spec => []NoStaleSignal
  <1>1. Inv => NoStaleSignal
    BY DEF Inv, SignalInv, NoSignaller, NoStaleSignal
  <1> QED  BY <1>1, Invariance, PTL

(* No timed wait ends without a signal before its deadline. *)
THEOREM TimeoutCorrect == Spec => []NoEarlyTimeout
  <1>1. Inv => NoEarlyTimeout
    BY DEF Inv, TimeInv, NoWaker, NoEarlyTimeout
  <1> QED  BY <1>1, Invariance, PTL

=============================================================================
