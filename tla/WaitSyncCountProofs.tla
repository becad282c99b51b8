------------------------ MODULE WaitSyncCountProofs ------------------------
(***************************************************************************)
(* Proofs, on top of the invariant of WaitSyncProofs, about what the count *)
(* of a sync is worth: that a global wakeup reaches every waiter, that a   *)
(* wait which succeeds is complete, that ompi_sync_wait_mt implements      *)
(* Wait, and that no sync is used after its release.                       *)
(***************************************************************************)
EXTENDS WaitSyncProofs

(* The syncs that a global wakeup has completed so far, and the one it is  *)
(* at, are a part of the ring that begins at its head.                     *)
Reached(a, S) ==
    /\ wait_sync_list \in S /\ call[a].sync \in S
    /\ \A s \in S : s # call[a].sync => next[s] \in S /\ count[s] <= 0

WakeInv ==
    \A a \in Threads : Wakes(a) /\ call[a].status # 0 =>
        /\ \E S \in SUBSET Registered : Reached(a, S)
        /\ pc[a] \in {"signal", "clear", "wk_next"} => count[call[a].sync] <= 0

(* The threads that are about to count a completion of t. *)
Updaters(t) ==
    {a \in Threads : /\ pc[a] = "update"
                     /\ call[a].sync = t
                     /\ call[a].updates = 1}

(* A wait that is over. *)
OverPcs == {"decr", "done", "pass", "return", "release"}

(* Nobody has heard of a sync before its first wait. *)
FreshInv ==
    /\ \A t \in Waiters : IsFiniteSet(Updaters(t)) /\ rounds[t] <= MaxRounds
    /\ \A t \in Waiters : rounds[t] = 0 => ~Live(t)
    /\ \A a \in Threads : pc[a] \in CallPcs => rounds[call[a].sync] # 0
    /\ \A a \in Threads : pc[a] = "swap" => call[a].status # 0

(* A wait is over when the count is used up, and the count is what is left *)
(* unless somebody has reported an error.                                  *)
ExactInv ==
    /\ \A t \in Waiters : pc[t] \in OverPcs => count[t] <= 0
    /\ \A t \in Waiters : Live(t) => (result[t] # NULL <=> pc[t] = "release")
    /\ \A t \in Waiters : Exact(t) /\ Live(t) /\ status[t] = 0 => count[t] = Left(t)
    /\ \A a \in Threads, t \in Waiters :
        pc[a] = "swap" /\ call[a].sync = t /\ Live(t) /\ Exact(t) => status[t] # 0
    /\ \A t \in Waiters : Exact(t) /\ Live(t) /\ result[t] = "SUCCESS" => Left(t) = 0
    /\ Errors = {} => \A t \in Waiters : ~Live(t) => Left(t) = 0

(* Without errors and wakeups, a sync has one signaller at most, and waits *)
(* for it.                                                                 *)
Signallers(t) == {a \in Threads : pc[a] \in {"signal", "clear"} /\ call[a].sync = t}

ReleaseInv ==
    /\ \A a \in Threads : pc[a] \notin WakeupPcs \cup {"swap"}
    /\ \A a \in Threads : pc[a] \in CallPcs => call[a].updates = 1
    /\ \A t \in Waiters : Live(t) /\ count[t] > 0 => signaling[t]
    /\ \A t \in Waiters : \A a \in Signallers(t) :
        Live(t) /\ signaling[t] /\ count[t] = 0 /\ Signallers(t) = {a}

-----------------------------------------------------------------------------
(* A global wakeup holds wait_sync_lock, so nobody enters or leaves the    *)
(* ring, and a count in it does not grow.                                  *)
LEMMA WakeupKeepsRing ==
  ASSUME Inv, [Next]_vars, NEW b \in Threads, Wakes(b)
  PROVE  /\ wait_sync_list' = wait_sync_list /\ Registered' = Registered
         /\ \A s \in Registered : next'[s] = next[s] /\ (count[s] <= 0 => count'[s] <= 0)
  <1> DEFINE Goal == /\ wait_sync_list' = wait_sync_list /\ Registered' = Registered
                     /\ \A s \in Registered : /\ next'[s] = next[s]
                                              /\ count[s] <= 0 => count'[s] <= 0
  <1>1. wait_sync_lock # NULL
    BY ConstantsAssumption DEF Inv, LockInv, HoldsRing, Threads
  <1> USE DEF Inv, TypeOK, Registered, Threads, CallPcs, WakeupPcs, Goto, mutex, ring, sync
  <1>2. ASSUME NEW t \in Waiters, WaitStep(t) PROVE Goal
    <2>1. ~Insert(t) /\ ~Trim(t)
      BY <1>1 DEF Insert, Trim
    <2> QED  BY <1>2, <2>1 DEF WaitStep, Enter, LockAndRecheck, CheckHead, CheckNum, Woken,
         StartProgress, EnterLoop, LeaveLoop, StopProgress, PassOwnership,
         SignalAndGoto, Return, WaitSyncRelease
  <1>3. ASSUME NEW a \in Threads, CallStep(a) PROVE Goal
    <2>1. CASE UpdateSuccess(a)
      <3>1. call[a].updates \in {0, 1} /\ call[a].sync \in Waiters
        BY <1>3, <2>1 DEF UpdateSuccess, CallInv, Calls
      <3>2. \A s \in Registered : count[s] <= 0 => count'[s] <= 0
        BY <2>1, <3>1 DEF UpdateSuccess
      <3>3. wait_sync_list' = wait_sync_list /\ next' = next /\ Registered' = Registered
        BY <1>3, <2>1 DEF UpdateSuccess, ReturnToCaller, Home
      <3> QED  BY <3>2, <3>3
    <2>2. CASE ~UpdateSuccess(a)
      BY <1>3, <2>2 DEF CallStep, UpdateError, SwapCount, SignalSync,
         SignalAndGoto, ClearSignaling, ReturnToCaller, Home, WakeupFirst, WakeupNext
    <2> QED  BY <2>1, <2>2
  <1>4. CASE ClientStep
    BY <1>4 DEF ClientStep, WaitSyncInit, SpuriousWakeup, BeginUpdate, BeginWakeup,
       InProgress, Home
  <1>5. CASE UNCHANGED vars
    BY <1>5 DEF vars
  <1> QED  BY <1>2, <1>3, <1>4, <1>5 DEF Next, Finished

(* The wakeup itself goes from one sync to the next. *)
LEMMA WakeStep == Inv /\ WakeInv /\ [Next]_vars => WakeInv'
  <1> SUFFICES ASSUME Inv, WakeInv, [Next]_vars, NEW b \in Threads,
                      Wakes(b)', call'[b].status # 0
               PROVE  /\ \E S \in SUBSET Registered' : Reached(b, S)'
                      /\ pc'[b] \in {"signal", "clear", "wk_next"} => count'[call'[b].sync] <= 0
    BY DEF WakeInv
  <1> DEFINE Done == {"signal", "clear", "wk_next"}
  <1>1. ASSUME Wakes(b), call'[b] = call[b],
               pc'[b] \in Done => pc[b] \in Done \/ count'[call[b].sync] <= 0
        PROVE  /\ \E S \in SUBSET Registered' : Reached(b, S)'
               /\ pc'[b] \in Done => count'[call'[b].sync] <= 0
    <2>1. PICK S \in SUBSET Registered : Reached(b, S)
      BY <1>1 DEF WakeInv
    <2>2. call[b].sync \in Registered
      BY <1>1 DEF Inv, CallInv
    <2>3. Reached(b, S)' /\ S \in SUBSET Registered'
      BY <1>1, <2>1, WakeupKeepsRing DEF Reached
    <2>4. pc'[b] \in Done => count'[call'[b].sync] <= 0
      BY <1>1, <2>2, WakeupKeepsRing DEF WakeInv
    <2> QED  BY <2>3, <2>4
  <1>2. CASE Wakes(b) /\ ~CallStep(b)
    <2>1. pc'[b] = pc[b] /\ call'[b] = call[b]
      <3> USE DEF Wakes, Goto, CallPcs, WakeupPcs, Inv, TypeOK, Threads
      <3>1. ASSUME NEW t \in Waiters, WaitStep(t) PROVE pc'[b] = pc[b] /\ call'[b] = call[b]
        BY <1>2, <3>1 DEF WaitStep, Enter, LockAndRecheck, Insert, CheckHead, CheckNum, Woken,
           StartProgress, EnterLoop, LeaveLoop, StopProgress, Trim, PassOwnership,
           SignalAndGoto, Return, WaitSyncRelease
      <3>2. ASSUME NEW a \in Threads, a # b, CallStep(a) PROVE pc'[b] = pc[b] /\ call'[b] = call[b]
        BY <1>2, <3>2 DEF CallStep, UpdateSuccess, UpdateError, SwapCount, SignalSync,
           SignalAndGoto, ClearSignaling, ReturnToCaller, WakeupFirst, WakeupNext
      <3>3. CASE ClientStep
        BY <1>2, <3>3 DEF ClientStep, WaitSyncInit, SpuriousWakeup, BeginUpdate, BeginWakeup,
           InProgress, Home
      <3>4. CASE UNCHANGED vars
        BY <3>4 DEF vars
      <3> QED  BY <1>2, <3>1, <3>2, <3>3, <3>4 DEF Next, Finished
    <2> QED  BY <1>1, <1>2, <2>1
  <1>3. CASE Wakes(b) /\ CallStep(b)
    <2> USE DEF Wakes, Goto, CallPcs, WakeupPcs, Inv, TypeOK
    <2>1. CASE UpdateSuccess(b)
      BY <1>3, <2>1 DEF UpdateSuccess, ReturnToCaller
    <2>2. CASE UpdateError(b)
      BY <1>1, <1>3, <2>2 DEF UpdateError
    <2>3. CASE SwapCount(b)
      <3>1. count'[call[b].sync] = 0
        BY <2>3 DEF SwapCount, CallInv
      <3> QED  BY <1>1, <1>3, <2>3, <3>1 DEF SwapCount
    <2>4. CASE SignalSync(b) \/ ClearSignaling(b)
      BY <1>1, <1>3, <2>4 DEF SignalSync, SignalAndGoto, ClearSignaling, ReturnToCaller
    <2>5. CASE WakeupNext(b)
      <3> DEFINE s == next[call[b].sync]
      <3>1. s # wait_sync_list
        BY <1>3, <2>5 DEF WakeupNext, Home
      <3>2. /\ pc'[b] = "update" /\ call'[b].sync = s
            /\ call[b].status # 0
        BY <1>3, <2>5, <3>1 DEF WakeupNext, Calls
      <3>3. PICK S \in SUBSET Registered : Reached(b, S)
        BY <1>3, <3>2 DEF WakeInv
      <3>4. s \in Registered /\ count[call[b].sync] <= 0
        BY <1>3, <2>5, <3>2 DEF WakeInv, WakeupNext, CallInv, RingIntact
      <3>5. UNCHANGED <<wait_sync_list, next, count>> /\ Registered' = Registered
        BY <1>3, <2>5, WakeupKeepsRing DEF WakeupNext, ring, sync
      <3>6. PICK x \in Registered : x = s
        BY <3>4
      <3>7. Reached(b, S \cup {x})' /\ S \cup {x} \in SUBSET Registered'
        BY <3>2, <3>3, <3>4, <3>5, <3>6 DEF Reached
      <3> QED  BY <3>2, <3>7
    <2>6. ~WakeupFirst(b)
      BY <1>3 DEF WakeupFirst
    <2> QED  BY <1>3, <2>1, <2>2, <2>3, <2>4, <2>5, <2>6 DEF CallStep
  <1>4. CASE ~Wakes(b)
    <2> USE DEF Wakes, Goto, CallPcs, WakeupPcs, Inv, TypeOK, Threads
    <2>1. ASSUME NEW t \in Waiters, WaitStep(t) PROVE FALSE
      BY <1>4, <2>1 DEF WaitStep, Enter, LockAndRecheck, Insert, CheckHead, CheckNum, Woken,
         StartProgress, EnterLoop, LeaveLoop, StopProgress, Trim, PassOwnership,
         SignalAndGoto, Return, WaitSyncRelease
    <2>2. ASSUME NEW a \in Threads, CallStep(a), ~WakeupFirst(a) PROVE FALSE
      BY <1>4, <2>2 DEF CallStep, UpdateSuccess, UpdateError, SwapCount, SignalSync,
         SignalAndGoto, ClearSignaling, ReturnToCaller, WakeupNext, Home, NoCall
    <2>3. CASE ClientStep
      BY <1>4, <2>3 DEF ClientStep, WaitSyncInit, SpuriousWakeup, BeginUpdate, BeginWakeup,
         InProgress, Home
    <2>4. CASE UNCHANGED vars
      BY <1>4, <2>4 DEF vars
    <2>5. ASSUME NEW a \in Threads, WakeupFirst(a)
          PROVE  /\ \E S \in SUBSET Registered' : Reached(b, S)'
                 /\ pc'[b] \in Done => count'[call'[b].sync] <= 0
      <3>1. a = b /\ wait_sync_list # NULL /\ pc'[b] = "update"
            /\ call'[b].sync = wait_sync_list /\ wait_sync_list' = wait_sync_list
        BY <1>4, <2>5 DEF WakeupFirst, Home, Calls, ring
      <3>2. wait_sync_list \in Registered /\ Registered' = Registered
        BY <2>5, <3>1 DEF RingIntact, Registered, WakeupFirst
      <3>3. Reached(b, {wait_sync_list})'
        BY <3>1 DEF Reached
      <3> QED  BY <3>1, <3>2, <3>3
    <2> QED  BY <2>1, <2>2, <2>3, <2>4, <2>5 DEF Next, Finished
  <1> QED  BY <1>2, <1>3, <1>4

(* An error given to threads_base_wait_sync_global_wakeup_mt reaches every *)
(* sync of the ring: when it is back at the head none has a count left.    *)
THEOREM WakeupCorrect == Spec => []WakeupReachesAll
  <1>1. Init => WakeInv
    BY DEF Init, WakeInv, Wakes, CallPcs, Threads
  <1>2. Inv /\ WakeInv => WakeupReachesAll
    <2> SUFFICES ASSUME Inv, WakeInv, NEW a \in Threads, pc[a] = "wk_next",
                        next[call[a].sync] = wait_sync_list, call[a].status # 0,
                        NEW s \in Registered
                 PROVE  count[s] <= 0
      BY DEF WakeupReachesAll
    <2>1. PICK S \in SUBSET Registered : Reached(a, S)
      BY DEF WakeInv, Wakes
    <2>2. S = Registered
      BY <2>1 DEF Inv, RingIntact, Reached
    <2> QED  BY <2>1, <2>2 DEF Reached, WakeInv, Wakes
  <1> QED  BY <1>1, <1>2, Invariance, WakeStep, PTL DEF Spec

-----------------------------------------------------------------------------
(* What is left of a wait, step by step. *)

LEMMA LeftIs ==
  ASSUME TypeOK, FreshInv, NEW t \in Waiters
  PROVE  /\ Left(t) = pending[t] + Cardinality(Updaters(t)) /\ Left(t) \in Nat
         /\ Left(t) = 0 <=> pending[t] = 0 /\ Updaters(t) = {}
  <1>1. Left(t) = pending[t] + Cardinality(Updaters(t))
    BY DEF Left, Updaters
  <1>2. /\ Cardinality(Updaters(t)) \in Nat
        /\ Cardinality(Updaters(t)) = 0 <=> Updaters(t) = {}
    BY FS_CardinalityType, FS_EmptySet DEF FreshInv
  <1> QED  BY <1>1, <1>2 DEF TypeOK

(* Every step but WAIT_SYNC_INIT, the return, the release, the begin of an *)
(* update and its access to the sync is calm.                              *)
Calm ==
    /\ UNCHANGED <<count, status, result, pending, rounds>>
    /\ \A t \in Waiters : pc'[t] = "start" <=> pc[t] = "start"
    /\ \A t \in Waiters : pc'[t] = "release" <=> pc[t] = "release"
    /\ \A t \in Waiters : pc'[t] \in OverPcs => pc[t] \in OverPcs \/ count[t] <= 0
    /\ \A a \in Threads : pc'[a] = "swap" => pc[a] = "swap" /\ call'[a] = call[a]
    /\ \A a \in Threads : pc'[a] \in CallPcs =>
          \/ pc[a] \in CallPcs /\ call'[a] = call[a]
          \/ call'[a].sync \in Registered
    /\ \A t \in Waiters : Updaters(t)' = Updaters(t)

LEMMA WaitIsCalm ==
  ASSUME Inv, NEW t \in Waiters, WaitStep(t), ~Return(t), ~WaitSyncRelease(t) PROVE Calm
  <1>1. call' = call /\ \A a \in Threads : pc[a] \in CallPcs \/ pc'[a] \in CallPcs => pc'[a] = pc[a]
    BY DEF Inv, TypeOK, Threads, CallPcs, Goto, CallInv, WaitStep, Enter, LockAndRecheck, Insert,
       CheckHead, CheckNum, Woken, StartProgress, EnterLoop, LeaveLoop, StopProgress,
       Trim, PassOwnership, SignalAndGoto
  <1>2. \A s \in Waiters : Updaters(s)' = Updaters(s)
    BY <1>1 DEF Updaters, CallPcs
  <1>3. /\ \A s \in Waiters : pc'[s] = "start" <=> pc[s] = "start"
        /\ \A s \in Waiters : pc'[s] = "release" <=> pc[s] = "release"
        /\ \A s \in Waiters : pc'[s] \in OverPcs => pc[s] \in OverPcs \/ count[s] <= 0
    BY DEF Inv, TypeOK, Threads, OverPcs, Goto, CallInv, WaitStep, Enter, LockAndRecheck, Insert,
       CheckHead, CheckNum, Woken, StartProgress, EnterLoop, LeaveLoop, StopProgress,
       Trim, PassOwnership, SignalAndGoto
  <1>4. UNCHANGED <<count, status, result, pending, rounds>>
    BY DEF sync, client, WaitStep, Enter, LockAndRecheck, Insert,
       CheckHead, CheckNum, Woken, StartProgress, EnterLoop, LeaveLoop, StopProgress,
       Trim, PassOwnership
  <1> QED  BY <1>1, <1>2, <1>3, <1>4 DEF Calm, CallPcs

LEMMA CallIsCalm ==
  ASSUME Inv, NEW a \in Threads,
         SignalSync(a) \/ ClearSignaling(a) \/ WakeupFirst(a) \/ WakeupNext(a)
  PROVE  Calm
  <1> USE DEF Inv, TypeOK, Threads, CallPcs, WakeupPcs, Goto, SignalSync, SignalAndGoto, ClearSignaling,
        ReturnToCaller, Home, WakeupFirst, WakeupNext
  <1>1. /\ \A s \in Waiters : pc'[s] = "start" <=> pc[s] = "start"
        /\ \A s \in Waiters : pc'[s] = "release" <=> pc[s] = "release"
        /\ \A s \in Waiters : pc'[s] \in OverPcs => pc[s] \in OverPcs
        /\ \A b \in Threads : pc'[b] = "swap" => pc[b] = "swap" /\ call'[b] = call[b]
    BY DEF OverPcs, CallInv
  <1>2. UNCHANGED <<count, status, result, pending, rounds>>
    BY DEF sync, client
  <1>3. \A b \in Threads : b # a =>
            call'[b] = call[b] /\ (pc[b] \in CallPcs \/ pc'[b] \in CallPcs => pc'[b] = pc[b])
    BY DEF CallInv
  <1>4. pc[a] # "update" /\ (pc'[a] = "update" => call'[a].updates = 0)
    BY DEF CallInv, Calls
  <1>5. pc'[a] \in CallPcs => \/ pc[a] \in CallPcs /\ call'[a] = call[a]
                              \/ call'[a].sync \in Registered
    <2>1. CASE SignalSync(a) \/ ClearSignaling(a)
      BY <2>1
    <2>2. CASE WakeupFirst(a)
      BY <2>2 DEF RingIntact, Calls
    <2>3. CASE WakeupNext(a)
      <3>1. next[call[a].sync] \in Registered
        BY <2>3 DEF CallInv, Wakes, RingIntact
      <3> QED  BY <2>3, <3>1 DEF Calls
    <2> QED  BY <2>1, <2>2, <2>3
  <1>6. \A s \in Waiters : Updaters(s)' = Updaters(s)
    <2>1. \A s \in Waiters, b \in Threads :
            (pc'[b] = "update" /\ call'[b].sync = s /\ call'[b].updates = 1)
               <=> (pc[b] = "update" /\ call[b].sync = s /\ call[b].updates = 1)
      <3> HIDE DEF SignalSync, ClearSignaling, WakeupFirst, WakeupNext
      <3> QED  BY <1>3, <1>4
    <2> QED  BY <2>1 DEF Updaters
  <1> HIDE DEF SignalSync, ClearSignaling, WakeupFirst, WakeupNext
  <1> QED  BY <1>1, <1>2, <1>3, <1>5, <1>6 DEF Calm

(* The steps that are not calm. *)
Touch(a) == UpdateSuccess(a) \/ UpdateError(a) \/ SwapCount(a)

LEMMA StepKinds ==
  ASSUME Inv, [Next]_vars
  PROVE  \/ Calm
         \/ \E t \in Waiters : Return(t) \/ WaitSyncRelease(t) \/ \E c \in Counts : WaitSyncInit(t, c)
         \/ \E a \in Threads : Touch(a)
         \/ \E a \in Threads, s \in Waiters, st \in Statuses : BeginUpdate(a, s, st)
  <1>1. ASSUME NEW t \in Waiters, SpuriousWakeup(t) PROVE Calm
    <2>1. \A s \in Waiters : Updaters(s)' = Updaters(s)
      BY <1>1 DEF SpuriousWakeup, Goto, Updaters, Inv, TypeOK, Threads
    <2> QED  BY <1>1, <2>1 DEF SpuriousWakeup, Goto, Calm, OverPcs, CallPcs, sync, client, Inv, TypeOK, Threads
  <1>2. ASSUME NEW a \in Threads, NEW st \in WakeupStatuses, BeginWakeup(a, st) PROVE Calm
    <2>1. \A s \in Waiters : Updaters(s)' = Updaters(s)
      BY <1>2 DEF BeginWakeup, InProgress, Home, Goto, Updaters, Inv, TypeOK, Threads
    <2> QED  BY <1>2, <2>1 DEF BeginWakeup, InProgress, Home, Goto, Calm, OverPcs, CallPcs, sync,
             Inv, TypeOK, Threads
  <1>3. CASE UNCHANGED vars
    <2>1. \A s \in Waiters : Updaters(s)' = Updaters(s)
      BY <1>3 DEF Updaters, vars
    <2> QED  BY <1>3, <2>1 DEF vars, Calm, sync, client
  <1> QED  BY <1>1, <1>2, <1>3, WaitIsCalm, CallIsCalm
           DEF Next, WaitStep, CallStep, ClientStep, Finished, Touch

(* A completion that is being reported is still left ... *)
LEMMA BeginLeft ==
  ASSUME Inv, FreshInv, NEW a \in Threads, NEW s \in Waiters, NEW st \in Statuses,
         BeginUpdate(a, s, st), NEW t \in Waiters
  PROVE  IsFiniteSet(Updaters(t)') /\ Left(t)' = Left(t)
  <1> USE DEF BeginUpdate, InProgress, Home, Goto, Inv, TypeOK
  <1>1. IsFiniteSet(Updaters(t)) /\ a \notin Updaters(t)
    BY DEF FreshInv, Updaters
  <1>2. CASE t = s
    <2>1. Updaters(t)' = Updaters(t) \cup {a} /\ pending'[t] = pending[t] - 1 /\ pending[t] \in Nat
      BY <1>2 DEF Updaters
    <2>2. Cardinality(Updaters(t)') = Cardinality(Updaters(t)) + 1 /\ IsFiniteSet(Updaters(t)')
      BY <1>1, <2>1, FS_AddElement
    <2>3. Cardinality(Updaters(t)) \in Nat
      BY <1>1, FS_CardinalityType
    <2> QED  BY <2>1, <2>2, <2>3 DEF Left, Updaters
  <1>3. CASE t # s
    <2>1. Updaters(t)' = Updaters(t) /\ pending'[t] = pending[t]
      BY <1>3 DEF Updaters
    <2> QED  BY <1>1, <2>1 DEF Left, Updaters
  <1> QED  BY <1>2, <1>3

(* ... until wait_sync_update gets to the sync. *)
LEMMA UpdateLeft ==
  ASSUME Inv, FreshInv, NEW a \in Threads, UpdateSuccess(a) \/ UpdateError(a),
         NEW t \in Waiters
  PROVE  /\ IsFiniteSet(Updaters(t)')
         /\ Left(t)' = IF t = call[a].sync THEN Left(t) - call[a].updates ELSE Left(t)
  <1> USE DEF UpdateSuccess, UpdateError, ReturnToCaller, Home, Goto, Inv, TypeOK
  <1>1. IsFiniteSet(Updaters(t)) /\ pending' = pending /\ Left(t) \in Nat
    BY LeftIs DEF FreshInv, client
  <1>2. pc[a] = "update" /\ pc'[a] # "update" /\ call[a].updates \in {0, 1}
    BY DEF Calls
  <1>3. \A b \in Threads : b # a => pc'[b] = pc[b] /\ call'[b] = call[b]
    OBVIOUS
  <1> HIDE DEF UpdateSuccess, UpdateError
  <1>4. CASE t = call[a].sync /\ call[a].updates = 1
    <2>1. a \in Updaters(t) /\ Updaters(t)' = Updaters(t) \ {a}
      BY <1>2, <1>3, <1>4 DEF Updaters
    <2>2. Cardinality(Updaters(t)') = Cardinality(Updaters(t)) - 1 /\ IsFiniteSet(Updaters(t)')
      BY <1>1, <2>1, FS_RemoveElement
    <2>3. Cardinality(Updaters(t)) \in Nat
      BY <1>1, FS_CardinalityType
    <2> QED  BY <1>1, <1>4, <2>2, <2>3 DEF Left, Updaters
  <1>5. CASE ~(t = call[a].sync /\ call[a].updates = 1)
    <2>1. Updaters(t)' = Updaters(t)
      BY <1>2, <1>3, <1>5 DEF Updaters
    <2>2. Left(t)' = Left(t)
      BY <1>1, <2>1 DEF Left, Updaters
    <2> QED  BY <1>1, <1>2, <1>5, <2>1, <2>2
  <1> QED  BY <1>4, <1>5

(* The invariants are preserved, one kind of step at a time. *)
LEMMA CalmExact ==
  ASSUME Inv, FreshInv, ExactInv, Calm PROVE FreshInv' /\ ExactInv'
  <1>1. \A t \in Waiters : Left(t)' = Left(t)
    BY DEF Calm, Left, Updaters
  <1>2. \A t \in Waiters : (Live(t)' <=> Live(t)) /\ (Exact(t)' <=> Exact(t))
    BY DEF Calm, Live, Exact
  <1>3. FreshInv'
    <2>1. \A s \in Registered : s \in Waiters /\ rounds[s] # 0
      BY DEF Registered, FreshInv, Live
    <2> QED  BY <1>2, <2>1 DEF Calm, FreshInv
  <1> QED  BY <1>1, <1>2, <1>3 DEF Calm, ExactInv

LEMMA OpenExact ==
  ASSUME Inv, FreshInv, ExactInv, NEW t \in Waiters, NEW c \in Counts, WaitSyncInit(t, c)
  PROVE  FreshInv' /\ ExactInv' /\ (Exact(t)' => Left(t)' = c /\ Left(t) \in Nat)
  <1> t \in Threads /\ c \in Nat
    BY ConstantsAssumption DEF Threads
  <1>1. /\ pc[t] = "start" /\ pc'[t] = "enter" /\ \A a \in Threads : a # t => pc'[a] = pc[a]
        /\ call' = call
        /\ rounds'[t] = rounds[t] + 1 /\ rounds'[t] <= MaxRounds /\ rounds[t] \in Nat
        /\ count'[t] = c /\ status'[t] = 0 /\ pending'[t] = c /\ result'[t] = NULL
    BY ConstantsAssumption DEF WaitSyncInit, Goto, Inv, TypeOK
  <1>2. \A s \in Waiters : s # t =>
           /\ rounds'[s] = rounds[s] /\ count'[s] = count[s] /\ status'[s] = status[s]
           /\ pending'[s] = pending[s] /\ result'[s] = result[s]
    BY DEF WaitSyncInit, Inv, TypeOK
  <1>3. \A s \in Waiters : Updaters(s)' = Updaters(s)
    BY <1>1 DEF Updaters
  <1>4. \A a \in Threads : pc'[a] \in CallPcs => pc[a] \in CallPcs /\ pc'[a] = pc[a] /\ a # t
    BY <1>1 DEF CallPcs
  <1>5. FreshInv'
    <2>1. \A a \in Threads : pc[a] \in CallPcs => call[a].sync \in Waiters
      BY DEF Inv, CallInv
    <2>2. \A s \in Waiters : rounds'[s] = 0 => s # t /\ rounds[s] = 0
      BY <1>1, <1>2
    <2>3. \A s \in Waiters : s # t => s \in Threads /\ pc'[s] = pc[s]
      BY <1>1 DEF Threads
    <2> QED  BY <1>1, <1>2, <1>3, <1>4, <2>1, <2>2, <2>3 DEF FreshInv, Live, CallPcs
  <1>6. \A s \in Waiters : s # t => Left(s)' = Left(s)
    BY <1>2, <1>3 DEF Left, Updaters
  <1>7. Exact(t)' => rounds[t] = 0 \/ Errors = {}
    BY <1>1 DEF Exact
  <1>8. Exact(t)' => Left(t)' = c
    <2> SUFFICES ASSUME Exact(t)' PROVE Left(t)' = c
      OBVIOUS
    <2>1. Updaters(t) = {}
      <3>1. CASE rounds[t] = 0
        BY <3>1 DEF FreshInv, Updaters, CallPcs
      <3>2. CASE Errors = {}
        BY <1>1, <3>2, LeftIs DEF ExactInv, Live, Inv
      <3> QED  BY <1>7, <3>1, <3>2
    <2>2. Cardinality(Updaters(t)') = 0
      BY <1>3, <2>1, FS_EmptySet
    <2> QED  BY <1>1, <2>2 DEF Left, Updaters
  <1>9. \A a \in Threads : pc[a] = "swap" /\ call[a].sync = t => ~Exact(t)'
    <2> SUFFICES ASSUME NEW a \in Threads, pc[a] = "swap", call[a].sync = t, Exact(t)' PROVE FALSE
      OBVIOUS
    <2>1. rounds[t] # 0 /\ call[a].status # 0
      BY DEF FreshInv, CallPcs
    <2>2. call[a].status \in {0} \cup Errors
      BY DEF Inv, TypeOK, Calls, Statuses
    <2> QED  BY <1>7, <2>1, <2>2
  <1>10. \A s \in Waiters : s # t => (Live(s)' <=> Live(s)) /\ (Exact(s)' <=> Exact(s)) /\ pc'[s] = pc[s]
    BY <1>1, <1>2 DEF Live, Exact, Threads
  <1>11. /\ pc'[t] \notin OverPcs /\ pc'[t] # "release" /\ Live(t)' /\ result'[t] # "SUCCESS"
    BY <1>1, ResultAssumption DEF OverPcs, Live
  <1>12. ExactInv'
    BY <1>1, <1>2, <1>4, <1>6, <1>8, <1>9, <1>10, <1>11 DEF ExactInv, CallPcs
  <1> QED  BY <1>5, <1>8, <1>12, LeftIs DEF Inv

LEMMA ReturnExact ==
  ASSUME Inv, FreshInv, ExactInv, NEW t \in Waiters, Return(t) PROVE FreshInv' /\ ExactInv'
  <1> t \in Threads
    BY DEF Threads
  <1>1. /\ pc[t] = "return" /\ pc'[t] = "release" /\ \A a \in Threads : a # t => pc'[a] = pc[a]
        /\ UNCHANGED <<call, count, status, pending, rounds>>
        /\ result'[t] = IF status[t] = 0 THEN "SUCCESS" ELSE "ERROR"
        /\ \A s \in Waiters : s # t => result'[s] = result[s]
    BY DEF Return, Goto, Inv, TypeOK, sync
  <1>2. \A s \in Waiters : /\ Updaters(s)' = Updaters(s) /\ Left(s)' = Left(s)
                           /\ (Live(s)' <=> Live(s)) /\ (Exact(s)' <=> Exact(s))
    BY <1>1 DEF Updaters, Left, Live, Exact, Threads
  <1>3. \A a \in Threads : pc'[a] \in CallPcs => pc[a] = pc'[a]
    BY <1>1 DEF CallPcs
  <1>4. FreshInv'
    BY <1>1, <1>2, <1>3 DEF FreshInv, CallPcs
  <1>5. Exact(t) /\ status[t] = 0 => Left(t) = 0
    <2>1. count[t] <= 0 /\ Live(t) /\ Left(t) \in Nat
      BY <1>1, LeftIs DEF ExactInv, OverPcs, Live, Inv
    <2> QED  BY <2>1 DEF ExactInv
  <1>6. result'[t] # NULL /\ (result'[t] = "SUCCESS" => status[t] = 0)
    BY <1>1, ResultAssumption
  <1>7. \A s \in Waiters : s # t => pc'[s] = pc[s]
    BY <1>1 DEF Threads
  <1>8. count[t] <= 0
    BY <1>1 DEF ExactInv, OverPcs
  <1> QED  BY <1>1, <1>2, <1>3, <1>4, <1>5, <1>6, <1>7, <1>8 DEF ExactInv, CallPcs

LEMMA ReleaseExact ==
  ASSUME Inv, FreshInv, ExactInv, NEW t \in Waiters, WaitSyncRelease(t)
  PROVE  FreshInv' /\ ExactInv'
  <1> t \in Threads
    BY DEF Threads
  <1>1. /\ pc[t] = "release" /\ pc'[t] = "start" /\ \A a \in Threads : a # t => pc'[a] = pc[a]
        /\ UNCHANGED <<call, count, status, pending, rounds, result>>
    BY DEF WaitSyncRelease, Goto, Inv, TypeOK, sync, client
  <1>2. \A s \in Waiters : /\ Updaters(s)' = Updaters(s) /\ Left(s)' = Left(s)
                           /\ Exact(s)' <=> Exact(s)
                           /\ s # t => pc'[s] = pc[s] /\ (Live(s)' <=> Live(s))
    BY <1>1 DEF Updaters, Left, Live, Exact, Threads
  <1>3. \A a \in Threads : pc'[a] \in CallPcs => pc[a] = pc'[a]
    BY <1>1 DEF CallPcs
  <1>4. FreshInv'
    BY <1>1, <1>2, <1>3 DEF FreshInv, CallPcs, Live
  <1>5. Errors = {} => Left(t) = 0
    <2>1. count[t] <= 0 /\ Live(t) /\ Left(t) \in Nat
      BY <1>1, LeftIs DEF ExactInv, OverPcs, Live, Inv
    <2>2. Errors = {} => status[t] = 0 /\ Exact(t)
      BY DEF Inv, TypeOK, Statuses, Exact
    <2> QED  BY <2>1, <2>2 DEF ExactInv
  <1>6. ~Live(t)' /\ pc'[t] \notin OverPcs
    BY <1>1 DEF Live, OverPcs
  <1> QED  BY <1>1, <1>2, <1>3, <1>4, <1>5, <1>6 DEF ExactInv, CallPcs

LEMMA BeginExact ==
  ASSUME Inv, FreshInv, ExactInv, NEW a \in Threads, NEW s \in Waiters, NEW st \in Statuses,
         BeginUpdate(a, s, st)
  PROVE  FreshInv' /\ ExactInv'
  <1>1. /\ pc[a] \in {"progress", "idle"} /\ pc'[a] = "update"
        /\ \A b \in Threads : b # a => pc'[b] = pc[b] /\ call'[b] = call[b]
        /\ Live(s) /\ call'[a].sync = s
        /\ UNCHANGED <<count, status, rounds, result>>
    BY DEF BeginUpdate, InProgress, Home, Goto, Inv, TypeOK, sync
  <1>2. \A t \in Waiters : /\ Left(t)' = Left(t) /\ IsFiniteSet(Updaters(t)')
                           /\ (Live(t)' <=> Live(t)) /\ (Exact(t)' <=> Exact(t))
    BY <1>1, BeginLeft DEF Live, Exact, Threads
  <1>3. FreshInv'
    BY <1>1, <1>2 DEF FreshInv, CallPcs
  <1>4. /\ \A t \in Waiters : pc'[t] \in OverPcs => pc[t] \in OverPcs
        /\ \A t \in Waiters : pc'[t] = "release" <=> pc[t] = "release"
        /\ \A b \in Threads : pc'[b] = "swap" => pc[b] = "swap" /\ call'[b] = call[b]
    BY <1>1 DEF OverPcs, Threads
  <1> QED  BY <1>1, <1>2, <1>3, <1>4 DEF ExactInv

(* What the three accesses of wait_sync_update have in common. *)
LEMMA TouchEffect ==
  ASSUME Inv, FreshInv, NEW a \in Threads, Touch(a)
  PROVE  /\ call[a].sync \in Waiters /\ call[a].updates \in {0, 1}
         /\ pc[a] \in CallPcs /\ pc'[a] \in {"swap", "signal", "wk_next", "progress", "idle"}
         /\ pc'[a] \in CallPcs => call'[a] = call[a]
         /\ \A b \in Threads : b # a => pc'[b] = pc[b] /\ call'[b] = call[b]
         /\ UNCHANGED <<pending, rounds, result>>
         /\ \A t \in Waiters : t # call[a].sync => count'[t] = count[t] /\ status'[t] = status[t]
         /\ \A t \in Waiters : /\ IsFiniteSet(Updaters(t)')
                               /\ (Live(t)' <=> Live(t)) /\ (Exact(t)' <=> Exact(t))
                               /\ pc'[t] \in OverPcs => pc[t] \in OverPcs
                               /\ pc'[t] = "release" <=> pc[t] = "release"
  <1> USE DEF Inv, TypeOK, CallPcs, Goto
  <1>1. call[a].sync \in Waiters /\ call[a].updates \in {0, 1} /\ pc[a] \in CallPcs
    BY DEF Touch, UpdateSuccess, UpdateError, SwapCount, CallInv, Calls
  <1>2. /\ pc'[a] \in {"swap", "signal", "wk_next", "progress", "idle"}
        /\ pc'[a] \in CallPcs => call'[a] = call[a]
        /\ \A b \in Threads : b # a => pc'[b] = pc[b] /\ call'[b] = call[b]
    BY DEF Touch, UpdateSuccess, UpdateError, SwapCount, ReturnToCaller, Home
  <1>3. UNCHANGED <<pending, rounds, result>>
    BY DEF Touch, UpdateSuccess, UpdateError, SwapCount, client
  <1>4. \A t \in Waiters : t # call[a].sync => count'[t] = count[t] /\ status'[t] = status[t]
    BY <1>1 DEF Touch, UpdateSuccess, UpdateError, SwapCount
  <1>5. \A t \in Waiters : /\ (Live(t)' <=> Live(t)) /\ (Exact(t)' <=> Exact(t))
                           /\ pc'[t] \in OverPcs => pc[t] \in OverPcs
                           /\ pc'[t] = "release" <=> pc[t] = "release"
    BY <1>1, <1>2, <1>3 DEF Live, Exact, OverPcs, Threads
  <1>6. ASSUME NEW t \in Waiters PROVE IsFiniteSet(Updaters(t)')
    <2>1. CASE SwapCount(a)
      <3>1. Updaters(t)' = Updaters(t)
        BY <2>1 DEF SwapCount, Updaters
      <3> QED  BY <3>1 DEF FreshInv
    <2> QED  BY <2>1, UpdateLeft DEF Touch
  <1> QED  BY <1>1, <1>2, <1>3, <1>4, <1>5, <1>6

LEMMA TouchExact ==
  ASSUME Inv, FreshInv, ExactInv, NEW a \in Threads, Touch(a)
  PROVE  FreshInv' /\ ExactInv'
  <1>1. PICK x \in Waiters : x = call[a].sync
    BY TouchEffect
  <1>2. PICK u \in {0, 1} : u = IF pc[a] = "update" THEN call[a].updates ELSE 0
    BY TouchEffect
  <1>3. count \in [Waiters -> Int]
    BY DEF Inv, TypeOK
  <1>4. FreshInv'
    <2>1. pc'[a] = "swap" => call[a].status # 0
      BY DEF Touch, UpdateSuccess, UpdateError, SwapCount, ReturnToCaller, Home, Goto, Inv, TypeOK
    <2>2. \A b \in Threads : pc'[b] \in CallPcs => pc[b] \in CallPcs /\ call'[b] = call[b]
      BY TouchEffect
    <2>3. \A b \in Threads : pc'[b] = "swap" => call'[b].status # 0
      BY <2>1, <2>2, TouchEffect DEF FreshInv, CallPcs
    <2> QED  BY <2>2, <2>3, TouchEffect DEF FreshInv
  <1>5. ASSUME \A t \in Waiters : Left(t)' = IF t = x THEN Left(t) - u ELSE Left(t),
               u # 0 => Left(x) # 0,
               \/ count'[x] = count[x] - u /\ status'[x] = status[x]
               \/ status'[x] # 0
               \/ ~(Live(x) /\ Exact(x)),
               count[x] <= 0 => count'[x] <= 0,
               pc'[a] = "swap" => status'[x] # 0,
               status[x] # 0 => status'[x] # 0
        PROVE  ExactInv'
    <2>1. \A t \in Waiters : pc'[t] \in OverPcs => count'[t] <= 0
      BY <1>1, <1>5, TouchEffect DEF ExactInv
    <2>2. \A t \in Waiters : Live(t)' => (result'[t] # NULL <=> pc'[t] = "release")
      BY TouchEffect DEF ExactInv
    <2>3. \A t \in Waiters : Exact(t)' /\ Live(t)' /\ status'[t] = 0 => count'[t] = Left(t)'
      BY <1>1, <1>3, <1>5, TouchEffect DEF ExactInv
    <2>4. \A b \in Threads, t \in Waiters :
            pc'[b] = "swap" /\ call'[b].sync = t /\ Live(t)' /\ Exact(t)' => status'[t] # 0
      BY <1>1, <1>5, TouchEffect DEF ExactInv, CallPcs
    <2>5. \A t \in Waiters : Left(t) = 0 => Left(t)' = 0
      BY <1>2, <1>5
    <2>6. \A t \in Waiters : Exact(t)' /\ Live(t)' /\ result'[t] = "SUCCESS" => Left(t)' = 0
      BY <2>5, TouchEffect DEF ExactInv
    <2>7. Errors = {} => \A t \in Waiters : ~Live(t)' => Left(t)' = 0
      BY <2>5, TouchEffect DEF ExactInv
    <2> QED  BY <2>1, <2>2, <2>3, <2>4, <2>6, <2>7 DEF ExactInv
  <1>6. ASSUME pc[a] = "update" PROVE u # 0 => Left(x) # 0
    <2>1. u # 0 => a \in Updaters(x)
      BY <1>1, <1>2, <1>6 DEF Updaters
    <2> QED  BY <2>1, LeftIs DEF Inv
  <1>7. CASE UpdateSuccess(a)
    <2>1. \A t \in Waiters : Left(t)' = IF t = x THEN Left(t) - u ELSE Left(t)
      BY <1>1, <1>2, <1>7, UpdateLeft DEF UpdateSuccess
    <2>2. /\ count'[x] = count[x] - u /\ status' = status /\ pc[a] = "update" /\ pc'[a] # "swap"
      BY <1>1, <1>2, <1>3, <1>7 DEF UpdateSuccess, ReturnToCaller, Home, Goto, Inv, TypeOK
    <2> QED  BY <1>3, <1>4, <1>5, <1>6, <2>1, <2>2
  <1>8. CASE UpdateError(a)
    <2>1. \A t \in Waiters : Left(t)' = IF t = x THEN Left(t) - u ELSE Left(t)
      BY <1>1, <1>2, <1>8, UpdateLeft DEF UpdateError
    <2>2. /\ count' = count /\ status'[x] # 0 /\ pc[a] = "update"
      BY <1>1, <1>8 DEF UpdateError, Inv, TypeOK
    <2> QED  BY <1>4, <1>5, <1>6, <2>1, <2>2
  <1>9. CASE SwapCount(a)
    <2>1. \A t \in Waiters : Left(t)' = Left(t) /\ Left(t) \in Nat
      <3>1. \A t \in Waiters : Updaters(t)' = Updaters(t) /\ pending' = pending
        BY <1>9, TouchEffect DEF SwapCount, Updaters, Goto, Inv, TypeOK
      <3> QED  BY <3>1, LeftIs DEF Left, Updaters, Inv
    <2>2. /\ count'[x] = 0 /\ status' = status /\ pc[a] = "swap" /\ pc'[a] # "swap"
      BY <1>1, <1>9 DEF SwapCount, Goto, Inv, TypeOK
    <2>3. Live(x) /\ Exact(x) => status[x] # 0
      BY <1>1, <2>2 DEF ExactInv
    <2>4. u = 0 /\ \A t \in Waiters : Left(t)' = IF t = x THEN Left(t) - u ELSE Left(t)
      BY <1>2, <2>1, <2>2
    <2> QED  BY <1>4, <1>5, <2>2, <2>3, <2>4
  <1> QED  BY <1>4, <1>7, <1>8, <1>9 DEF Touch

LEMMA ExactStep == Inv /\ FreshInv /\ ExactInv /\ [Next]_vars => FreshInv' /\ ExactInv'
  BY StepKinds, CalmExact, OpenExact, ReturnExact, ReleaseExact, BeginExact, TouchExact

LEMMA ExactInit == Init => FreshInv /\ ExactInv
  <1> SUFFICES ASSUME Init PROVE FreshInv /\ ExactInv
    OBVIOUS
  <1>1. \A t \in Waiters : Updaters(t) = {}
    BY DEF Init, Updaters, Threads
  <1>2. FreshInv
    BY <1>1, FS_EmptySet, ConstantsAssumption DEF Init, FreshInv, Live, CallPcs, Threads
  <1>3. \A t \in Waiters : Left(t) = 0 /\ ~Live(t)
    BY <1>1, <1>2, LeftIs, InitInv DEF Inv, Init, Live, Threads
  <1> QED  BY <1>2, <1>3 DEF Init, ExactInv, OverPcs, Threads

(* As long as no error is stored and the sync is used for the first time,  *)
(* or nobody reports errors, the count that wait_sync_update decrements is *)
(* what is left of the wait.                                               *)
THEOREM ExactInvariance == Spec => [](Inv /\ FreshInv /\ ExactInv)
  BY ExactInit, ExactStep, Invariance, PTL DEF Spec

(* A SYNC_WAIT that returns SUCCESS has had all its completions counted,   *)
(* whatever errors, wakeups and spurious returns of cond_wait there were;  *)
(* the storage of a sync that has seen an error is not used again.         *)
THEOREM SuccessCorrect == Spec => []SuccessMeansComplete
  <1>1. Inv /\ FreshInv /\ ExactInv => SuccessMeansComplete
    <2> SUFFICES ASSUME Inv, FreshInv, ExactInv, NEW t \in Waiters,
                        result[t] = "SUCCESS", Live(t), Exact(t)
                 PROVE  /\ pending[t] = 0
                        /\ \A a \in Threads : pc[a] = "update" /\ call[a].sync = t
                                                => call[a].updates = 0
      BY DEF SuccessMeansComplete
    <2>1. pending[t] = 0 /\ Updaters(t) = {}
      BY LeftIs DEF ExactInv, Inv
    <2> QED  BY <2>1 DEF Updaters, Inv, TypeOK, Calls
  <1> QED  BY <1>1, ExactInvariance, PTL

-----------------------------------------------------------------------------
(* The refinement of Wait.  Its variables, sync by sync, are the following. *)
LeftOf(t)   == IF Live(t) THEN Left(t) ELSE 0
Recorded(t) == IF Live(t) THEN status[t] ELSE 0
Returned(t) == IF Live(t) THEN result[t] ELSE NULL

Opens   == [t \in Waiters |-> Live(t)]
Lefts   == [t \in Waiters |-> LeftOf(t)]
Records   == [t \in Waiters |-> Recorded(t)]
Returns == [t \in Waiters |-> Returned(t)]

(* What is not said to change does not. *)
LEMMA OpensExcept ==
  ASSUME NEW t \in Waiters, \A s \in Waiters : s # t => Live(s)' = Live(s)
  PROVE  /\ Opens' = [Opens EXCEPT ![t] = Live(t)']
         /\ Live(t)' = Live(t) => Opens' = Opens
  BY DEF Opens

LEMMA LeftsExcept ==
  ASSUME NEW t \in Waiters, \A s \in Waiters : s # t => LeftOf(s)' = LeftOf(s)
  PROVE  /\ Lefts' = [Lefts EXCEPT ![t] = LeftOf(t)']
         /\ LeftOf(t)' = LeftOf(t) => Lefts' = Lefts
  BY DEF Lefts

LEMMA RecordsExcept ==
  ASSUME NEW t \in Waiters, \A s \in Waiters : s # t => Recorded(s)' = Recorded(s)
  PROVE  /\ Records' = [Records EXCEPT ![t] = Recorded(t)']
         /\ Recorded(t)' = Recorded(t) => Records' = Records
  BY DEF Records

LEMMA ReturnsExcept ==
  ASSUME NEW t \in Waiters, \A s \in Waiters : s # t => Returned(s)' = Returned(s)
  PROVE  /\ Returns' = [Returns EXCEPT ![t] = Returned(t)']
         /\ Returned(t)' = Returned(t) => Returns' = Returns
  BY DEF Returns

(* The other syncs are not concerned by a step. *)
Others(t) ==
    \A s \in Waiters : s # t =>
        /\ Live(s)' = Live(s) /\ LeftOf(s)' = LeftOf(s)
        /\ Recorded(s)' = Recorded(s) /\ Returned(s)' = Returned(s)

LEMMA OtherSyncs ==
  ASSUME NEW t \in Waiters,
         \A s \in Waiters : s # t => /\ pc'[s] = "start" <=> pc[s] = "start"
                                     /\ Left(s)' = Left(s)
                                     /\ status'[s] = status[s] /\ result'[s] = result[s]
  PROVE  Others(t)
  BY DEF Others, Live, LeftOf, Recorded, Returned

LEMMA OpenMaps ==
  ASSUME Inv, FreshInv, ExactInv, NEW t \in Waiters, NEW c \in Counts, WaitSyncInit(t, c), Exact(t)'
  PROVE  W!Open(t, c)
  <1>1. Others(t)
    <2>1. \A s \in Waiters : s # t => Updaters(s)' = Updaters(s) /\ pending'[s] = pending[s]
      BY DEF WaitSyncInit, Goto, Updaters, Inv, TypeOK, Threads
    <2>2. \A s \in Waiters : s # t => Left(s)' = Left(s)
      BY <2>1 DEF Left, Updaters
    <2> QED  BY <2>2, OtherSyncs DEF WaitSyncInit, Goto, Inv, TypeOK, Threads
  <1>2. /\ ~Live(t) /\ Live(t)' = TRUE /\ LeftOf(t)' = c
        /\ Recorded(t)' = Recorded(t) /\ Returned(t)' = Returned(t)
    <2>1. pc[t] = "start" /\ pc'[t] = "enter" /\ status'[t] = 0 /\ result'[t] = NULL
      BY DEF WaitSyncInit, Goto, Inv, TypeOK, Threads
    <2> QED  BY <2>1, OpenExact DEF Live, LeftOf, Recorded, Returned
  <1>3. /\ Opens' = [Opens EXCEPT ![t] = TRUE] /\ Lefts' = [Lefts EXCEPT ![t] = c]
        /\ Records' = Records /\ Returns' = Returns
    BY <1>1, <1>2, OpensExcept, LeftsExcept, RecordsExcept, ReturnsExcept DEF Others
  <1> QED  BY <1>2, <1>3 DEF W!Open, Opens, Lefts, Records, Returns, LeftOf, Recorded, Returned

LEMMA ReturnMaps ==
  ASSUME Inv, FreshInv, ExactInv, NEW t \in Waiters, Return(t), Exact(t)
  PROVE  W!Return(t)
  <1>1. /\ pc[t] = "return" /\ pc'[t] = "release" /\ status'[t] = status[t]
        /\ result'[t] = IF status[t] = 0 THEN "SUCCESS" ELSE "ERROR"
    BY DEF Return, Goto, Inv, TypeOK, Threads, sync
  <1>2. \A s \in Waiters : Left(s)' = Left(s)
    BY DEF Return, Goto, Left, Inv, TypeOK, Threads
  <1>3. Others(t)
    BY <1>2, OtherSyncs DEF Return, Goto, Inv, TypeOK, Threads, sync
  <1>4. /\ Live(t) /\ Returned(t) = NULL /\ (LeftOf(t) = 0 \/ Recorded(t) # 0)
        /\ Live(t)' = Live(t) /\ LeftOf(t)' = LeftOf(t) /\ Recorded(t)' = Recorded(t)
        /\ Returned(t)' = IF Recorded(t) = 0 THEN "SUCCESS" ELSE "ERROR"
    <2>1. Live(t) /\ count[t] <= 0 /\ Left(t) \in Nat /\ result[t] = NULL
      BY <1>1, LeftIs DEF ExactInv, OverPcs, Live, Inv
    <2>2. Left(t) = 0 \/ status[t] # 0
      BY <2>1 DEF ExactInv
    <2> QED  BY <1>1, <1>2, <2>1, <2>2 DEF Live, LeftOf, Recorded, Returned
  <1>5. /\ Returns' = [Returns EXCEPT ![t] = IF Recorded(t) = 0 THEN "SUCCESS" ELSE "ERROR"]
        /\ Opens' = Opens /\ Lefts' = Lefts /\ Records' = Records
    BY <1>3, <1>4, OpensExcept, LeftsExcept, RecordsExcept, ReturnsExcept DEF Others
  <1>6. Recorded(t) \in Statuses
    BY DEF Recorded, Statuses, Inv, TypeOK
  <1>7. [st \in Statuses |-> IF st = 0 THEN "SUCCESS" ELSE "ERROR"][Recorded(t)]
          = IF Recorded(t) = 0 THEN "SUCCESS" ELSE "ERROR"
    BY <1>6
  <1> QED  BY <1>4, <1>5, <1>7 DEF W!Return, Opens, Lefts, Records, Returns, LeftOf, Recorded, Returned

LEMMA ReleaseMaps ==
  ASSUME Inv, FreshInv, ExactInv, NEW t \in Waiters, WaitSyncRelease(t)
  PROVE  W!Release(t)
  <1>1. pc[t] = "release" /\ pc'[t] = "start" /\ status' = status /\ result' = result
    BY DEF WaitSyncRelease, Goto, Inv, TypeOK, Threads, sync, client
  <1>2. \A s \in Waiters : Left(s)' = Left(s)
    BY DEF WaitSyncRelease, Goto, Left, Inv, TypeOK, Threads, client
  <1>3. Others(t)
    BY <1>1, <1>2, OtherSyncs DEF WaitSyncRelease, Goto, Inv, TypeOK, Threads
  <1>4. /\ Returned(t) # NULL /\ Live(t)' = FALSE /\ LeftOf(t)' = 0 /\ Recorded(t)' = 0
        /\ Returned(t)' = NULL
    BY <1>1 DEF ExactInv, Live, LeftOf, Recorded, Returned
  <1>5. /\ Returns' = [Returns EXCEPT ![t] = NULL] /\ Opens' = [Opens EXCEPT ![t] = FALSE]
        /\ Lefts' = [Lefts EXCEPT ![t] = 0] /\ Records' = [Records EXCEPT ![t] = 0]
    BY <1>3, <1>4, OpensExcept, LeftsExcept, RecordsExcept, ReturnsExcept DEF Others
  <1> QED  BY <1>4, <1>5 DEF W!Release, Opens, Lefts, Records, Returns, LeftOf, Recorded, Returned

LEMMA Stutters ==
  ASSUME \A s \in Waiters : /\ Live(s)' = Live(s) /\ LeftOf(s)' = LeftOf(s)
                            /\ Recorded(s)' = Recorded(s) /\ Returned(s)' = Returned(s)
  PROVE  UNCHANGED W!wvars
  <1>1. Opens' = Opens /\ Lefts' = Lefts /\ Records' = Records /\ Returns' = Returns
    BY DEF Opens, Lefts, Records, Returns
  <1> QED  BY <1>1 DEF W!wvars, Opens, Lefts, Records, Returns, LeftOf, Recorded, Returned

(* wait_sync_update with success counts a completion; the updates of a     *)
(* wakeup are none.                                                        *)
LEMMA SuccessMaps ==
  ASSUME Inv, FreshInv, ExactInv, NEW a \in Threads, UpdateSuccess(a)
  PROVE  UNCHANGED W!wvars \/ \E t \in Waiters : W!Complete(t)
  <1>1. Touch(a) /\ pc[a] = "update" /\ status' = status
    BY DEF Touch, UpdateSuccess
  <1>2. PICK x \in Waiters : x = call[a].sync
    BY <1>1, TouchEffect
  <1>3. \A s \in Waiters : /\ Live(s)' = Live(s) /\ Recorded(s)' = Recorded(s)
                           /\ Returned(s)' = Returned(s)
    BY <1>1, TouchEffect DEF Live, Recorded, Returned
  <1>4. \A s \in Waiters : s # x => LeftOf(s)' = LeftOf(s)
    BY <1>2, <1>3, UpdateLeft DEF LeftOf
  <1>5. CASE Live(x) /\ call[a].updates = 1
    <2>1. a \in Updaters(x)
      BY <1>1, <1>2, <1>5 DEF Updaters
    <2>2. Left(x) > 0 /\ Left(x)' = Left(x) - 1
      BY <1>2, <1>5, <2>1, LeftIs, UpdateLeft DEF Inv
    <2>3. LeftOf(x) > 0 /\ LeftOf(x)' = LeftOf(x) - 1
      BY <1>3, <1>5, <2>2 DEF LeftOf
    <2>4. Lefts' = [Lefts EXCEPT ![x] = @ - 1] /\ Lefts[x] > 0
      BY <1>4, <2>3, LeftsExcept DEF Lefts
    <2>5. Opens' = Opens /\ Records' = Records /\ Returns' = Returns
      BY <1>3 DEF Opens, Records, Returns
    <2>6. W!Complete(x)
      BY <2>4, <2>5 DEF W!Complete, Opens, Lefts, Records, Returns, LeftOf, Recorded, Returned
    <2> QED  BY <2>6
  <1>6. CASE ~(Live(x) /\ call[a].updates = 1)
    <2>1. call[a].updates \in {0, 1} /\ Left(x) \in Nat
      BY <1>1, TouchEffect, LeftIs DEF Inv
    <2>2. LeftOf(x)' = LeftOf(x)
      BY <1>2, <1>3, <1>6, <2>1, UpdateLeft DEF LeftOf
    <2> QED  BY <1>3, <1>4, <2>2, Stutters
  <1> QED  BY <1>5, <1>6

(* An error fails the wait; the completion it came with is gone. *)
LEMMA ErrorMaps ==
  ASSUME Inv, FreshInv, ExactInv, NEW a \in Threads, UpdateError(a)
  PROVE  UNCHANGED W!wvars \/ \E t \in Waiters, st \in Errors : W!Fail(t, st)
  <1>1. Touch(a) /\ pc[a] = "update"
    BY DEF Touch, UpdateError
  <1>2. PICK x \in Waiters : x = call[a].sync
    BY <1>1, TouchEffect
  <1>3. /\ \A s \in Waiters : Live(s)' = Live(s) /\ Returned(s)' = Returned(s)
        /\ \A s \in Waiters : s # x => Recorded(s)' = Recorded(s)
    BY <1>1, <1>2, TouchEffect DEF Live, Recorded, Returned
  <1>4. \A s \in Waiters : s # x => LeftOf(s)' = LeftOf(s)
    BY <1>2, <1>3, UpdateLeft DEF LeftOf
  <1>5. CASE Live(x)
    <2>1. call[a].updates \in {0, 1} /\ Left(x) \in Nat
      BY <1>1, TouchEffect, LeftIs DEF Inv
    <2>2. call[a].updates = 1 => a \in Updaters(x)
      BY <1>1, <1>2 DEF Updaters
    <2>3. Left(x)' = Left(x) - call[a].updates /\ Left(x)' >= 0
      BY <1>2, <2>1, <2>2, LeftIs, UpdateLeft DEF Inv
    <2>4. /\ LeftOf(x)' \in {LeftOf(x), LeftOf(x) - 1} /\ LeftOf(x)' >= 0
      BY <1>3, <1>5, <2>1, <2>3 DEF LeftOf
    <2>5. Lefts' \in {Lefts, [Lefts EXCEPT ![x] = @ - 1]} /\ Lefts'[x] >= 0
      <3>1. Lefts[x] = LeftOf(x) /\ Lefts'[x] = LeftOf(x)'
        BY DEF Lefts
      <3> QED  BY <1>4, <2>4, <3>1, LeftsExcept
    <2>6. PICK st \in Errors : Recorded(x)' = st
      <3>1. call[a].status \in Errors /\ status'[x] = call[a].status
        BY <1>2, <2>1 DEF UpdateError, Inv, TypeOK, Calls, Statuses
      <3> QED  BY <1>3, <1>5, <3>1 DEF Recorded
    <2>7. Records' = [Records EXCEPT ![x] = st]
      BY <1>3, <2>6, RecordsExcept
    <2>8. Opens' = Opens /\ Returns' = Returns /\ Opens[x]
      BY <1>3, <1>5 DEF Opens, Returns
    <2>9. W!Fail(x, st)
      BY <2>5, <2>7, <2>8 DEF W!Fail, Opens, Lefts, Records, Returns, LeftOf, Recorded, Returned
    <2> QED  BY <2>9
  <1>6. CASE ~Live(x)
    <2>1. LeftOf(x)' = LeftOf(x) /\ Recorded(x)' = Recorded(x)
      BY <1>3, <1>6 DEF LeftOf, Recorded
    <2> QED  BY <1>3, <1>4, <2>1, Stutters
  <1> QED  BY <1>5, <1>6

LEMMA SwapMaps ==
  ASSUME Inv, FreshInv, NEW a \in Threads, SwapCount(a) PROVE UNCHANGED W!wvars
  <1>1. Touch(a) /\ status' = status
    BY DEF Touch, SwapCount
  <1>2. \A t \in Waiters : Left(t)' = Left(t)
    BY DEF SwapCount, Left, Goto, Inv, TypeOK, client
  <1>3. \A s \in Waiters : Live(s)' = Live(s) /\ result' = result
    BY <1>1, TouchEffect DEF Live
  <1> QED  BY <1>1, <1>2, <1>3, Stutters DEF LeftOf, Recorded, Returned

LEMMA QuietMaps ==
  ASSUME Inv, FreshInv,
         Calm \/ \E a \in Threads, s \in Waiters, st \in Statuses : BeginUpdate(a, s, st)
  PROVE  UNCHANGED W!wvars
  <1>1. \A t \in Waiters : Left(t)' = Left(t)
    <2>1. CASE Calm
      BY <2>1 DEF Calm, Left, Updaters
    <2> QED  BY <2>1, BeginLeft
  <1>2. \A t \in Waiters : Live(t)' = Live(t) /\ UNCHANGED <<status, result>>
    BY DEF Calm, BeginUpdate, InProgress, Home, Goto, Live, Inv, TypeOK, Threads, sync
  <1> QED  BY <1>1, <1>2, Stutters DEF LeftOf, Recorded, Returned

(* A sync whose storage is used once, or which never sees an error. *)
OneUse == MaxRounds <= 1 \/ Errors = {}

LEMMA StepMaps ==
  ASSUME OneUse, Inv, FreshInv, ExactInv, [Next]_vars
  PROVE  [W!Next]_(W!wvars)
  <1>1. \A t \in Waiters : rounds[t] \in Nat /\ rounds'[t] \in Nat
    BY TypeStep DEF Inv, TypeOK
  <1>2. \A t \in Waiters : Exact(t) /\ Exact(t)'
    BY <1>1, ExactStep, ConstantsAssumption DEF OneUse, Exact, FreshInv
  <1>3. ASSUME NEW t \in Waiters, W!Release(t) \/ W!Complete(t) \/ W!Return(t)
                                    \/ \E st \in Errors : W!Fail(t, st)
        PROVE  W!Next
    BY <1>3 DEF W!Next
  <1>4. ASSUME NEW a \in Threads, UpdateError(a) PROVE [W!Next]_(W!wvars)
    BY <1>3, <1>4, ErrorMaps
  <1>5. ASSUME NEW a \in Threads, UpdateSuccess(a) PROVE [W!Next]_(W!wvars)
    BY <1>3, <1>5, SuccessMaps
  <1>6. ASSUME NEW t \in Waiters, NEW c \in Counts, WaitSyncInit(t, c) PROVE W!Next
    <2>1. W!Open(t, c)
      BY <1>2, <1>6, OpenMaps
    <2> QED  BY <2>1 DEF W!Next
  <1>7. ASSUME NEW t \in Waiters, Return(t) \/ WaitSyncRelease(t) PROVE W!Next
    BY <1>2, <1>3, <1>7, ReturnMaps, ReleaseMaps
  <1> QED  BY <1>4, <1>5, <1>6, <1>7, StepKinds, QuietMaps, SwapMaps DEF Touch

(* ompi_sync_wait_mt, with its ring, its sleeps and promotions, implements *)
(* SYNC_WAIT for any number of threads and completions, if no sync's       *)
(* storage is used again after an error.                                   *)
THEOREM Implementation ==
  ASSUME MaxRounds <= 1 \/ Errors = {}
  PROVE  Spec => ImplementsWait
  <1>1. Init => W!Init
    <2> SUFFICES ASSUME Init PROVE W!Init
      OBVIOUS
    <2>1. \A t \in Waiters : Live(t) = FALSE
      BY DEF Init, Live, Threads
    <2>2. \A t \in Waiters : Recorded(t) = 0 /\ LeftOf(t) = 0 /\ Returned(t) = NULL
      BY <2>1 DEF Recorded, LeftOf, Returned
    <2>3. /\ Opens = [t \in Waiters |-> FALSE] /\ Records = [t \in Waiters |-> 0]
          /\ Lefts = [t \in Waiters |-> 0] /\ Returns = [t \in Waiters |-> NULL]
      BY <2>1, <2>2 DEF Opens, Records, Lefts, Returns
    <2> QED  BY <2>3 DEF W!Init, Opens, Lefts, Records, Returns, LeftOf, Recorded, Returned
  <1>2. Inv /\ FreshInv /\ ExactInv /\ [Next]_vars => [W!Next]_(W!wvars)
    BY StepMaps DEF OneUse
  <1> QED  BY <1>1, <1>2, ExactInvariance, PTL DEF Spec, ImplementsWait, W!Spec

-----------------------------------------------------------------------------
(* Nobody reports an error or wakes the syncs. *)
Silent == Errors = {} /\ WakeupStatuses = {}

(* Then the count is what is left, in a sync that exists. *)
LEMMA SilentCount ==
  ASSUME Silent, Inv, FreshInv, ExactInv, NEW t \in Waiters
  PROVE  /\ Left(t) \in Nat
         /\ Left(t) = 0 <=> pending[t] = 0 /\ Updaters(t) = {}
         /\ IF Live(t) THEN count[t] = Left(t) ELSE Left(t) = 0
  <1>1. status[t] = 0 /\ Exact(t)
    BY DEF Silent, Inv, TypeOK, Statuses, Exact
  <1> QED  BY <1>1, LeftIs DEF Silent, Inv, ExactInv

(* A step that neither counts nor signals. *)
LEMMA IdleRelease ==
  ASSUME Inv, ReleaseInv, UNCHANGED <<count, signaling>>,
         \A t \in Waiters : Live(t)' <=> Live(t),
         \A a \in Threads : pc'[a] \notin WakeupPcs \cup {"swap"},
         \A a \in Threads : pc'[a] \in CallPcs => call'[a].updates = 1,
         \A t \in Waiters : Signallers(t)' = Signallers(t)
  PROVE  ReleaseInv'
  BY DEF ReleaseInv

LEMMA WaitRelease ==
  ASSUME Inv, ReleaseInv, NEW t \in Waiters, WaitStep(t), ~WaitSyncRelease(t)
  PROVE  ReleaseInv'
  <1> USE DEF Inv, TypeOK, Threads, CallInv, Goto, WaitStep, Enter, LockAndRecheck, Insert,
        CheckHead, CheckNum, Woken, StartProgress, EnterLoop, LeaveLoop, StopProgress,
        Trim, PassOwnership, SignalAndGoto, Return
  <1>1. call' = call /\ \A a \in Threads :
           pc[a] \in CallPcs \cup WakeupPcs \/ pc'[a] \in CallPcs \cup WakeupPcs => pc'[a] = pc[a]
    BY DEF CallPcs, WakeupPcs
  <1>2. \A s \in Waiters : Live(s)' <=> Live(s)
    BY DEF Live
  <1>3. UNCHANGED <<count, signaling>>
    BY DEF sync
  <1>4. \A s \in Waiters : Signallers(s)' = Signallers(s)
    <2> HIDE DEF WaitStep
    <2> QED  BY <1>1 DEF Signallers, CallPcs
  <1>5. /\ \A a \in Threads : pc'[a] \notin WakeupPcs \cup {"swap"}
        /\ \A a \in Threads : pc'[a] \in CallPcs => call'[a].updates = 1
    <2> HIDE DEF WaitStep
    <2> QED  BY <1>1 DEF ReleaseInv, CallPcs
  <1> QED  BY <1>2, <1>3, <1>4, <1>5, IdleRelease

LEMMA ClientRelease ==
  ASSUME Silent, Inv, FreshInv, ExactInv, ReleaseInv, ClientStep
  PROVE  ReleaseInv'
  <1> USE DEF Inv, TypeOK, Threads, Goto
  <1>1. ASSUME NEW t \in Waiters, NEW c \in Counts, WaitSyncInit(t, c) PROVE ReleaseInv'
    <2> c \in Nat
      BY ConstantsAssumption
    <2>1. /\ pc[t] = "start" /\ pc'[t] = "enter" /\ \A a \in Threads : a # t => pc'[a] = pc[a]
          /\ call' = call /\ count'[t] = c
          /\ \A s \in Waiters : s # t => count'[s] = count[s] /\ signaling'[s] = signaling[s]
      BY <1>1 DEF WaitSyncInit
    <2>2. signaling'[t] <=> c # 0
      BY <1>1 DEF WaitSyncInit
    <2>3. \A s \in Waiters : Signallers(s)' = Signallers(s)
      BY <2>1 DEF Signallers
    <2>4. Signallers(t) = {}
      BY <2>1 DEF ReleaseInv, Live
    <2>5. \A s \in Waiters : s # t => (Live(s)' <=> Live(s))
      BY <2>1 DEF Live
    <2>6. /\ \A a \in Threads : pc'[a] \notin WakeupPcs \cup {"swap"}
          /\ \A a \in Threads : pc'[a] \in CallPcs => call'[a].updates = 1
      BY <2>1 DEF ReleaseInv, CallPcs, WakeupPcs
    <2>7. /\ \A s \in Waiters : Live(s)' /\ count'[s] > 0 => signaling'[s]
          /\ \A s \in Waiters : \A a \in Signallers(s)' :
               Live(s)' /\ signaling'[s] /\ count'[s] = 0 /\ Signallers(s)' = {a}
      BY <2>1, <2>2, <2>3, <2>4, <2>5 DEF ReleaseInv
    <2> QED  BY <2>6, <2>7 DEF ReleaseInv
  <1>2. ASSUME NEW t \in Waiters, SpuriousWakeup(t) PROVE ReleaseInv'
    <2>1. \A s \in Waiters : Signallers(s)' = Signallers(s)
      BY <1>2 DEF SpuriousWakeup, Signallers
    <2> QED  BY <1>2, <2>1, IdleRelease DEF SpuriousWakeup, ReleaseInv, CallPcs, WakeupPcs, Live, sync
  <1>3. ASSUME NEW a \in Threads, NEW s \in Waiters, NEW st \in Statuses, BeginUpdate(a, s, st)
        PROVE  ReleaseInv'
    <2>1. \A t \in Waiters : Signallers(t)' = Signallers(t)
      BY <1>3 DEF BeginUpdate, InProgress, Home, Signallers
    <2>2. \A t \in Waiters : Live(t)' <=> Live(t)
      BY <1>3 DEF BeginUpdate, InProgress, Home, Live
    <2> QED  BY <1>3, <2>1, <2>2, IdleRelease DEF BeginUpdate, ReleaseInv, CallPcs, WakeupPcs, sync
  <1> QED  BY <1>1, <1>2, <1>3 DEF ClientStep, Silent

(* The thread that counts the last completion becomes the one signaller,   *)
(* and the owner waits for it.                                             *)
LEMMA CallRelease ==
  ASSUME Silent, Inv, FreshInv, ExactInv, ReleaseInv, NEW a \in Threads, CallStep(a)
  PROVE  ReleaseInv'
  <1> USE DEF Inv, TypeOK, Goto
  <1>1. ~UpdateError(a)
    BY DEF UpdateError, Silent, Statuses, Calls
  <1>2. ~SwapCount(a) /\ ~WakeupFirst(a) /\ ~WakeupNext(a)
    BY DEF ReleaseInv, SwapCount, WakeupFirst, WakeupNext, WakeupPcs
  <1>3. PICK x \in Waiters : pc[a] \in CallPcs /\ x = call[a].sync /\ call[a].updates = 1
    BY <1>1, <1>2 DEF CallStep, UpdateSuccess, SignalSync, ClearSignaling, CallInv, CallPcs, ReleaseInv
  <1>4. CASE UpdateSuccess(a)
    <2>1. a \in Updaters(x)
      BY <1>3, <1>4 DEF UpdateSuccess, Updaters
    <2>2. Live(x) /\ count[x] = Left(x) /\ Left(x) \in Nat /\ Left(x) # 0
      <3> HIDE DEF Inv, TypeOK
      <3> QED  BY <2>1, SilentCount
    <2>3. Signallers(x) = {} /\ signaling[x]
      BY <2>2 DEF ReleaseInv
    <2>4. /\ count'[x] = count[x] - 1 /\ UNCHANGED signaling
          /\ \A s \in Waiters : s # x => count'[s] = count[s]
          /\ \A b \in Threads : b # a => pc'[b] = pc[b] /\ call'[b] = call[b]
      BY <1>3, <1>4 DEF UpdateSuccess, ReturnToCaller
    <2>5. \/ count'[x] = 0 /\ pc'[a] = "signal" /\ call'[a] = call[a]
          \/ count'[x] # 0 /\ pc'[a] \in {"progress", "idle"}
      BY <1>3, <1>4, <2>4 DEF UpdateSuccess, ReturnToCaller, Home
    <2>6. \A t \in Waiters : Live(t)' <=> Live(t)
      BY <1>3, <2>4, <2>5 DEF Live, CallPcs, Threads
    <2>7. /\ \A b \in Threads : pc'[b] \notin WakeupPcs \cup {"swap"}
          /\ \A b \in Threads : pc'[b] \in CallPcs => call'[b].updates = 1
      BY <1>3, <2>4, <2>5 DEF ReleaseInv, CallPcs, WakeupPcs
    <2>8. /\ \A t \in Waiters : t # x => Signallers(t)' = Signallers(t)
          /\ Signallers(x)' = IF count'[x] = 0 THEN {a} ELSE {}
      BY <1>3, <1>4, <2>3, <2>4, <2>5 DEF Signallers, UpdateSuccess
    <2>9. \A t \in Waiters : Live(t)' /\ count'[t] > 0 => signaling'[t]
      BY <2>3, <2>4, <2>6 DEF ReleaseInv
    <2>10. \A t \in Waiters : \A b \in Signallers(t)' :
             Live(t)' /\ signaling'[t] /\ count'[t] = 0 /\ Signallers(t)' = {b}
      BY <2>2, <2>3, <2>4, <2>6, <2>8 DEF ReleaseInv
    <2> QED  BY <2>7, <2>9, <2>10 DEF ReleaseInv
  <1>5. CASE SignalSync(a)
    <2>1. /\ call' = call /\ UNCHANGED <<count, signaling>> /\ pc[a] = "signal" /\ pc'[a] = "clear"
          /\ \A b \in Threads : b # a => pc'[b] = pc[b] \/ (pc[b] = "asleep" /\ pc'[b] = "relock")
      BY <1>3, <1>5 DEF SignalSync, SignalAndGoto, sync, Threads
    <2>2. \A t \in Waiters : Signallers(t)' = Signallers(t)
      BY <2>1 DEF Signallers
    <2>3. \A t \in Waiters : Live(t)' <=> Live(t)
      BY <2>1 DEF Live, Threads
    <2> QED  BY <2>1, <2>2, <2>3, IdleRelease DEF ReleaseInv, CallPcs, WakeupPcs
  <1>6. CASE ClearSignaling(a)
    <2>1. /\ pc[a] = "clear" /\ pc'[a] \in {"progress", "idle"} /\ count' = count
          /\ \A b \in Threads : b # a => pc'[b] = pc[b] /\ call'[b] = call[b]
          /\ \A s \in Waiters : s # x => signaling'[s] = signaling[s]
      BY <1>3, <1>6 DEF ClearSignaling, ReturnToCaller, Home
    <2>2. a \in Signallers(x)
      BY <1>3, <2>1 DEF Signallers
    <2>3. count[x] = 0 /\ Signallers(x) = {a}
      BY <2>2 DEF ReleaseInv
    <2>4. /\ \A t \in Waiters : t # x => Signallers(t)' = Signallers(t)
          /\ Signallers(x)' = {}
      BY <1>3, <2>1, <2>3 DEF Signallers
    <2>5. \A t \in Waiters : Live(t)' <=> Live(t)
      BY <2>1 DEF Live, Threads
    <2>6. /\ \A b \in Threads : pc'[b] \notin WakeupPcs \cup {"swap"}
          /\ \A b \in Threads : pc'[b] \in CallPcs => call'[b].updates = 1
      BY <2>1 DEF ReleaseInv, CallPcs, WakeupPcs
    <2>7. \A t \in Waiters : Live(t)' /\ count'[t] > 0 => signaling'[t]
      BY <2>1, <2>3, <2>5 DEF ReleaseInv
    <2>8. \A t \in Waiters : \A b \in Signallers(t)' :
             Live(t)' /\ signaling'[t] /\ count'[t] = 0 /\ Signallers(t)' = {b}
      BY <2>1, <2>4, <2>5 DEF ReleaseInv
    <2> QED  BY <2>6, <2>7, <2>8 DEF ReleaseInv
  <1> QED  BY <1>1, <1>2, <1>4, <1>5, <1>6 DEF CallStep

LEMMA ReleaseStep ==
  ASSUME Silent, Inv, FreshInv, ExactInv, ReleaseInv, [Next]_vars
  PROVE  ReleaseInv'
  <1>1. ASSUME NEW t \in Waiters, WaitSyncRelease(t) PROVE ReleaseInv'
    <2>1. /\ pc'[t] = "start" /\ \A a \in Threads : a # t => pc'[a] = pc[a]
          /\ pc[t] = "release" /\ ~signaling[t] /\ UNCHANGED <<call, count, signaling>>
      BY <1>1 DEF WaitSyncRelease, Goto, Inv, TypeOK, Threads, sync
    <2>2. Signallers(t) = {}
      BY <2>1 DEF ReleaseInv
    <2>3. \A s \in Waiters : Signallers(s)' = Signallers(s)
      BY <2>1 DEF Signallers
    <2>4. ~Live(t)' /\ \A s \in Waiters : s # t => (Live(s)' <=> Live(s))
      BY <2>1 DEF Live, Threads
    <2> QED  BY <2>1, <2>2, <2>3, <2>4 DEF ReleaseInv, CallPcs, WakeupPcs
  <1>2. CASE UNCHANGED vars
    <2>1. \A s \in Waiters : Signallers(s)' = Signallers(s) /\ (Live(s)' <=> Live(s))
      BY <1>2 DEF vars, Signallers, Live
    <2> QED  BY <1>2, <2>1, IdleRelease DEF vars, sync, ReleaseInv
  <1> QED  BY <1>1, <1>2, WaitRelease, ClientRelease, CallRelease DEF Next, Finished

(* Under the client's contract that nobody reports an error or wakes the   *)
(* syncs, the loop of WAIT_SYNC_RELEASE is enough: no wait_sync_update     *)
(* touches a sync that is gone, however often its storage is used.         *)
THEOREM ReleaseCorrect ==
  ASSUME Errors = {}, WakeupStatuses = {}
  PROVE  Spec => []NoUseAfterRelease
  <1>1. Init => ReleaseInv
    BY DEF Init, ReleaseInv, Signallers, CallPcs, WakeupPcs, Threads, Live
  <1>2. Inv /\ FreshInv /\ ExactInv /\ ReleaseInv /\ [Next]_vars => ReleaseInv'
    BY ReleaseStep DEF Silent
  <1>3. Inv /\ FreshInv /\ ExactInv /\ ReleaseInv => NoUseAfterRelease
    <2> SUFFICES ASSUME Inv, FreshInv, ExactInv, ReleaseInv, NEW a \in Threads, pc[a] \in CallPcs
                 PROVE  Live(call[a].sync)
      BY DEF NoUseAfterRelease
    <2>1. PICK x \in Waiters : x = call[a].sync
      BY DEF Inv, CallInv
    <2>2. a \in Updaters(x) \cup Signallers(x)
      BY <2>1 DEF ReleaseInv, CallPcs, Updaters, Signallers
    <2> QED  BY <2>1, <2>2, SilentCount DEF ReleaseInv, Silent
  <1> QED  BY <1>1, <1>2, <1>3, ExactInvariance, PTL DEF Spec

=============================================================================
