--------------------------- MODULE WaitSyncProofs ---------------------------
(***************************************************************************)
(* Proofs, for any number of threads, counts, rounds and wakeups, that the *)
(* wait synchronisation keeps its types, its ring, and loses neither a     *)
(* promotion to progress manager nor a completion.                         *)
(***************************************************************************)
EXTENDS WaitSync, FiniteSetTheorems, TLAPS

(* The threads counted by num_thread_in_progress. *)
Progressing ==
    {t \in Waiters : pc[t] \in {"loop", "progress", "decr"} \cup CallPcs \cup WakeupPcs}

(* Who holds wait_sync_lock: a manager that hands over, a global wakeup. *)
Wakes(a)     == pc[a] = "wk_next" \/ (pc[a] \in CallPcs /\ call[a].updates = 0)
HoldsRing(a) == pc[a] = "pass" \/ Wakes(a)

(* A sync's lock is held between two steps only by its own waiter. *)
LockPcs == {"insert", "check_head", "check_num"}

LockInv ==
    /\ \A s \in Waiters : lock[s] <=> pc[s] \in LockPcs
    /\ \A a \in Threads : wait_sync_lock = a <=> HoldsRing(a)

CountInv == num_thread_in_progress = Cardinality(Progressing)

(* The sync of a call is one; that of a wakeup stays in the ring. *)
CallInv ==
    /\ \A a \in Threads : pc[a] \in CallPcs => call[a].sync \in Waiters
    /\ \A a \in Threads : Wakes(a) => call[a].sync \in Registered
    /\ \A a \in Threads : pc[a] \in WakeupPcs => call[a].updates = 0
    /\ \A t \in Waiters : pc[t] = "pass" => wait_sync_list # NULL

(* The head does not go to sleep unnoticed either. *)
HeadInv ==
    wait_sync_list # NULL /\ pc[wait_sync_list] \in {"check_num", "asleep"}
        => \E t \in Waiters : pc[t] = "pass"

(* Nor does a waiter whose count is used up while it holds its lock. *)
CompletionInv ==
    \A t \in Waiters : pc[t] \in LockPcs \cup {"asleep"} /\ count[t] <= 0
        => \E a \in Threads : pc[a] = "signal" /\ call[a].sync = t

Inv == /\ TypeOK /\ LockInv /\ CountInv /\ CallInv
       /\ RingIntact /\ HeadInv /\ CompletionInv

-----------------------------------------------------------------------------

LEMMA InitInv == Init => Inv
  <1> SUFFICES ASSUME Init PROVE Inv
    OBVIOUS
  <1> USE ConstantsAssumption DEF Init, Threads, CallPcs, WakeupPcs
  <1>1. TypeOK
    BY DEF TypeOK, NoCall, Statuses, WaitPcs, Labels, AllPcs, Calls
  <1>2. LockInv /\ CallInv
    BY DEF LockInv, LockPcs, HoldsRing, Wakes, CallInv
  <1>3. CountInv
    <2>1. Progressing = {}
      BY DEF Progressing
    <2> QED  BY <2>1, FS_EmptySet DEF CountInv
  <1>4. RingIntact /\ HeadInv /\ CompletionInv
    <2>1. Registered = {}
      BY DEF Registered
    <2> QED  BY <2>1 DEF RingIntact, HeadInv, CompletionInv, LockPcs
  <1> QED  BY <1>1, <1>2, <1>3, <1>4 DEF Inv

(* Only StartProgress and StopProgress enter or leave the progress count. *)
LEMMA CountStep == Inv /\ [Next]_vars => CountInv'
  <1> SUFFICES ASSUME Inv, [Next]_vars PROVE CountInv'
    OBVIOUS
  <1> USE ConstantsAssumption DEF Inv, TypeOK, Threads
  <1>1. IsFiniteSet(Progressing)
    BY FS_Subset DEF Progressing
  <1>2. ASSUME num_thread_in_progress' = num_thread_in_progress,
               Progressing' = Progressing
        PROVE  CountInv'
    BY <1>2 DEF CountInv
  <1>3. ASSUME NEW t \in Waiters, StartProgress(t) PROVE CountInv'
    <2>1. Progressing' = Progressing \cup {t} /\ t \notin Progressing
      BY <1>3 DEF StartProgress, Progressing, Goto, CallPcs, WakeupPcs
    <2> QED  BY <1>1, <1>3, <2>1, FS_AddElement DEF StartProgress, CountInv
  <1>4. ASSUME NEW t \in Waiters, StopProgress(t) PROVE CountInv'
    <2>1. Progressing' = Progressing \ {t} /\ t \in Progressing
      BY <1>4 DEF StopProgress, Progressing, Goto, CallPcs, WakeupPcs
    <2> QED  BY <1>1, <1>4, <2>1, FS_RemoveElement DEF StopProgress, CountInv
  <1> USE DEF Progressing, Goto, CallPcs, WakeupPcs, nprog
  <1>5. ASSUME NEW t \in Waiters, WaitStep(t) PROVE CountInv'
    BY <1>2, <1>3, <1>4, <1>5 DEF WaitStep, Enter, LockAndRecheck, Insert,
       CheckHead, CheckNum, Woken, EnterLoop, LeaveLoop, Trim, PassOwnership,
       SignalAndGoto, Return, WaitSyncRelease
  <1>6. ASSUME NEW a \in Threads, CallStep(a) PROVE CountInv'
    BY <1>2, <1>6 DEF CallStep, UpdateSuccess, UpdateError, SwapCount, SignalSync,
       SignalAndGoto, ClearSignaling, ReturnToCaller, Home, WakeupFirst, WakeupNext
  <1>7. CASE ClientStep
    BY <1>2, <1>7 DEF ClientStep, WaitSyncInit, SpuriousWakeup, BeginUpdate,
       BeginWakeup, InProgress, Home
  <1>8. CASE UNCHANGED vars
    BY <1>2, <1>8 DEF vars
  <1> QED  BY <1>5, <1>6, <1>7, <1>8 DEF Next, Finished

(* A step to one of the labels of the thread keeps the labels. *)
PcOK == pc \in [Threads -> AllPcs] /\ \A a \in Threads : pc[a] \in Labels(a)

LEMMA GotoType ==
  ASSUME TypeOK, NEW a \in Threads, NEW l \in Labels(a), Goto(a, l)
  PROVE  PcOK'
  BY DEF TypeOK, PcOK, Goto, Labels, AllPcs

LEMMA SignalType ==
  ASSUME TypeOK, NEW a \in Threads, NEW s \in Waiters, NEW l \in Labels(a),
         SignalAndGoto(a, s, l)
  PROVE  PcOK'
  BY DEF TypeOK, PcOK, SignalAndGoto, Labels, AllPcs, WaitPcs, Threads

LEMMA HomeType == ASSUME NEW a \in Threads PROVE Home(a) \in Labels(a)
  BY DEF Home, Labels, WaitPcs

LEMMA CallType ==
  /\ NoCall \in Calls
  /\ \A st \in Statuses : [NoCall EXCEPT !.status = st] \in Calls
  /\ \A s \in Waiters, st \in Statuses : [sync |-> s, updates |-> 1, status |-> st] \in Calls
  /\ \A c \in Calls, s \in Waiters \cup {NULL} : [c EXCEPT !.sync = s] \in Calls
  BY DEF NoCall, Calls, Statuses

(* What a thread that waits, and one that calls, does to the types. *)
LEMMA WaitType ==
  ASSUME Inv, num_thread_in_progress' \in Nat, NEW t \in Waiters, WaitStep(t)
  PROVE  TypeOK'
  <1> t \in Threads
    BY DEF Threads
  <1> USE DEF Inv, mutex, nprog, ring, sync, client
  <1>1. PcOK'
    <2> USE DEF Labels, WaitPcs
    <2>1. CASE PassOwnership(t)
      <3>1. wait_sync_list \in Waiters
        BY <2>1 DEF PassOwnership, CallInv, TypeOK
      <3> QED  BY <2>1, <3>1, SignalType DEF PassOwnership
    <2>2. CASE Enter(t) \/ LockAndRecheck(t) \/ Insert(t) \/ CheckHead(t)
      BY <2>2, GotoType DEF Enter, LockAndRecheck, Insert, CheckHead
    <2>3. CASE CheckNum(t) \/ Woken(t) \/ StartProgress(t) \/ EnterLoop(t) \/ LeaveLoop(t)
      BY <2>3, GotoType DEF CheckNum, Woken, StartProgress, EnterLoop, LeaveLoop
    <2>4. CASE StopProgress(t) \/ Trim(t) \/ Return(t) \/ WaitSyncRelease(t)
      BY <2>4, GotoType DEF StopProgress, Trim, Return, WaitSyncRelease
    <2> QED  BY <2>1, <2>2, <2>3, <2>4 DEF WaitStep
  <1>2. lock' \in [Waiters -> BOOLEAN]
    BY DEF TypeOK, WaitStep, Enter, LockAndRecheck, Insert, CheckHead, CheckNum, Woken,
           StartProgress, EnterLoop, LeaveLoop, StopProgress, Trim, PassOwnership,
           Return, WaitSyncRelease
  <1>3. CASE Insert(t)
    <2>1. /\ wait_sync_list' \in Waiters \cup {NULL}
          /\ next' \in [Waiters -> Waiters \cup {NULL}]
          /\ prev' \in [Waiters -> Waiters \cup {NULL}]
      BY <1>3 DEF Insert, LinkBeforeHead, TypeOK
    <2> QED  BY <1>1, <1>2, <1>3, <2>1 DEF Insert, TypeOK, PcOK
  <1>4. CASE Trim(t)
    <2>1. /\ wait_sync_list' \in Waiters \cup {NULL}
          /\ next' \in [Waiters -> Waiters \cup {NULL}]
          /\ prev' \in [Waiters -> Waiters \cup {NULL}]
      BY <1>4 DEF Trim, Unlink, HeadWithout, TypeOK
    <2> QED  BY <1>1, <1>2, <1>4, <2>1 DEF Trim, TypeOK, PcOK, Threads
  <1>5. CASE Return(t)
    BY <1>1, <1>2, <1>5 DEF Return, TypeOK, PcOK
  <1>6. CASE ~Insert(t) /\ ~Trim(t) /\ ~Return(t)
    BY <1>1, <1>2, <1>6 DEF TypeOK, PcOK, WaitStep, Enter, LockAndRecheck, CheckHead,
           CheckNum, Woken, StartProgress, EnterLoop, LeaveLoop, StopProgress,
           PassOwnership, WaitSyncRelease
  <1> QED  BY <1>3, <1>4, <1>5, <1>6

LEMMA CallStepType ==
  ASSUME Inv, num_thread_in_progress' \in Nat, NEW a \in Threads, CallStep(a)
  PROVE  TypeOK'
  <1> USE DEF Inv, mutex, nprog, ring, sync, client
  <1>1. PcOK' /\ call' \in [Threads -> Calls]
    <2> USE CallType, HomeType, GotoType DEF TypeOK
    <2>1. CASE UpdateSuccess(a) \/ ClearSignaling(a)
      BY <2>1 DEF UpdateSuccess, ClearSignaling, ReturnToCaller, Labels, CallPcs, WakeupPcs
    <2>2. CASE UpdateError(a) \/ SwapCount(a)
      BY <2>2 DEF UpdateError, SwapCount, Labels, CallPcs
    <2>3. CASE SignalSync(a)
      BY <2>3, SignalType DEF SignalSync, CallInv, Labels, CallPcs
    <2>4. CASE WakeupFirst(a)
      BY <2>4, SMTT(30) DEF WakeupFirst, Labels, CallPcs
    <2>5. CASE WakeupNext(a)
      BY <2>5, SMTT(30) DEF WakeupNext, CallInv, Wakes, Registered, Labels, CallPcs
    <2> QED  BY <2>1, <2>2, <2>3, <2>4, <2>5 DEF CallStep
  <1>2. CASE UpdateSuccess(a) \/ SwapCount(a)
    <2>1. count' \in [Waiters -> Int]
      BY <1>2 DEF UpdateSuccess, SwapCount, TypeOK, Calls
    <2> QED  BY <1>1, <1>2, <2>1 DEF UpdateSuccess, SwapCount, TypeOK, PcOK
  <1>3. CASE UpdateError(a)
    BY <1>1, <1>3 DEF UpdateError, TypeOK, PcOK, Calls
  <1>4. CASE SignalSync(a)
    BY <1>1, <1>4 DEF SignalSync, TypeOK, PcOK
  <1>5. CASE ClearSignaling(a)
    BY <1>1, <1>5 DEF ClearSignaling, TypeOK, PcOK
  <1>6. CASE WakeupFirst(a) \/ WakeupNext(a)
    BY <1>1, <1>6 DEF WakeupFirst, WakeupNext, TypeOK, PcOK
  <1> QED  BY <1>2, <1>3, <1>4, <1>5, <1>6 DEF CallStep

LEMMA TypeStep == Inv /\ [Next]_vars => TypeOK'
  <1> SUFFICES ASSUME Inv, [Next]_vars PROVE TypeOK'
    OBVIOUS
  <1> USE ConstantsAssumption
      DEF Inv, TypeOK, PcOK, Threads, Statuses, nprog, mutex, ring, sync, client
  <1>1. num_thread_in_progress' \in Nat
    <2>1. IsFiniteSet(Progressing')
      BY FS_Subset DEF Progressing
    <2> QED  BY <2>1, CountStep, FS_CardinalityType DEF CountInv
  <1>2. ASSUME NEW t \in Waiters, WaitStep(t) PROVE TypeOK'
    BY <1>1, <1>2, WaitType
  <1>3. ASSUME NEW a \in Threads, CallStep(a) PROVE TypeOK'
    BY <1>1, <1>3, CallStepType
  <1>4. ASSUME NEW t \in Waiters, NEW c \in Counts, WaitSyncInit(t, c) PROVE TypeOK'
    <2>1. PcOK'
      BY <1>4, GotoType DEF WaitSyncInit, Labels, WaitPcs
    <2>2. signaling' \in [Waiters -> BOOLEAN]
      BY <1>4 DEF WaitSyncInit
    <2>3. /\ count' \in [Waiters -> Int] /\ pending' \in [Waiters -> Nat]
          /\ rounds' \in [Waiters -> Nat]
      BY <1>4 DEF WaitSyncInit
    <2>4. /\ status' \in [Waiters -> Statuses]
          /\ next' \in [Waiters -> Waiters \cup {NULL}]
          /\ prev' \in [Waiters -> Waiters \cup {NULL}]
          /\ result' \in [Waiters -> {NULL, "SUCCESS", "ERROR"}]
      BY <1>4 DEF WaitSyncInit
    <2> QED  BY <1>1, <1>4, <2>1, <2>2, <2>3, <2>4 DEF WaitSyncInit
  <1>5. ASSUME NEW t \in Waiters, SpuriousWakeup(t) PROVE TypeOK'
    <2>1. PcOK'
      BY <1>5, GotoType DEF SpuriousWakeup, Labels, WaitPcs
    <2> QED  BY <1>1, <1>5, <2>1 DEF SpuriousWakeup
  <1>6. ASSUME NEW a \in Threads, NEW s \in Waiters, NEW st \in Statuses,
               BeginUpdate(a, s, st)
        PROVE  TypeOK'
    <2>1. PcOK'
      BY <1>6, GotoType DEF BeginUpdate, Labels, CallPcs
    <2>2. call' \in [Threads -> Calls]
      BY <1>6, CallType DEF BeginUpdate
    <2>3. pending' \in [Waiters -> Nat]
      BY <1>6 DEF BeginUpdate
    <2> QED  BY <1>1, <1>6, <2>1, <2>2, <2>3 DEF BeginUpdate
  <1>7. ASSUME NEW a \in Threads, NEW st \in WakeupStatuses, BeginWakeup(a, st)
        PROVE  TypeOK'
    <2>1. PcOK'
      BY <1>7, GotoType DEF BeginWakeup, Labels, WakeupPcs
    <2> QED  BY <1>1, <1>7, <2>1, CallType DEF BeginWakeup
  <1>8. CASE UNCHANGED vars
    BY <1>1, <1>8 DEF vars
  <1> QED  BY <1>2, <1>3, <1>4, <1>5, <1>6, <1>7, <1>8 DEF Next, ClientStep, Finished

(* Who holds the locks, action by action. *)
LEMMA WaitLock ==
  ASSUME Inv, NEW t \in Waiters, WaitStep(t) PROVE LockInv' /\ CallInv'
  <1> t \in Threads
    BY DEF Threads
  <1> USE ConstantsAssumption
      DEF Inv, TypeOK, LockInv, CallInv, LockPcs, HoldsRing, Wakes, Registered,
          Threads, CallPcs, WakeupPcs, mutex, nprog, ring, sync, client, Goto
  <1>1. CASE Enter(t) \/ StartProgress(t) \/ EnterLoop(t) \/ LeaveLoop(t) \/ StopProgress(t)
    BY <1>1 DEF Enter, StartProgress, EnterLoop, LeaveLoop, StopProgress
  <1>2. CASE LockAndRecheck(t) \/ CheckHead(t)
    BY <1>2 DEF LockAndRecheck, CheckHead
  <1>3. CASE Insert(t)
    BY <1>3 DEF Insert, LinkBeforeHead
  <1>4. CASE CheckNum(t) \/ Woken(t)
    BY <1>4 DEF CheckNum, Woken
  <1>5. CASE Trim(t)
    BY <1>5 DEF Trim
  <1>6. CASE PassOwnership(t)
    BY <1>6 DEF PassOwnership, SignalAndGoto
  <1>7. CASE Return(t) \/ WaitSyncRelease(t)
    BY <1>7 DEF Return, WaitSyncRelease
  <1> QED  BY <1>1, <1>2, <1>3, <1>4, <1>5, <1>6, <1>7 DEF WaitStep

LEMMA CallLock ==
  ASSUME Inv, NEW a \in Threads, CallStep(a) PROVE LockInv' /\ CallInv'
  <1> USE ConstantsAssumption
      DEF Inv, TypeOK, LockInv, CallInv, LockPcs, HoldsRing, Wakes, Registered,
          Threads, CallPcs, WakeupPcs, mutex, nprog, ring, sync, client, Goto
  <1>1. CASE UpdateSuccess(a) \/ ClearSignaling(a)
    BY <1>1 DEF UpdateSuccess, ClearSignaling, ReturnToCaller, Home
  <1>2. CASE UpdateError(a) \/ SwapCount(a)
    BY <1>2 DEF UpdateError, SwapCount
  <1>3. CASE SignalSync(a)
    BY <1>3 DEF SignalSync, SignalAndGoto
  <1>4. CASE WakeupFirst(a)
    <2>1. wait_sync_list # NULL => wait_sync_list \in Registered
      BY DEF RingIntact
    <2>2. call[a] \in Calls /\ Registered' = Registered
      BY <1>4 DEF WakeupFirst, Home
    <2>3. LockInv'
      BY <1>4, <2>2 DEF WakeupFirst, Home, Calls
    <2>4. CASE wait_sync_list = NULL
      <3>1. /\ pc' = [pc EXCEPT ![a] = Home(a)]
            /\ call' = [call EXCEPT ![a] = NoCall]
            /\ wait_sync_list' = wait_sync_list
        BY <1>4, <2>4 DEF WakeupFirst
      <3>2. Home(a) \in {"progress", "idle"}
        BY DEF Home
      <3> HIDE DEF Registered
      <3> QED  BY <2>2, <2>3, <3>1, <3>2
    <2>5. CASE wait_sync_list # NULL
      <3>1. /\ pc' = [pc EXCEPT ![a] = "update"]
            /\ call' = [call EXCEPT ![a] = [@ EXCEPT !.sync = wait_sync_list]]
            /\ wait_sync_list' = wait_sync_list
        BY <1>4, <2>5 DEF WakeupFirst
      <3>2. call'[a].sync \in Registered' /\ call'[a].updates = 0
        BY <1>4, <2>1, <2>2, <2>5, <3>1 DEF WakeupFirst, Calls
      <3> HIDE DEF Registered
      <3> QED  BY <2>1, <2>2, <2>3, <2>5, <3>1, <3>2
    <2> QED  BY <2>4, <2>5
  <1>5. CASE WakeupNext(a)
    <2>1. next[call[a].sync] \in Registered
      BY <1>5 DEF WakeupNext, RingIntact
    <2>2. call[a] \in Calls /\ Registered' = Registered
      BY <1>5 DEF WakeupNext, Home
    <2>3. LockInv'
      BY <1>5, <2>2 DEF WakeupNext, Home, Calls
    <2>4. wait_sync_list' = wait_sync_list
      BY <1>5 DEF WakeupNext
    <2>5. CASE next[call[a].sync] = wait_sync_list
      <3>1. /\ pc' = [pc EXCEPT ![a] = Home(a)]
            /\ call' = [call EXCEPT ![a] = NoCall]
        BY <1>5, <2>5 DEF WakeupNext
      <3>2. Home(a) \in {"progress", "idle"}
        BY DEF Home
      <3> HIDE DEF Registered
      <3> QED  BY <2>2, <2>3, <2>4, <3>1, <3>2
    <2>6. CASE next[call[a].sync] # wait_sync_list
      <3>1. /\ pc' = [pc EXCEPT ![a] = "update"]
            /\ call' = [call EXCEPT ![a] = [@ EXCEPT !.sync = next[call[a].sync]]]
        BY <1>5, <2>6 DEF WakeupNext
      <3>2. /\ call'[a].sync \in Registered' /\ call'[a].sync \in Waiters
            /\ call'[a].updates = 0
        BY <1>5, <2>1, <2>2, <3>1 DEF WakeupNext, Calls
      <3> HIDE DEF Registered
      <3> QED  BY <2>2, <2>3, <2>4, <3>1, <3>2
    <2> QED  BY <2>5, <2>6
  <1> QED  BY <1>1, <1>2, <1>3, <1>4, <1>5 DEF CallStep

LEMMA LockStep == Inv /\ [Next]_vars => LockInv' /\ CallInv'
  <1> SUFFICES ASSUME Inv, [Next]_vars PROVE LockInv' /\ CallInv'
    OBVIOUS
  <1> USE ConstantsAssumption
      DEF Inv, TypeOK, LockInv, CallInv, LockPcs, HoldsRing, Wakes, Registered,
          Threads, CallPcs, WakeupPcs, mutex, nprog, ring, sync, client, Goto
  <1>1. ASSUME NEW t \in Waiters, NEW c \in Counts, WaitSyncInit(t, c)
        PROVE  LockInv' /\ CallInv'
    BY <1>1 DEF WaitSyncInit
  <1>2. ASSUME NEW t \in Waiters, SpuriousWakeup(t) PROVE LockInv' /\ CallInv'
    BY <1>2 DEF SpuriousWakeup
  <1>3. ASSUME NEW a \in Threads, NEW s \in Waiters, NEW st \in Statuses,
               BeginUpdate(a, s, st)
        PROVE  LockInv' /\ CallInv'
    BY <1>3 DEF BeginUpdate, InProgress, Home
  <1>4. ASSUME NEW a \in Threads, NEW st \in WakeupStatuses, BeginWakeup(a, st)
        PROVE  LockInv' /\ CallInv'
    BY <1>4 DEF BeginWakeup, InProgress, Home, NoCall
  <1>5. CASE UNCHANGED vars
    BY <1>5 DEF vars
  <1> QED  BY <1>1, <1>2, <1>3, <1>4, <1>5, WaitLock, CallLock DEF Next, ClientStep, Finished

(* Linking a new sync before the head makes the ring one longer: a set that *)
(* is closed under the new next is, without the new sync, closed under next. *)
LEMMA InsertRing ==
  ASSUME Inv, NEW t \in Waiters, Insert(t) PROVE RingIntact'
  <1> DEFINE head == wait_sync_list
             p    == prev[head]
  <1>1. Registered' = Registered \cup {t} /\ t \notin Registered /\ t # NULL
    BY ConstantsAssumption DEF Inv, TypeOK, Insert, Goto, Registered, Threads
  <1>2. CASE head = NULL
    <2>1. Registered' = {t}
      BY <1>1, <1>2 DEF Inv, RingIntact
    <2>2. wait_sync_list' = t /\ next'[t] = t /\ prev'[t] = t
      BY <1>2 DEF Inv, TypeOK, Insert, LinkBeforeHead
    <2> QED  BY <1>1, <2>1, <2>2 DEF RingIntact
  <1>3. CASE head # NULL
    <2>1. head \in Registered /\ p \in Registered /\ next[p] = head
      BY <1>3 DEF Inv, RingIntact
    <2>2. /\ wait_sync_list' = head
          /\ next' = [next EXCEPT ![p] = t, ![t] = head]
          /\ prev' = [prev EXCEPT ![t] = p, ![head] = t]
      BY <1>3 DEF Insert, LinkBeforeHead
    <2>3. Registered \subseteq Waiters
      BY DEF Registered
    <2>4. /\ next'[t] = head /\ prev'[t] = p /\ next'[p] = t /\ prev'[head] = t
          /\ \A s \in Registered : s # p => next'[s] = next[s]
          /\ \A s \in Registered : s # head => prev'[s] = prev[s]
      BY <1>1, <2>1, <2>2, <2>3 DEF Inv, TypeOK
    <2>5. \A s \in Registered' : /\ next'[s] \in Registered' /\ prev'[next'[s]] = s
                                 /\ prev'[s] \in Registered' /\ next'[prev'[s]] = s
      BY <1>1, <2>1, <2>4 DEF Inv, RingIntact
    <2>6. ASSUME NEW S \in SUBSET Registered', head \in S, \A s \in S : next'[s] \in S
          PROVE  S = Registered'
      <3>1. /\ S \ {t} \in SUBSET Registered
            /\ head \in S \ {t}
            /\ \A s \in S \ {t} : next[s] \in S \ {t}
        BY <1>1, <2>1, <2>4, <2>6 DEF Inv, RingIntact
      <3>2. S \ {t} = Registered
        BY <3>1 DEF Inv, RingIntact
      <3> QED  BY <1>1, <2>1, <2>4, <2>6, <3>2
    <2> QED  BY <1>1, <1>3, <2>1, <2>2, <2>5, <2>6 DEF RingIntact
  <1> QED  BY <1>2, <1>3

(* Unlinking a sync leaves the ring of the others, with a head of their own *)
(* unless there are none.                                                   *)
LEMMA TrimRing ==
  ASSUME Inv, NEW t \in Waiters, Trim(t)
  PROVE  RingIntact'
  <1> DEFINE head == wait_sync_list
             n    == next[t]
             p    == prev[t]
  <1>1. Registered' = Registered \ {t} /\ t \in Registered /\ Registered \subseteq Waiters
    BY DEF Inv, TypeOK, Trim, Goto, Registered, Threads
  <1>2. /\ n \in Registered /\ p \in Registered /\ prev[n] = t /\ next[p] = t
        /\ head \in Registered /\ head # NULL /\ NULL \notin Registered
    BY <1>1, ConstantsAssumption DEF Inv, RingIntact, Threads
  <1>3. /\ next' = [next EXCEPT ![p] = n]
        /\ prev' = [prev EXCEPT ![n] = p]
        /\ wait_sync_list' = HeadWithout(t)
    BY DEF Trim, Unlink
  <1>4. CASE n = t
    <2>1. head = t
      <3> SUFFICES ASSUME head # t PROVE FALSE
        OBVIOUS
      <3>1. \A s \in Registered \ {t} : next[s] \in Registered \ {t}
        BY <1>1, <1>2, <1>4 DEF Inv, RingIntact
      <3>2. Registered \ {t} = Registered
        BY <1>2, <3>1 DEF Inv, RingIntact
      <3> QED  BY <1>1, <3>2
    <2>2. {t} = Registered
      <3>1. {t} \in SUBSET Registered /\ head \in {t} /\ \A s \in {t} : next[s] \in {t}
        BY <1>1, <1>4, <2>1
      <3> QED  BY <3>1 DEF Inv, RingIntact
    <2>3. Registered' = {} /\ wait_sync_list' = NULL
      BY <1>1, <1>3, <1>4, <2>1, <2>2 DEF HeadWithout
    <2> QED  BY <2>3 DEF RingIntact
  <1>5. CASE n # t
    <2>1. /\ wait_sync_list' = IF head = t THEN n ELSE head
          /\ wait_sync_list' \in Registered'
      BY <1>1, <1>2, <1>3, <1>5 DEF HeadWithout
    <2>2. p # t /\ next'[p] = n /\ prev'[n] = p
      BY <1>1, <1>2, <1>3, <1>5 DEF Inv, TypeOK
    <2>3. /\ \A s \in Registered' : s # p => next'[s] = next[s]
          /\ \A s \in Registered' : s # n => prev'[s] = prev[s]
      BY <1>1, <1>3 DEF Inv, TypeOK
    <2>4. \A s \in Registered' : /\ next'[s] \in Registered' /\ prev'[next'[s]] = s
                                 /\ prev'[s] \in Registered' /\ next'[prev'[s]] = s
      BY <1>1, <1>2, <1>5, <2>2, <2>3 DEF Inv, RingIntact
    <2>5. ASSUME NEW S \in SUBSET Registered', wait_sync_list' \in S,
                 \A s \in S : next'[s] \in S
          PROVE  S = Registered'
      <3>1. n \in S
        <4> SUFFICES ASSUME head # t, p \notin S PROVE FALSE
          BY <2>1, <2>2, <2>5
        <4>1. S \in SUBSET Registered /\ head \in S /\ \A s \in S : next[s] \in S
          BY <1>1, <2>1, <2>3, <2>5
        <4>2. S = Registered
          BY <4>1 DEF Inv, RingIntact
        <4> QED  BY <1>1, <4>2
      <3>2. /\ S \cup {t} \in SUBSET Registered
            /\ head \in S \cup {t}
            /\ \A s \in S \cup {t} : next[s] \in S \cup {t}
        BY <1>1, <1>2, <2>1, <2>3, <2>5, <3>1
      <3>3. S \cup {t} = Registered
        BY <3>2 DEF Inv, RingIntact
      <3> QED  BY <1>1, <3>3
    <2> QED  BY <1>1, <1>2, <2>1, <2>4, <2>5 DEF RingIntact
  <1> QED  BY <1>4, <1>5

LEMMA RingStep == Inv /\ [Next]_vars => RingIntact'
  <1> SUFFICES ASSUME Inv, [Next]_vars PROVE RingIntact'
    OBVIOUS
  <1>1. ASSUME Registered' = Registered,
               \/ UNCHANGED ring
               \/ \E t \in Waiters : pc[t] = "start" /\ wait_sync_list' = wait_sync_list
                     /\ \A s \in Waiters : s # t => next'[s] = next[s] /\ prev'[s] = prev[s]
        PROVE  RingIntact'
    <2>1. \A s \in Registered : next'[s] = next[s] /\ prev'[s] = prev[s]
      BY <1>1 DEF ring, Registered
    <2>2. wait_sync_list' = wait_sync_list
      BY <1>1 DEF ring
    <2> QED  BY <1>1, <2>1, <2>2 DEF Inv, RingIntact
  <1> USE DEF Inv, TypeOK, Registered, Threads, CallPcs, WakeupPcs, Goto, mutex
  <1>2. ASSUME NEW t \in Waiters, WaitStep(t), ~Insert(t), ~Trim(t) PROVE RingIntact'
    BY <1>1, <1>2 DEF WaitStep, Enter, LockAndRecheck, CheckHead, CheckNum, Woken,
       StartProgress, EnterLoop, LeaveLoop, StopProgress, PassOwnership,
       SignalAndGoto, Return, WaitSyncRelease
  <1>3. ASSUME NEW a \in Threads, CallStep(a) PROVE RingIntact'
    BY <1>1, <1>3 DEF CallStep, UpdateSuccess, UpdateError, SwapCount, SignalSync,
       SignalAndGoto, ClearSignaling, ReturnToCaller, Home, WakeupFirst, WakeupNext
  <1>4. ASSUME NEW t \in Waiters, NEW c \in Counts, WaitSyncInit(t, c) PROVE RingIntact'
    BY <1>1, <1>4 DEF WaitSyncInit
  <1>5. ASSUME NEW t \in Waiters, SpuriousWakeup(t) PROVE RingIntact'
    BY <1>1, <1>5 DEF SpuriousWakeup
  <1>6. ASSUME NEW a \in Threads, NEW s \in Waiters, NEW st \in Statuses,
               BeginUpdate(a, s, st)
        PROVE  RingIntact'
    BY <1>1, <1>6 DEF BeginUpdate, InProgress, Home
  <1>7. ASSUME NEW a \in Threads, NEW st \in WakeupStatuses, BeginWakeup(a, st)
        PROVE  RingIntact'
    BY <1>1, <1>7 DEF BeginWakeup, InProgress, Home
  <1>8. CASE UNCHANGED vars
    BY <1>1, <1>8 DEF vars
  <1> QED  BY <1>2, <1>3, <1>4, <1>5, <1>6, <1>7, <1>8, InsertRing, TrimRing
           DEF Next, ClientStep, Finished

(* The head that leaves makes its successor the head and is at "pass" from  *)
(* then on; PassOwnership finds the successor asleep or past its next check. *)
LEMMA HeadStep == Inv /\ [Next]_vars => HeadInv'
  <1> SUFFICES ASSUME Inv, [Next]_vars PROVE HeadInv'
    OBVIOUS
  <1> USE ConstantsAssumption
      DEF Inv, TypeOK, HeadInv, Threads, Goto, ring, mutex
  <1>1. ASSUME NEW t \in Waiters, WaitStep(t) PROVE HeadInv'
    <2>1. CASE Insert(t)
      BY <1>1, <2>1 DEF Insert, LinkBeforeHead
    <2>2. CASE Trim(t)
      BY <1>1, <2>2 DEF Trim
    <2>3. CASE PassOwnership(t)
      BY <1>1, <2>3 DEF PassOwnership, SignalAndGoto, LockInv, LockPcs, CallInv
    <2>4. CASE ~Insert(t) /\ ~Trim(t) /\ ~PassOwnership(t)
      BY <1>1, <2>4 DEF WaitStep, Enter, LockAndRecheck, CheckHead, CheckNum, Woken,
         StartProgress, EnterLoop, LeaveLoop, StopProgress, Return, WaitSyncRelease
    <2> QED  BY <2>1, <2>2, <2>3, <2>4
  <1>2. ASSUME NEW a \in Threads, CallStep(a) PROVE HeadInv'
    BY <1>2 DEF CallStep, UpdateSuccess, UpdateError, SwapCount, SignalSync,
       SignalAndGoto, ClearSignaling, ReturnToCaller, Home, WakeupFirst, WakeupNext
  <1>3. CASE ClientStep
    BY <1>3 DEF ClientStep, WaitSyncInit, SpuriousWakeup, BeginUpdate, BeginWakeup,
       InProgress, Home
  <1>4. CASE UNCHANGED vars
    BY <1>4 DEF vars
  <1> QED  BY <1>1, <1>2, <1>3, <1>4 DEF Next, Finished

(* Whoever uses the count up is at "signal" in the same step, and cannot    *)
(* signal while the waiter, holding its lock, is on its way to sleep.       *)
LEMMA CompletionStep == Inv /\ [Next]_vars => CompletionInv'
  <1> SUFFICES ASSUME Inv, [Next]_vars PROVE CompletionInv'
    OBVIOUS
  <1> USE ConstantsAssumption
      DEF Inv, TypeOK, CompletionInv, LockPcs, Threads, Goto, sync
  <1>1. ASSUME NEW t \in Waiters, WaitStep(t) PROVE CompletionInv'
    <2>1. \A s \in Waiters : s # t /\ pc'[s] \in LockPcs \cup {"asleep"}
                                => pc[s] \in LockPcs \cup {"asleep"}
      BY <1>1 DEF WaitStep, Enter, LockAndRecheck, Insert, CheckHead, CheckNum, Woken,
         StartProgress, EnterLoop, LeaveLoop, StopProgress, Trim, PassOwnership,
         SignalAndGoto, Return, WaitSyncRelease
    <2>2. pc'[t] \in LockPcs \cup {"asleep"} /\ count[t] <= 0
             => pc[t] \in LockPcs \cup {"asleep"}
      BY <1>1 DEF WaitStep, Enter, LockAndRecheck, Insert, CheckHead, CheckNum, Woken,
         StartProgress, EnterLoop, LeaveLoop, StopProgress, Trim, PassOwnership,
         SignalAndGoto, Return, WaitSyncRelease, CallInv
    <2>3. UNCHANGED <<count, call>> /\ \A a \in Threads : pc[a] = "signal" => pc'[a] = "signal"
      BY <1>1 DEF WaitStep, Enter, LockAndRecheck, Insert, CheckHead, CheckNum, Woken,
         StartProgress, EnterLoop, LeaveLoop, StopProgress, Trim, PassOwnership,
         SignalAndGoto, Return, WaitSyncRelease
    <2> QED  BY <2>1, <2>2, <2>3
  <1>2. ASSUME NEW a \in Threads, CallStep(a) PROVE CompletionInv'
    <2>1. CASE UpdateSuccess(a)
      <3> DEFINE x == call[a].sync
      <3>1. x \in Waiters /\ call[a].updates \in {0, 1} /\ count[x] \in Int
        BY <2>1 DEF UpdateSuccess, CallInv, CallPcs, Calls
      <3>2. /\ \A s \in Waiters : s # x => count'[s] = count[s]
            /\ count'[x] <= 0 => count[x] <= 0 \/ count'[x] = 0
            /\ count'[x] = 0 => pc'[a] = "signal" /\ call'[a] = call[a]
        BY <1>2, <2>1, <3>1 DEF UpdateSuccess
      <3>3. \A b \in Threads : pc[b] = "signal" => pc'[b] = "signal" /\ call'[b] = call[b]
        BY <1>2, <2>1 DEF UpdateSuccess, ReturnToCaller
      <3>4. \A s \in Waiters : pc'[s] \in LockPcs \cup {"asleep"} => pc'[s] = pc[s]
        BY <1>2, <2>1 DEF UpdateSuccess, ReturnToCaller, Home
      <3> QED  BY <1>2, <3>1, <3>2, <3>3, <3>4
    <2>2. CASE SwapCount(a)
      BY <1>2, <2>2 DEF SwapCount, CallInv, CallPcs
    <2>3. CASE SignalSync(a)
      BY <1>2, <2>3 DEF SignalSync, SignalAndGoto, CallInv, CallPcs, LockInv
    <2>4. CASE UpdateError(a) \/ ClearSignaling(a) \/ WakeupFirst(a) \/ WakeupNext(a)
      BY <1>2, <2>4 DEF UpdateError, ClearSignaling, ReturnToCaller, Home, WakeupFirst,
         WakeupNext
    <2> QED  BY <1>2, <2>1, <2>2, <2>3, <2>4 DEF CallStep
  <1>3. ASSUME NEW t \in Waiters, NEW c \in Counts, WaitSyncInit(t, c)
        PROVE  CompletionInv'
    BY <1>3 DEF WaitSyncInit
  <1>4. ASSUME NEW t \in Waiters, SpuriousWakeup(t) PROVE CompletionInv'
    BY <1>4 DEF SpuriousWakeup
  <1>5. ASSUME NEW a \in Threads, NEW s \in Waiters, NEW st \in Statuses,
               BeginUpdate(a, s, st)
        PROVE  CompletionInv'
    BY <1>5 DEF BeginUpdate, InProgress, Home
  <1>6. ASSUME NEW a \in Threads, NEW st \in WakeupStatuses, BeginWakeup(a, st)
        PROVE  CompletionInv'
    BY <1>6 DEF BeginWakeup, InProgress, Home
  <1>7. CASE UNCHANGED vars
    BY <1>7 DEF vars
  <1> QED  BY <1>1, <1>2, <1>3, <1>4, <1>5, <1>6, <1>7 DEF Next, ClientStep, Finished

-----------------------------------------------------------------------------

(* Inv is an inductive invariant of the wait synchronisation. *)
THEOREM Invariance == Spec => []Inv
  <1>1. Inv /\ [Next]_vars => Inv'
    BY TypeStep, LockStep, CountStep, RingStep, HeadStep, CompletionStep DEF Inv
  <1> QED  BY <1>1, InitInv, PTL DEF Spec

(* Every variable keeps its type, the progress count included: it never    *)
(* goes below zero, whatever the threads' order at lines 100 and 105.      *)
THEOREM TypeCorrect == Spec => []TypeOK
  <1>1. Inv => TypeOK
    BY DEF Inv
  <1> QED  BY <1>1, Invariance, PTL

(* The list is one ring through exactly the waiting syncs. *)
THEOREM RingCorrect == Spec => []RingIntact
  <1>1. Inv => RingIntact
    BY DEF Inv
  <1> QED  BY <1>1, Invariance, PTL

(* The progress manager never sleeps through its promotion. *)
THEOREM PromotionCorrect == Spec => []NoLostPromotion
  <1>1. Inv => NoLostPromotion
    BY DEF Inv, HeadInv, NoLostPromotion
  <1> QED  BY <1>1, Invariance, PTL

(* No waiter sleeps through its completion. *)
THEOREM CompletionCorrect == Spec => []NoLostCompletion
  <1>1. Inv => NoLostCompletion
    BY DEF Inv, CompletionInv, NoLostCompletion
  <1> QED  BY <1>1, Invariance, PTL

=============================================================================
