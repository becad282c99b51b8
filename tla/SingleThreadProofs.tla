------------------------- MODULE SingleThreadProofs -------------------------
(***************************************************************************)
(* Proofs, for any depth of nesting and any number of syncs and calls,     *)
(* that libult without threads keeps its types, registers exactly the      *)
(* sync that is waited for, counts its waiters, leaves no thread waiting   *)
(* for a flag that is free, and implements Wait.                           *)
(***************************************************************************)
EXTENDS SingleThread, FiniteSetTheorems, SequenceTheorems, TLAPS

(* The places of the waits of some kinds on a stack q, and the syncs that  *)
(* are waited for.                                                         *)
On(q, kinds) == {i \in DOMAIN q : q[i][1] \in kinds}
Waited(q)    == {q[i][2] : i \in On(q, {"sync"})}

Polls == {"cond", "timed"}
Frame == {"sync", "cond", "timed", "acquire"} \X (Syncs \cup {NULL} \cup 0..MaxTime)

(* r is the stack q with the wait f on top of it. *)
Above(r, f, q) ==
    /\ q \in Seq(Frame) /\ r \in Seq(Frame) /\ f \in Frame
    /\ Len(r) = Len(q) + 1
    /\ r[1] = f /\ \A i \in 1..Len(q) : r[i + 1] = q[i]

(* At most one SYNC_WAIT is in progress. *)
StackInv ==
    /\ WaitRegistered /\ WaitersCounted
    /\ Cardinality(On(stack, {"sync"})) <= 1

(* The sync waited for has not returned, a sync that has returned has a    *)
(* result, and the count is what is pending unless an error came.          *)
SyncInv ==
    /\ wait_sync_list # NULL => state[wait_sync_list] = "waiting"
    /\ \A s \in Syncs : /\ state[s] \in {"open", "waiting"} => result[s] = NULL
                        /\ state[s] = "returned" => result[s] # NULL
                        /\ state[s] # "none" /\ status[s] = 0 => count[s] = pending[s]

Inv == TypeOK /\ StackInv /\ SyncInv

-----------------------------------------------------------------------------
(* Stacks *)

LEMMA Shift ==
  ASSUME NEW S \in SUBSET Nat, IsFiniteSet(S)
  PROVE  /\ IsFiniteSet({i + 1 : i \in S})
         /\ Cardinality({i + 1 : i \in S}) = Cardinality(S)
  <1> DEFINE T == {i + 1 : i \in S}
             f == [i \in S |-> i + 1]
  <1>1. f \in [S -> T] /\ \A i, j \in S : f[i] = f[j] => i = j
    OBVIOUS
  <1>2. \A t \in T : \E i \in S : f[i] = t
    OBVIOUS
  <1>3. f \in Bijection(S, T)
    BY <1>1, <1>2 DEF Bijection, Injection, IsInjective, Surjection
  <1>4. ExistsBijection(S, T)
    BY <1>3 DEF ExistsBijection
  <1> QED  BY <1>4, FS_Bijection

LEMMA OnFinite ==
  ASSUME NEW q \in Seq(Frame), NEW kinds
  PROVE  IsFiniteSet(On(q, kinds)) /\ On(q, kinds) \in SUBSET Nat
  <1>1. On(q, kinds) \subseteq 1..Len(q) /\ Len(q) \in Nat
    BY DEF On
  <1>2. IsFiniteSet(1..Len(q))
    BY <1>1, FS_Interval
  <1>3. IsFiniteSet(On(q, kinds))
    BY <1>1, <1>2, FS_Subset
  <1> QED  BY <1>1, <1>3

(* What a wait on top adds. *)
LEMMA AboveOn ==
  ASSUME NEW q, NEW r, NEW f, Above(r, f, q), NEW kinds
  PROVE  On(r, kinds) = {i + 1 : i \in On(q, kinds)} \cup (IF f[1] \in kinds THEN {1} ELSE {})
  <1>1. DOMAIN q = 1..Len(q) /\ DOMAIN r = 1..(Len(q) + 1) /\ Len(q) \in Nat
    BY DEF Above
  <1>2. \A i \in On(q, kinds) : i + 1 \in On(r, kinds)
    BY <1>1 DEF On, Above
  <1>3. 1 \in On(r, kinds) <=> f[1] \in kinds
    BY <1>1 DEF On, Above
  <1>4. ASSUME NEW j \in On(r, kinds), j # 1 PROVE \E i \in On(q, kinds) : j = i + 1
    <2>1. j - 1 \in 1..Len(q) /\ j = (j - 1) + 1 /\ r[j] = q[j - 1]
      BY <1>1, <1>4 DEF On, Above
    <2>2. j - 1 \in On(q, kinds)
      BY <1>1, <1>4, <2>1 DEF On
    <2> QED  BY <2>1, <2>2
  <1> QED  BY <1>2, <1>3, <1>4

LEMMA AboveCount ==
  ASSUME NEW q, NEW r, NEW f, Above(r, f, q), NEW kinds
  PROVE  /\ Cardinality(On(q, kinds)) \in Nat /\ IsFiniteSet(On(q, kinds))
         /\ Cardinality(On(r, kinds))
              = Cardinality(On(q, kinds)) + (IF f[1] \in kinds THEN 1 ELSE 0)
  <1> DEFINE S == {i + 1 : i \in On(q, kinds)}
  <1>1. IsFiniteSet(On(q, kinds)) /\ On(q, kinds) \in SUBSET Nat
    BY OnFinite DEF Above
  <1>2. IsFiniteSet(S) /\ Cardinality(S) = Cardinality(On(q, kinds))
    BY <1>1, Shift
  <1>3. Cardinality(On(q, kinds)) \in Nat
    BY <1>1, FS_CardinalityType
  <1>4. 1 \notin S
    BY <1>1 DEF On, Above
  <1>5. Cardinality(S \cup {1}) = Cardinality(S) + 1
    BY <1>2, <1>4, FS_AddElement
  <1>6. On(r, kinds) = S \cup (IF f[1] \in kinds THEN {1} ELSE {})
    BY AboveOn
  <1> HIDE DEF S
  <1>7. CASE f[1] \in kinds
    BY <1>1, <1>2, <1>3, <1>5, <1>6, <1>7
  <1>8. CASE f[1] \notin kinds
    <2>1. On(r, kinds) = S
      BY <1>6, <1>8
    <2> QED  BY <1>1, <1>2, <1>3, <1>8, <2>1
  <1> QED  BY <1>7, <1>8

LEMMA AboveWaited ==
  ASSUME NEW q, NEW r, NEW f, Above(r, f, q)
  PROVE  Waited(r) = Waited(q) \cup (IF f[1] = "sync" THEN {f[2]} ELSE {})
  <1>1. On(r, {"sync"}) = {i + 1 : i \in On(q, {"sync"})} \cup (IF f[1] \in {"sync"} THEN {1} ELSE {})
    BY AboveOn
  <1>2. r[1] = f /\ \A i \in On(q, {"sync"}) : r[i + 1] = q[i]
    BY DEF On, Above
  <1>3. Waited(r) = {r[j][2] : j \in {i + 1 : i \in On(q, {"sync"})}}
                      \cup (IF f[1] = "sync" THEN {r[1][2]} ELSE {})
    BY <1>1 DEF Waited
  <1>4. {r[j][2] : j \in {i + 1 : i \in On(q, {"sync"})}} = Waited(q)
    BY <1>2 DEF Waited
  <1> QED  BY <1>2, <1>3, <1>4

LEMMA PushAbove ==
  ASSUME TypeOK, NEW f \in Frame, Push(f)
  PROVE  Above(stack', f, stack)
  <1>1. <<f>> \in Seq(Frame) /\ stack \in Seq(Frame) /\ Len(<<f>>) = 1 /\ Len(stack) \in Nat
    BY DEF TypeOK, Frame
  <1>2. /\ stack' \in Seq(Frame) /\ Len(stack') = 1 + Len(stack)
        /\ \A i \in 1..(1 + Len(stack)) : stack'[i] = IF i <= 1 THEN <<f>>[i] ELSE stack[i - 1]
    BY <1>1, ConcatProperties DEF Push
  <1> QED  BY <1>1, <1>2 DEF Above

LEMMA PopAbove ==
  ASSUME TypeOK, NEW kind \in {"sync", "cond", "timed", "acquire"}, Pop(kind)
  PROVE  Above(stack, Top, stack') /\ Top[1] = kind
  <1>1. stack # <<>> /\ stack \in Seq(Frame) /\ Top = Head(stack) /\ Top[1] = kind
    BY DEF TypeOK, Frame, Pop, Top
  <1>2. /\ Head(stack) \in Frame /\ stack' \in Seq(Frame) /\ Len(stack') = Len(stack) - 1
        /\ \A i \in 1..Len(stack') : stack'[i] = stack[i + 1]
    BY <1>1, HeadTailProperties DEF Pop
  <1>3. Head(stack) = stack[1] /\ Len(stack) \in Nat
    BY <1>1
  <1> QED  BY <1>1, <1>2, <1>3 DEF Above

-----------------------------------------------------------------------------
(* The frames of the actions are frames. *)
LEMMA FrameType ==
  /\ <<"cond", NULL>> \in Frame /\ <<"acquire", NULL>> \in Frame
  /\ \A s \in Syncs : <<"sync", s>> \in Frame
  /\ \A d \in 0..MaxTime - 1 : <<"timed", d>> \in Frame
  BY SingleThreadAssumption DEF Frame

(* The stack's part of the invariant, in terms of On and Waited. *)
LEMMA StackIs ==
  /\ WaitRegistered <=> {wait_sync_list} \ {NULL} = Waited(stack)
  /\ WaitersCounted <=> c_waiting = Cardinality(On(stack, Polls))
  BY DEF WaitRegistered, WaitersCounted, Waited, On, Frames, Polls

(* The bounds are numbers. *)
LEMMA Bounds == MaxDepth \in Nat /\ MaxCalls \in Nat /\ MaxSignaled \in Nat /\ MaxTime \in Nat
  BY SingleThreadAssumption

LEMMA InitInv == Init => Inv
  <1> SUFFICES ASSUME Init PROVE Inv
    OBVIOUS
  <1> USE DEF Init
  <1>1. TypeOK
    <2>1. stack \in Seq(Frame)
      BY EmptySeq
    <2>2. c_waiting \in Nat /\ c_signaled \in Nat /\ now \in 0..MaxTime /\ calls \in 0..MaxCalls
      BY Bounds
    <2>3. {c_waiting, c_signaled} \subseteq Nat /\ act \in BOOLEAN /\ mixed \in BOOLEAN
      BY <2>2
    <2>4. /\ count \in [Syncs -> Int] /\ status \in [Syncs -> Statuses]
          /\ pending \in [Syncs -> Nat] /\ result \in [Syncs -> Statuses \cup {NULL}]
          /\ state \in [Syncs -> {"none", "open", "waiting", "returned"}]
      BY DEF Statuses
    <2> QED  BY <2>1, <2>2, <2>3, <2>4 DEF TypeOK, Frame
  <1>2. DOMAIN stack = {}
    OBVIOUS
  <1>3. StackInv
    <2>1. On(stack, {"sync"}) = {} /\ On(stack, Polls) = {}
      BY <1>2 DEF On
    <2>2. Waited(stack) = {}
      BY <2>1 DEF Waited
    <2>3. WaitRegistered
      BY <2>2, StackIs
    <2>4. Cardinality(On(stack, {"sync"})) = 0 /\ Cardinality(On(stack, Polls)) = 0
      BY <2>1, FS_EmptySet
    <2> QED  BY <2>3, <2>4, StackIs DEF StackInv
  <1>4. SyncInv
    BY DEF SyncInv
  <1> QED  BY <1>1, <1>3, <1>4 DEF Inv

(* A wait is entered ... *)
LEMMA PushStep ==
  ASSUME Inv, NEW f \in Frame, Push(f),
         c_waiting' = c_waiting + (IF f[1] \in Polls THEN 1 ELSE 0),
         IF f[1] = "sync" THEN wait_sync_list = NULL /\ f[2] # NULL /\ wait_sync_list' = f[2]
                          ELSE wait_sync_list' = wait_sync_list
  PROVE  StackInv' /\ stack' \in Seq(Frame) /\ c_waiting' \in Nat
  <1>1. Above(stack', f, stack)
    BY PushAbove DEF Inv
  <1>2. c_waiting' = Cardinality(On(stack', Polls))
    BY <1>1, AboveCount, StackIs DEF Inv, StackInv
  <1>3. {wait_sync_list} \ {NULL} = Waited(stack)
    BY StackIs DEF Inv, StackInv
  <1>4. {wait_sync_list'} \ {NULL} = Waited(stack')
    BY <1>1, <1>3, AboveWaited
  <1>5. f[1] = "sync" => On(stack, {"sync"}) = {}
    BY <1>3 DEF Waited
  <1>6. Cardinality(On(stack, {"sync"})) \in Nat
        /\ Cardinality(On(stack', {"sync"}))
             = Cardinality(On(stack, {"sync"})) + (IF f[1] \in {"sync"} THEN 1 ELSE 0)
    BY <1>1, AboveCount
  <1>7. f[1] = "sync" => Cardinality(On(stack, {"sync"})) = 0
    BY <1>5, FS_EmptySet
  <1>8. Cardinality(On(stack', {"sync"})) <= 1
    BY <1>6, <1>7 DEF Inv, StackInv
  <1>9. StackInv'
    BY <1>2, <1>4, <1>8 DEF StackInv, WaitRegistered, WaitersCounted, Waited, On, Frames, Polls
  <1> QED  BY <1>1, <1>9 DEF Above, Inv, TypeOK

(* ... and left. *)
LEMMA PopStep ==
  ASSUME Inv, NEW kind \in {"sync", "cond", "timed", "acquire"}, Pop(kind),
         c_waiting' = c_waiting - (IF kind \in Polls THEN 1 ELSE 0),
         wait_sync_list' = IF kind = "sync" THEN NULL ELSE wait_sync_list
  PROVE  StackInv' /\ stack' \in Seq(Frame) /\ c_waiting' \in Nat
  <1>1. Above(stack, Top, stack') /\ Top[1] = kind
    BY PopAbove DEF Inv
  <1>2. c_waiting = Cardinality(On(stack, Polls)) /\ {wait_sync_list} \ {NULL} = Waited(stack)
    BY StackIs DEF Inv, StackInv
  <1>3. /\ Cardinality(On(stack', Polls)) \in Nat
        /\ Cardinality(On(stack, Polls))
             = Cardinality(On(stack', Polls)) + (IF kind \in Polls THEN 1 ELSE 0)
    BY <1>1, AboveCount
  <1>4. c_waiting' = Cardinality(On(stack', Polls)) /\ c_waiting' \in Nat
    BY <1>2, <1>3
  <1>5. /\ Cardinality(On(stack', {"sync"})) \in Nat /\ IsFiniteSet(On(stack', {"sync"}))
        /\ Cardinality(On(stack, {"sync"}))
             = Cardinality(On(stack', {"sync"})) + (IF kind \in {"sync"} THEN 1 ELSE 0)
    BY <1>1, AboveCount
  <1>6. /\ Cardinality(On(stack', {"sync"})) <= 1
        /\ kind = "sync" => Cardinality(On(stack', {"sync"})) = 0
    BY <1>5 DEF Inv, StackInv
  <1>7. kind = "sync" => On(stack', {"sync"}) = {}
    BY <1>5, <1>6, FS_EmptySet
  <1>8. {wait_sync_list'} \ {NULL} = Waited(stack')
    <2>1. CASE kind = "sync"
      BY <1>7, <2>1 DEF Waited
    <2>2. CASE kind # "sync"
      BY <1>1, <1>2, <2>2, AboveWaited
    <2> QED  BY <2>1, <2>2
  <1>9. StackInv'
    BY <1>4, <1>6, <1>8 DEF StackInv, WaitRegistered, WaitersCounted, Waited, On, Frames, Polls
  <1> QED  BY <1>1, <1>4, <1>9 DEF Above

LEMMA StackStep ==
  ASSUME Inv, [Next]_vars PROVE StackInv' /\ stack' \in Seq(Frame) /\ c_waiting' \in Nat
  <1> DEFINE Goal == StackInv' /\ stack' \in Seq(Frame) /\ c_waiting' \in Nat
  <1>0. c_waiting \in Nat /\ stack \in Seq(Frame)
    BY DEF Inv, TypeOK, Frame
  <1>1. ASSUME UNCHANGED <<stack, wait_sync_list, c_waiting>> PROVE Goal
    BY <1>0, <1>1 DEF Inv, StackInv, WaitRegistered, WaitersCounted, On, Frames
  <1>2. ASSUME NEW s \in Syncs, SyncWait(s) PROVE Goal
    <2>1. <<"sync", s>> \in Frame /\ <<"sync", s>>[1] = "sync" /\ <<"sync", s>>[2] = s /\ s # NULL
      BY FrameType, SingleThreadAssumption
    <2>2. /\ Push(<<"sync", s>>) /\ wait_sync_list = NULL /\ wait_sync_list' = s
          /\ c_waiting' = c_waiting + 0
      BY <1>0, <1>2 DEF SyncWait, cond
    <2> QED  BY <2>1, <2>2, PushStep DEF Polls
  <1>3. ASSUME NEW s \in Syncs, SyncReturn(s) PROVE Goal
    <2>1. Pop("sync") /\ wait_sync_list' = NULL /\ c_waiting' = c_waiting - 0
      BY <1>0, <1>3 DEF SyncReturn, EndSyncWait, cond
    <2> QED  BY <2>1, PopStep DEF Polls
  <1>4. ASSUME NEW f \in Frame, Push(f), f[1] \in Polls, c_waiting' = c_waiting + 1,
               wait_sync_list' = wait_sync_list
        PROVE  Goal
    BY <1>4, PushStep DEF Polls
  <1>5. CASE CondWait
    BY <1>4, <1>5, FrameType DEF CondWait, Call, Polls, syncs
  <1>6. ASSUME NEW d \in 0..MaxTime - 1, TimedWait(d) PROVE Goal
    BY <1>4, <1>6, FrameType DEF TimedWait, Call, Polls, syncs
  <1>7. CASE CondReturn \/ TimedReturn
    <2>1. PICK kind \in Polls : Pop(kind)
      BY <1>7 DEF CondReturn, TimedReturn, Polls
    <2>2. c_waiting' = c_waiting - 1 /\ wait_sync_list' = wait_sync_list
      BY <1>7 DEF CondReturn, TimedReturn, syncs
    <2> QED  BY <2>1, <2>2, PopStep DEF Polls
  <1>8. CASE Acquire
    <2>1. /\ <<"acquire", NULL>> \in Frame /\ <<"acquire", NULL>>[1] \notin Polls \cup {"sync"}
          /\ Push(<<"acquire", NULL>>) /\ wait_sync_list' = wait_sync_list
          /\ c_waiting' = c_waiting + 0
      BY <1>0, <1>8, FrameType DEF Acquire, Call, Polls, syncs, cond
    <2> QED  BY <2>1, PushStep
  <1>9. CASE AcquireTest
    <2>1. CASE ~act
      <3>1. Pop("acquire") /\ wait_sync_list' = wait_sync_list /\ c_waiting' = c_waiting - 0
        BY <1>0, <1>9, <2>1 DEF AcquireTest, syncs
      <3> QED  BY <3>1, PopStep DEF Polls
    <2>2. CASE act
      BY <1>4, <1>9, <2>2, FrameType DEF AcquireTest, Polls, syncs
    <2> QED  BY <2>1, <2>2
  <1>10. ASSUME NEW s \in Syncs,
                \/ \E c \in Counts : WaitSyncInit(s, c)
                \/ WaitSyncRelease(s)
                \/ \E st \in Statuses : Complete(s, st)
         PROVE  Goal
    BY <1>1, <1>10 DEF WaitSyncInit, WaitSyncRelease, Complete, cond
  <1>11. CASE \E st \in Statuses : GlobalWakeup(st)
    BY <1>1, <1>11 DEF GlobalWakeup, cond
  <1>12. CASE Signal \/ Broadcast \/ Tick \/ ReleaseThread \/ UNCHANGED vars
    BY <1>1, <1>12 DEF Signal, Broadcast, Tick, ReleaseThread, vars, syncs, cond
  <1> QED  BY <1>2, <1>3, <1>5, <1>6, <1>7, <1>8, <1>9, <1>10, <1>11, <1>12 DEF Next, LoopStep

(* Whether an update is a success or an error, the sync keeps its type. *)
LEMMA UpdateType ==
  ASSUME TypeOK, NEW s \in Syncs, NEW u \in {0, 1}, NEW st \in Statuses, Update(s, u, st)
  PROVE  /\ count' \in [Syncs -> Int] /\ status' \in [Syncs -> Statuses]
         /\ \A r \in Syncs : r # s => count'[r] = count[r] /\ status'[r] = status[r]
         /\ st = 0 => count'[s] = count[s] - u /\ status'[s] = status[s]
         /\ st # 0 => status'[s] = st
  <1>1. u \in Int /\ count \in [Syncs -> Int] /\ status \in [Syncs -> Statuses]
    BY DEF TypeOK
  <1>2. CASE st = 0
    <2>1. count' = [count EXCEPT ![s] = @ - u] /\ status' = status
      BY <1>2 DEF Update
    <2> QED  BY <1>1, <1>2, <2>1
  <1>3. CASE st # 0
    <2>1. count' = [count EXCEPT ![s] = 0] /\ status' = [status EXCEPT ![s] = st]
      BY <1>3 DEF Update
    <2> QED  BY <1>1, <1>3, <2>1
  <1> QED  BY <1>2, <1>3

LEMMA TypeStep == Inv /\ [Next]_vars => TypeOK'
  <1> SUFFICES ASSUME Inv, [Next]_vars PROVE TypeOK'
    OBVIOUS
  <1> DEFINE SyncsOK == /\ wait_sync_list \in Syncs \cup {NULL}
                        /\ count \in [Syncs -> Int] /\ status \in [Syncs -> Statuses]
                        /\ pending \in [Syncs -> Nat]
                        /\ result \in [Syncs -> Statuses \cup {NULL}]
                        /\ state \in [Syncs -> {"none", "open", "waiting", "returned"}]
             RestOK  == /\ c_signaled \in Nat /\ act \in BOOLEAN /\ now \in 0..MaxTime
                        /\ calls \in 0..MaxCalls /\ mixed \in BOOLEAN
  <1>1. SyncsOK /\ RestOK /\ c_waiting \in Nat
    BY DEF Inv, TypeOK
  <1>2. ASSUME SyncsOK', RestOK' PROVE TypeOK'
    BY <1>2, StackStep DEF TypeOK, Frame
  <1>3. (UNCHANGED syncs => SyncsOK') /\ (UNCHANGED <<c_signaled, act, now, calls, mixed>> => RestOK')
    BY <1>1 DEF syncs
  <1>4. ASSUME NEW s \in Syncs, NEW c \in Counts, WaitSyncInit(s, c) PROVE TypeOK'
    <2>1. c \in Nat
      BY SingleThreadAssumption
    <2>2. SyncsOK'
      BY <1>1, <1>4, <2>1 DEF WaitSyncInit, Statuses
    <2> QED  BY <1>2, <1>3, <1>4, <2>2 DEF WaitSyncInit, cond
  <1>5. ASSUME NEW s \in Syncs, SyncWait(s) \/ SyncReturn(s) \/ WaitSyncRelease(s) PROVE TypeOK'
    <2>1. SyncsOK'
      BY <1>1, <1>5 DEF SyncWait, SyncReturn, EndSyncWait, WaitSyncRelease
    <2> QED  BY <1>2, <1>3, <1>5, <2>1 DEF SyncWait, SyncReturn, EndSyncWait, WaitSyncRelease, cond
  <1>6. ASSUME NEW s \in Syncs, NEW st \in Statuses, Complete(s, st) PROVE TypeOK'
    <2>1. SyncsOK'
      BY <1>1, <1>6, UpdateType DEF Complete, Inv
    <2> QED  BY <1>2, <1>3, <1>6, <2>1 DEF Complete, cond
  <1>7. ASSUME NEW st \in Statuses, GlobalWakeup(st) PROVE TypeOK'
    <2>1. SyncsOK'
      BY <1>1, <1>7, UpdateType DEF GlobalWakeup, Inv
    <2> QED  BY <1>2, <1>3, <1>7, <2>1 DEF GlobalWakeup, cond
  <1>8. CASE CondWait \/ (\E d \in 0..MaxTime - 1 : TimedWait(d)) \/ Acquire
    <2>1. calls' \in 0..MaxCalls /\ mixed' \in BOOLEAN /\ UNCHANGED <<syncs, c_signaled, act, now>>
      <3>1. (\E f : Call(f)) /\ mixed' \in {TRUE, mixed}
        BY <1>8 DEF CondWait, TimedWait, Acquire
      <3>2. calls' \in 0..MaxCalls
        BY <1>1, <3>1, Bounds DEF Call
      <3>3. mixed' \in BOOLEAN
        BY <1>1, <3>1
      <3> QED  BY <1>8, <3>2, <3>3 DEF CondWait, TimedWait, Acquire, cond
    <2> QED  BY <1>1, <1>2, <1>3, <2>1
  <1>9. CASE CondReturn \/ TimedReturn \/ Signal \/ Broadcast
    <2>1. c_signaled' \in Nat /\ UNCHANGED <<syncs, act, now, calls, mixed>>
      BY <1>1, <1>9 DEF CondReturn, TimedReturn, Signal, Broadcast
    <2> QED  BY <1>1, <1>2, <1>3, <2>1
  <1>10. CASE AcquireTest \/ ReleaseThread
    <2>1. act' \in BOOLEAN
      BY <1>1, <1>10 DEF AcquireTest, ReleaseThread
    <2>2. c_signaled' \in Nat /\ UNCHANGED <<syncs, now, calls, mixed>>
      BY <1>1, <1>10 DEF AcquireTest, ReleaseThread
    <2> QED  BY <1>1, <1>2, <1>3, <2>1, <2>2
  <1>11. CASE Tick
    <2>1. now' \in 0..MaxTime /\ UNCHANGED <<syncs, c_signaled, act, calls, mixed>>
      BY <1>1, <1>11, Bounds DEF Tick, cond
    <2> QED  BY <1>1, <1>2, <1>3, <2>1
  <1>12. CASE UNCHANGED vars
    BY <1>2, <1>3, <1>12 DEF vars, cond
  <1> QED  BY <1>4, <1>5, <1>6, <1>7, <1>8, <1>9, <1>10, <1>11, <1>12 DEF Next, LoopStep

(* The sync whose wait returns is the one in the list. *)
LEMMA ReturnsListed ==
  ASSUME Inv, NEW s \in Syncs, SyncReturn(s) PROVE s = wait_sync_list
  <1>1. Pop("sync") /\ s = Top[2]
    BY DEF SyncReturn, EndSyncWait
  <1>2. Above(stack, Top, stack') /\ Top[1] = "sync"
    BY <1>1, PopAbove DEF Inv
  <1>3. s \in Waited(stack)
    BY <1>1, <1>2, AboveWaited
  <1> QED  BY <1>3, StackIs DEF Inv, StackInv

LEMMA SyncStep == Inv /\ [Next]_vars => SyncInv'
  <1> SUFFICES ASSUME Inv, [Next]_vars PROVE SyncInv'
    OBVIOUS
  <1> USE SingleThreadAssumption DEF Inv, SyncInv
  <1>1. ASSUME NEW s \in Syncs, NEW c \in Counts, WaitSyncInit(s, c) PROVE SyncInv'
    BY <1>1 DEF WaitSyncInit, TypeOK
  <1>2. ASSUME NEW s \in Syncs, SyncWait(s) PROVE SyncInv'
    BY <1>2 DEF SyncWait, TypeOK
  <1>3. ASSUME NEW s \in Syncs, SyncReturn(s) PROVE SyncInv'
    <2>1. /\ state'[s] = "returned" /\ result'[s] \in Statuses
          /\ \A r \in Syncs : r # s => state'[r] = state[r] /\ result'[r] = result[r]
          /\ UNCHANGED <<count, status, pending>> /\ wait_sync_list' = NULL
      BY <1>3 DEF SyncReturn, EndSyncWait, TypeOK
    <2>2. result'[s] # NULL /\ state[s] # "none"
      BY <1>3, <2>1, ReturnsListed
    <2> QED  BY <2>1, <2>2
  <1>4. ASSUME NEW s \in Syncs, WaitSyncRelease(s) PROVE SyncInv'
    BY <1>4 DEF WaitSyncRelease, TypeOK
  <1>5. ASSUME NEW s \in Syncs, NEW st \in Statuses, Complete(s, st) PROVE SyncInv'
    <2>1. /\ pending'[s] = pending[s] - 1 /\ \A r \in Syncs : r # s => pending'[r] = pending[r]
          /\ UNCHANGED <<wait_sync_list, result, state>> /\ Update(s, 1, st)
      BY <1>5 DEF Complete, TypeOK
    <2> HIDE DEF Update
    <2> QED  BY <2>1, UpdateType
  <1>6. ASSUME NEW st \in Statuses, GlobalWakeup(st) PROVE SyncInv'
    <2>1. CASE wait_sync_list = NULL
      BY <1>6, <2>1 DEF GlobalWakeup
    <2>2. CASE wait_sync_list # NULL
      <3>1. PICK s \in Syncs : s = wait_sync_list
        BY <2>2 DEF TypeOK
      <3>2. UNCHANGED <<wait_sync_list, pending, result, state>> /\ Update(s, 0, st)
        BY <1>6, <2>2, <3>1 DEF GlobalWakeup
      <3>3. count[s] - 0 = count[s]
        BY DEF TypeOK
      <3> QED  BY <3>2, <3>3, UpdateType
    <2> QED  BY <2>1, <2>2
  <1>7. CASE UNCHANGED syncs
    BY <1>7 DEF syncs
  <1> QED  BY <1>1, <1>2, <1>3, <1>4, <1>5, <1>6, <1>7
           DEF Next, LoopStep, CondReturn, TimedReturn, AcquireTest, CondWait, TimedWait, Signal,
               Broadcast, Tick, Acquire, ReleaseThread, vars

(* Inv is an inductive invariant of libult without threads. *)
THEOREM Invariance == Spec => []Inv
  <1>1. Inv /\ [Next]_vars => Inv'
    BY TypeStep, StackStep, SyncStep DEF Inv
  <1> QED  BY <1>1, InitInv, PTL DEF Spec

(* Every variable has its type: c_signaled and c_waiting never go below    *)
(* zero, although nested waits take each other's signals.                  *)
THEOREM TypeCorrect == Spec => []TypeOK
  <1>1. Inv => TypeOK
    BY DEF Inv
  <1> QED  BY <1>1, Invariance, PTL

(* The list holds exactly the sync that sync_wait_st waits for. *)
THEOREM RegistrationCorrect == Spec => []WaitRegistered
  <1>1. Inv => WaitRegistered
    BY DEF Inv, StackInv
  <1> QED  BY <1>1, Invariance, PTL

(* c_waiting counts the waits of conditions, at any depth. *)
THEOREM CountCorrect == Spec => []WaitersCounted
  <1>1. Inv => WaitersCounted
    BY DEF Inv, StackInv
  <1> QED  BY <1>1, Invariance, PTL

(* A flag that is free has a signal for everyone who waits for it, as long *)
(* as the condition is used for nothing else.                              *)
FlagSignals == ~mixed /\ ~act => c_signaled >= c_waiting

(* ACQUIRE_THREAD is never left waiting for a free flag, however deep the  *)
(* acquisitions nest and whichever of them takes the signals, unless other *)
(* waits of the condition can take them.  The safety half of               *)
(* EveryWaitReturns.                                                       *)
THEOREM FlagSignalsCorrect == Spec => []FlagSignals
  <1>1. Init => FlagSignals
    BY DEF Init, FlagSignals
  <1>2. ASSUME Inv, FlagSignals, [Next]_vars PROVE FlagSignals'
    <2>1. c_waiting \in Nat /\ c_signaled \in Nat
      BY <1>2 DEF Inv, TypeOK
    <2>2. CASE CondWait \/ \E d \in 0..MaxTime - 1 : TimedWait(d)
      BY <2>2 DEF CondWait, TimedWait, FlagSignals
    <2>3. CASE AcquireTest
      BY <2>3 DEF AcquireTest, FlagSignals
    <2>4. CASE CondReturn
      BY <1>2, <2>1, <2>4 DEF CondReturn, FlagSignals
    <2>5. CASE TimedReturn
      BY <1>2, <2>1, <2>5 DEF TimedReturn, FlagSignals
    <2>6. CASE Signal \/ Broadcast \/ ReleaseThread
      BY <1>2, <2>1, <2>6 DEF Signal, Broadcast, ReleaseThread, FlagSignals
    <2>7. CASE UNCHANGED <<cond, mixed>>
      BY <1>2, <2>7 DEF FlagSignals, cond
    <2>8. ASSUME NEW s \in Syncs,
                 \/ \E c \in Counts : WaitSyncInit(s, c)
                 \/ SyncWait(s) \/ SyncReturn(s) \/ WaitSyncRelease(s)
                 \/ \E st \in Statuses : Complete(s, st)
          PROVE  FlagSignals'
      BY <2>7, <2>8 DEF WaitSyncInit, SyncWait, SyncReturn, EndSyncWait, WaitSyncRelease, Complete
    <2>9. CASE Tick \/ Acquire \/ (\E st \in Statuses : GlobalWakeup(st)) \/ UNCHANGED vars
      BY <2>7, <2>9 DEF Tick, Acquire, GlobalWakeup, vars
    <2> QED  BY <1>2, <2>2, <2>3, <2>4, <2>5, <2>6, <2>8, <2>9 DEF Next, LoopStep
  <1> QED  BY <1>1, <1>2, Invariance, PTL DEF Spec

-----------------------------------------------------------------------------
(* The refinement of Wait.  Its variables, sync by sync, are the following. *)
Opened(s)   == state[s] # "none"
LeftOf(s)   == IF state[s] # "none" THEN pending[s] ELSE 0
Recorded(s) == IF state[s] # "none" THEN status[s] ELSE 0
Returned(s) == IF state[s] # "none" THEN result[s] ELSE NULL

Opens   == [s \in Syncs |-> Opened(s)]
Lefts   == [s \in Syncs |-> LeftOf(s)]
Records   == [s \in Syncs |-> Recorded(s)]
Returns == [s \in Syncs |-> Returned(s)]

(* What is not said to change does not. *)
LEMMA OpensExcept ==
  ASSUME NEW t \in Syncs, \A s \in Syncs : s # t => Opened(s)' = Opened(s)
  PROVE  /\ Opens' = [Opens EXCEPT ![t] = Opened(t)']
         /\ Opened(t)' = Opened(t) => Opens' = Opens
  BY DEF Opens

LEMMA LeftsExcept ==
  ASSUME NEW t \in Syncs, \A s \in Syncs : s # t => LeftOf(s)' = LeftOf(s)
  PROVE  /\ Lefts' = [Lefts EXCEPT ![t] = LeftOf(t)']
         /\ LeftOf(t)' = LeftOf(t) => Lefts' = Lefts
  BY DEF Lefts

LEMMA RecordsExcept ==
  ASSUME NEW t \in Syncs, \A s \in Syncs : s # t => Recorded(s)' = Recorded(s)
  PROVE  /\ Records' = [Records EXCEPT ![t] = Recorded(t)']
         /\ Recorded(t)' = Recorded(t) => Records' = Records
  BY DEF Records

LEMMA ReturnsExcept ==
  ASSUME NEW t \in Syncs, \A s \in Syncs : s # t => Returned(s)' = Returned(s)
  PROVE  /\ Returns' = [Returns EXCEPT ![t] = Returned(t)']
         /\ Returned(t)' = Returned(t) => Returns' = Returns
  BY DEF Returns

(* The other syncs are not concerned by a step. *)
Others(t) ==
    \A s \in Syncs : s # t =>
        /\ Opened(s)' = Opened(s) /\ LeftOf(s)' = LeftOf(s)
        /\ Recorded(s)' = Recorded(s) /\ Returned(s)' = Returned(s)

LEMMA OtherSyncs ==
  ASSUME NEW t \in Syncs,
         \A s \in Syncs : s # t => /\ state'[s] = state[s] /\ pending'[s] = pending[s]
                                   /\ status'[s] = status[s] /\ result'[s] = result[s]
  PROVE  Others(t)
  BY DEF Others, Opened, LeftOf, Recorded, Returned

LEMMA Stutters ==
  ASSUME \A s \in Syncs : /\ Opened(s)' = Opened(s) /\ LeftOf(s)' = LeftOf(s)
                          /\ Recorded(s)' = Recorded(s) /\ Returned(s)' = Returned(s)
  PROVE  UNCHANGED W!wvars
  <1>1. Opens' = Opens /\ Lefts' = Lefts /\ Records' = Records /\ Returns' = Returns
    BY DEF Opens, Lefts, Records, Returns
  <1> QED  BY <1>1 DEF W!wvars, Opens, Lefts, Records, Returns, Opened, LeftOf, Recorded, Returned

LEMMA OpenMaps ==
  ASSUME Inv, NEW t \in Syncs, NEW c \in Counts, WaitSyncInit(t, c)
  PROVE  W!Open(t, c)
  <1>1. Others(t)
    BY OtherSyncs DEF WaitSyncInit, Inv, TypeOK
  <1>2. /\ ~Opened(t) /\ Opened(t)' = TRUE /\ LeftOf(t)' = c
        /\ Recorded(t)' = Recorded(t) /\ Returned(t)' = Returned(t)
    <2>1. /\ state[t] = "none" /\ state'[t] = "open" /\ pending'[t] = c
          /\ status'[t] = 0 /\ result'[t] = NULL
      BY DEF WaitSyncInit, Inv, TypeOK
    <2> QED  BY <2>1 DEF Opened, LeftOf, Recorded, Returned
  <1>3. /\ Opens' = [Opens EXCEPT ![t] = TRUE] /\ Lefts' = [Lefts EXCEPT ![t] = c]
        /\ Records' = Records /\ Returns' = Returns
    BY <1>1, <1>2, OpensExcept, LeftsExcept, RecordsExcept, ReturnsExcept DEF Others
  <1> QED  BY <1>2, <1>3 DEF W!Open, Opens, Lefts, Records, Returns, Opened, LeftOf, Recorded, Returned

LEMMA ReturnMaps ==
  ASSUME Inv, NEW t \in Syncs, SyncReturn(t)
  PROVE  W!Return(t)
  <1>1. /\ state'[t] = "returned" /\ count[t] <= 0
        /\ result'[t] = status[t]
        /\ \A s \in Syncs : s # t => state'[s] = state[s] /\ result'[s] = result[s]
        /\ UNCHANGED <<count, status, pending>>
    BY DEF SyncReturn, EndSyncWait, Inv, TypeOK
  <1>2. Others(t)
    BY <1>1, OtherSyncs
  <1>3. state[t] = "waiting" /\ result[t] = NULL /\ (status[t] # 0 \/ pending[t] = 0)
    <2>1. state[t] = "waiting"
      BY ReturnsListed, SingleThreadAssumption DEF Inv, SyncInv
    <2>2. status[t] = 0 => pending[t] <= 0 /\ pending[t] \in Nat
      BY <1>1, <2>1 DEF Inv, SyncInv, TypeOK
    <2> QED  BY <2>1, <2>2 DEF Inv, SyncInv
  <1>4. /\ Opened(t) /\ Returned(t) = NULL /\ (LeftOf(t) = 0 \/ Recorded(t) # 0)
        /\ Opened(t)' = Opened(t) /\ LeftOf(t)' = LeftOf(t) /\ Recorded(t)' = Recorded(t)
        /\ Returned(t)' = Recorded(t)
    BY <1>1, <1>3 DEF Opened, LeftOf, Recorded, Returned
  <1>5. /\ Returns' = [Returns EXCEPT ![t] = Recorded(t)]
        /\ Opens' = Opens /\ Lefts' = Lefts /\ Records' = Records
    BY <1>2, <1>4, OpensExcept, LeftsExcept, RecordsExcept, ReturnsExcept DEF Others
  <1>6. Recorded(t) \in Statuses
    BY DEF Recorded, Statuses, Inv, TypeOK
  <1>7. [st \in Statuses |-> st][Recorded(t)] = Recorded(t)
    BY <1>6
  <1> QED  BY <1>4, <1>5, <1>7 DEF W!Return, Opens, Lefts, Records, Returns, Opened, LeftOf, Recorded, Returned

LEMMA ReleaseMaps ==
  ASSUME Inv, NEW t \in Syncs, WaitSyncRelease(t)
  PROVE  W!Release(t)
  <1>1. /\ state[t] = "returned" /\ state'[t] = "none"
        /\ \A s \in Syncs : s # t => state'[s] = state[s]
        /\ UNCHANGED <<status, pending, result>>
    BY DEF WaitSyncRelease, Inv, TypeOK
  <1>2. Others(t)
    BY <1>1, OtherSyncs
  <1>3. /\ Returned(t) # NULL /\ Opened(t)' = FALSE /\ LeftOf(t)' = 0 /\ Recorded(t)' = 0
        /\ Returned(t)' = NULL
    BY <1>1 DEF Inv, SyncInv, Opened, LeftOf, Recorded, Returned
  <1>4. /\ Returns' = [Returns EXCEPT ![t] = NULL] /\ Opens' = [Opens EXCEPT ![t] = FALSE]
        /\ Lefts' = [Lefts EXCEPT ![t] = 0] /\ Records' = [Records EXCEPT ![t] = 0]
    BY <1>2, <1>3, OpensExcept, LeftsExcept, RecordsExcept, ReturnsExcept DEF Others
  <1> QED  BY <1>3, <1>4 DEF W!Release, Opens, Lefts, Records, Returns, Opened, LeftOf, Recorded, Returned

(* An update with u completions, of a callback or of the global wakeup. *)
LEMMA UpdateMaps ==
  ASSUME Inv, NEW t \in Syncs, NEW u \in {0, 1}, NEW st \in Statuses, Update(t, u, st),
         state[t] # "none", pending[t] >= u, pending' = [pending EXCEPT ![t] = @ - u],
         UNCHANGED <<state, result>>
  PROVE  UNCHANGED W!wvars \/ W!Complete(t) \/ \E e \in Errors : W!Fail(t, e)
  <1>1. pending[t] \in Nat /\ pending'[t] = pending[t] - u
        /\ \A s \in Syncs : s # t => pending'[s] = pending[s]
    BY DEF Inv, TypeOK
  <1>2. Others(t)
    BY <1>1, UpdateType, OtherSyncs DEF Inv
  <1>3. /\ Opened(t) /\ Opened(t)' = Opened(t) /\ Returned(t)' = Returned(t)
        /\ LeftOf(t)' = LeftOf(t) - u /\ LeftOf(t)' >= 0 /\ LeftOf(t) \in Nat
    BY <1>1 DEF Opened, Returned, LeftOf
  <1>4. Opens' = Opens /\ Returns' = Returns
    BY <1>2, <1>3, OpensExcept, ReturnsExcept DEF Others
  <1>5. Lefts[t] = LeftOf(t) /\ Lefts'[t] = LeftOf(t)'
    BY DEF Lefts
  <1>6. Lefts' = [Lefts EXCEPT ![t] = @ - u]
    BY <1>2, <1>3, <1>5, LeftsExcept DEF Others
  <1>7. CASE st = 0
    <2>1. Recorded(t)' = Recorded(t)
      BY <1>7, UpdateType DEF Recorded, Inv
    <2>2. Records' = Records
      BY <1>2, <2>1, RecordsExcept DEF Others
    <2>3. CASE u = 0
      <3>1. LeftOf(t)' = LeftOf(t)
        BY <1>3, <2>3
      <3> QED  BY <1>2, <1>3, <2>1, <3>1, Stutters DEF Others
    <2>4. CASE u = 1
      <3>1. Lefts[t] > 0
        BY <1>3, <1>5, <2>4
      <3>2. W!Complete(t)
        BY <1>4, <1>6, <2>2, <2>4, <3>1
           DEF W!Complete, Opens, Lefts, Records, Returns, Opened, LeftOf, Recorded, Returned
      <3> QED  BY <3>2
    <2> QED  BY <2>3, <2>4
  <1>8. CASE st # 0
    <2>1. st \in Errors /\ Recorded(t)' = st
      BY <1>8, UpdateType DEF Recorded, Inv, Statuses
    <2>2. Records' = [Records EXCEPT ![t] = st]
      BY <1>2, <2>1, RecordsExcept DEF Others
    <2>3. Lefts' \in {Lefts, [Lefts EXCEPT ![t] = @ - 1]} /\ Lefts'[t] >= 0
      <3>1. CASE u = 0
        <4>1. LeftOf(t)' = LeftOf(t)
          BY <1>3, <3>1
        <4> QED  BY <1>2, <1>3, <1>5, <4>1, LeftsExcept DEF Others
      <3>2. CASE u = 1
        BY <1>3, <1>5, <1>6, <3>2
      <3> QED  BY <3>1, <3>2
    <2>4. Opens[t]
      BY <1>3 DEF Opens
    <2>5. W!Fail(t, st)
      BY <1>4, <2>2, <2>3, <2>4
         DEF W!Fail, Opens, Lefts, Records, Returns, Opened, LeftOf, Recorded, Returned
    <2> QED  BY <2>1, <2>5
  <1> QED  BY <1>7, <1>8

LEMMA StepMaps ==
  ASSUME Inv, [Next]_vars PROVE [W!Next]_(W!wvars)
  <1>1. ASSUME NEW t \in Syncs, W!Release(t) \/ W!Complete(t) \/ W!Return(t)
                                  \/ \E st \in Errors : W!Fail(t, st)
        PROVE  W!Next
    BY <1>1 DEF W!Next
  <1>2. ASSUME NEW s \in Syncs, SyncWait(s) PROVE UNCHANGED W!wvars
    <2>1. /\ \A r \in Syncs : state'[r] = "none" <=> state[r] = "none"
          /\ UNCHANGED <<status, pending, result>>
      BY <1>2 DEF SyncWait, Inv, TypeOK
    <2> QED  BY <2>1, Stutters DEF Opened, LeftOf, Recorded, Returned
  <1>3. ASSUME NEW s \in Syncs, NEW st \in Statuses, Complete(s, st)
        PROVE  UNCHANGED W!wvars \/ W!Complete(s) \/ \E e \in Errors : W!Fail(s, e)
    <2>1. /\ Update(s, 1, st) /\ state[s] # "none" /\ pending[s] > 0
          /\ pending' = [pending EXCEPT ![s] = @ - 1] /\ UNCHANGED <<state, result>>
      BY <1>3 DEF Complete
    <2>2. pending[s] >= 1
      BY <2>1 DEF Inv, TypeOK
    <2> QED  BY <2>1, <2>2, UpdateMaps
  <1>4. ASSUME NEW st \in Statuses, GlobalWakeup(st)
        PROVE  UNCHANGED W!wvars \/ \E s \in Syncs : W!Complete(s) \/ \E e \in Errors : W!Fail(s, e)
    <2>1. CASE wait_sync_list = NULL
      BY <1>4, <2>1, Stutters DEF GlobalWakeup, Opened, LeftOf, Recorded, Returned
    <2>2. CASE wait_sync_list # NULL
      <3>1. PICK s \in Syncs : s = wait_sync_list
        BY <2>2 DEF Inv, TypeOK
      <3>2. /\ Update(s, 0, st) /\ UNCHANGED <<state, result, pending>> /\ state[s] # "none"
        BY <1>4, <2>2, <3>1 DEF GlobalWakeup, Inv, SyncInv
      <3>3. pending[s] >= 0 /\ pending' = [pending EXCEPT ![s] = @ - 0]
        BY <3>2 DEF Inv, TypeOK
      <3> QED  BY <3>2, <3>3, UpdateMaps
    <2> QED  BY <2>1, <2>2
  <1>5. ASSUME UNCHANGED syncs PROVE UNCHANGED W!wvars
    BY <1>5, Stutters DEF syncs, Opened, LeftOf, Recorded, Returned
  <1>6. CASE CondReturn \/ TimedReturn \/ AcquireTest \/ CondWait \/ Acquire
               \/ \E d \in 0..MaxTime - 1 : TimedWait(d)
    BY <1>5, <1>6 DEF CondReturn, TimedReturn, AcquireTest, CondWait, Acquire, TimedWait
  <1>7. CASE Signal \/ Broadcast \/ Tick \/ ReleaseThread \/ UNCHANGED vars
    BY <1>5, <1>7 DEF Signal, Broadcast, Tick, ReleaseThread, vars
  <1>8. ASSUME NEW s \in Syncs, NEW st \in Statuses, Complete(s, st) PROVE [W!Next]_(W!wvars)
    BY <1>1, <1>3, <1>8
  <1>9. ASSUME NEW st \in Statuses, GlobalWakeup(st) PROVE [W!Next]_(W!wvars)
    BY <1>1, <1>4, <1>9
  <1>10. ASSUME NEW s \in Syncs,
                SyncReturn(s) \/ WaitSyncRelease(s) \/ \E c \in Counts : WaitSyncInit(s, c)
         PROVE  W!Next
    <2>1. ASSUME NEW c \in Counts, WaitSyncInit(s, c) PROVE W!Next
      <3>1. W!Open(s, c)
        BY <2>1, OpenMaps
      <3> QED  BY <3>1 DEF W!Next
    <2>2. CASE SyncReturn(s)
      BY <1>1, <2>2, ReturnMaps
    <2>3. CASE WaitSyncRelease(s)
      BY <1>1, <2>3, ReleaseMaps
    <2> QED  BY <1>10, <2>1, <2>2, <2>3
  <1> QED  BY <1>2, <1>6, <1>7, <1>8, <1>9, <1>10 DEF Next, LoopStep

(* sync_wait_st implements SYNC_WAIT, for any depth of nesting, and hands  *)
(* the status that was reported to its caller as it is.                    *)
THEOREM Implementation == Spec => ImplementsWait
  <1>1. Init => W!Init
    <2> SUFFICES ASSUME Init PROVE W!Init
      OBVIOUS
    <2>1. \A s \in Syncs : Opened(s) = FALSE
      BY DEF Init, Opened
    <2>2. \A s \in Syncs : Recorded(s) = 0 /\ LeftOf(s) = 0 /\ Returned(s) = NULL
      BY <2>1 DEF Opened, Recorded, LeftOf, Returned
    <2>3. /\ Opens = [s \in Syncs |-> FALSE] /\ Records = [s \in Syncs |-> 0]
          /\ Lefts = [s \in Syncs |-> 0] /\ Returns = [s \in Syncs |-> NULL]
      BY <2>1, <2>2 DEF Opens, Records, Lefts, Returns
    <2> QED  BY <2>3 DEF W!Init, Opens, Lefts, Records, Returns, Opened, LeftOf, Recorded, Returned
  <1>2. Inv /\ [Next]_vars => [W!Next]_(W!wvars)
    BY StepMaps
  <1> QED  BY <1>1, <1>2, Invariance, PTL DEF Spec, ImplementsWait, W!Spec

=============================================================================
