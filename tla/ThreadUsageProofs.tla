------------------------- MODULE ThreadUsageProofs -------------------------
(***************************************************************************)
(* Proofs, for any number of workers, identifiers, sections and operations *)
(* and for both kinds of mutex and of build, that the locks and atomics    *)
(* that look at using_threads() when they run exclude each other, stay     *)
(* balanced and lose nothing, and that a handle means one thread.          *)
(***************************************************************************)
EXTENDS ThreadUsage, FiniteSetTheorems, SequenceTheorems, TLAPS

Kinds == {"lock", "locked_scope", "scope", "atomic"}

(* The places of the sections of some kinds among the sections q. *)
On(q, kinds) == {i \in DOMAIN q : q[i] \in kinds}

(* The kinds of sections that unlock the mutex when they are closed. *)
Unlocking == IF uses_threads THEN {"lock", "locked_scope"} ELSE {"locked_scope"}

(* r are the sections q with the section k opened inside them. *)
Above(r, k, q) ==
    /\ q \in Seq(Kinds) /\ r \in Seq(Kinds) /\ k \in Kinds
    /\ Len(r) = Len(q) + 1
    /\ r[1] = k /\ \A i \in 1..Len(q) : r[i + 1] = q[i]

(* The main thread is alone. *)
Alone == \A w \in Workers : pc[w] \in {"off", "failed"}

TypeInv == TypeOK /\ sections \in [Threads -> Seq(Kinds)]

(* Whoever runs without the flag, or has entered a scope without the lock, *)
(* is alone.                                                               *)
RunInv ==
    /\ pc[Main] \notin {"off", "failed", "ended"}
    /\ \A w \in Workers :
        pc[w] # "start" /\ (pc[w] \in {"off", "failed", "ended"} => sections[w] = <<>>)
    /\ ~uses_threads => Alone
    /\ \A t \in Threads : On(sections[t], {"scope"}) # {} => Alone

(* A thread_t holds its thread's identifier, from the end of thread_start  *)
(* to the join.                                                            *)
HandleInv ==
    /\ \A w \in Workers :
        /\ self[w] = NULL <=> pc[w] \in {"off", "failed"}
        /\ pc[w] = "off" => t_handle[w] = NULL
        /\ self[w] # NULL /\ w # starting => t_handle[w] = self[w]
        /\ w = starting => self[w] # NULL /\ (ENABLE_DEBUG => t_handle[w] = NULL)
    /\ \A w, u \in Workers : self[w] # NULL /\ self[w] = self[u] => w = u

LockInv == LockBalanced /\ (m_lock.owner = NULL => m_lock.depth = 0)

(* A section of m_lock_atomic is its holder's only section. *)
AtomicInv ==
    \A t \in Threads :
        /\ On(sections[t], {"atomic"}) # {} => Len(sections[t]) = 1
        /\ m_lock_atomic = t <=> On(sections[t], {"atomic"}) # {}

(* What was read without an atomic operation is still there. *)
WriteInv == \A t \in Threads : pc[t] = "write" => ~uses_threads /\ old[t] = addr

Inv == TypeInv /\ RunInv /\ HandleInv /\ LockInv /\ AtomicInv /\ WriteInv /\ Conservation

-----------------------------------------------------------------------------
(* Sections *)

LEMMA Shift ==
  ASSUME NEW S \in SUBSET Nat, IsFiniteSet(S)
  PROVE  /\ IsFiniteSet({i + 1 : i \in S})
         /\ Cardinality({i + 1 : i \in S}) = Cardinality(S)
  <1> DEFINE T == {i + 1 : i \in S}
             f == [i \in S |-> i + 1]
  <1>1. f \in [S -> T] /\ \A i, j \in S : f[i] = f[j] => i = j
    OBVIOUS
  <1>2. \A t \in T : \E i \in S : f[i] = t
    OBVIOUS
  <1>3. f \in Bijection(S, T)
    BY <1>1, <1>2 DEF Bijection, Injection, IsInjective, Surjection
  <1>4. ExistsBijection(S, T)
    BY <1>3 DEF ExistsBijection
  <1> QED  BY <1>4, FS_Bijection

LEMMA OnFinite ==
  ASSUME NEW q \in Seq(Kinds), NEW kinds
  PROVE  /\ IsFiniteSet(On(q, kinds)) /\ On(q, kinds) \in SUBSET Nat
         /\ Cardinality(On(q, kinds)) \in Nat
         /\ On(q, kinds) = {} <=> Cardinality(On(q, kinds)) = 0
  <1>1. On(q, kinds) \subseteq 1..Len(q) /\ Len(q) \in Nat
    BY DEF On
  <1>2. IsFiniteSet(1..Len(q))
    BY <1>1, FS_Interval
  <1>3. IsFiniteSet(On(q, kinds))
    BY <1>1, <1>2, FS_Subset
  <1> QED  BY <1>1, <1>3, FS_CardinalityType, FS_EmptySet

(* What an inner section adds. *)
LEMMA AboveOn ==
  ASSUME NEW q, NEW r, NEW k, Above(r, k, q), NEW kinds
  PROVE  On(r, kinds) = {i + 1 : i \in On(q, kinds)} \cup (IF k \in kinds THEN {1} ELSE {})
  <1>1. DOMAIN q = 1..Len(q) /\ DOMAIN r = 1..(Len(q) + 1) /\ Len(q) \in Nat
    BY DEF Above
  <1>2. \A i \in On(q, kinds) : i + 1 \in On(r, kinds)
    BY <1>1 DEF On, Above
  <1>3. 1 \in On(r, kinds) <=> k \in kinds
    BY <1>1 DEF On, Above
  <1>4. ASSUME NEW j \in On(r, kinds), j # 1 PROVE \E i \in On(q, kinds) : j = i + 1
    <2>1. j - 1 \in 1..Len(q) /\ j = (j - 1) + 1 /\ r[j] = q[j - 1]
      BY <1>1, <1>4 DEF On, Above
    <2>2. j - 1 \in On(q, kinds)
      BY <1>1, <1>4, <2>1 DEF On
    <2> QED  BY <2>1, <2>2
  <1> QED  BY <1>2, <1>3, <1>4

LEMMA AboveCount ==
  ASSUME NEW q, NEW r, NEW k, Above(r, k, q), NEW kinds
  PROVE  Cardinality(On(r, kinds))
           = Cardinality(On(q, kinds)) + (IF k \in kinds THEN 1 ELSE 0)
  <1> DEFINE S == {i + 1 : i \in On(q, kinds)}
  <1>1. IsFiniteSet(On(q, kinds)) /\ On(q, kinds) \in SUBSET Nat
        /\ Cardinality(On(q, kinds)) \in Nat
    BY OnFinite DEF Above
  <1>2. IsFiniteSet(S) /\ Cardinality(S) = Cardinality(On(q, kinds))
    BY <1>1, Shift
  <1>3. 1 \notin S
    BY <1>1 DEF On, Above
  <1>4. Cardinality(S \cup {1}) = Cardinality(S) + 1
    BY <1>2, <1>3, FS_AddElement
  <1>5. On(r, kinds) = S \cup (IF k \in kinds THEN {1} ELSE {})
    BY AboveOn
  <1> HIDE DEF S
  <1>6. CASE k \in kinds
    BY <1>1, <1>2, <1>4, <1>5, <1>6
  <1>7. CASE k \notin kinds
    <2>1. On(r, kinds) = S
      BY <1>5, <1>7
    <2> QED  BY <1>1, <1>2, <1>7, <2>1
  <1> QED  BY <1>6, <1>7

(* Only t's sections change. *)
Only(t) == \A u \in Threads : u # t => sections'[u] = sections[u]

LEMMA OpenAbove ==
  ASSUME TypeInv, NEW t \in Threads, NEW k \in Kinds, Open(t, k)
  PROVE  /\ Above(sections'[t], k, sections[t]) /\ Only(t)
         /\ sections' \in [Threads -> Seq(Kinds)]
  <1>1. <<k>> \in Seq(Kinds) /\ sections[t] \in Seq(Kinds) /\ Len(<<k>>) = 1
        /\ Len(sections[t]) \in Nat
    BY DEF TypeInv
  <1>2. sections'[t] = <<k>> \o sections[t] /\ Only(t)
    BY DEF Open, TypeInv, Only
  <1>3. /\ sections'[t] \in Seq(Kinds) /\ Len(sections'[t]) = 1 + Len(sections[t])
        /\ \A i \in 1..(1 + Len(sections[t])) :
             sections'[t][i] = IF i <= 1 THEN <<k>>[i] ELSE sections[t][i - 1]
    BY <1>1, <1>2, ConcatProperties
  <1>4. sections' \in [Threads -> Seq(Kinds)]
    <2>1. sections' = [sections EXCEPT ![t] = <<k>> \o sections[t]]
      BY DEF Open, TypeInv
    <2> QED  BY <1>2, <1>3, <2>1 DEF TypeInv
  <1> QED  BY <1>1, <1>2, <1>3, <1>4 DEF Above

LEMMA CloseAbove ==
  ASSUME TypeInv, NEW t \in Threads, NEW k \in Kinds, Close(t, k)
  PROVE  /\ Above(sections[t], k, sections'[t]) /\ Only(t)
         /\ sections' \in [Threads -> Seq(Kinds)]
  <1>1. sections[t] \in Seq(Kinds) /\ sections[t] # <<>> /\ Head(sections[t]) = k
    BY DEF TypeInv, Close, Innermost, Kinds
  <1>2. sections'[t] = Tail(sections[t]) /\ Only(t)
    BY DEF Close, TypeInv, Only
  <1>3. /\ sections'[t] \in Seq(Kinds) /\ Len(sections'[t]) = Len(sections[t]) - 1
        /\ \A i \in 1..Len(sections'[t]) : sections'[t][i] = sections[t][i + 1]
    BY <1>1, <1>2, HeadTailProperties
  <1>4. Head(sections[t]) = sections[t][1] /\ Len(sections[t]) \in Nat
    BY <1>1
  <1>5. sections' \in [Threads -> Seq(Kinds)]
    <2>1. sections' = [sections EXCEPT ![t] = Tail(sections[t])]
      BY DEF Close, TypeInv
    <2> QED  BY <1>2, <1>3, <2>1 DEF TypeInv
  <1> QED  BY <1>1, <1>2, <1>3, <1>4, <1>5 DEF Above

-----------------------------------------------------------------------------
(* Groups of actions *)

LockAction(t) ==
    \/ ThreadLock(t) \/ ThreadUnlock(t) \/ ScopedLock(t) \/ ScopedUnlock(t)
    \/ AtomicLock(t) \/ AtomicUnlock(t)

OpAction(t) ==
    \/ \E name \in Operations : BeginOp(t, name)
    \/ AtomicUpdate(t) \/ PlainRead(t) \/ PlainWrite(t)

CreateAction ==
    \/ \E w \in Workers, h \in Handles : StartThread(w, h)
    \/ \E w \in Workers, h \in Handles \cup {NULL} : StartFails(w, h)
    \/ \E w \in Workers : EndThread(w) \/ JoinThread(w)
    \/ StoreHandle

LEMMA NextCases ==
  ASSUME [Next]_vars
  PROVE  \/ \E have \in BOOLEAN : SetUsingThreads(have)
         \/ CreateAction
         \/ \E t \in Threads : LockAction(t) \/ OpAction(t)
         \/ UNCHANGED vars
  BY DEF Next, LockAction, OpAction, CreateAction

LEMMA LockFrame ==
  ASSUME NEW t \in Threads, LockAction(t)
  PROVE  /\ pc[t] = "idle" /\ UNCHANGED <<uses_threads, create, atomic, pc>>
         /\ \E k \in Kinds : Open(t, k) \/ Close(t, k)
  BY DEF LockAction, ThreadLock, ThreadUnlock, ScopedLock, ScopedUnlock, AtomicLock,
         AtomicUnlock, Open, Close, Kinds

LEMMA OpFrame ==
  ASSUME NEW t \in Threads, OpAction(t), TypeOK
  PROVE  /\ pc[t] \in {"idle", "op", "write"} /\ pc'[t] \in {"idle", "op", "write"}
         /\ \A u \in Threads : u # t => pc'[u] = pc[u]
         /\ pc' \in [Threads -> {"idle", "off", "failed", "start", "ended", "op", "write"}]
         /\ UNCHANGED <<uses_threads, locks, create>>
  <1>1. CASE \E name \in Operations : BeginOp(t, name)
    BY <1>1 DEF BeginOp, Goto, TypeOK
  <1>2. CASE AtomicUpdate(t)
    BY <1>2 DEF AtomicUpdate, Update, AddFetch, CompareExchange, Swap, EndOp, Goto, TypeOK
  <1>3. CASE PlainRead(t)
    BY <1>3 DEF PlainRead, ReadOld, Goto, TypeOK
  <1>4. CASE PlainWrite(t)
    BY <1>4 DEF PlainWrite, Update, AddFetch, CompareExchange, Swap, EndOp, Goto, TypeOK
  <1> QED  BY <1>1, <1>2, <1>3, <1>4 DEF OpAction

(* What an update computed from v does. *)
LEMMA UpdateType ==
  ASSUME NEW t \in Threads, NEW v \in Nat, Update(t, v), TypeOK
  PROVE  /\ op' \in [Threads -> Operations \cup {"none"}]
         /\ compare' \in [Threads -> Nat]
         /\ addr' \in Nat /\ added' \in Nat /\ drained' \in Nat
         /\ v = addr /\ Conservation => Conservation'
  <1>1. /\ addr \in Nat /\ added \in Nat /\ drained \in Nat
        /\ op \in [Threads -> Operations \cup {"none"}] /\ compare \in [Threads -> Nat]
    BY DEF TypeOK
  <1>2. /\ op' \in [Threads -> Operations \cup {"none"}]
        /\ compare' \in [Threads -> Nat]
    BY <1>1 DEF Update, AddFetch, CompareExchange, Swap, EndOp
  <1>3. \/ addr' = v + 1 /\ added' = added + 1 /\ drained' = drained
        \/ addr' = addr /\ added' = added /\ drained' = drained
        \/ addr' = 0 /\ added' = added /\ drained' = drained + v
    BY DEF Update, AddFetch, CompareExchange, Swap
  <1> QED  BY <1>1, <1>2, <1>3 DEF Conservation

-----------------------------------------------------------------------------
(* Types *)

LEMMA InitInv == Init => Inv
  <1> SUFFICES ASSUME Init PROVE Inv
    OBVIOUS
  <1> USE DEF Init
  <1>1. <<>> \in Seq(Kinds) /\ DOMAIN <<>> = {} /\ \A t \in Threads : sections[t] = <<>>
    BY EmptySeq
  <1>2. TypeInv
    <2>1. sections \in [Threads -> Seq(Kinds)]
      BY <1>1
    <2>2. uses_threads \in BOOLEAN
      OBVIOUS
    <2>3. m_lock \in [owner : Threads \cup {NULL}, depth : Nat]
      BY DEF MutexInit
    <2>4. /\ pc \in [Threads -> {"idle", "off", "failed", "start", "ended", "op", "write"}]
          /\ pc[Main] = "idle"
      BY DEF Threads
    <2> QED  BY <2>1, <2>2, <2>3, <2>4 DEF TypeInv, TypeOK, Kinds
  <1>3. \A w \in Workers : pc[w] = "off" /\ w \in Threads
    BY ThreadUsageAssumption DEF Threads
  <1>4. \A t \in Threads : \A kinds : On(sections[t], kinds) = {}
    BY <1>1 DEF On
  <1>5. RunInv
    BY <1>1, <1>3, <1>4 DEF RunInv, Alone, Threads
  <1>6. HandleInv
    BY <1>3, ThreadUsageAssumption DEF HandleInv
  <1>7. LockInv
    BY <1>1, ThreadUsageAssumption DEF LockInv, LockBalanced, Locked, MutexInit
  <1>8. AtomicInv
    BY <1>4, ThreadUsageAssumption DEF AtomicInv
  <1>9. WriteInv /\ Conservation
    BY DEF WriteInv, Conservation
  <1> QED  BY <1>2, <1>5, <1>6, <1>7, <1>8, <1>9 DEF Inv

LEMMA TypeStep ==
  ASSUME TypeInv, [Next]_vars PROVE TypeInv'
  <1>1. ASSUME NEW have \in BOOLEAN, SetUsingThreads(have) PROVE TypeInv'
    <2>1. uses_threads' \in BOOLEAN
      BY <1>1 DEF SetUsingThreads
    <2>2. UNCHANGED <<locks, create, atomic, pc, ops>>
      BY <1>1 DEF SetUsingThreads
    <2> QED  BY <2>1, <2>2 DEF TypeInv, TypeOK, locks, create, atomic
  <1>2. CASE CreateAction
    <2>1. UNCHANGED <<uses_threads, locks, atomic, ops>>
      BY <1>2 DEF CreateAction, StartThread, StartFails, EndThread, JoinThread, Join, StoreHandle
    <2> DEFINE Created ==
          /\ t_handle' \in [Workers -> Handles \cup {NULL}]
          /\ self' \in [Workers -> Handles \cup {NULL}]
          /\ starting' \in Workers \cup {NULL}
          /\ starting' # NULL <=> pc'[Main] = "start"
          /\ pc' \in [Threads -> {"idle", "off", "failed", "start", "ended", "op", "write"}]
    <2>2. Created
      <3>1. ASSUME NEW w \in Workers, NEW h \in Handles, StartThread(w, h) PROVE Created
        BY <3>1, ThreadUsageAssumption DEF TypeInv, TypeOK, Threads, StartThread, MayStart
      <3>2. ASSUME NEW w \in Workers, NEW h \in Handles \cup {NULL}, StartFails(w, h)
            PROVE  Created
        BY <3>2, ThreadUsageAssumption DEF TypeInv, TypeOK, Threads, StartFails, MayStart, Goto
      <3>3. ASSUME NEW w \in Workers, EndThread(w) PROVE Created
        BY <3>3, ThreadUsageAssumption DEF TypeInv, TypeOK, Threads, EndThread, Goto, create
      <3>4. ASSUME NEW w \in Workers, JoinThread(w) PROVE Created
        BY <3>4, ThreadUsageAssumption DEF TypeInv, TypeOK, Threads, JoinThread, Join, Goto
      <3>5. CASE StoreHandle
        <4>1. starting \in Workers
          BY <3>5 DEF StoreHandle, TypeInv, TypeOK
        <4> QED  BY <3>5, <4>1, ThreadUsageAssumption DEF TypeInv, TypeOK, Threads, StoreHandle, Goto
      <3> QED  BY <1>2, <3>1, <3>2, <3>3, <3>4, <3>5 DEF CreateAction
    <2> QED  BY <2>1, <2>2 DEF TypeInv, TypeOK, locks, atomic
  <1>3. ASSUME NEW t \in Threads, LockAction(t) PROVE TypeInv'
    <2>1. UNCHANGED <<uses_threads, create, atomic, pc>>
      BY <1>3, LockFrame
    <2>2. sections' \in [Threads -> Seq(Kinds)] /\ ops' \in [Threads -> Nat]
      <3>1. PICK k \in Kinds : Open(t, k) \/ Close(t, k)
        BY <1>3, LockFrame
      <3>2. ops' = [ops EXCEPT ![t] = @ + 1] \/ ops' = ops
        BY <3>1 DEF Open, Close
      <3>3. sections' \in [Threads -> Seq(Kinds)]
        BY <3>1, OpenAbove, CloseAbove
      <3>4. ops \in [Threads -> Nat]
        BY DEF TypeInv, TypeOK
      <3>5. ops' \in [Threads -> Nat]
        BY <3>2, <3>4
      <3> QED  BY <3>3, <3>5
    <2>3. m_lock' \in [owner : Threads \cup {NULL}, depth : Nat]
      <3>1. MutexLock(t) \/ MutexUnlock \/ m_lock' = m_lock
        BY <1>3 DEF LockAction, ThreadLock, ThreadUnlock, ScopedLock, ScopedUnlock, AtomicLock,
                    AtomicUnlock
      <3>2. m_lock \in [owner : Threads \cup {NULL}, depth : Nat]
        BY DEF TypeInv, TypeOK
      <3>3. CASE MutexUnlock
        BY <3>2, <3>3 DEF MutexUnlock, MutexInit
      <3> QED  BY <3>1, <3>2, <3>3 DEF MutexLock
    <2>4. m_lock_atomic' \in Threads \cup {NULL}
      BY <1>3 DEF LockAction, ThreadLock, ThreadUnlock, ScopedLock, ScopedUnlock, AtomicLock,
                  AtomicUnlock, TypeInv, TypeOK
    <2> QED  BY <2>1, <2>2, <2>3, <2>4 DEF TypeInv, TypeOK, create, atomic, Kinds
  <1>4. ASSUME NEW t \in Threads, OpAction(t) PROVE TypeInv'
    <2>1. /\ pc' \in [Threads -> {"idle", "off", "failed", "start", "ended", "op", "write"}]
          /\ pc[Main] = "start" <=> pc'[Main] = "start"
          /\ UNCHANGED <<uses_threads, locks, create>>
      BY <1>4, OpFrame DEF TypeInv, Threads
    <2>2. /\ op' \in [Threads -> Operations \cup {"none"}]
          /\ compare' \in [Threads -> Nat] /\ old' \in [Threads -> Nat]
          /\ addr' \in Nat /\ added' \in Nat /\ drained' \in Nat
          /\ ops' \in [Threads -> Nat]
      <3>1. CASE \E name \in Operations : BeginOp(t, name)
        <4>1. PICK name \in Operations : BeginOp(t, name)
          BY <3>1
        <4>2. addr \in Nat /\ added \in Nat /\ drained \in Nat
          BY DEF TypeInv, TypeOK
        <4>3. /\ op \in [Threads -> Operations \cup {"none"}] /\ compare \in [Threads -> Nat]
              /\ old \in [Threads -> Nat] /\ ops \in [Threads -> Nat]
          BY DEF TypeInv, TypeOK
        <4>4. /\ ops' = [ops EXCEPT ![t] = @ + 1] /\ op' = [op EXCEPT ![t] = name]
              /\ compare' = [compare EXCEPT ![t] = addr]
              /\ UNCHANGED <<addr, old, added, drained>>
          BY <4>1 DEF BeginOp
        <4>5. op' \in [Threads -> Operations \cup {"none"}]
          BY <4>3, <4>4
        <4>6. compare' \in [Threads -> Nat] /\ ops' \in [Threads -> Nat]
          BY <4>2, <4>3, <4>4
        <4> QED  BY <4>2, <4>3, <4>4, <4>5, <4>6
      <3>2. CASE AtomicUpdate(t)
        <4>1. addr \in Nat /\ Update(t, addr) /\ UNCHANGED <<old, ops>>
          BY <3>2 DEF AtomicUpdate, TypeInv, TypeOK
        <4>2. /\ op' \in [Threads -> Operations \cup {"none"}] /\ compare' \in [Threads -> Nat]
              /\ addr' \in Nat /\ added' \in Nat /\ drained' \in Nat
          BY <4>1, UpdateType DEF TypeInv
        <4> QED  BY <4>1, <4>2 DEF TypeInv, TypeOK
      <3>3. CASE PlainRead(t)
        BY <3>3 DEF PlainRead, ReadOld, TypeInv, TypeOK
      <3>4. CASE PlainWrite(t)
        <4>1. /\ old[t] \in Nat /\ Update(t, old[t]) /\ UNCHANGED ops
              /\ old' \in [Threads -> Nat]
          BY <3>4 DEF PlainWrite, TypeInv, TypeOK
        <4>2. /\ op' \in [Threads -> Operations \cup {"none"}] /\ compare' \in [Threads -> Nat]
              /\ addr' \in Nat /\ added' \in Nat /\ drained' \in Nat
          BY <4>1, UpdateType DEF TypeInv
        <4> QED  BY <4>1, <4>2 DEF TypeInv, TypeOK
      <3> QED  BY <1>4, <3>1, <3>2, <3>3, <3>4 DEF OpAction
    <2> QED  BY <2>1, <2>2 DEF TypeInv, TypeOK, locks, create
  <1>5. CASE UNCHANGED vars
    BY <1>5 DEF TypeInv, TypeOK, vars, locks, create, atomic
  <1> QED  BY <1>1, <1>2, <1>3, <1>4, <1>5, NextCases

-----------------------------------------------------------------------------
(* Threads and their handles *)

LEMMA AboveNonempty ==
  ASSUME NEW q, NEW r, NEW k, Above(r, k, q), NEW kinds
  PROVE  On(r, kinds) # {} <=> (On(q, kinds) # {} \/ k \in kinds)
  BY AboveOn

(* A scope is opened only without the flag. *)
LEMMA LockKinds ==
  ASSUME NEW t \in Threads, LockAction(t)
  PROVE  \E k \in Kinds : Close(t, k) \/ (Open(t, k) /\ (k = "scope" => ~uses_threads))
  BY DEF LockAction, ThreadLock, ThreadUnlock, ScopedLock, ScopedUnlock, AtomicLock,
         AtomicUnlock, Kinds

(* Locks and operations leave alone who exists. *)
LEMMA SameThreads ==
  ASSUME TypeInv, RunInv, NEW t \in Threads, LockAction(t) \/ OpAction(t)
  PROVE  /\ \A u \in Threads : \A label \in {"off", "failed", "ended", "start"} :
                pc'[u] = label <=> pc[u] = label
         /\ pc[t] \notin {"off", "failed", "ended"}
         /\ UNCHANGED <<uses_threads, create>>
  <1>1. CASE LockAction(t)
    BY <1>1, LockFrame
  <1>2. CASE OpAction(t)
    BY <1>2, OpFrame DEF TypeInv
  <1> QED  BY <1>1, <1>2

LEMMA RunStep ==
  ASSUME TypeInv, RunInv, [Next]_vars PROVE RunInv'
  <1> DEFINE Scoped(t) == On(sections[t], {"scope"}) # {}
  <1>w. Main \in Threads /\ Main \notin Workers /\ \A w \in Workers : w \in Threads
    BY ThreadUsageAssumption DEF Threads
  <1>s. \A t \in Threads : Scoped(t) => t = Main
    <2> SUFFICES ASSUME NEW w \in Workers, Scoped(w) PROVE FALSE
      BY DEF Threads
    <2>1. sections[w] = <<>>
      BY <1>w DEF RunInv, Alone
    <2> QED  BY <2>1 DEF On
  <1>1. ASSUME NEW have \in BOOLEAN, SetUsingThreads(have) PROVE RunInv'
    <2>1. Alone' /\ UNCHANGED <<pc, sections>>
      BY <1>1 DEF SetUsingThreads, Alone, locks
    <2> QED  BY <2>1 DEF RunInv
  <1>2. CASE CreateAction
    <2>1. UNCHANGED <<uses_threads, sections>>
      BY <1>2 DEF CreateAction, StartThread, StartFails, EndThread, JoinThread, Join, StoreHandle, locks
    <2>2. ASSUME NEW w \in Workers, NEW h \in Handles, StartThread(w, h) PROVE RunInv'
      <3>1. /\ pc[Main] = "idle" /\ pc' = [pc EXCEPT ![Main] = "start", ![w] = "idle"]
            /\ uses_threads /\ ~Scoped(Main)
        BY <2>2 DEF StartThread, MayStart, On
      <3>2. pc'[Main] = "start" /\ pc'[w] = "idle"
            /\ \A v \in Workers : v # w => pc'[v] = pc[v]
        BY <1>w, <3>1 DEF TypeInv, TypeOK
      <3>3. \A t \in Threads : ~Scoped(t)
        BY <1>s, <3>1
      <3> QED  BY <2>1, <3>1, <3>2, <3>3 DEF RunInv
    <2>3. ASSUME NEW w \in Workers, NEW h \in Handles \cup {NULL}, StartFails(w, h)
          PROVE  RunInv'
      <3>1. pc[w] \in {"off", "failed"} /\ pc'[w] = "failed" /\ pc'[Main] = pc[Main]
            /\ \A v \in Workers : v # w => pc'[v] = pc[v]
        BY <1>w, <2>3 DEF StartFails, MayStart, Goto, TypeInv, TypeOK
      <3>2. Alone => Alone'
        BY <3>1 DEF Alone
      <3> QED  BY <2>1, <3>1, <3>2 DEF RunInv
    <2>4. ASSUME NEW w \in Workers, EndThread(w) \/ JoinThread(w) PROVE RunInv'
      <3>1. /\ pc[w] \in {"idle", "ended"} /\ pc'[w] \in {"ended", "off"} /\ pc'[Main] = pc[Main]
            /\ \A v \in Workers : v # w => pc'[v] = pc[v]
        BY <1>w, <2>4 DEF EndThread, JoinThread, Join, Goto, TypeInv, TypeOK
      <3>2. sections[w] = <<>>
        BY <2>4 DEF EndThread, JoinThread, Join, RunInv
      <3>3. ~Alone
        BY <3>1 DEF Alone
      <3> QED  BY <2>1, <3>1, <3>2, <3>3 DEF RunInv
    <2>5. CASE StoreHandle
      <3>1. pc'[Main] = "idle" /\ \A v \in Workers : pc'[v] = pc[v]
        BY <1>w, <2>5 DEF StoreHandle, Goto, TypeInv, TypeOK
      <3>2. Alone => Alone'
        BY <3>1 DEF Alone
      <3> QED  BY <2>1, <3>1, <3>2 DEF RunInv
    <2> QED  BY <1>2, <2>2, <2>3, <2>4, <2>5 DEF CreateAction
  <1>3. ASSUME NEW t \in Threads, LockAction(t) \/ OpAction(t) PROVE RunInv'
    <2>1. /\ \A u \in Threads : \A label \in {"off", "failed", "ended", "start"} :
                pc'[u] = label <=> pc[u] = label
          /\ pc[t] \notin {"off", "failed", "ended"}
          /\ UNCHANGED <<uses_threads, create>>
      BY <1>3, SameThreads
    <2>2. Alone' <=> Alone
      BY <1>w, <2>1 DEF Alone
    <2>3. /\ \A u \in Threads : u # t => sections'[u] = sections[u]
          /\ Scoped(t)' => Scoped(t) \/ ~uses_threads
      <3>1. CASE OpAction(t)
        BY <3>1, OpFrame DEF TypeInv, locks
      <3>2. CASE LockAction(t)
        <4>1. PICK k \in Kinds : Close(t, k) \/ (Open(t, k) /\ (k = "scope" => ~uses_threads))
          BY <3>2, LockKinds
        <4>2. CASE Close(t, k)
          BY <4>2, CloseAbove, AboveNonempty DEF Only
        <4>3. CASE Open(t, k) /\ (k = "scope" => ~uses_threads)
          BY <4>3, OpenAbove, AboveNonempty DEF Only
        <4> QED  BY <4>1, <4>2, <4>3
      <3> QED  BY <1>3, <3>1, <3>2
    <2>4. \A u \in Threads : Scoped(u)' => Alone'
      BY <2>2, <2>3 DEF RunInv
    <2>5. \A w \in Workers : pc'[w] \in {"off", "failed", "ended"} => sections'[w] = <<>>
      BY <1>w, <2>1, <2>3 DEF RunInv
    <2> QED  BY <1>w, <2>1, <2>2, <2>4, <2>5 DEF RunInv
  <1>4. CASE UNCHANGED vars
    BY <1>4 DEF RunInv, Alone, vars, locks
  <1> QED  BY <1>1, <1>2, <1>3, <1>4, NextCases

LEMMA HandleStep ==
  ASSUME TypeInv, RunInv, HandleInv, [Next]_vars PROVE HandleInv'
  <1>w. Main \in Threads /\ Main \notin Workers /\ \A w \in Workers : w \in Threads
    BY ThreadUsageAssumption DEF Threads
  <1>n. NULL \notin Workers /\ NULL \notin Handles
    BY ThreadUsageAssumption DEF Threads
  <1>1. ASSUME NEW have \in BOOLEAN, SetUsingThreads(have) PROVE HandleInv'
    BY <1>1 DEF SetUsingThreads, create, HandleInv
  <1>2. ASSUME NEW w \in Workers, NEW h \in Handles, StartThread(w, h) PROVE HandleInv'
    <2>1. /\ pc[w] \in {"off", "failed"} /\ (ENABLE_DEBUG => t_handle[w] = NULL)
          /\ pc'[w] = "idle" /\ \A v \in Workers : v # w => pc'[v] = pc[v]
      BY <1>w, <1>2 DEF StartThread, MayStart, TypeInv, TypeOK
    <2>2. /\ self'[w] = h /\ starting' = w /\ t_handle' = t_handle
          /\ \A v \in Workers : v # w => self'[v] = self[v]
          /\ \A v \in Workers : self[v] # h
      BY <1>2 DEF StartThread, TypeInv, TypeOK
    <2>3. starting = NULL
      BY <1>2 DEF StartThread, MayStart, TypeInv, TypeOK
    <2> QED  BY <1>n, <2>1, <2>2, <2>3 DEF HandleInv
  <1>3. ASSUME NEW w \in Workers, NEW h \in Handles \cup {NULL}, StartFails(w, h)
        PROVE  HandleInv'
    <2>1. /\ pc[w] \in {"off", "failed"} /\ pc'[w] = "failed"
          /\ \A v \in Workers : v # w => pc'[v] = pc[v] /\ t_handle'[v] = t_handle[v]
          /\ UNCHANGED <<self, starting>>
      BY <1>w, <1>3 DEF StartFails, MayStart, Goto, TypeInv, TypeOK
    <2> QED  BY <2>1 DEF HandleInv
  <1>4. ASSUME NEW w \in Workers, EndThread(w) PROVE HandleInv'
    <2>1. /\ pc[w] = "idle" /\ pc'[w] = "ended" /\ UNCHANGED <<self, starting, t_handle>>
          /\ \A v \in Workers : v # w => pc'[v] = pc[v]
      BY <1>w, <1>4 DEF EndThread, Goto, create, TypeInv, TypeOK
    <2> QED  BY <2>1 DEF HandleInv
  <1>5. ASSUME NEW w \in Workers, JoinThread(w) PROVE HandleInv'
    <2>1. /\ pc'[w] = "off" /\ self'[w] = NULL /\ t_handle'[w] = NULL
          /\ UNCHANGED starting /\ starting = NULL
          /\ \A v \in Workers : v # w => pc'[v] = pc[v] /\ self'[v] = self[v]
                                           /\ t_handle'[v] = t_handle[v]
      BY <1>w, <1>5 DEF JoinThread, Join, Goto, TypeInv, TypeOK
    <2> QED  BY <1>n, <2>1 DEF HandleInv
  <1>6. CASE StoreHandle
    <2>1. PICK w \in Workers : w = starting
      BY <1>6 DEF StoreHandle, TypeInv, TypeOK
    <2>2. /\ t_handle'[w] = self[w] /\ starting' = NULL /\ self' = self
          /\ \A v \in Workers : pc'[v] = pc[v] /\ (v # w => t_handle'[v] = t_handle[v])
      BY <1>w, <1>6, <2>1 DEF StoreHandle, Goto, TypeInv, TypeOK
    <2> QED  BY <1>n, <2>1, <2>2 DEF HandleInv
  <1>7. ASSUME NEW t \in Threads, LockAction(t) \/ OpAction(t) PROVE HandleInv'
    <2>1. /\ \A w \in Workers : \A label \in {"off", "failed"} : pc'[w] = label <=> pc[w] = label
          /\ UNCHANGED <<self, starting, t_handle>>
      BY <1>w, <1>7, SameThreads DEF create
    <2> QED  BY <2>1 DEF HandleInv
  <1>8. CASE UNCHANGED vars
    BY <1>8 DEF HandleInv, vars, create
  <1> QED  BY <1>1, <1>2, <1>3, <1>4, <1>5, <1>6, <1>7, <1>8, NextCases DEF CreateAction

-----------------------------------------------------------------------------
(* The locks *)

LEMMA LockStep ==
  ASSUME TypeInv, TypeInv', RunInv, LockInv, [Next]_vars PROVE LockInv'
  <1> DEFINE N(t)  == Cardinality(On(sections[t], Unlocking))
             Balanced(t) == /\ m_lock.owner = t <=> N(t) # 0
                            /\ m_lock.owner = t => m_lock.depth = N(t)
  <1>l. \A t \in Threads : /\ Locked(t) = On(sections[t], Unlocking)
                           /\ Locked(t)' = On(sections'[t], Unlocking')
    BY DEF Locked, On, Unlocking
  <1>n. \A t \in Threads : /\ N(t) \in Nat /\ (Locked(t) # {} <=> N(t) # 0)
                           /\ N(t)' \in Nat /\ (Locked(t)' # {} <=> N(t)' # 0)
    <2> SUFFICES ASSUME NEW t \in Threads
                 PROVE  /\ N(t) \in Nat /\ (Locked(t) # {} <=> N(t) # 0)
                        /\ N(t)' \in Nat /\ (Locked(t)' # {} <=> N(t)' # 0)
      OBVIOUS
    <2>1. sections[t] \in Seq(Kinds) /\ sections'[t] \in Seq(Kinds)
      BY DEF TypeInv
    <2>2. N(t) \in Nat /\ (Locked(t) # {} <=> N(t) # 0)
      BY <1>l, <2>1, OnFinite
    <2>3. N(t)' \in Nat /\ (Locked(t)' # {} <=> N(t)' # 0)
      BY <1>l, <2>1, OnFinite
    <2> QED  BY <2>2, <2>3
  <1>m. /\ m_lock.depth \in Nat /\ m_lock.owner \in Threads \cup {NULL}
        /\ m_lock.owner = NULL => m_lock.depth = 0
        /\ NULL \notin Threads
    BY ThreadUsageAssumption DEF TypeInv, TypeOK, LockInv
  <1>b. \A t \in Threads : Balanced(t)
    BY <1>l, <1>n DEF LockInv, LockBalanced
  <1>c. ASSUME \A t \in Threads : Balanced(t)',
               m_lock'.owner = NULL => m_lock'.depth = 0
        PROVE  LockInv'
    BY <1>l, <1>n, <1>c DEF LockInv, LockBalanced
  <1> DEFINE Others(t) == \A u \in Threads : u # t => N(u)' = N(u)
  <1> HIDE DEF N
  (* Nobody locks or unlocks. *)
  <1>1. ASSUME m_lock' = m_lock, \A t \in Threads : N(t)' = N(t) PROVE LockInv'
    BY <1>b, <1>c, <1>m, <1>1
  <1>2. ASSUME NEW t \in Threads, MutexLock(t), N(t)' = N(t) + 1, Others(t) PROVE LockInv'
    <2>1. m_lock'.owner = t /\ m_lock'.depth = m_lock.depth + 1
      BY <1>2 DEF MutexLock
    <2>2. m_lock.owner = NULL \/ m_lock.owner = t
      BY <1>2 DEF MutexLock
    <2>3. N(t) = m_lock.depth
      BY <1>b, <1>m, <1>n, <2>2
    <2>4. \A u \in Threads : Balanced(u)'
      BY <1>2, <1>b, <1>m, <1>n, <2>1, <2>2, <2>3
    <2> QED  BY <1>c, <1>m, <2>1, <2>4
  <1>3. ASSUME NEW t \in Threads, MutexUnlock, N(t) = N(t)' + 1, Others(t) PROVE LockInv'
    <2>1. m_lock.owner = t /\ m_lock.depth = N(t) /\ N(t) # 0
      BY <1>3, <1>b, <1>n
    <2>2. m_lock \in [owner : Threads \cup {NULL}, depth : Nat]
      BY DEF TypeInv, TypeOK
    <2>3. CASE m_lock.depth <= 1
      <3>1. m_lock'.owner = NULL /\ m_lock'.depth = 0
        BY <1>3, <2>3 DEF MutexUnlock, MutexInit
      <3>2. N(t)' = 0
        BY <1>3, <1>n, <2>1, <2>3
      <3>3. \A u \in Threads : Balanced(u)'
        BY <1>3, <1>b, <1>m, <2>1, <3>1, <3>2
      <3> QED  BY <1>c, <3>1, <3>3
    <2>4. CASE ~(m_lock.depth <= 1)
      <3>1. m_lock'.owner = t /\ m_lock'.depth = m_lock.depth - 1
        BY <1>3, <2>1, <2>2, <2>4 DEF MutexUnlock
      <3>2. N(t)' # 0 /\ N(t)' = m_lock.depth - 1
        BY <1>3, <1>n, <2>1, <2>4
      <3>3. \A u \in Threads : Balanced(u)'
        BY <1>3, <1>b, <1>m, <2>1, <3>1, <3>2
      <3> QED  BY <1>c, <1>m, <3>1, <3>3
    <2> QED  BY <2>3, <2>4
  (* What opening and closing a section changes. *)
  <1>4. ASSUME NEW t \in Threads, NEW k \in Kinds, Open(t, k)
        PROVE  /\ Others(t) /\ N(t)' = N(t) + (IF k \in Unlocking THEN 1 ELSE 0)
               /\ UNCHANGED uses_threads
    <2>1. /\ Above(sections'[t], k, sections[t]) /\ Only(t) /\ UNCHANGED uses_threads
      BY <1>4, OpenAbove DEF Open
    <2>2. Unlocking' = Unlocking
      BY <2>1 DEF Unlocking
    <2> QED  BY <2>1, <2>2, AboveCount DEF N, Only
  <1>5. ASSUME NEW t \in Threads, NEW k \in Kinds, Close(t, k)
        PROVE  /\ Others(t) /\ N(t) = N(t)' + (IF k \in Unlocking THEN 1 ELSE 0)
               /\ UNCHANGED uses_threads
    <2>1. /\ Above(sections[t], k, sections'[t]) /\ Only(t) /\ UNCHANGED uses_threads
      BY <1>5, CloseAbove DEF Close
    <2>2. Unlocking' = Unlocking
      BY <2>1 DEF Unlocking
    <2> QED  BY <2>1, <2>2, AboveCount DEF N, Only
  <1>k. /\ {"lock", "locked_scope", "scope", "atomic"} \subseteq Kinds
        /\ "locked_scope" \in Unlocking /\ "scope" \notin Unlocking /\ "atomic" \notin Unlocking
        /\ "lock" \in Unlocking <=> uses_threads
    BY DEF Kinds, Unlocking
  <1>6. ASSUME NEW t \in Threads, LockAction(t) PROVE LockInv'
    <2>1. ASSUME NEW k \in Kinds, Open(t, k) \/ Close(t, k), k \notin Unlocking, m_lock' = m_lock
          PROVE  LockInv'
      <3>1. Others(t) /\ N(t)' = N(t)
        BY <1>4, <1>5, <1>n, <2>1
      <3> QED  BY <1>1, <2>1, <3>1
    <2>2. ASSUME NEW k \in Kinds, Open(t, k), k \in Unlocking, MutexLock(t) PROVE LockInv'
      <3>1. Others(t) /\ N(t)' = N(t) + 1
        BY <1>4, <2>2
      <3> QED  BY <1>2, <2>2, <3>1
    <2>3. ASSUME NEW k \in Kinds, Close(t, k), k \in Unlocking, MutexUnlock PROVE LockInv'
      <3>1. Others(t) /\ N(t) = N(t)' + 1
        BY <1>5, <2>3
      <3> QED  BY <1>3, <2>3, <3>1
    <2>4. CASE ThreadLock(t)
      BY <1>k, <2>1, <2>2, <2>4 DEF ThreadLock
    <2>5. CASE ThreadUnlock(t)
      BY <1>k, <2>1, <2>3, <2>5 DEF ThreadUnlock
    <2>6. CASE ScopedLock(t)
      BY <1>k, <2>1, <2>2, <2>6 DEF ScopedLock
    <2>7. CASE ScopedUnlock(t)
      BY <1>k, <2>1, <2>3, <2>7 DEF ScopedUnlock
    <2>8. CASE AtomicLock(t) \/ AtomicUnlock(t)
      BY <1>k, <2>1, <2>8 DEF AtomicLock, AtomicUnlock
    <2> QED  BY <1>6, <2>4, <2>5, <2>6, <2>7, <2>8 DEF LockAction
  (* The flag changes while nothing that looks at it again is open. *)
  <1>7. ASSUME NEW have \in BOOLEAN, SetUsingThreads(have) PROVE LockInv'
    <2>1. /\ m_lock' = m_lock /\ sections' = sections
          /\ \A i \in DOMAIN sections[Main] : sections[Main][i] # "lock"
          /\ \A w \in Workers : sections[w] = <<>>
      BY <1>7 DEF SetUsingThreads, locks, RunInv
    <2>2. \A t \in Threads : On(sections[t], Unlocking) = On(sections'[t], Unlocking')
      <3>1. On(sections[Main], Unlocking) = On(sections'[Main], Unlocking')
        BY <2>1 DEF On, Unlocking
      <3>2. \A w \in Workers : On(sections[w], Unlocking) = On(sections'[w], Unlocking')
        BY <2>1 DEF On
      <3> QED  BY <3>1, <3>2 DEF Threads
    <2> QED  BY <1>1, <2>1, <2>2 DEF N
  <1>8. CASE UNCHANGED <<uses_threads, locks>>
    <2>1. m_lock' = m_lock /\ sections' = sections /\ Unlocking' = Unlocking
      BY <1>8 DEF locks, Unlocking
    <2> QED  BY <1>1, <2>1 DEF N
  <1>9. ASSUME NEW t \in Threads, OpAction(t) PROVE LockInv'
    BY <1>8, <1>9, OpFrame DEF TypeInv
  <1>10. CASE CreateAction
    BY <1>8, <1>10 DEF CreateAction, StartThread, StartFails, EndThread, JoinThread, Join,
                       StoreHandle
  <1> QED  BY <1>6, <1>7, <1>8, <1>9, <1>10, NextCases DEF vars

LEMMA AtomicStep ==
  ASSUME TypeInv, AtomicInv, [Next]_vars PROVE AtomicInv'
  <1> DEFINE Holds(t) == On(sections[t], {"atomic"}) # {}
  <1>n. NULL \notin Threads
    BY ThreadUsageAssumption
  <1>a. \A t \in Threads : /\ Holds(t) => Len(sections[t]) = 1
                           /\ m_lock_atomic = t <=> Holds(t)
    BY DEF AtomicInv
  <1>b. ASSUME \A t \in Threads : /\ Holds(t)' => Len(sections'[t]) = 1
                                  /\ m_lock_atomic' = t <=> Holds(t)'
        PROVE  AtomicInv'
    BY <1>b DEF AtomicInv
  <1>1. ASSUME NEW t \in Threads, NEW k \in Kinds, Open(t, k)
        PROVE  /\ \A u \in Threads : u # t => sections'[u] = sections[u] /\ (Holds(u)' <=> Holds(u))
               /\ ~Holds(t) /\ (Holds(t)' <=> k = "atomic") /\ (Holds(t)' => Len(sections'[t]) = 1)
    <2>1. Above(sections'[t], k, sections[t]) /\ Only(t)
      BY <1>1, OpenAbove
    <2>2. "atomic" \in {k, Innermost(t)} => sections[t] = <<>>
      BY <1>1 DEF Open
    <2>3. ~Holds(t)
      <3> SUFFICES ASSUME Holds(t) PROVE FALSE
        OBVIOUS
      <3>1. sections[t] \in Seq(Kinds) /\ Len(sections[t]) = 1
        BY <1>a, <2>1 DEF Above
      <3>2. Head(sections[t]) = "atomic" /\ sections[t] # <<>>
        BY <3>1 DEF On
      <3> QED  BY <2>2, <3>2 DEF Innermost
    <2>4. Holds(t)' <=> k = "atomic"
      BY <2>1, <2>3, AboveNonempty
    <2>5. k = "atomic" => Len(sections'[t]) = 1
      BY <2>1, <2>2 DEF Above
    <2> QED  BY <2>1, <2>3, <2>4, <2>5 DEF Only
  <1>2. ASSUME NEW t \in Threads, NEW k \in Kinds, Close(t, k)
        PROVE  /\ \A u \in Threads : u # t => sections'[u] = sections[u] /\ (Holds(u)' <=> Holds(u))
               /\ ~Holds(t)' /\ (Holds(t) <=> k = "atomic")
    <2>1. Above(sections[t], k, sections'[t]) /\ Only(t)
      BY <1>2, CloseAbove
    <2>2. Holds(t) <=> Holds(t)' \/ k = "atomic"
      BY <2>1, AboveNonempty
    <2>3. ~Holds(t)'
      <3> SUFFICES ASSUME Holds(t)' PROVE FALSE
        OBVIOUS
      <3>1. Len(sections[t]) = 1
        BY <1>a, <2>2
      <3>2. Len(sections'[t]) = 0 /\ DOMAIN sections'[t] = 1..Len(sections'[t])
        BY <2>1, <3>1 DEF Above
      <3> QED  BY <3>2 DEF On
    <2> QED  BY <2>1, <2>2, <2>3 DEF Only
  <1> HIDE DEF Holds
  <1>3. ASSUME NEW t \in Threads, NEW k \in Kinds \ {"atomic"}, Open(t, k) \/ Close(t, k),
               m_lock_atomic' = m_lock_atomic
        PROVE  AtomicInv'
    <2>1. /\ \A u \in Threads : u # t => sections'[u] = sections[u] /\ (Holds(u)' <=> Holds(u))
          /\ ~Holds(t) /\ ~Holds(t)'
      BY <1>1, <1>2, <1>3
    <2> QED  BY <1>a, <1>b, <1>3, <2>1
  <1>4. ASSUME NEW t \in Threads, LockAction(t) PROVE AtomicInv'
    <2>1. CASE ThreadLock(t) \/ ThreadUnlock(t) \/ ScopedLock(t) \/ ScopedUnlock(t)
      BY <1>3, <2>1 DEF ThreadLock, ThreadUnlock, ScopedLock, ScopedUnlock, Kinds
    <2>2. CASE AtomicLock(t)
      <3>1. Open(t, "atomic") /\ m_lock_atomic = NULL /\ m_lock_atomic' = t /\ "atomic" \in Kinds
        BY <2>2 DEF AtomicLock, Kinds
      <3> QED  BY <1>1, <1>a, <1>b, <1>n, <3>1
    <2>3. CASE AtomicUnlock(t)
      <3>1. Close(t, "atomic") /\ m_lock_atomic' = NULL /\ "atomic" \in Kinds
        BY <2>3 DEF AtomicUnlock, Kinds
      <3> QED  BY <1>2, <1>a, <1>b, <1>n, <3>1
    <2> QED  BY <1>4, <2>1, <2>2, <2>3 DEF LockAction
  <1>5. CASE UNCHANGED locks
    BY <1>5 DEF AtomicInv, locks
  <1>6. ASSUME NEW t \in Threads, OpAction(t) PROVE AtomicInv'
    BY <1>5, <1>6, OpFrame DEF TypeInv
  <1>7. CASE CreateAction
    BY <1>5, <1>7 DEF CreateAction, StartThread, StartFails, EndThread, JoinThread, Join,
                      StoreHandle
  <1>8. ASSUME NEW have \in BOOLEAN, SetUsingThreads(have) PROVE AtomicInv'
    BY <1>5, <1>8 DEF SetUsingThreads
  <1> QED  BY <1>4, <1>5, <1>6, <1>7, <1>8, NextCases DEF vars

-----------------------------------------------------------------------------
(* The atomic operations *)

LEMMA WriteStep ==
  ASSUME TypeInv, RunInv, WriteInv, Conservation, [Next]_vars PROVE WriteInv' /\ Conservation'
  <1>w. Main \in Threads /\ Main \notin Workers /\ \A w \in Workers : w \in Threads
    BY ThreadUsageAssumption DEF Threads
  <1>a. \A t \in Threads : pc[t] \in {"op", "write"} /\ ~uses_threads => t = Main
    BY DEF RunInv, Alone, Threads
  (* Nobody comes to a write. *)
  <1>1. ASSUME UNCHANGED <<uses_threads, addr, old, added, drained>>,
               \A t \in Threads : pc'[t] = "write" => pc[t] = "write"
        PROVE  WriteInv' /\ Conservation'
    BY <1>1 DEF WriteInv, Conservation
  <1>2. ASSUME NEW have \in BOOLEAN, SetUsingThreads(have) PROVE WriteInv' /\ Conservation'
    <2>1. \A t \in Threads : pc[t] # "write"
      BY <1>2 DEF SetUsingThreads, Threads
    <2>2. UNCHANGED <<pc, addr, added, drained>>
      BY <1>2 DEF SetUsingThreads, atomic
    <2> QED  BY <2>1, <2>2 DEF WriteInv, Conservation
  <1>3. CASE CreateAction
    <2>1. UNCHANGED <<uses_threads, addr, old, added, drained>>
      BY <1>3 DEF CreateAction, StartThread, StartFails, EndThread, JoinThread, Join, StoreHandle,
                  atomic
    <2>2. \A t \in Threads : pc'[t] = "write" => pc[t] = "write"
      BY <1>3 DEF CreateAction, StartThread, StartFails, EndThread, JoinThread, Join, StoreHandle,
                  Goto, TypeInv, TypeOK
    <2> QED  BY <1>1, <2>1, <2>2
  <1>4. ASSUME NEW t \in Threads, LockAction(t) PROVE WriteInv' /\ Conservation'
    BY <1>1, <1>4, LockFrame DEF atomic
  <1>5. ASSUME NEW t \in Threads, OpAction(t) PROVE WriteInv' /\ Conservation'
    <2>0. /\ \A u \in Threads : u # t => pc'[u] = pc[u]
          /\ uses_threads' = uses_threads
      BY <1>5, OpFrame DEF TypeInv
    <2>1. CASE \E name \in Operations : BeginOp(t, name)
      <3>1. pc'[t] = "op" /\ UNCHANGED <<addr, old, added, drained>>
        BY <2>1 DEF BeginOp, Goto, TypeInv, TypeOK
      <3> QED  BY <1>1, <2>0, <3>1
    <2>2. CASE AtomicUpdate(t)
      <3>1. uses_threads /\ Update(t, addr) /\ addr \in Nat
        BY <2>2 DEF AtomicUpdate, TypeInv, TypeOK
      <3>2. Conservation'
        BY <3>1, UpdateType DEF TypeInv
      <3>3. pc'[t] # "write"
        BY <3>1 DEF Update, AddFetch, CompareExchange, Swap, EndOp, Goto, TypeInv, TypeOK
      <3> QED  BY <2>0, <3>1, <3>2, <3>3 DEF WriteInv
    <2>3. CASE PlainRead(t)
      <3>1. /\ ~uses_threads /\ old'[t] = addr /\ UNCHANGED <<addr, added, drained>>
            /\ \A u \in Threads : u # t => old'[u] = old[u]
        BY <2>3 DEF PlainRead, ReadOld, TypeInv, TypeOK
      <3> QED  BY <2>0, <3>1 DEF WriteInv, Conservation
    <2>4. CASE PlainWrite(t)
      <3>1. /\ pc[t] = "write" /\ Update(t, old[t]) /\ old[t] \in Nat
        BY <2>4 DEF PlainWrite, TypeInv, TypeOK
      <3>2. old[t] = addr /\ ~uses_threads
        BY <3>1 DEF WriteInv
      <3>3. Conservation'
        BY <3>1, <3>2, UpdateType DEF TypeInv
      <3>4. pc'[t] # "write"
        BY <3>1 DEF Update, AddFetch, CompareExchange, Swap, EndOp, Goto, TypeInv, TypeOK
      <3>5. \A u \in Threads : u # t => pc[u] # "write"
        BY <1>a, <3>1, <3>2
      <3> QED  BY <2>0, <3>3, <3>4, <3>5 DEF WriteInv
    <2> QED  BY <1>5, <2>1, <2>2, <2>3, <2>4 DEF OpAction
  <1>6. CASE UNCHANGED vars
    BY <1>1, <1>6 DEF vars, atomic
  <1> QED  BY <1>2, <1>3, <1>4, <1>5, <1>6, NextCases

-----------------------------------------------------------------------------
(* Theorems *)

(* Inv is inductive. *)
THEOREM Invariance == Spec => []Inv
  <1>1. Inv /\ [Next]_vars => Inv'
    <2> SUFFICES ASSUME Inv, [Next]_vars PROVE Inv'
      OBVIOUS
    <2> USE DEF Inv
    <2>1. TypeInv'
      BY TypeStep
    <2> QED  BY <2>1, RunStep, HandleStep, LockStep, AtomicStep, WriteStep
  <1> QED  BY <1>1, InitInv, PTL DEF Spec

(* Every variable keeps its type, and thread_start stores a handle in the  *)
(* end.                                                                    *)
THEOREM TypeCorrect == Spec => []TypeOK
  BY Invariance, PTL DEF Inv, TypeInv

(* thread_self_compare tells the threads apart, however often they are     *)
(* started and joined and whatever identifiers they are given.             *)
THEOREM SelfCompareCorrect == Spec => []SelfCompareExact
  <1>1. Inv => SelfCompareExact
    <2> SUFFICES ASSUME HandleInv, TypeOK, NEW w \in Workers, NEW u \in Workers,
                        self[u] # NULL, u # starting, pc[w] # "failed",
                        w = starting => ENABLE_DEBUG
                 PROVE  SelfCompare(w, u) <=> w = u
      BY DEF SelfCompareExact, Inv, TypeInv
    <2>1. t_handle[u] = self[u]
      BY DEF HandleInv
    <2>2. t_handle[w] = NULL \/ (self[w] # NULL /\ t_handle[w] = self[w])
      BY DEF HandleInv
    <2> QED  BY <2>1, <2>2 DEF HandleInv, SelfCompare
  <1> QED  BY <1>1, Invariance, PTL

(* The mutex is locked exactly as often as its holder has to unlock it,    *)
(* although the macros look at using_threads() at both ends of a section.  *)
THEOREM BalanceCorrect == Spec => []LockBalanced
  BY Invariance, PTL DEF Inv, LockInv

(* At most one thread is inside a section of the mutex, and at most one    *)
(* inside a section of m_lock_atomic.                                      *)
THEOREM ExclusionCorrect == Spec => []MutualExclusion
  <1>1. ASSUME NEW S, \A t, u \in S : t = u PROVE Cardinality(S) <= 1
    <2>1. CASE S = {}
      BY <2>1, FS_EmptySet
    <2>2. CASE S # {}
      <3>1. PICK t \in S : TRUE
        BY <2>2
      <3>2. S = {t}
        BY <1>1, <3>1
      <3>3. Cardinality({t}) = 1
        BY FS_Singleton
      <3> QED  BY <3>2, <3>3
    <2> QED  BY <2>1, <2>2
  <1>2. Inv => MutualExclusion
    <2> SUFFICES ASSUME Inv PROVE MutualExclusion
      OBVIOUS
    <2>1. ASSUME NEW t \in Inside({"lock", "locked_scope", "scope"}) PROVE m_lock.owner = t \/ Alone
      <3>1. t \in Threads
        BY <2>1 DEF Inside
      <3>2. PICK i \in DOMAIN sections[t] : sections[t][i] \in {"lock", "locked_scope", "scope"}
        BY <2>1 DEF Inside
      <3>3. CASE i \in Locked(t)
        BY <3>1, <3>3 DEF Inv, LockInv, LockBalanced
      <3>4. CASE i \notin Locked(t)
        <4>1. sections[t][i] = "scope" \/ ~uses_threads
          BY <3>2, <3>4 DEF Locked
        <4>2. sections[t][i] = "scope" => On(sections[t], {"scope"}) # {}
          BY <3>2 DEF On
        <4> QED  BY <3>1, <4>1, <4>2 DEF Inv, RunInv
      <3> QED  BY <3>3, <3>4
    <2>2. ASSUME Alone, NEW t \in Inside({"lock", "locked_scope", "scope"}) PROVE t = Main
      <3>1. t \in Threads /\ sections[t] # <<>>
        BY <2>2 DEF Inside
      <3> QED  BY <2>2, <3>1 DEF Threads, Inv, RunInv, Alone
    <2>3. \A t, u \in Inside({"lock", "locked_scope", "scope"}) : t = u
      BY <2>1, <2>2
    <2>4. \A t, u \in Inside({"atomic"}) : t = u
      <3>1. \A t \in Inside({"atomic"}) : m_lock_atomic = t
        BY DEF Inside, Inv, AtomicInv, On
      <3> QED  BY <3>1
    <2>5. /\ Cardinality(Inside({"lock", "locked_scope", "scope"})) <= 1
          /\ Cardinality(Inside({"atomic"})) <= 1
      BY <1>1, <2>3, <2>4
    <2> QED  BY <2>5 DEF MutualExclusion
  <1> QED  BY <1>2, Invariance, PTL

(* No addition is lost and none is taken twice, whether an operation is    *)
(* atomic or a read and a write.                                           *)
THEOREM ConservationCorrect == Spec => []Conservation
  BY Invariance, PTL DEF Inv

=============================================================================
