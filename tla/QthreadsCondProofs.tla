------------------------- MODULE QthreadsCondProofs -------------------------
(***************************************************************************)
(* Proofs, for any finite set of threads, that the pointers of the         *)
(* Qthreads condition variable always form the queue of the threads that   *)
(* wait, and that it implements the abstract condition variable.           *)
(***************************************************************************)
EXTENDS QthreadsCond, FiniteSetTheorems, SequenceTheorems, WellFoundedInduction, TLAPS

(* The least-number principle, from the well-foundedness of <. *)
Lt == {ss \in Nat \X Nat : ss[1] < ss[2]}

LEMMA Least ==
  ASSUME NEW T, T \subseteq Nat, T # {}
  PROVE  \E x \in T : \A y \in T : x <= y
  <1>1. IsWellFoundedOn(Lt, Nat)
    BY NatLessThanWellFounded, Zenon DEF OpToRel, Lt
  <1>2. \E x \in T : \A y \in T : ~(<<y, x>> \in Lt)
    BY <1>1, WFMin, Zenon
  <1>3. \A x, y \in T : ~(<<y, x>> \in Lt) => x <= y
    BY DEF Lt
  <1> QED  BY <1>2, <1>3

-----------------------------------------------------------------------------
(* Queues and the pointers that represent them *)

Members(q) == {q[i] : i \in DOMAIN q}

LEMMA QueueType ==
  ASSUME NEW q \in Queues
  PROVE  /\ q \in Seq(Threads) /\ Len(q) \in Nat /\ Len(q) <= Cardinality(Threads)
         /\ DOMAIN q = 1..Len(q) /\ q \in [1..Len(q) -> Threads]
         /\ q = <<>> <=> Len(q) = 0
         /\ \A i, j \in 1..Len(q) : q[i] = q[j] => i = j
  <1>1. PICK n \in 0..Cardinality(Threads) : q \in [1..n -> Threads]
    BY DEF Queues
  <1>2. n \in Nat /\ n <= Cardinality(Threads)
    BY FS_CardinalityType, ThreadsAssumption
  <1>3. q \in Seq(Threads) /\ Len(q) = n
    BY <1>1, <1>2
  <1> QED  BY <1>1, <1>2, <1>3, EmptySeq DEF Queues

LEMMA QueueIntro ==
  ASSUME NEW q \in Seq(Threads), \A i, j \in 1..Len(q) : q[i] = q[j] => i = j
  PROVE  q \in Queues
  <1>1. Len(q) \in Nat /\ q \in [1..Len(q) -> Threads] /\ DOMAIN q = 1..Len(q)
    OBVIOUS
  <1>2. Cardinality(Threads) \in Nat
    BY FS_CardinalityType, ThreadsAssumption
  <1>3. Len(q) <= Cardinality(Threads)
    <2> SUFFICES ASSUME Cardinality(Threads) < Len(q) PROVE FALSE
      BY <1>1, <1>2
    <2>0. 1 \in Int /\ Len(q) \in Int /\ ~(1 > Len(q)) /\ Len(q) - 1 + 1 = Len(q)
      BY <1>1, <1>2
    <2>1. IsFiniteSet(1..Len(q)) /\ Cardinality(1..Len(q)) = Len(q)
      BY <2>0, FS_Interval
    <2> QED  BY <1>1, <2>1, FS_PigeonHole, ThreadsAssumption
  <1> QED  BY <1>1, <1>2, <1>3 DEF Queues

(* A set that holds the tail and is closed under m_prev holds the queue. *)
LEMMA QueueReached ==
  ASSUME NEW q \in Queues, Represents(q), NEW S \in SUBSET Threads,
         m_waiter_tail \in S \cup {NULL},
         \A x \in S : m_prev[x] \in S \cup {NULL}
  PROVE  Members(q) \subseteq S
  <1> DEFINE T == {i \in 1..Len(q) : q[i] \notin S}
  <1> USE QueueType, ThreadsAssumption
  <1>1. T = {}
    <2> SUFFICES ASSUME T # {} PROVE FALSE
      OBVIOUS
    <2>0. T \subseteq Nat
      OBVIOUS
    <2>1. PICK i \in T : \A j \in T : i <= j
      <3> HIDE DEF T
      <3> QED  BY <2>0, Least, Zenon
    <2>2. i # 1
      BY DEF Represents
    <2>3. i - 1 \in 1..Len(q) /\ i - 1 \notin T /\ i - 1 # Len(q)
      BY <2>1, <2>2
    <2>4. m_prev[q[i - 1]] = q[i] /\ q[i] \in Threads
      BY <2>3 DEF Represents
    <2> QED  BY <2>3, <2>4
  <1> QED  BY <1>1 DEF Members

(* The pointers represent at most one queue. *)
LEMMA QueueUnique ==
  ASSUME NEW q \in Queues, NEW r \in Queues, Represents(q), Represents(r)
  PROVE  q = r
  <1> USE QueueType, ThreadsAssumption
  <1> DEFINE Prefix(a, b) == \A i \in 1..Len(a) : i \in 1..Len(b) /\ a[i] = b[i]
  <1>1. ASSUME NEW a \in Queues, NEW b \in Queues, Represents(a), Represents(b)
        PROVE  Prefix(a, b)
    <2> DEFINE T == {i \in 1..Len(a) : ~(i \in 1..Len(b) /\ a[i] = b[i])}
    <2> SUFFICES ASSUME T # {} PROVE FALSE
      OBVIOUS
    <2>0. T \subseteq Nat
      OBVIOUS
    <2>1. PICK i \in T : \A j \in T : i <= j
      <3> HIDE DEF T
      <3> QED  BY <2>0, Least, Zenon
    <2>2. i # 1
      BY <1>1 DEF Represents
    <2>3. i - 1 \in 1..Len(a) /\ i - 1 \notin T /\ i - 1 # Len(a)
      BY <2>1, <2>2, SMTT(30)
    <2>4. m_prev[a[i - 1]] = a[i] /\ a[i] \in Threads /\ a[i - 1] = b[i - 1]
      <3>1. m_prev[a[i - 1]] = a[(i - 1) + 1]
        BY <1>1, <2>3 DEF Represents
      <3>2. (i - 1) + 1 = i /\ a[i - 1] = b[i - 1]
        BY <2>1, <2>3
      <3> QED  BY <1>1, <2>1, <3>1, <3>2
    <2>5. i - 1 # Len(b) /\ i \in 1..Len(b) /\ b[i] = a[i]
      <3>1. i - 1 \in 1..Len(b)
        BY <2>3
      <3>2. m_prev[b[i - 1]] = IF i - 1 = Len(b) THEN NULL ELSE b[(i - 1) + 1]
        BY <1>1, <3>1 DEF Represents
      <3>3. m_prev[b[i - 1]] # NULL
        BY <2>4
      <3> QED  BY <1>1, <2>1, <2>4, <3>1, <3>2, <3>3
    <2> QED  BY <2>5
  <1>2. Prefix(q, r) /\ Prefix(r, q)
    BY <1>1
  <1>3. Len(q) = Len(r)
    <2>1. Len(q) # 0 => Len(q) \in 1..Len(r)
      BY <1>2
    <2>2. Len(r) # 0 => Len(r) \in 1..Len(q)
      BY <1>2
    <2> QED  BY <2>1, <2>2
  <1> QED  BY <1>2, <1>3, SeqEqual

(* The queue of the pointers is the one they represent. *)
Determined == \A q \in Queues : Represents(q) => Queue = q

LEMMA QueueIs == Determined
  BY QueueUnique DEF Queue, Determined

-----------------------------------------------------------------------------
(* What the operations do to the queue *)

Holds(q) == Represents(q) /\ Unsignalled = Members(q)

LEMMA EmptyQueue ==
  /\ <<>> \in Queues /\ Members(<<>>) = {}
  /\ Represents(<<>>) <=> m_waiter_tail = NULL /\ m_waiter_head = NULL
  <1>1. <<>> \in Seq(Threads) /\ Len(<<>>) = 0 /\ DOMAIN <<>> = {}
    BY EmptySeq
  <1>2. <<>> \in Queues
    <2>1. \A i, j \in 1..Len(<<>>) : <<>>[i] = <<>>[j] => i = j
      BY <1>1
    <2> QED  BY <1>1, <2>1, QueueIntro
  <1>3. Members(<<>>) = {}
    BY <1>1 DEF Members
  <1> QED  BY <1>1, <1>2, <1>3 DEF Represents

LEMMA EnqueueQueue ==
  ASSUME TypeOK, NEW q \in Queues, Holds(q), NEW t \in Threads, Enqueue(t)
  PROVE  /\ Append(q, t) \in Queues
         /\ Holds(Append(q, t))'
  <1> DEFINE r == Append(q, t)
             n == Len(q)
  <1> USE QueueType
  <1>1. t \notin Members(q)
    BY DEF Holds, Unsignalled, Enqueue, WaitPcs
  <1>2. /\ r \in Seq(Threads) /\ Len(r) = n + 1 /\ DOMAIN r = 1..(n + 1)
        /\ r[n + 1] = t /\ \A i \in 1..n : r[i] = q[i]
    OBVIOUS
  <1>3. r \in Queues
    <2>1. \A i, j \in 1..Len(r) : r[i] = r[j] => i = j
      BY <1>1, <1>2 DEF Members
    <2> QED  BY <1>2, <2>1, QueueIntro
  <1>4. Members(r) = Members(q) \cup {t}
    BY <1>2 DEF Members
  <1>5. Unsignalled' = Unsignalled \cup {t}
    BY DEF TypeOK, Unsignalled, Enqueue, Goto, WaitPcs
  <1>6. Represents(r)'
    <2> HIDE DEF r
    <2>1. r # <<>> /\ r[1] = IF n = 0 THEN t ELSE q[1]
      BY <1>2
    <2>2. m_waiter_tail' = r[1]
      BY <2>1, ThreadsAssumption DEF Holds, Represents, Enqueue
    <2>3. m_waiter_head' = r[Len(r)]
      BY <1>2 DEF Enqueue
    <2>4. ASSUME NEW i \in 1..(n + 1)
          PROVE  m_prev'[r[i]] = IF i = n + 1 THEN NULL ELSE r[i + 1]
      <3>1. CASE i = n + 1
        BY <1>2, <3>1 DEF Enqueue, TypeOK, Holds, Represents
      <3>2. CASE i = n
        <4>1. m_waiter_head = q[n] /\ q[n] \in Threads /\ q[n] # t /\ n \in 1..n
          BY <1>1, <3>2 DEF Holds, Represents, Members
        <4>2. m_prev'[q[n]] = t
          BY <4>1, ThreadsAssumption DEF Enqueue, TypeOK
        <4> QED  BY <1>2, <3>2, <4>1, <4>2
      <3>3. CASE i \in 1..n /\ i # n
        <4>1. m_waiter_head = q[n] /\ q[i] # q[n] /\ q[i] # t /\ q[i] \in Threads
          BY <1>1, <3>3 DEF Holds, Represents, Members
        <4>2. m_prev'[q[i]] = m_prev[q[i]]
          BY <4>1, ThreadsAssumption DEF Enqueue, TypeOK
        <4>3. m_prev[q[i]] = q[i + 1] /\ i + 1 \in 1..n
          BY <3>3 DEF Holds, Represents
        <4> QED  BY <1>2, <3>3, <4>2, <4>3
      <3> QED  BY <3>1, <3>2, <3>3
    <2> QED  BY <1>2, <2>1, <2>2, <2>3, <2>4 DEF Represents
  <1> QED  BY <1>3, <1>4, <1>5, <1>6 DEF Holds

LEMMA SignalQueue ==
  ASSUME TypeOK, NEW q \in Queues, Holds(q), NEW t \in Threads, Signal(t),
         q # <<>>
  PROVE  /\ Tail(q) \in Queues
         /\ Holds(Tail(q))'
         /\ m_signaled' = [m_signaled EXCEPT ![q[1]] = 1]
  <1> DEFINE r == Tail(q)
             n == Len(q)
  <1> USE QueueType
  <1>1. /\ r \in Seq(Threads) /\ Len(r) = n - 1 /\ DOMAIN r = 1..(n - 1)
        /\ n >= 1 /\ n \in Nat /\ \A i \in 1..(n - 1) : r[i] = q[i + 1]
    BY HeadTailProperties, EmptySeq
  <1>2. r \in Queues
    <2>1. \A i, j \in 1..Len(r) : r[i] = r[j] => i = j
      BY <1>1
    <2> QED  BY <1>1, <2>1, QueueIntro
  <1>3. m_waiter_tail = q[1] /\ q[1] \in Threads /\ m_waiter_tail # NULL
    BY <1>1, ThreadsAssumption DEF Holds, Represents
  <1>4. Members(r) = Members(q) \ {q[1]}
    <2>1. \A i \in 1..n : i # 1 => i - 1 \in 1..(n - 1) /\ q[i] = r[i - 1]
      BY <1>1
    <2>2. \A i \in 1..(n - 1) : i + 1 \in 1..n /\ r[i] = q[i + 1] /\ q[i + 1] # q[1]
      BY <1>1
    <2>3. ASSUME NEW w \in Members(q), w # q[1] PROVE w \in Members(r)
      <3>1. PICK i \in 1..n : w = q[i]
        BY DEF Members
      <3>2. i - 1 \in DOMAIN r /\ w = r[i - 1]
        BY <1>1, <2>1, <2>3, <3>1
      <3> QED  BY <3>2 DEF Members
    <2>4. ASSUME NEW w \in Members(r) PROVE w \in Members(q) /\ w # q[1]
      BY <1>1, <2>2 DEF Members
    <2> QED  BY <2>3, <2>4
  <1>5. Unsignalled' = Unsignalled \ {q[1]} /\ m_signaled' = [m_signaled EXCEPT ![q[1]] = 1]
    BY <1>3 DEF TypeOK, Unsignalled, Signal
  <1>6. Represents(r)'
    <2> HIDE DEF r
    <2>1. r = <<>> <=> n = 1
      BY <1>1, <1>2
    <2>2. m_prev[q[1]] = IF n = 1 THEN NULL ELSE q[2]
      BY <1>1, SMTT(30) DEF Holds, Represents
    <2>3. m_waiter_tail' = IF r = <<>> THEN NULL ELSE r[1]
      BY <1>1, <1>3, <2>1, <2>2 DEF Signal
    <2>4. m_waiter_head' = IF r = <<>> THEN NULL ELSE r[Len(r)]
      <3>1. m_waiter_head = q[n]
        BY <1>1 DEF Holds, Represents
      <3>2. n # 1 => r[Len(r)] = q[n] /\ q[2] # NULL
        BY <1>1, ThreadsAssumption
      <3> QED  BY <1>3, <2>1, <2>2, <3>1, <3>2 DEF Signal
    <2>5. ASSUME NEW i \in 1..(n - 1)
          PROVE  m_prev'[r[i]] = IF i = n - 1 THEN NULL ELSE r[i + 1]
      <3>1. m_prev' = m_prev /\ r[i] = q[i + 1] /\ i + 1 \in 1..n
        BY <1>1, <1>3 DEF Signal
      <3>2. m_prev[q[i + 1]] = IF i + 1 = n THEN NULL ELSE q[(i + 1) + 1]
        BY <3>1 DEF Holds, Represents
      <3>3. i # n - 1 => r[i + 1] = q[(i + 1) + 1]
        BY <1>1
      <3> QED  BY <1>1, <3>1, <3>2, <3>3
    <2> QED  BY <1>1, <2>3, <2>4, <2>5 DEF Represents
  <1> QED  BY <1>2, <1>4, <1>5, <1>6 DEF Holds

LEMMA BroadcastQueue ==
  ASSUME TypeOK, NEW q \in Queues, Holds(q), NEW t \in Threads, Broadcast(t)
  PROVE  /\ Holds(<<>>)'
         /\ \A w \in Members(q) : m_signaled'[w] = 1
         /\ \A w \in Threads : pc[w] \in WaitPcs => m_signaled'[w] = 1
  <1>1. Members(q) \subseteq Chain
    <2>1. Members(q) \subseteq Threads
      BY DEF Holds, Unsignalled
    <2> QED  BY <2>1, QueueReached DEF Chain, Holds
  <1>2. \A w \in Members(q) : m_signaled'[w] = 1
    BY <1>1 DEF Broadcast, Holds, Unsignalled
  <1>3. \A w \in Threads : pc[w] \in WaitPcs => m_signaled'[w] = 1
    BY <1>2 DEF Broadcast, Holds, Unsignalled, TypeOK
  <1>4. Unsignalled' = {}
    BY <1>3 DEF Broadcast, Unsignalled
  <1>5. Represents(<<>>)'
    BY EmptyQueue DEF Broadcast, Represents
  <1> QED  BY <1>2, <1>3, <1>4, <1>5, EmptyQueue DEF Holds

-----------------------------------------------------------------------------
(* Invariance *)

Inv == TypeOK /\ QueueIntact

LEMMA Intact == QueueIntact <=> \E q \in Queues : Holds(q)
  BY DEF QueueIntact, Holds, Members

LEMMA TypeStep == TypeOK /\ [Next]_vars => TypeOK'
  <1> SUFFICES ASSUME TypeOK, [Next]_vars PROVE TypeOK'
    OBVIOUS
  <1> USE ThreadsAssumption DEF TypeOK, WaitPcs, Goto, cond
  <1>1. ASSUME NEW t \in Threads, Lock(t) \/ Unlock(t) PROVE TypeOK'
    BY <1>1 DEF Lock, Unlock
  <1>2. ASSUME NEW t \in Threads, Enqueue(t) PROVE TypeOK'
    BY <1>2 DEF Enqueue
  <1>3. ASSUME NEW t \in Threads, WaitStep(t) PROVE TypeOK'
    BY <1>3 DEF WaitStep, WaitUnlock, WaitLock, Check
  <1>4. ASSUME NEW t \in Threads, Signal(t) PROVE TypeOK'
    BY <1>4 DEF Signal
  <1>5. ASSUME NEW t \in Threads, Broadcast(t) PROVE TypeOK'
    BY <1>5 DEF Broadcast
  <1>6. CASE UNCHANGED vars
    BY <1>6 DEF vars
  <1> QED  BY <1>1, <1>2, <1>3, <1>4, <1>5, <1>6 DEF Next

(* Steps that leave the list alone also leave alone who is in it. *)
LEMMA OtherQueue ==
  ASSUME TypeOK, NEW q \in Queues, Holds(q), NEW t \in Threads,
         \/ Lock(t) \/ Unlock(t) \/ WaitStep(t)
         \/ Signal(t) /\ q = <<>>
  PROVE  Holds(q)' /\ UNCHANGED cond
  <1>1. UNCHANGED cond
    BY EmptyQueue DEF Lock, Unlock, WaitStep, WaitUnlock, WaitLock, Check, Signal,
       Holds, cond
  <1>2. Represents(q)'
    BY <1>1 DEF Holds, Represents, cond
  <1>3. Unsignalled' = Unsignalled
    BY <1>1 DEF TypeOK, Unsignalled, cond, Goto, WaitPcs, Lock, Unlock, WaitStep,
       WaitUnlock, WaitLock, Check, Signal
  <1> QED  BY <1>1, <1>2, <1>3 DEF Holds

LEMMA QueueStep == Inv /\ [Next]_vars => QueueIntact'
  <1> SUFFICES ASSUME TypeOK, NEW q \in Queues, Holds(q), [Next]_vars
               PROVE  \E r \in Queues : Holds(r)'
    BY Intact DEF Inv, QueueIntact, Holds, Members
  <1>1. CASE UNCHANGED vars
    BY <1>1 DEF vars, cond, Holds, Represents, Unsignalled
  <1>2. ASSUME NEW t \in Threads,
               \/ Lock(t) \/ Unlock(t) \/ Enqueue(t) \/ WaitStep(t)
               \/ Signal(t) \/ Broadcast(t)
        PROVE  \E r \in Queues : Holds(r)'
    BY <1>2, EnqueueQueue, SignalQueue, BroadcastQueue, OtherQueue, EmptyQueue
  <1> QED  BY <1>1, <1>2 DEF Next

LEMMA InitInv == Init => Inv
  <1> SUFFICES ASSUME Init PROVE Inv
    OBVIOUS
  <1>1. TypeOK
    BY ThreadsAssumption DEF Init, TypeOK, WaitPcs
  <1>2. Holds(<<>>)
    BY EmptyQueue DEF Init, Holds, Unsignalled, WaitPcs
  <1> QED  BY <1>1, <1>2, EmptyQueue, Intact DEF Inv

(* The list of waiters is always the queue of exactly those threads that   *)
(* wait unsignalled; no pointer leads to a wait that has returned.         *)
THEOREM QueueCorrect == Spec => []QueueIntact
  <1>1. Inv /\ [Next]_vars => Inv'
    BY TypeStep, QueueStep DEF Inv
  <1>2. Inv => QueueIntact
    BY DEF Inv
  <1> QED  BY InitInv, <1>1, <1>2, PTL DEF Spec

-----------------------------------------------------------------------------
(* Refinement *)

Owner == IF mutex # NULL /\ pc[mutex] \in WaitPcs THEN NULL ELSE mutex
Woken == {t \in Threads : pc[t] \in WaitPcs /\ m_signaled[t] = 1}

LEMMA StepRefines == Inv /\ [Next]_vars => [CV!Next]_(CV!vars)
  <1> SUFFICES ASSUME TypeOK, NEW q \in Queues, Holds(q), [Next]_vars
               PROVE  [CV!Next]_(CV!vars)
    BY Intact DEF Inv
  <1>1. Queue = q
    BY QueueIs DEF Holds, Determined
  <1>2. \A r \in Queues : Represents(r)' => Queue' = r
    <2>1. Determined'
      BY QueueIs, PTL
    <2> QED  BY <2>1 DEF Determined
  <1>3. CV!Waiting = Members(q)
    BY <1>1 DEF CV!Waiting, Members
  <1>4. ASSUME Owner' = Owner, Queue' = Queue, Woken' = Woken
        PROVE  [CV!Next]_(CV!vars)
    BY <1>4 DEF CV!vars, Owner, Woken
  <1> USE ThreadsAssumption
  <1>5. ASSUME NEW t \in Threads, Lock(t) \/ Unlock(t) \/ WaitStep(t)
        PROVE  [CV!Next]_(CV!vars)
    <2>1. Queue' = Queue /\ m_signaled' = m_signaled
      BY <1>1, <1>2, <1>5, OtherQueue DEF Holds, cond
    <2>2. CASE Lock(t)
      <3>1. Owner = NULL /\ Owner' = t /\ Woken' = Woken /\ t \notin Members(q) \cup Woken
        BY <2>1, <2>2 DEF Lock, Owner, Woken, TypeOK, Goto, WaitPcs, Holds, Unsignalled
      <3>2. CV!Lock(t)
        BY <1>3, <2>1, <3>1 DEF CV!Lock, Owner, Woken
      <3> QED  BY <3>2 DEF CV!Next
    <2>3. CASE Unlock(t)
      <3>1. Owner = t /\ Owner' = NULL /\ Woken' = Woken
        BY <2>1, <2>3 DEF Unlock, Owner, Woken, TypeOK, Goto, WaitPcs
      <3>2. CV!Unlock(t)
        BY <2>1, <3>1 DEF CV!Unlock, Owner, Woken
      <3> QED  BY <3>2 DEF CV!Next
    <2>4. CASE WaitUnlock(t) \/ WaitLock(t)
      <3>1. Owner' = Owner /\ Woken' = Woken
        BY <2>1, <2>4 DEF WaitUnlock, WaitLock, Owner, Woken, TypeOK, Goto, WaitPcs
      <3> QED  BY <1>4, <2>1, <3>1
    <2>5. CASE Check(t) /\ m_signaled[t] # 1
      <3>1. Owner' = Owner /\ Woken' = Woken
        BY <2>1, <2>5 DEF Check, Owner, Woken, TypeOK, Goto, WaitPcs
      <3> QED  BY <1>4, <2>1, <3>1
    <2>6. CASE Check(t) /\ m_signaled[t] = 1
      <3>1. Owner = NULL /\ Owner' = t /\ t \in Woken /\ Woken' = Woken \ {t}
        BY <2>1, <2>6 DEF Check, Owner, Woken, TypeOK, Goto, WaitPcs
      <3>2. CV!Resume(t)
        BY <2>1, <3>1 DEF CV!Resume, Owner, Woken
      <3> QED  BY <3>2 DEF CV!Next
    <2> QED  BY <1>5, <2>2, <2>3, <2>4, <2>5, <2>6 DEF WaitStep
  <1>6. ASSUME NEW t \in Threads, Enqueue(t) PROVE [CV!Next]_(CV!vars)
    <2>1. Queue' = Append(Queue, t)
      BY <1>1, <1>2, <1>6, EnqueueQueue DEF Holds
    <2>2. Owner = t /\ Owner' = NULL /\ Woken' = Woken
      BY <1>6 DEF Enqueue, Owner, Woken, TypeOK, Goto, WaitPcs
    <2>3. CV!Wait(t)
      BY <2>1, <2>2 DEF CV!Wait, Owner, Woken
    <2> QED  BY <2>3 DEF CV!Next
  <1>7. ASSUME NEW t \in Threads, Signal(t) PROVE [CV!Next]_(CV!vars)
    <2>1. Owner' = Owner
      BY <1>7 DEF Signal, Owner
    <2>2. CASE q = <<>>
      <3>1. Queue' = Queue /\ Woken' = Woken
        BY <1>1, <1>2, <1>7, <2>2, OtherQueue DEF Holds, cond, Woken, Signal
      <3> QED  BY <1>4, <2>1, <3>1
    <2>3. CASE q # <<>>
      <3>1. Queue' = Tail(Queue) /\ m_signaled' = [m_signaled EXCEPT ![q[1]] = 1]
        BY <1>1, <1>2, <1>7, <2>3, SignalQueue DEF Holds
      <3>2. Head(q) = q[1] /\ q[1] \in Threads /\ q[1] \in Members(q)
        BY <2>3, QueueType DEF Members
      <3>3. Woken' = Woken \cup {q[1]}
        BY <1>7, <3>1, <3>2 DEF Woken, Holds, Unsignalled, Signal, TypeOK
      <3>4. CV!Signal
        BY <1>1, <2>1, <2>3, <3>1, <3>2, <3>3 DEF CV!Signal, Owner, Woken
      <3> QED  BY <3>4 DEF CV!Next
    <2> QED  BY <2>2, <2>3
  <1>8. ASSUME NEW t \in Threads, Broadcast(t) PROVE [CV!Next]_(CV!vars)
    <2>1. Queue' = <<>> /\ Owner' = Owner
      BY <1>2, <1>8, BroadcastQueue, EmptyQueue DEF Holds, Broadcast, Owner
    <2>2. \A w \in Threads : pc[w] \in WaitPcs => m_signaled'[w] = 1
      BY <1>8, BroadcastQueue
    <2>3. Woken' = Woken \cup Members(q)
      BY <1>8, <2>2 DEF Woken, Holds, Unsignalled, Broadcast, TypeOK
    <2>4. CV!Broadcast
      BY <1>3, <2>1, <2>3 DEF CV!Broadcast, Owner, Woken
    <2> QED  BY <2>4 DEF CV!Next
  <1>9. CASE UNCHANGED vars
    <2>1. Represents(q)'
      BY <1>9 DEF vars, cond, Holds, Represents
    <2>2. Queue' = Queue
      BY <1>1, <1>2, <2>1
    <2> QED  BY <1>4, <1>9, <2>2 DEF vars, cond, Owner, Woken
  <1> QED  BY <1>5, <1>6, <1>7, <1>8, <1>9 DEF Next

(* Every field of the waiters and of the condition variable has its type,  *)
(* whatever qthread_yield lets run between two steps of a caller.          *)
THEOREM TypeCorrect == Spec => []TypeOK
  <1>1. Init => TypeOK
    BY InitInv DEF Inv
  <1> QED  BY <1>1, TypeStep, PTL DEF Spec

(* The Qthreads condition variable implements the abstract one: every      *)
(* behaviour of the waiters, spinlocks and yields is one of CondVar.       *)
THEOREM Implementation == Spec => ImplementsCondVar
  <1>1. Init => CV!Init
    <2> SUFFICES ASSUME Init PROVE CV!Init
      OBVIOUS
    <2>1. Queue = <<>>
      BY QueueIs, EmptyQueue DEF Init, Determined
    <2> QED  BY <2>1 DEF Init, CV!Init, WaitPcs
  <1>2. Inv /\ [Next]_vars => Inv'
    BY TypeStep, QueueStep DEF Inv
  <1> QED  BY InitInv, <1>1, <1>2, StepRefines, PTL DEF Spec, ImplementsCondVar, CV!Spec
=============================================================================
