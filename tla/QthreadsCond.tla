---------------------------- MODULE QthreadsCond ----------------------------
(***************************************************************************)
(* The condition variable that the Qthreads backend builds from spinlocks  *)
(* and yields (src/src/impl/qthreads/threads_qthreads_mutex.h).            *)
(*                                                                         *)
(* A waiting thread puts a thread_cond_waiter_t of its own stack into a    *)
(* linked list: a thread and its waiter have the same name.  The list is   *)
(* entered at m_waiter_head and left at m_waiter_tail; m_prev leads from a *)
(* waiter to the next younger one.  The waiter is gone when the wait       *)
(* returns: a list that still led to it would lead into a dead stack frame.*)
(*                                                                         *)
(* What a thread does while it holds the condition's m_lock blocks on      *)
(* nothing and is one step, so m_lock has no variable.                     *)
(*                                                                         *)
(* A definition whose name begins with Bug is a faulty variant of the one  *)
(* after it, and not part of the specification.                            *)
(***************************************************************************)
EXTENDS Naturals, Sequences, FiniteSets

CONSTANTS Threads, NULL

ASSUME ThreadsAssumption == IsFiniteSet(Threads) /\ NULL \notin Threads

VARIABLES
    mutex,          \* the thread that holds p_mutex, or NULL
    m_waiter_head, m_waiter_tail,
    m_signaled, m_prev,     \* the waiter of each thread
    pc

cond == <<m_waiter_head, m_waiter_tail, m_signaled, m_prev>>
vars == <<mutex, cond, pc>>

(* A thread is outside the mutex, inside it, or at a step of cond_wait. *)
WaitPcs == {"unlock", "lock", "check"}

Goto(t, label) == pc' = [pc EXCEPT ![t] = label]

(* thread_internal_mutex_init and thread_internal_cond_init *)
Init ==
    /\ mutex = NULL
    /\ m_waiter_head = NULL
    /\ m_waiter_tail = NULL
    /\ m_signaled = [t \in Threads |-> 0]
    /\ m_prev     = [t \in Threads |-> NULL]
    /\ pc         = [t \in Threads |-> "out"]

(* thread_internal_mutex_lock, or a trylock that succeeds; one that fails  *)
(* changes nothing.                                                        *)
Lock(t) ==
    /\ pc[t] = "out"
    /\ mutex = NULL
    /\ mutex' = t
    /\ Goto(t, "in")
    /\ UNCHANGED cond

Unlock(t) ==
    /\ pc[t] = "in"
    /\ mutex' = NULL
    /\ Goto(t, "out")
    /\ UNCHANGED cond

-----------------------------------------------------------------------------
(* thread_internal_cond_wait *)

(* A new waiter becomes the head of the list. *)
Enqueue(t) ==
    /\ pc[t] = "in"
    /\ m_signaled' = [m_signaled EXCEPT ![t] = 0]
    /\ \/ /\ m_waiter_head = NULL
          /\ m_waiter_tail' = t
          /\ m_prev' = [m_prev EXCEPT ![t] = NULL]
       \/ /\ m_waiter_head # NULL
          /\ m_prev' = [m_prev EXCEPT ![t] = NULL, ![m_waiter_head] = t]
          /\ UNCHANGED m_waiter_tail
    /\ m_waiter_head' = t
    /\ Goto(t, "unlock")
    /\ UNCHANGED mutex

(* The loop: release the mutex, yield, and take it again ... *)
WaitUnlock(t) ==
    /\ pc[t] = "unlock"
    /\ mutex' = NULL
    /\ Goto(t, "lock")
    /\ UNCHANGED cond

(* Does not wait for the mutex. *)
BugWaitLockBusy(t) ==
    /\ pc[t] = "lock"
    /\ mutex' = t
    /\ Goto(t, "check")
    /\ UNCHANGED cond

WaitLock(t) ==
    /\ pc[t] = "lock"
    /\ mutex = NULL
    /\ mutex' = t
    /\ Goto(t, "check")
    /\ UNCHANGED cond

(* Returns to a caller that looks at its predicate, whoever woke it. *)
BugCheckOnce(t) ==
    /\ pc[t] = "check"
    /\ Goto(t, "in")
    /\ UNCHANGED <<mutex, cond>>

(* Does not notice the signal. *)
BugCheckNever(t) ==
    /\ pc[t] = "check"
    /\ Goto(t, "unlock")
    /\ UNCHANGED <<mutex, cond>>

(* ... until someone has signalled this waiter. *)
Check(t) ==
    /\ pc[t] = "check"
    /\ Goto(t, IF m_signaled[t] = 1 THEN "in" ELSE "unlock")
    /\ UNCHANGED <<mutex, cond>>

-----------------------------------------------------------------------------
(* thread_internal_cond_signal and thread_internal_cond_broadcast, by a    *)
(* thread that holds the mutex or by one that does not.                    *)

(* Leaves the head at the waiter that it takes out. *)
BugSignalKeepsHead(t) ==
    /\ pc[t] \notin WaitPcs
    /\ \/ /\ m_waiter_tail # NULL
          /\ m_waiter_tail' = m_prev[m_waiter_tail]
          /\ m_signaled' = [m_signaled EXCEPT ![m_waiter_tail] = 1]
          /\ UNCHANGED <<m_prev, m_waiter_head>>
       \/ m_waiter_tail = NULL /\ UNCHANGED cond
    /\ UNCHANGED <<mutex, pc>>

(* The oldest waiter leaves the list; the head follows the last one. *)
Signal(t) ==
    /\ pc[t] \notin WaitPcs
    /\ \/ /\ m_waiter_tail # NULL
          /\ m_waiter_tail' = m_prev[m_waiter_tail]
          /\ m_signaled' = [m_signaled EXCEPT ![m_waiter_tail] = 1]
          /\ m_waiter_head' = IF m_waiter_tail' = NULL THEN NULL ELSE m_waiter_head
          /\ UNCHANGED m_prev
       \/ m_waiter_tail = NULL /\ UNCHANGED cond
    /\ UNCHANGED <<mutex, pc>>

(* The waiters that the loop of a broadcast visits: it follows m_prev from *)
(* the tail.                                                               *)
Chain ==
    {w \in Threads :
        \A S \in SUBSET Threads :
            m_waiter_tail \in S \cup {NULL} /\ (\A x \in S : m_prev[x] \in S \cup {NULL})
                => w \in S}

Broadcast(t) ==
    /\ pc[t] \notin WaitPcs
    /\ m_signaled' = [w \in Threads |-> IF w \in Chain THEN 1 ELSE m_signaled[w]]
    /\ m_waiter_tail' = NULL
    /\ m_waiter_head' = NULL
    /\ UNCHANGED <<mutex, pc, m_prev>>

-----------------------------------------------------------------------------

WaitStep(t) == WaitUnlock(t) \/ WaitLock(t) \/ Check(t)

Next ==
    \E t \in Threads :
        \/ Lock(t) \/ Unlock(t)
        \/ Enqueue(t) \/ WaitStep(t)
        \/ Signal(t) \/ Broadcast(t)

Spec == Init /\ [][Next]_vars

(* Threads are scheduled, critical sections end, and thread_internal_      *)
(* mutex_unlock yields "for fairness of locking": nobody is overtaken      *)
(* forever on the way to the mutex.                                        *)
Fairness ==
    \A t \in Threads :
        /\ WF_vars(WaitUnlock(t)) /\ WF_vars(Check(t)) /\ WF_vars(Unlock(t))
        /\ SF_vars(WaitLock(t))

FairSpec == Spec /\ Fairness

-----------------------------------------------------------------------------
(* Properties *)

(* Every variable has its type, and the mutex is held by exactly the       *)
(* thread between a lock and an unlock, those of cond_wait included.       *)
TypeOK ==
    /\ mutex \in Threads \cup {NULL}
    /\ m_waiter_head \in Threads \cup {NULL}
    /\ m_waiter_tail \in Threads \cup {NULL}
    /\ m_signaled \in [Threads -> {0, 1}]
    /\ m_prev \in [Threads -> Threads \cup {NULL}]
    /\ pc \in [Threads -> WaitPcs \cup {"out", "in"}]
    /\ \A t \in Threads : mutex = t <=> pc[t] \in {"in", "unlock", "check"}

(* The queues of distinct threads, and whether the pointers form queue q. *)
Queues ==
    {q \in UNION {[1..n -> Threads] : n \in 0..Cardinality(Threads)} :
        \A i, j \in DOMAIN q : q[i] = q[j] => i = j}

Represents(q) ==
    /\ m_waiter_tail = IF q = <<>> THEN NULL ELSE q[1]
    /\ m_waiter_head = IF q = <<>> THEN NULL ELSE q[Len(q)]
    /\ \A i \in DOMAIN q : m_prev[q[i]] = IF i = Len(q) THEN NULL ELSE q[i + 1]

Unsignalled == {t \in Threads : pc[t] \in WaitPcs /\ m_signaled[t] = 0}

(* The list holds exactly the threads that wait for a signal, each once:   *)
(* no signal is lost on a waiter that is gone, no waiter is left out, and  *)
(* no pointer leads into the stack frame of a wait that has returned.      *)
QueueIntact ==
    \E q \in Queues : Represents(q) /\ Unsignalled = {q[i] : i \in DOMAIN q}

(* The queue that the pointers stand for. *)
Queue == CHOOSE q \in Queues : Represents(q)

(* The abstract condition variable.  A thread inside cond_wait that has    *)
(* the mutex only uses it to look at its waiter: for the clients it does   *)
(* not have it.                                                            *)
CV == INSTANCE CondVar WITH
    owner <- IF mutex # NULL /\ pc[mutex] \in WaitPcs THEN NULL ELSE mutex,
    queue <- Queue,
    woken <- {t \in Threads : pc[t] \in WaitPcs /\ m_signaled[t] = 1}

(* The waiters, spinlocks and yields implement the condition variable: the *)
(* wait is atomic although the waiter enters the list before the mutex is  *)
(* released, the oldest waiter wakes first, and no wait returns unwoken.   *)
ImplementsCondVar == CV!Spec

(* A signalled thread leaves cond_wait, although it competes for the mutex *)
(* with the waiters that only look and give it back.                       *)
EverySignalWakes ==
    \A t \in Threads : pc[t] \in WaitPcs /\ m_signaled[t] = 1 ~> pc[t] = "in"

=============================================================================
