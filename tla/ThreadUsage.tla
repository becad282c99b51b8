---------------------------- MODULE ThreadUsage ----------------------------
(***************************************************************************)
(* Locks and atomic operations that look at using_threads() when they run  *)
(* (src/src/mutex.h, src/src/thread_usage.h), around the creation of       *)
(* threads (src/src/impl/base/create_join.c).                              *)
(*                                                                         *)
(* The flag uses_threads changes under the client's contract: the main     *)
(* thread sets it while no other thread exists, and not between a          *)
(* THREAD_LOCK and its THREAD_UNLOCK, which both look at it; a thread is   *)
(* started only when the flag is set, and not from inside a scope that     *)
(* THREAD_SCOPED_LOCK has entered without the lock.  Inside a scope the    *)
(* flag may change.                                                        *)
(*                                                                         *)
(* A mutex_t holds a second lock, m_lock_atomic, which mutex_atomic_lock   *)
(* takes whatever the flag says.  A pthread_t is an identifier that is     *)
(* reused once its thread was joined.                                      *)
(*                                                                         *)
(* A definition whose name begins with Bug is a faulty variant of the one  *)
(* after it, and not part of the specification.                            *)
(***************************************************************************)
EXTENDS Naturals, Sequences, FiniteSets

CONSTANTS
    Main, Workers, NULL,
    Handles,            \* values of a pthread_t; NULL is (pthread_t) -1
    ENABLE_DEBUG,
    Recursive,          \* whether the mutex is a recursive_mutex_t
    MaxNest,            \* bound: sections that one thread has open
    MaxOps              \* bound: sections and operations of one thread

Threads == {Main} \cup Workers

ASSUME ThreadUsageAssumption ==
    /\ Main \notin Workers /\ NULL \notin Threads \cup Handles
    /\ {Recursive, ENABLE_DEBUG} \subseteq BOOLEAN /\ {MaxNest, MaxOps} \subseteq Nat

VARIABLES
    uses_threads,
    m_lock,             \* holder and depth of the mutex
    m_lock_atomic,      \* the holder of its second lock, or NULL
    sections,           \* the sections a thread has open, the innermost first
    t_handle,           \* of each worker's thread_t
    self,               \* pthread_self() of a thread that exists
    starting,           \* the worker that thread_start is creating
    addr,               \* an integer that is updated atomically
    op, compare, old,   \* an operation on it, and its local variables
    added, drained,     \* what was added to addr and taken from it
    pc, ops

locks  == <<m_lock, m_lock_atomic, sections>>
create == <<t_handle, self, starting>>
atomic == <<addr, op, compare, old, added, drained>>
vars   == <<uses_threads, locks, create, atomic, pc, ops>>

Goto(t, label) == pc' = [pc EXCEPT ![t] = label]

(* thread_internal_mutex_init *)
MutexInit == [owner |-> NULL, depth |-> 0]

(* The constructors of mutex_t and thread_t. *)
Init ==
    /\ uses_threads = FALSE
    /\ m_lock = MutexInit /\ m_lock_atomic = NULL
    /\ sections = [t \in Threads |-> <<>>]
    /\ t_handle = [w \in Workers |-> NULL]
    /\ self     = [w \in Workers |-> NULL]
    /\ starting = NULL
    /\ addr = 0 /\ added = 0 /\ drained = 0
    /\ op      = [t \in Threads |-> "none"]
    /\ compare = [t \in Threads |-> 0]
    /\ old     = [t \in Threads |-> 0]
    /\ pc      = [t \in Threads |-> IF t = Main THEN "idle" ELSE "off"]
    /\ ops     = [t \in Threads |-> 0]

-----------------------------------------------------------------------------
(* set_using_threads, within the contract *)
SetUsingThreads(have) ==
    /\ pc[Main] = "idle"
    /\ \A w \in Workers : pc[w] \in {"off", "failed"}
    /\ \A i \in DOMAIN sections[Main] : sections[Main][i] # "lock"
    /\ uses_threads' = have
    /\ UNCHANGED <<locks, create, atomic, pc, ops>>

(* The conditions of thread_start, those of the contract included. *)
MayStart(w) ==
    /\ pc[Main] = "idle" /\ pc[w] \in {"off", "failed"}
    /\ ENABLE_DEBUG => t_handle[w] = NULL
    /\ uses_threads
    /\ \A i \in DOMAIN sections[Main] : sections[Main][i] # "scope"

(* thread_start: the new thread may run before its handle is stored. *)
StartThread(w, h) ==
    /\ MayStart(w)
    /\ h \notin {self[v] : v \in Workers}
    /\ self' = [self EXCEPT ![w] = h]
    /\ starting' = w
    /\ pc' = [pc EXCEPT ![Main] = "start", ![w] = "idle"]
    /\ UNCHANGED <<uses_threads, locks, t_handle, atomic, ops>>

(* Ends without the handle. *)
BugStoreHandle ==
    pc[Main] = "start" /\ Goto(Main, "idle") /\ UNCHANGED <<uses_threads, locks, create, atomic, ops>>

StoreHandle ==
    /\ pc[Main] = "start"
    /\ t_handle' = [t_handle EXCEPT ![starting] = self[starting]]
    /\ starting' = NULL
    /\ Goto(Main, "idle")
    /\ UNCHANGED <<uses_threads, locks, self, atomic, ops>>

(* pthread_create fails, and leaves any value in the handle. *)
StartFails(w, h) ==
    /\ MayStart(w)
    /\ t_handle' = [t_handle EXCEPT ![w] = h]
    /\ Goto(w, "failed")
    /\ UNCHANGED <<uses_threads, locks, self, starting, atomic, ops>>

(* The thread's function returns, outside all sections. *)
EndThread(w) ==
    /\ pc[w] = "idle"
    /\ sections[w] = <<>>
    /\ Goto(w, "ended")
    /\ UNCHANGED <<uses_threads, locks, create, atomic, ops>>

(* pthread_join waits for the end of the thread, whose identifier is free. *)
Join(w, handle) ==
    /\ pc[Main] = "idle"
    /\ t_handle[w] = self[w] /\ pc[w] = "ended"
    /\ t_handle' = [t_handle EXCEPT ![w] = handle]
    /\ self' = [self EXCEPT ![w] = NULL]
    /\ Goto(w, "off")
    /\ UNCHANGED <<uses_threads, locks, starting, atomic, ops>>

(* Does not reset the handle. *)
BugJoinThread(w) == Join(w, t_handle[w])

(* thread_join: the thread_t can be started again. *)
JoinThread(w) == Join(w, NULL)

-----------------------------------------------------------------------------
(* mutex_lock, or mutex_trylock when it succeeds. *)
MutexLock(t) ==
    /\ m_lock.owner = NULL \/ (Recursive /\ m_lock.owner = t)
    /\ m_lock' = [owner |-> t, depth |-> m_lock.depth + 1]

MutexUnlock ==
    m_lock' = IF m_lock.depth <= 1 THEN MutexInit ELSE [m_lock EXCEPT !.depth = @ - 1]

Innermost(t) == IF sections[t] = <<>> THEN "none" ELSE Head(sections[t])

(* A section is opened and closed; the clients nest them only in a         *)
(* recursive mutex, and never with a section of m_lock_atomic.             *)
Open(t, section) ==
    /\ pc[t] = "idle"
    /\ ops[t] < MaxOps
    /\ Len(sections[t]) < IF Recursive THEN MaxNest ELSE 1
    /\ "atomic" \in {section, Innermost(t)} => sections[t] = <<>>
    /\ sections' = [sections EXCEPT ![t] = <<section>> \o @]
    /\ ops' = [ops EXCEPT ![t] = @ + 1]
    /\ UNCHANGED <<uses_threads, create, atomic, pc>>

Close(t, section) ==
    /\ pc[t] = "idle"
    /\ Innermost(t) = section
    /\ sections' = [sections EXCEPT ![t] = Tail(@)]
    /\ UNCHANGED <<uses_threads, create, atomic, pc, ops>>

(* Goes on when trylock has failed. *)
BugThreadLock(t) ==
    /\ Open(t, "lock")
    /\ UNCHANGED m_lock \/ (uses_threads /\ MutexLock(t))
    /\ UNCHANGED m_lock_atomic

(* THREAD_LOCK, or THREAD_TRYLOCK when it returns 0. *)
ThreadLock(t) ==
    /\ Open(t, "lock")
    /\ \/ uses_threads /\ MutexLock(t)
       \/ ~uses_threads /\ UNCHANGED m_lock
    /\ UNCHANGED m_lock_atomic

(* THREAD_UNLOCK looks at the flag again. *)
ThreadUnlock(t) ==
    /\ Close(t, "lock")
    /\ \/ uses_threads /\ MutexUnlock
       \/ ~uses_threads /\ UNCHANGED m_lock
    /\ UNCHANGED m_lock_atomic

(* THREAD_SCOPED_LOCK looks at the flag once: the action runs with the     *)
(* lock or without it.                                                     *)
ScopedLock(t) ==
    /\ \/ uses_threads /\ MutexLock(t) /\ Open(t, "locked_scope")
       \/ ~uses_threads /\ UNCHANGED m_lock /\ Open(t, "scope")
    /\ UNCHANGED m_lock_atomic

(* Looks at the flag again. *)
BugScopedUnlock(t) ==
    /\ Close(t, "locked_scope") \/ Close(t, "scope")
    /\ m_lock' = IF uses_threads THEN MutexInit ELSE m_lock
    /\ UNCHANGED m_lock_atomic

ScopedUnlock(t) ==
    /\ \/ MutexUnlock /\ Close(t, "locked_scope")
       \/ UNCHANGED m_lock /\ Close(t, "scope")
    /\ UNCHANGED m_lock_atomic

(* mutex_atomic_lock, or mutex_atomic_trylock when it returns 0. *)
AtomicLock(t) ==
    /\ Open(t, "atomic")
    /\ m_lock_atomic = NULL /\ m_lock_atomic' = t
    /\ UNCHANGED m_lock

AtomicUnlock(t) == Close(t, "atomic") /\ m_lock_atomic' = NULL /\ UNCHANGED m_lock

-----------------------------------------------------------------------------
(* thread_add_fetch, thread_compare_exchange_strong and thread_swap.  The  *)
(* clients add 1, add 1 by comparing and exchanging what they have read    *)
(* until it succeeds, and take everything with a swap.                     *)

BeginOp(t, name) ==
    /\ pc[t] = "idle"
    /\ ops[t] < MaxOps
    /\ ops' = [ops EXCEPT ![t] = @ + 1]
    /\ op'  = [op EXCEPT ![t] = name]
    /\ compare' = [compare EXCEPT ![t] = addr]
    /\ Goto(t, "op")
    /\ UNCHANGED <<uses_threads, locks, create, addr, old, added, drained>>

EndOp(t) ==
    /\ Goto(t, "idle")
    /\ op' = [op EXCEPT ![t] = "none"]
    /\ compare' = [compare EXCEPT ![t] = 0]

(* The new value of addr is computed from v, the value that was read. *)
AddFetch(t, v) ==
    /\ op[t] = "add"
    /\ addr' = v + 1
    /\ added' = added + 1
    /\ EndOp(t)
    /\ UNCHANGED drained

CompareExchange(t, v) ==
    /\ op[t] = "compare_exchange"
    /\ \/ /\ v = compare[t]
          /\ addr' = v + 1
          /\ added' = added + 1
          /\ EndOp(t)
       \/ /\ v # compare[t]
          /\ compare' = [compare EXCEPT ![t] = v]
          /\ Goto(t, "op")
          /\ UNCHANGED <<addr, added, op>>
    /\ UNCHANGED drained

Swap(t, v) ==
    /\ op[t] = "swap"
    /\ addr' = 0
    /\ drained' = drained + v
    /\ EndOp(t)
    /\ UNCHANGED added

Update(t, v) == AddFetch(t, v) \/ CompareExchange(t, v) \/ Swap(t, v)

(* With threads the operation is atomic ... *)
AtomicUpdate(t) ==
    /\ pc[t] = "op"
    /\ uses_threads
    /\ Update(t, addr)
    /\ UNCHANGED <<uses_threads, locks, create, old, ops>>

ReadOld(t) ==
    /\ pc[t] = "op" /\ Goto(t, "write")
    /\ old' = [old EXCEPT ![t] = addr]
    /\ UNCHANGED <<uses_threads, locks, create, addr, op, compare, added, drained, ops>>

(* Is never atomic. *)
BugPlainRead(t) == ReadOld(t)

(* ... and without threads it is a read ... *)
PlainRead(t) == ~uses_threads /\ ReadOld(t)

(* ... and a write. *)
PlainWrite(t) ==
    /\ pc[t] = "write"
    /\ Update(t, old[t])
    /\ old' = [old EXCEPT ![t] = 0]
    /\ UNCHANGED <<uses_threads, locks, create, ops>>

-----------------------------------------------------------------------------

Operations == {"add", "compare_exchange", "swap"}

Next ==
    \/ \E have \in BOOLEAN : SetUsingThreads(have)
    \/ \E w \in Workers, h \in Handles : StartThread(w, h)
    \/ \E w \in Workers, h \in Handles \cup {NULL} : StartFails(w, h)
    \/ \E w \in Workers : EndThread(w) \/ JoinThread(w)
    \/ StoreHandle
    \/ \E t \in Threads :
        \/ ThreadLock(t) \/ ThreadUnlock(t) \/ ScopedLock(t) \/ ScopedUnlock(t)
        \/ AtomicLock(t) \/ AtomicUnlock(t)
        \/ \E name \in Operations : BeginOp(t, name)
        \/ AtomicUpdate(t) \/ PlainRead(t) \/ PlainWrite(t)

Spec == Init /\ [][Next]_vars

-----------------------------------------------------------------------------
(* Properties *)

(* Every variable has its type, and the main thread waits in thread_start  *)
(* exactly while a handle has not been stored.                             *)
TypeOK ==
    /\ uses_threads \in BOOLEAN
    /\ m_lock \in [owner : Threads \cup {NULL}, depth : Nat]
    /\ m_lock_atomic \in Threads \cup {NULL}
    /\ \A t \in Threads : sections[t] \in Seq({"lock", "locked_scope", "scope", "atomic"})
    /\ t_handle \in [Workers -> Handles \cup {NULL}] /\ self \in [Workers -> Handles \cup {NULL}]
    /\ starting \in Workers \cup {NULL} /\ (starting # NULL <=> pc[Main] = "start")
    /\ op \in [Threads -> Operations \cup {"none"}]
    /\ compare \in [Threads -> Nat] /\ old \in [Threads -> Nat]
    /\ {addr, added, drained} \subseteq Nat
    /\ pc \in [Threads -> {"idle", "off", "failed", "start", "ended", "op", "write"}]
    /\ ops \in [Threads -> Nat]

(* thread_self_compare(t) in thread u *)
SelfCompare(w, u) == self[u] = t_handle[w]

(* Once thread_start has returned, thread_self_compare tells a thread_t    *)
(* from all the others, in every thread and however often they are started *)
(* and joined: no handle outlives its thread and comes to mean the thread  *)
(* that is given the identifier next.  A thread_t that could not be        *)
(* started has an indeterminate handle and is left out; only a build       *)
(* without debugging starts it again, over that handle.                    *)
SelfCompareExact ==
    \A w, u \in Workers :
        /\ self[u] # NULL /\ u # starting
        /\ pc[w] # "failed" /\ (w = starting => ENABLE_DEBUG)
        => (SelfCompare(w, u) <=> w = u)

(* The threads inside a section of one of the kinds. *)
Inside(kinds) ==
    {t \in Threads : \E i \in DOMAIN sections[t] : sections[t][i] \in kinds}

(* At most one thread is inside a section of the mutex, whether it has     *)
(* entered it with the lock or, while it was alone, without it; and at     *)
(* most one inside a section of m_lock_atomic, which excludes nobody else. *)
MutualExclusion ==
    /\ Cardinality(Inside({"lock", "locked_scope", "scope"})) <= 1
    /\ Cardinality(Inside({"atomic"})) <= 1

(* The sections of t that were opened with the lock. *)
Locked(t) ==
    {i \in DOMAIN sections[t] :
        \/ sections[t][i] = "locked_scope"
        \/ sections[t][i] = "lock" /\ uses_threads}

(* The mutex is locked exactly as often as its holder has to unlock it: no *)
(* change of the flag leaves it locked for ever, or has it unlocked by a   *)
(* thread that has not locked it.                                          *)
LockBalanced ==
    \A t \in Threads :
        /\ m_lock.owner = t <=> Locked(t) # {}
        /\ m_lock.owner = t => m_lock.depth = Cardinality(Locked(t))

(* No addition is lost and none is taken twice, although the operations    *)
(* are a read and a write while the process has one thread.                *)
Conservation == addr + drained = added

=============================================================================
