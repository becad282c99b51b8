# libult in TLA+

TLA+ models of libult, the threading layer that Open MPI's OPAL put on top of
pthreads, Argobots and Qthreads. Paths are relative to the repository's root,
which is `src/` here: `src/src/wait_sync.h` is the library's `src/wait_sync.h`.

## Inventory

| Component | State | Operations | What is hard |
|---|---|---|---|
| wait_sync with threads, `src/src/wait_sync.h`, `src/src/impl/base/wait_sync.c` | a sync per wait (count, status, signaling, links, lock, condition); the ring `threads_base_wait_sync_list`; `num_thread_in_progress` | `SYNC_WAIT`, `wait_sync_update`, `wait_sync_global_wakeup`, `WAIT_SYNC_INIT`, `WAIT_SYNC_RELEASE` | unlocked tests of count, head and counter; the hand-over of progress; locks nested in both orders; release of a sync while it is signalled |
| wait_sync without threads, the same files | the one registered sync; the waits on the stack | `sync_wait_st`, `wait_sync_update`, `threads_base_wait_sync_global_wakeup_st` | waits nest below `progress()` |
| Qthreads condition variable, `src/src/impl/qthreads/threads_qthreads_mutex.h` | a list of waiters that live on stacks | init, wait, signal, broadcast, lock, trylock, unlock | lost and surplus signals; dangling waiters; polling for the mutex |
| polled `condition_t`, `src/src/condition.h`, `src/src/threads.h` | `c_waiting`, `c_signaled`, the flag `act` | wait, timedwait, signal, broadcast; `ACQUIRE_THREAD`, `RELEASE_THREAD`, `WAKEUP_THREAD` | waits that return early; the time read before the lock; a broadcast without the lock |
| tracked thread-specific data, `src/src/impl/base/tsd.c`, `src/src/tsd.h` | a key's list of items; a slot per thread | set, get, set_destructor, the destructors of thread and key | an item reached from two sides; failures halfway; sets inside a destructor |
| mutex and thread usage, `src/src/mutex.h`, `src/src/thread_usage.h` | `uses_threads`, the two locks of a mutex | `THREAD_LOCK` and its relatives, `mutex_atomic_*`, the `thread_*` atomics | the flag is read at both ends of a section |
| thread creation, `src/src/impl/base/create_join.c` | `t_handle` | start, join, self_compare | the handle is written by the creator, read by the new thread; identifiers are reused |
| backend glue, `src/src/impl/{argobots,qthreads,pthreads}` | initialisation flags, keys | `self_key_ensure_init`, `ensure_init`, tsd wrappers, yield | initialisation by two first callers; a flag that is seen before the key it announces |

How they meet: a waiter of wait_sync sleeps on a backend's condition variable
under a backend's mutex and polls `progress()`, which is outside the repository
and calls back into `wait_sync_update`; condition_t polls the same `progress()`;
the tracked keys use mutex_t and the backend's keys; everything looks at
`using_threads()`.

What makes each component correct: a wait returns when its completions are in,
never sleeps through the completion or its promotion, and nobody touches a sync
after its release; a condition variable wakes exactly who waits, in order; a
polled wait counts itself exactly and never times out early; every value stored
under a key is destroyed once; sections exclude each other and atomics lose
nothing across a change of `uses_threads`; a first use initialises once and shows
what it has initialised.

The hazards are listed line by line in `PROJECT.json`.

## Modules

`Wait` - what SYNC_WAIT promises, with or without threads: a sync is opened for a
number of completions, and its wait returns when all of them are counted, or earlier
when an error was reported. `WaitSync` and `SingleThread` both implement it (`W` is
the refinement mapping in each), but not with the same result. The constant
`Outcome` is what a wait makes of the status: `ompi_sync_wait_mt` returns SUCCESS or
ERROR (`wait_sync.c:121`), `sync_wait_st` the status itself (`wait_sync.h:75`). The
comment on `wait_sync_update`, "The status of the synchronization will be reported
to the waiting threads", is true to the letter of the second one only.

`WaitSync` - the multi-threaded wait synchronisation. A waiter and its sync have
the same name. `wait_sync_list`, `next`, `prev`, `count`, `status`, `signaling`
and `num_thread_in_progress` are the variables of the code; `lock[s]` is TRUE
while the owner of `s` holds `sync->lock` across steps (other holders block on
nothing inside, and are one step); `wait_sync_lock` is its holder. `pc` follows
`ompi_sync_wait_mt` line by line: `enter`, `lock`, `insert`, `check_head`,
`check_num` (the two unlocked reads of `check_status`), `asleep`, `relock`,
`incr`, `loop`, `progress`, `decr`, `done`, `pass`, `return`, `release`.
`wait_sync_update` is the steps `update`, `swap` (error path: the status first,
then the count), `signal`, `clear`; the global wakeup is `wk_lock` and `wk_next`
around it. `progress()` is external: a waiter in it, or a Helper (a thread that
waits for nothing), begins an update or a wakeup at any time. Contract of the
client: the updates of a sync add up to its count, one each, and none begins after
the release. A waiter can be woken spuriously, as POSIX allows. In the mapping to
`Wait`, `Left(w)` is what the client has yet to report plus what updates under way
have yet to subtract.

`SingleThread` - the same interface while `using_threads()` is false, with the
loops of condition_t that take no lock and the macros of `threads.h` above them.
There is one thread; `stack` holds the waits in progress, the innermost first,
because a callback below `progress()` may wait itself. Only the top of the stack
can return; `Complete`, `GlobalWakeup`, `Signal`, `Broadcast` and `ReleaseThread`
are callbacks below it, or the client outside of all waits. The contract is the one
`sync_wait_st` asserts: no SYNC_WAIT below another. `mixed` remembers whether the
condition was ever waited for outside ACQUIRE_THREAD. If it was, such a wait, nested
below an acquisition, can take the signal that RELEASE_THREAD left for it, and the
acquisition polls on although the flag is free; `EveryWaitReturns` names this state
(`Unsignalled`) as the one thing that may keep a SYNC_WAIT above it from returning.
Acquisitions alone cannot do this to each other.

`CondVar` - what a condition variable and its mutex promise: an atomic wait, FIFO
signals, broadcasts, no spurious return. `QthreadsCond` - the Qthreads
implementation; a thread and its stack-allocated waiter have the same name.
`CV` is the refinement mapping: the queue is what the pointers stand for, the
woken threads are those whose waiter is signalled, and a thread that takes the
mutex inside `cond_wait` only to look does not own it.

`PolledCondition` - condition_t with the macros of `threads.h`. Threads have
roles: Acquirers run ACQUIRE_THREAD and RELEASE_THREAD and may drop the lock in
between, TimedWaiters call condition_timedwait, Signallers condition_signal under
the lock, Wakers WAKEUP_THREAD without it. Whoever holds the lock may write
`c_waiting`, in one step; `c_signaled` is also written without the lock, so that
`++` and `--` are a read and a write. Time is in nanoseconds, cut to microseconds
where the code does so.

`TrackedKey` - tracked keys. Items are memory that is reused; `fate` is the
history of each value. `tsd_set` may fail, `OBJ_NEW` may fail, and the user's
destructor may set the key again; the key's own destructor walks the list item by
item. Contract of the client: no thread is inside a call on the key, or inside its
exit, when the key is destroyed.

`ThreadUsage` - the macros that look at `using_threads()` when they run
(THREAD_LOCK, THREAD_TRYLOCK, THREAD_UNLOCK, THREAD_SCOPED_LOCK and the
`thread_*` atomics), with thread_start and thread_join. `sections[t]` is what a
thread has open, innermost first; a `lock` section is closed by a macro that looks
at the flag again, a scope by the path it was opened on. With the flag set an
atomic is one step, without it a read and a write. thread_start is two steps: the
new thread can run before its handle is stored, and the start may fail. `self` is
the pthread identifier of a thread, one of `Handles`, free again after the join; a
debug build refuses to start a thread_t whose handle is not reset. AtomicLock and
AtomicUnlock take the second lock of a mutex_t, whatever the flag says. Contract
of the client: the main thread changes the flag while it is alone, and not between THREAD_LOCK and
THREAD_UNLOCK (inside a scope it may); it starts threads only with the flag set
and not from inside a scope that was entered without the lock.

`FirstUse` - the first use of a backend: `self_key_ensure_init` of Qthreads, a
double-checked lock over two plain variables, and `threads_argobots_ensure_init`
under the key operations of Argobots, some of which call it and some of which do
not. `memory` holds the flag and the handle; a thread's stores wait in `buffer` and
reach memory late and in any order, unless `atomic_mb` or the unlock empties the
buffer. Loads are reordered too: `Prefetch` is the caller's load of the handle, done
before a test of the flag or before the unlock, and only taking the lock discards it
(`loaded`). Nothing in the repository calls `self_key_ensure_init`; callers are
threads that use the key when it returns, through the lock (`ready`) or by the
unlocked test (`found`).

`MCWaitSync` and `MCTrackedKey` add symmetry sets for TLC. The proofs about a
module `M` are in `MProofs`; WaitSync has two such modules, `WaitSyncProofs` for
the ring and the sleepers and `WaitSyncCountProofs`, on top of it, for the counts.
Definitions named `Bug...` are faulty variants of code that TLC uses to see each
property fail.

FirstUse apart, whose loads and stores may be reordered, the models
assume sequentially consistent memory; what that leaves out is the `atomic_wmb` of
`wait_sync_update`, whose order the model takes for granted, and plain flags such as `signaling` and `act`, which the code declares volatile.

## Runs

| Run | Instance | Shows |
|---|---|---|
| `ring` | 3 waiters, 1 allowed to progress, errors, 1 wakeup | `RingIntact`, `NoLostPromotion`, `WakeupReachesAll`, `SuccessMeansComplete`, types |
| `wait_live` | 3 waiters, counts 0 and 1, no errors, fair | `NoUseAfterRelease`, `EveryWaitReturns` |
| `wakeup_live` | 2 waiters, counts 0 to 2, errors, 1 wakeup with an error, fair | `NoLostCompletion`, `ImplementsWait`, `EveryWaitReturns`, `EveryWakeupEnds` |
| `release_race` | 2 waiters, 1 helper, errors | violates `ReleaseWaitsForSignallers` |
| `success_wakeup` | 2 waiters, 1 helper, wakeup with SUCCESS | violates `SuccessWakeupIsNoOp` |
| `single_thread` | 1 sync, counts 0 and 2, 2 errors, 4 other waits, 4 deep, fair | `WaitRegistered`, `WaitersCounted`, `ImplementsWait`, `EveryWaitReturns`, types |
| `cond` | 4 threads, fair | `QueueIntact`, `ImplementsCondVar`, `EverySignalWakes`, types |
| `polled_roles` | 2 acquirers, 1 timed waiter, 1 signaller, 1 waker, fair | `WaitersCounted`, `NoEarlyTimeout`, `EveryTimedWaitEnds`, types and use of the lock |
| `polled_acquire` | 3 acquirers with 2 rounds, fair | `MutualExclusion`, `NoStaleSignal`, `EveryAcquireSucceeds` |
| `tracked_key` | 3 threads, 3 items, 4 values | `SlotsAreSafe`, `DestroyedOnce`, `NothingLost`, types |
| `thread_usage` | main and 2 workers, 2 identifiers, a recursive mutex, a debug build, 2 sections or operations each | `SelfCompareExact`, `MutualExclusion`, `LockBalanced`, `Conservation`, types |
| `first_use` | 3 threads, 5 calls, fair | `KeyVisible`, `KeyCreatedOnce`, `LibraryReady`, `EveryCallReturns` |

Why these bounds. Three waiters are the least with a head, a middle and a last
sync in the ring, and `max_thread_in_progress = 1` makes waiters sleep. Count 2
lets a completion and an error meet on one sync. Without threads, four levels
hold a SYNC_WAIT, an acquisition below it, the condition the acquisition waits
for and another wait that takes its signal; two errors show which status is returned.
One sync is enough there, since the contract allows one SYNC_WAIT at a time and the
theorems cover any number of syncs. Four threads give a queue of
three waiters and a signaller. In `polled_roles` a microsecond has two
nanoseconds, so that the deadline falls inside one and its truncation matters, and
the clock runs past the second of the deadline; the waker broadcasts without the
lock, after which a wait may end early and `NoEarlyTimeout` says no more. Three items for four values make threads reuse memory. In `thread_usage` two
sections nest, two workers can be inside an atomic at once while the main
thread is inside thread_start, and a joined worker's identifier goes to the next
one. In `first_use` two threads race for the lock while a third reads the flag
without it, and two calls follow. All rounds, wakeups and
calls are bounded by constants; a step `Finished` stutters when they are used up,
so that every run also checks for deadlock (without threads there is always
another callback, and liveness says what deadlock freedom would).

Findings. `release_race`: the comment on WAIT_SYNC_RELEASE says that signaling
becomes false after the final signalling thread is done; with errors or wakeups a
sync can have two signallers, and the first one clears it. `success_wakeup`: the
comment on the global wakeup calls it a NO-OP for SUCCESS; it signals a sync whose
count is zero already and clears its signaling. For the same reason
`NoUseAfterRelease` is only checked without errors and wakeups, as the statement
of the property says. A sync that is reused after an error can be completed by an
update that was meant for the wait before; `SuccessMeansComplete` does not hold of
the second wait, and says so (`Exact`: the storage is used for the first time, or
there are no errors). Every other invariant holds for any number of rounds.

Also met: the unlocked test of `self_key_ensure_init` is not followed by a read
barrier (`threads.h:89-91` defines ACQUIRE_OBJECT for this side, POST_OBJECT for the
other). On a machine that reorders loads a caller on this path may have loaded the
handle before it was stored: in the model a thread prefetches 0 while another one is
about to create the key, then finds the flag. `KeyVisible` makes this its one
exception (`loaded[t] = 0` at `found`), and without the exception TLC finds it
violated. On machines with ordered loads, such as x86, it cannot happen, and
the repository has no caller of the function.

`wait_sync.c:22` calls the wakeup the only place that nests locks, but
PASS_OWNERSHIP nests in the same order and the insertion in the opposite one. It
is safe, since an inserting sync is not yet in the ring; the runs find no deadlock.

### Fairness

- Threads are scheduled: weak fairness of every step of a call that has begun.
- WaitSync: a polling waiter's `progress()` eventually reports something that is
  pending (`BeginUpdate` by a waiter), which is what a progress engine is for;
  helpers promise nothing (`wakeup_live` has none). A thread that wants a sync's
  lock is not overtaken
  forever by a waiter that wakes up spuriously again and again (strong fairness
  of SignalSync and PassOwnership).
- QthreadsCond: strong fairness of taking the mutex again; the unlock yields "For
  fairness of locking". Holders of the mutex unlock it.
- PolledCondition: the clock advances; strong fairness of taking the lock, which
  the code leaves to the backend (Argobots and Qthreads yield in unlock, pthreads
  leave it to the scheduler: with an unfair mutex a poller can starve).
- SingleThread: the loops run and time passes (weak fairness of a wait's test and
  of the clock). `progress()`, called again and again by the innermost wait,
  reports what is pending, and a flag that is taken is given back in the end, by a
  callback if its owner waits further down the stack (strong fairness of Complete,
  and of ReleaseThread while `act` is set, since an acquisition that is about to
  test the flag disables them for a moment). Nobody has to signal a condition, or to
  broadcast again once the flag is free.
- FirstUse: weak fairness of a thread's steps and of its stores reaching memory,
  strong fairness of taking `thread_self_key_lock`, whose holder blocks on nothing.

## Proofs

Every safety property that a run checks is proved for all values of the constants
that satisfy the modules' assumptions, and so are the three refinements. Each proof
module states an inductive invariant `Inv` as a conjunction of named parts, proves
`Init => Inv` and, part by part and action by action, `Inv /\ [Next]_vars => Inv'`,
and derives the properties. TLC checked each invariant before it was proved.

Assumptions. Constants that stand for different things are different (NULL is no
thread, no item, no result), statuses are integers other than 0, bounds are
naturals. Waiters, the threads of QthreadsCond and those of PolledCondition are
finite sets, since they are counted or queued; nothing else is bounded.

**WaitSync, the ring** (`TypeCorrect`, `RingCorrect`, `PromotionCorrect`,
`CompletionCorrect`). RingIntact is not inductive by itself: a removal needs to know
that the leaver is registered and that its links are right, the hand-over that a
thread at `pass` holds `wait_sync_lock` and that the head is registered, a sleeper
that it never holds its lock. The part that makes the promotion work is that a
waiter between `check_num` and its sleep holds its lock, which the predecessor needs
for its signal. Connectedness of the ring is stated with closed sets (every set with
the head that is closed under `next` is the whole ring), so that an insertion and a
removal are proved without induction.

**WaitSync, the counts.** `WakeupCorrect` needs what a wakeup has done so far: some
set of registered syncs, closed under `next` up to the one it is at, holds only
completed syncs; when the walk is back at the head, that set is closed and therefore
the ring. `SuccessCorrect` rests on `ExactInv`: as long as no error is stored in a
live sync, its count is what the client has yet to report plus the updates under
way. `Implementation` maps every step to Open, Complete, Fail, Return, Release or a
stutter of `Wait`; it assumes `MaxRounds <= 1 \/ Errors = {}`, that is, that no
sync's storage is used again after an error, for the reason given under Findings.
`ReleaseCorrect` assumes no errors and no wakeups (`release_race` refutes it with
errors): then a sync has at most one signaller, which exists only while `signaling`
is set and the count is zero, and the release waits for that flag.

**SingleThread** (`TypeCorrect`, `RegistrationCorrect`, `CountCorrect`,
`FlagSignalsCorrect`, `Implementation`). The stack is any sequence of waits. The invariant says that at
most one of them is a SYNC_WAIT, that its sync is the registered one, and that a
count is what is pending unless an error came. A wait on top of the stack moves the
others by one place; counting them uses a bijection, not induction.
`FlagSignalsCorrect` is the safety half of EveryWaitReturns: unless `mixed`, a free
flag has a signal for everyone who waits for it. `Implementation` proves the returned
status to be the one that was reported last.

**QthreadsCond** (`TypeCorrect`, `QueueCorrect`, `Implementation`). The queue behind
the pointers is unique (by the least index at which two queues differ), so that the
CHOOSE in the mapping commutes with append, tail and emptying; a broadcast reaches
every waiter because the chain from the tail is the whole queue.

**PolledCondition** (`TypeCorrect`, `CountCorrect`, `ExclusionCorrect`,
`SignalCorrect`, `TimeoutCorrect`). The type invariant says where the lock is held,
and the rest follows from it: `c_waiting` is written under the lock only; an owner
of the flag has set it; a signal cannot be taken between the test of `timed_end`
and its use. `SignalInv` is stronger than NoStaleSignal: a thread that is counted
without a signal of its own leaves one count over. Exclusion and timeouts are
claimed until somebody runs WAKEUP_THREAD, which resets the flag for its owner and
broadcasts without the lock. Units of time and deadlines are arbitrary.

**TrackedKey** (`TypeCorrect`, `SlotsCorrect`, `DestroyedOnceCorrect`,
`NothingLostCorrect`). Who owns an item is the heart: an item that exists is in the
list, or on its way into it or out of it with exactly one thread. A value is in one
item for good, and is held as long as the item is in the list or the user's
destructor is still to be called; this is what keeps the exit of a thread and the
key's destructor from calling it twice, and what leaves nothing over in the end.

**ThreadUsage** (`TypeCorrect`, `SelfCompareCorrect`, `ExclusionCorrect`,
`BalanceCorrect`, `ConservationCorrect`), for both kinds of mutex and of build. The
invariant turns the client's contract into one fact: whoever runs without the flag,
or has entered a scope without the lock, is alone. Then a thread inside a section
holds the mutex or is alone; a plain read is still true when it is written; and
when the flag changes no open section is going to look at it again. The handles
need that identifiers of running threads differ and that a thread_t that is off has
been reset. In a build without debugging a thread_t whose start has failed may be
started again over an indeterminate handle, and SelfCompareExact leaves it out until
the handle is stored.

**FirstUse** (`KeyVisibleCorrect`, `KeyCreatedOnceCorrect`, `LibraryReadyCorrect`).
A store of the handle waits only before `atomic_mb`, one of the flag only after it,
so that a flag that anybody can see means a handle in memory; between the creation
and the flag somebody is in the critical section. An early load by the holder of the
lock found what memory still holds, because nobody else stores the handle meanwhile
(`LoadInv`); for a load before the unlocked test no such fact holds, and
`KeyVisible` claims none.

Only model-checked: everything under fairness (`EveryWaitReturns` of both modules,
`EveryWakeupEnds`, `EverySignalWakes`, `EveryTimedWaitEnds`,
`EveryAcquireSucceeds`, `EveryCallReturns`), and with it freedom from deadlock:
liveness and ENABLED are out of the prover's reach. The two violated properties are
counterexamples, and have no theorem.

## Not modelled

- WAIT_SYNC_RELEASE_NOWAIT and WAIT_SYNC_SIGNALLED, which nothing in the
  repository calls and which leave waiting to the client.
- The bodies of the pthreads and Argobots mutex and condition variable: one
  library call each, modelled by what the library promises where a module uses
  them. Failing calls and destruction are left out.
- A pthread_join that fails: thread_join resets `t_handle` all the same
  (`create_join.c:36`), so that the thread, still running, would no longer know itself
  and could not be joined again. Within the contract (the main thread joins a
  joinable worker, once) it does not fail.
- A tsd_key_create that fails under a tracked key: tsd.c ignores the result and goes
  on with an indeterminate handle.
- What two calls of ABT_init do to each other inside Argobots: it is one step.
- The yield of pthreads: a strategy that is chosen once, before any thread runs,
  and a split of nanoseconds in floating point, which TLC cannot evaluate.
- Component tables (static data for a framework outside the repository), build
  files, scripts and the empty test driver.

## Plan

Every component with logic of its own is modelled, and every safety property of
the runs is proved. What could still be added:

1. Deadlock freedom as state predicates without ENABLED: in every reachable state
   that is not finished, some thread's guard is true (for the locks of WaitSync:
   `wait_sync_lock` and a sync's lock are never waited for in a cycle).
2. Variants for the liveness properties: what each step of the scheduler that the
   fairness names brings closer to its end, as action properties.
3. NoUseAfterRelease under a weaker contract than no errors and no wakeups at all,
   for example that errors are reported by the last update only.
