------------------------------ MODULE WaitSync ------------------------------
(***************************************************************************)
(* The multi-threaded wait synchronisation of libult                       *)
(* (src/src/wait_sync.h and src/src/impl/base/wait_sync.c), with           *)
(* using_threads() true.                                                   *)
(*                                                                         *)
(* A waiting thread owns one ompi_wait_sync_t on its stack, so a thread    *)
(* and its sync have the same name.  The syncs being waited for form a     *)
(* ring; the owner of the ring's head is the progress manager.  The other  *)
(* waiters sleep on their own condition variable, unless fewer than        *)
(* max_thread_in_progress threads are progressing.                         *)
(*                                                                         *)
(* wait_sync_update and the global wakeup are called from inside           *)
(* progress(), by a waiter that polls, or by a Helper: a thread that does  *)
(* not wait itself (a progress thread, an error handler).                  *)
(*                                                                         *)
(* A critical section that blocks on nothing is one step.  Every access to *)
(* shared state outside the locks is a step of its own.                    *)
(*                                                                         *)
(* A definition whose name begins with Bug is a faulty variant of the one  *)
(* after it.  The specification does not use it: put in the place of the   *)
(* original, it makes TLC refute a property.                               *)
(***************************************************************************)
EXTENDS Integers, FiniteSets

CONSTANTS
    Waiters,                \* threads that call SYNC_WAIT, and their syncs
    Helpers,                \* threads that only update and wake syncs
    NULL,
    Errors,                 \* statuses other than SUCCESS (which is 0)
    WakeupStatuses,         \* statuses given to wait_sync_global_wakeup
    Counts,                 \* bound: the counts given to WAIT_SYNC_INIT
    MaxRounds,              \* bound: waits per waiter
    MaxWakeups,             \* bound: global wakeups
    max_thread_in_progress

Threads  == Waiters \cup Helpers
Statuses == {0} \cup Errors

ASSUME ConstantsAssumption ==
    /\ IsFiniteSet(Waiters) /\ Waiters \cap Helpers = {}
    /\ NULL \notin Threads
    /\ Errors \subseteq Int /\ 0 \notin Errors
    /\ WakeupStatuses \subseteq Statuses
    /\ Counts \subseteq Nat /\ MaxRounds \in Nat /\ MaxWakeups \in Nat
    /\ max_thread_in_progress \in Int

ASSUME ResultAssumption == NULL \notin {"SUCCESS", "ERROR"}

VARIABLES
    wait_sync_list,         \* threads_base_wait_sync_list: head of the ring
    wait_sync_lock,         \* the holder, or NULL
    num_thread_in_progress,
    count, status, signaling, next, prev,   \* fields of each sync
    lock,                   \* sync->lock, held by the sync's own waiter
    result,                 \* what ompi_sync_wait_mt returned
    pc,
    call,                   \* arguments of a thread's wait_sync_update
    pending,                \* completions the client has yet to report
    rounds, wakeups         \* counters behind the bounds

ring   == <<wait_sync_list, next, prev>>
sync   == <<count, status, signaling>>
client == <<result, pending, rounds, wakeups>>
mutex  == <<wait_sync_lock, lock>>
nprog  == num_thread_in_progress
vars   == <<pc, mutex, nprog, ring, sync, call, client>>

Goto(t, label) == pc' = [pc EXCEPT ![t] = label]

(* Where a thread is between two calls that progress() makes. *)
Home(a) == IF a \in Waiters THEN "progress" ELSE "idle"

(* A sync exists from WAIT_SYNC_INIT to the end of WAIT_SYNC_RELEASE. *)
Live(s) == pc[s] # "start"

(* The arguments while no call is being made. *)
NoCall == [sync |-> NULL, updates |-> 0, status |-> 0]

(* A thread inside wait_sync_update, and inside the global wakeup. *)
CallPcs   == {"update", "swap", "signal", "clear"}
WakeupPcs == {"wk_lock", "wk_next"}

Init ==
    /\ wait_sync_list = NULL
    /\ wait_sync_lock = NULL
    /\ num_thread_in_progress = 0
    /\ count     = [s \in Waiters |-> 0]
    /\ status    = [s \in Waiters |-> 0]
    /\ signaling = [s \in Waiters |-> FALSE]
    /\ next      = [s \in Waiters |-> NULL]
    /\ prev      = [s \in Waiters |-> NULL]
    /\ lock      = [s \in Waiters |-> FALSE]
    /\ result    = [s \in Waiters |-> NULL]
    /\ pc        = [t \in Threads |-> IF t \in Waiters THEN "start" ELSE "idle"]
    /\ call      = [t \in Threads |-> NoCall]
    /\ pending   = [s \in Waiters |-> 0]
    /\ rounds    = [s \in Waiters |-> 0]
    /\ wakeups   = 0

-----------------------------------------------------------------------------
(* The life of a sync around SYNC_WAIT. *)

(* WAIT_SYNC_INIT(sync, c): the client is going to report c completions. *)
WaitSyncInit(t, c) ==
    /\ pc[t] = "start"
    /\ rounds[t] < MaxRounds
    /\ rounds'    = [rounds EXCEPT ![t] = @ + 1]
    /\ count'     = [count EXCEPT ![t] = c]
    /\ status'    = [status EXCEPT ![t] = 0]
    /\ signaling' = [signaling EXCEPT ![t] = (c # 0)]
    /\ next'      = [next EXCEPT ![t] = NULL]
    /\ prev'      = [prev EXCEPT ![t] = NULL]
    /\ pending'   = [pending EXCEPT ![t] = c]
    /\ result'    = [result EXCEPT ![t] = NULL]
    /\ Goto(t, "enter")
    /\ UNCHANGED <<wait_sync_list, mutex, nprog, call, wakeups>>

(* Does not spin. *)
BugReleaseAtOnce(t) ==
    /\ pc[t] = "release"
    /\ Goto(t, "start")
    /\ UNCHANGED <<mutex, nprog, ring, sync, call, client>>

(* WAIT_SYNC_RELEASE spins while signaling is set, then destroys the sync. *)
WaitSyncRelease(t) ==
    /\ pc[t] = "release"
    /\ ~signaling[t]
    /\ Goto(t, "start")
    /\ UNCHANGED <<mutex, nprog, ring, sync, call, client>>

-----------------------------------------------------------------------------
(* ompi_sync_wait_mt *)

(* The unlocked test of count on entry. *)
Enter(t) ==
    /\ pc[t] = "enter"
    /\ Goto(t, IF count[t] <= 0 THEN "return" ELSE "lock")
    /\ UNCHANGED <<mutex, nprog, ring, sync, call, client>>

(* Does not test count again under the lock. *)
BugLockOnly(t) ==
    /\ pc[t] = "lock"
    /\ ~lock[t]
    /\ Goto(t, "insert")
    /\ lock' = [lock EXCEPT ![t] = TRUE]
    /\ UNCHANGED <<wait_sync_lock, nprog, ring, sync, call, client>>

(* Take sync->lock and test count again: completed, or keep the lock. *)
LockAndRecheck(t) ==
    /\ pc[t] = "lock"
    /\ ~lock[t]
    /\ \/ count[t] <= 0 /\ Goto(t, "return") /\ UNCHANGED lock
       \/ count[t] > 0 /\ Goto(t, "insert") /\ lock' = [lock EXCEPT ![t] = TRUE]
    /\ UNCHANGED <<wait_sync_lock, nprog, ring, sync, call, client>>

(* The four pointers that append s to the ring, before the head. *)
LinkBeforeHead(s) ==
    LET head == wait_sync_list IN
    \/ /\ head = NULL
       /\ next' = [next EXCEPT ![s] = s]
       /\ prev' = [prev EXCEPT ![s] = s]
       /\ wait_sync_list' = s
    \/ /\ head # NULL
       /\ next' = [next EXCEPT ![prev[head]] = s, ![s] = head]
       /\ prev' = [prev EXCEPT ![s] = prev[head], ![head] = s]
       /\ UNCHANGED wait_sync_list

Insert(t) ==
    /\ pc[t] = "insert"
    /\ wait_sync_lock = NULL
    /\ LinkBeforeHead(t)
    /\ Goto(t, "check_head")
    /\ UNCHANGED <<mutex, nprog, sync, call, client>>

(* check_status reads the head without wait_sync_lock: the progress        *)
(* manager drops its lock and progresses.                                  *)
CheckHead(t) ==
    /\ pc[t] = "check_head"
    /\ \/ t = wait_sync_list /\ Goto(t, "incr") /\ lock' = [lock EXCEPT ![t] = FALSE]
       \/ t # wait_sync_list /\ Goto(t, "check_num") /\ UNCHANGED lock
    /\ UNCHANGED <<wait_sync_lock, nprog, ring, sync, call, client>>

(* ... then reads the counter: sleep, which releases the lock, or progress. *)
CheckNum(t) ==
    /\ pc[t] = "check_num"
    /\ Goto(t, IF num_thread_in_progress >= max_thread_in_progress
               THEN "asleep" ELSE "incr")
    /\ lock' = [lock EXCEPT ![t] = FALSE]
    /\ UNCHANGED <<wait_sync_lock, nprog, ring, sync, call, client>>

(* thread_internal_cond_wait may return without a signal. *)
SpuriousWakeup(t) ==
    /\ pc[t] = "asleep"
    /\ Goto(t, "relock")
    /\ UNCHANGED <<mutex, nprog, ring, sync, call, client>>

(* A completed sleeper leaves the progress count that it never entered. *)
BugWokenLeavesCount(t) ==
    /\ pc[t] = "relock"
    /\ ~lock[t]
    /\ \/ count[t] <= 0 /\ Goto(t, "decr") /\ UNCHANGED lock
       \/ count[t] > 0 /\ Goto(t, "check_head") /\ lock' = [lock EXCEPT ![t] = TRUE]
    /\ UNCHANGED <<wait_sync_lock, nprog, ring, sync, call, client>>

(* cond_wait returns with the lock held: completed, or check again. *)
Woken(t) ==
    /\ pc[t] = "relock"
    /\ ~lock[t]
    /\ \/ count[t] <= 0 /\ Goto(t, "done") /\ UNCHANGED lock
       \/ count[t] > 0 /\ Goto(t, "check_head") /\ lock' = [lock EXCEPT ![t] = TRUE]
    /\ UNCHANGED <<wait_sync_lock, nprog, ring, sync, call, client>>

StartProgress(t) ==
    /\ pc[t] = "incr"
    /\ num_thread_in_progress' = num_thread_in_progress + 1
    /\ Goto(t, "loop")
    /\ UNCHANGED <<mutex, ring, sync, call, client>>

(* The test of the loop lets the waiter into progress() ... *)
EnterLoop(t) ==
    /\ pc[t] = "loop"
    /\ count[t] > 0
    /\ Goto(t, "progress")
    /\ UNCHANGED <<mutex, nprog, ring, sync, call, client>>

(* ... or ends it, at once or when progress() has returned. *)
LeaveLoop(t) ==
    /\ pc[t] \in {"loop", "progress"}
    /\ count[t] <= 0
    /\ Goto(t, "decr")
    /\ UNCHANGED <<mutex, nprog, ring, sync, call, client>>

StopProgress(t) ==
    /\ pc[t] = "decr"
    /\ num_thread_in_progress' = num_thread_in_progress - 1
    /\ Goto(t, "done")
    /\ UNCHANGED <<mutex, ring, sync, call, client>>

(* Leaves one of the pointers. *)
BugUnlink(s) == next' = [next EXCEPT ![prev[s]] = next[s]] /\ UNCHANGED prev

(* The pointers that take s out of the ring. *)
Unlink(s) ==
    /\ next' = [next EXCEPT ![prev[s]] = next[s]]
    /\ prev' = [prev EXCEPT ![next[s]] = prev[s]]

(* The head after s has left: its successor, NULL if it was alone. *)
HeadWithout(s) ==
    IF s # wait_sync_list THEN wait_sync_list
    ELSE IF next[s] = s THEN NULL ELSE next[s]

(* Does not pass the duties on. *)
BugTrimSilently(t) ==
    /\ pc[t] = "done"
    /\ wait_sync_lock = NULL
    /\ Unlink(t)
    /\ wait_sync_list' = HeadWithout(t)
    /\ Goto(t, "return")
    /\ UNCHANGED <<mutex, nprog, sync, call, client>>

(* i_am_done: trim the ring; the head keeps wait_sync_lock to pass its     *)
(* duties on to the next waiter.                                           *)
Trim(t) ==
    /\ pc[t] = "done"
    /\ wait_sync_lock = NULL
    /\ Unlink(t)
    /\ wait_sync_list' = HeadWithout(t)
    /\ \/ /\ wait_sync_list' \notin {wait_sync_list, NULL}
          /\ wait_sync_lock' = t
          /\ Goto(t, "pass")
       \/ /\ wait_sync_list' \in {wait_sync_list, NULL}
          /\ UNCHANGED wait_sync_lock
          /\ Goto(t, "return")
    /\ UNCHANGED <<nprog, lock, sync, call, client>>

(* cond_signal on the condition of s by a thread that goes to label. *)
SignalAndGoto(t, s, label) ==
    pc' = [pc EXCEPT ![t] = label,
                     ![s] = IF @ = "asleep" THEN "relock" ELSE @]

(* WAIT_SYNC_PASS_OWNERSHIP, and THREAD_UNLOCK(&wait_sync_lock). *)
PassOwnership(t) ==
    /\ pc[t] = "pass"
    /\ ~lock[wait_sync_list]
    /\ SignalAndGoto(t, wait_sync_list, "return")
    /\ wait_sync_lock' = NULL
    /\ UNCHANGED <<nprog, lock, ring, sync, call, client>>

Return(t) ==
    /\ pc[t] = "return"
    /\ result' = [result EXCEPT ![t] = IF status[t] = 0 THEN "SUCCESS" ELSE "ERROR"]
    /\ Goto(t, "release")
    /\ UNCHANGED <<mutex, nprog, ring, sync, call, pending, rounds, wakeups>>

-----------------------------------------------------------------------------
(* wait_sync_update(sync, updates, status) *)

(* progress() is external: it calls into this module any number of times,  *)
(* from a waiter that polls or from a helper.                              *)
InProgress(a) == pc[a] = Home(a)

(* A completion callback reports one of the pending completions of s. *)
BeginUpdate(a, s, st) ==
    /\ InProgress(a)
    /\ Live(s)
    /\ pending[s] > 0
    /\ pending' = [pending EXCEPT ![s] = @ - 1]
    /\ call'    = [call EXCEPT ![a] = [sync |-> s, updates |-> 1, status |-> st]]
    /\ Goto(a, "update")
    /\ UNCHANGED <<mutex, nprog, result, ring, sync, rounds, wakeups>>

(* wait_sync_update returns to the global wakeup, the caller that passes   *)
(* no updates, or to progress().                                           *)
ReturnToCaller(a) ==
    \/ call[a].updates = 0 /\ Goto(a, "wk_next") /\ UNCHANGED call
    \/ call[a].updates # 0 /\ Goto(a, Home(a)) /\ call' = [call EXCEPT ![a] = NoCall]

(* SUCCESS: subtract the updates, and signal if that gave zero. *)
UpdateSuccess(a) ==
    /\ pc[a] = "update"
    /\ call[a].status = 0
    /\ LET s == call[a].sync
           n == count[s] - call[a].updates
       IN  /\ count' = [count EXCEPT ![s] = n]
           /\ \/ n # 0 /\ ReturnToCaller(a)
              \/ n = 0 /\ Goto(a, "signal") /\ UNCHANGED call
    /\ UNCHANGED <<mutex, nprog, ring, status, signaling, client>>

(* Does not record the status. *)
BugStatusLost(a) ==
    /\ pc[a] = "update"
    /\ call[a].status # 0
    /\ Goto(a, "swap")
    /\ UNCHANGED <<mutex, nprog, ring, sync, call, client>>

(* An error: the status is written first ... *)
UpdateError(a) ==
    /\ pc[a] = "update"
    /\ call[a].status # 0
    /\ status' = [status EXCEPT ![call[a].sync] = call[a].status]
    /\ Goto(a, "swap")
    /\ UNCHANGED <<mutex, nprog, ring, count, signaling, call, client>>

(* Completes the sync without a signal. *)
BugSwapOnly(a) ==
    /\ pc[a] = "swap"
    /\ count' = [count EXCEPT ![call[a].sync] = 0]
    /\ ReturnToCaller(a)
    /\ UNCHANGED <<mutex, nprog, ring, status, signaling, client>>

(* Subtracts the updates, as without an error. *)
BugSwapSubtracts(a) ==
    /\ pc[a] = "swap"
    /\ count' = [count EXCEPT ![call[a].sync] = @ - call[a].updates]
    /\ Goto(a, "signal")
    /\ UNCHANGED <<mutex, nprog, ring, status, signaling, call, client>>

(* ... and then count is swapped with zero. *)
SwapCount(a) ==
    /\ pc[a] = "swap"
    /\ count' = [count EXCEPT ![call[a].sync] = 0]
    /\ Goto(a, "signal")
    /\ UNCHANGED <<mutex, nprog, ring, status, signaling, call, client>>

(* WAIT_SYNC_SIGNAL: signal under sync->lock ... *)
SignalSync(a) ==
    /\ pc[a] = "signal"
    /\ ~lock[call[a].sync]
    /\ SignalAndGoto(a, call[a].sync, "clear")
    /\ UNCHANGED <<mutex, nprog, ring, sync, call, client>>

(* ... and drop signaling after the lock has been released. *)
ClearSignaling(a) ==
    /\ pc[a] = "clear"
    /\ signaling' = [signaling EXCEPT ![call[a].sync] = FALSE]
    /\ ReturnToCaller(a)
    /\ UNCHANGED <<mutex, nprog, ring, count, status, client>>

-----------------------------------------------------------------------------
(* threads_base_wait_sync_global_wakeup_mt(status) *)

BeginWakeup(a, st) ==
    /\ InProgress(a)
    /\ wakeups < MaxWakeups
    /\ wakeups' = wakeups + 1
    /\ call'    = [call EXCEPT ![a] = [NoCall EXCEPT !.status = st]]
    /\ Goto(a, "wk_lock")
    /\ UNCHANGED <<mutex, nprog, result, ring, sync, pending, rounds>>

(* Lock the ring and update its head; an empty ring ends the loop at once. *)
WakeupFirst(a) ==
    /\ pc[a] = "wk_lock"
    /\ wait_sync_lock = NULL
    /\ \/ /\ wait_sync_list = NULL
          /\ Goto(a, Home(a))
          /\ call' = [call EXCEPT ![a] = NoCall]
          /\ UNCHANGED wait_sync_lock
       \/ /\ wait_sync_list # NULL
          /\ Goto(a, "update")
          /\ call' = [call EXCEPT ![a].sync = wait_sync_list]
          /\ wait_sync_lock' = a
    /\ UNCHANGED <<nprog, lock, ring, sync, client>>

(* Goes around the ring forever. *)
BugWakeupForever(a) ==
    /\ pc[a] = "wk_next"
    /\ call' = [call EXCEPT ![a].sync = next[@]]
    /\ Goto(a, "update")
    /\ UNCHANGED <<mutex, nprog, ring, sync, client>>

(* The special case for rings ends the loop where it started. *)
WakeupNext(a) ==
    /\ pc[a] = "wk_next"
    /\ LET s == next[call[a].sync] IN
       \/ /\ s = wait_sync_list
          /\ Goto(a, Home(a))
          /\ call' = [call EXCEPT ![a] = NoCall]
          /\ wait_sync_lock' = NULL
       \/ /\ s # wait_sync_list
          /\ Goto(a, "update")
          /\ call' = [call EXCEPT ![a].sync = s]
          /\ UNCHANGED wait_sync_lock
    /\ UNCHANGED <<nprog, lock, ring, sync, client>>

-----------------------------------------------------------------------------
(* Steps of ompi_sync_wait_mt, of the calls below progress(), and the      *)
(* decisions of the client that nothing forces.                            *)
WaitStep(t) ==
    \/ Enter(t) \/ LockAndRecheck(t) \/ Insert(t)
    \/ CheckHead(t) \/ CheckNum(t) \/ Woken(t)
    \/ StartProgress(t) \/ EnterLoop(t) \/ LeaveLoop(t) \/ StopProgress(t)
    \/ Trim(t) \/ PassOwnership(t) \/ Return(t) \/ WaitSyncRelease(t)

CallStep(a) ==
    \/ UpdateSuccess(a) \/ UpdateError(a) \/ SwapCount(a)
    \/ SignalSync(a) \/ ClearSignaling(a)
    \/ WakeupFirst(a) \/ WakeupNext(a)

ClientStep ==
    \/ \E t \in Waiters, c \in Counts : WaitSyncInit(t, c)
    \/ \E t \in Waiters : SpuriousWakeup(t)
    \/ \E a \in Threads, s \in Waiters, st \in Statuses : BeginUpdate(a, s, st)
    \/ \E a \in Threads, st \in WakeupStatuses : BeginWakeup(a, st)

(* Every wait is over and every bound is used up. *)
Finished ==
    /\ \A t \in Waiters : pc[t] = "start" /\ rounds[t] = MaxRounds
    /\ \A a \in Helpers : pc[a] = "idle"
    /\ wakeups = MaxWakeups \/ Helpers = {} \/ WakeupStatuses = {}
    /\ UNCHANGED vars

Next ==
    \/ \E t \in Waiters : WaitStep(t)
    \/ \E a \in Threads : CallStep(a)
    \/ ClientStep
    \/ Finished

Spec == Init /\ [][Next]_vars

(* A thread that can take a step takes it: threads are scheduled fairly.   *)
(* A polling waiter's progress() eventually reports what is pending.       *)
(* The sync locks are fair: a signaller is not overtaken forever by a      *)
(* waiter that wakes up spuriously and takes its lock again.               *)
Fairness ==
    /\ \A t \in Waiters : WF_vars(WaitStep(t))
    /\ \A a \in Threads : WF_vars(CallStep(a))
    /\ \A t \in Waiters : WF_vars(\E s \in Waiters, st \in Statuses :
                                     BeginUpdate(t, s, st))
    /\ \A a \in Threads : SF_vars(SignalSync(a) \/ PassOwnership(a))

FairSpec == Spec /\ Fairness

-----------------------------------------------------------------------------
(* Properties *)

(* The labels of ompi_sync_wait_mt and of the macros around it. *)
WaitPcs == {"start", "enter", "lock", "insert", "check_head", "check_num",
            "asleep", "relock", "incr", "loop", "progress", "decr", "done",
            "pass", "return", "release"}

AllPcs    == WaitPcs \cup CallPcs \cup WakeupPcs \cup {"idle"}
Labels(a) == CallPcs \cup WakeupPcs \cup (IF a \in Waiters THEN WaitPcs ELSE {"idle"})

Calls == [sync : Waiters \cup {NULL}, updates : {0, 1}, status : Statuses]

(* Every variable has its type; no thread leaves the progress count that   *)
(* has not entered it, and only waiters are at a label of a wait.          *)
TypeOK ==
    /\ wait_sync_list \in Waiters \cup {NULL}
    /\ wait_sync_lock \in Threads \cup {NULL}
    /\ num_thread_in_progress \in Nat
    /\ count \in [Waiters -> Int]
    /\ status \in [Waiters -> Statuses]
    /\ signaling \in [Waiters -> BOOLEAN]
    /\ next \in [Waiters -> Waiters \cup {NULL}]
    /\ prev \in [Waiters -> Waiters \cup {NULL}]
    /\ lock \in [Waiters -> BOOLEAN]
    /\ result \in [Waiters -> {NULL, "SUCCESS", "ERROR"}]
    /\ pc \in [Threads -> AllPcs] /\ \A a \in Threads : pc[a] \in Labels(a)
    /\ call \in [Threads -> Calls]
    /\ pending \in [Waiters -> Nat]
    /\ rounds \in [Waiters -> Nat]
    /\ wakeups \in Nat

(* The syncs between Insert and Trim, those in progress() included. *)
Registered ==
    {s \in Waiters : pc[s] \notin {"start", "enter", "lock", "insert",
                                   "pass", "return", "release"}}

(* However waiters register and leave, wait_sync_list with next and prev   *)
(* is one doubly linked ring through exactly the registered syncs: the     *)
(* unlocked entry, the two exits and the hand-over of the head neither     *)
(* lose nor strand a sync.                                                 *)
RingIntact ==
    /\ wait_sync_list = NULL <=> Registered = {}
    /\ Registered # {} => wait_sync_list \in Registered
    /\ \A s \in Registered : /\ next[s] \in Registered /\ prev[next[s]] = s
                             /\ prev[s] \in Registered /\ next[prev[s]] = s
    /\ \A S \in SUBSET Registered :
          (wait_sync_list \in S /\ \A s \in S : next[s] \in S) => S = Registered

(* The progress manager never sleeps through its promotion: the head of    *)
(* the ring is asleep only while its predecessor is about to signal it in  *)
(* WAIT_SYNC_PASS_OWNERSHIP, although check_status reads the head and the  *)
(* counter without wait_sync_lock.                                         *)
NoLostPromotion ==
    wait_sync_list # NULL /\ pc[wait_sync_list] = "asleep"
        => \E t \in Waiters : pc[t] = "pass"

(* A waiter never sleeps through its completion: when its count is used    *)
(* up, the thread that used it up has yet to signal in WAIT_SYNC_SIGNAL.   *)
NoLostCompletion ==
    \A t \in Waiters : pc[t] = "asleep" /\ count[t] <= 0
        => \E a \in Threads : pc[a] = "signal" /\ call[a].sync = t

(* The storage of the sync is used once, or never sees an error: an update *)
(* that outlives a wait ended by an error counts against the next wait.    *)
Exact(t) == rounds[t] <= 1 \/ Errors = {}

(* ompi_sync_wait_mt returns SUCCESS only when every completion was        *)
(* counted: a sync completed early by an error has a status by then.       *)
SuccessMeansComplete ==
    \A t \in Waiters : result[t] = "SUCCESS" /\ Live(t) /\ Exact(t)
        => /\ pending[t] = 0
           /\ \A a \in Threads : pc[a] = "update" /\ call[a].sync = t => call[a].updates = 0

(* The completions of t that have not been counted: nobody has reported    *)
(* them, or wait_sync_update has not reached the count.                    *)
Left(t) ==
    pending[t] + Cardinality({a \in Threads : /\ pc[a] = "update"
                                              /\ call[a].sync = t
                                              /\ call[a].updates = 1})

W == INSTANCE Wait WITH
        Clients <- Waiters,
        Outcome <- [st \in Statuses |-> IF st = 0 THEN "SUCCESS" ELSE "ERROR"],
        open   <- [t \in Waiters |-> Live(t)],
        left   <- [t \in Waiters |-> IF Live(t) THEN Left(t) ELSE 0],
        error  <- [t \in Waiters |-> IF Live(t) THEN status[t] ELSE 0],
        result <- [t \in Waiters |-> IF Live(t) THEN result[t] ELSE NULL]

(* ompi_sync_wait_mt with its ring, sleeps and promotions does what        *)
(* SYNC_WAIT promises: every wait returns once, SUCCESS only after its     *)
(* last completion, and ERROR, whatever the status was, exactly if an      *)
(* error was reported by then.                                             *)
ImplementsWait == W!Spec

(* Under the client's contract that nobody reports an error or wakes the   *)
(* syncs, wait_sync_update never touches a sync that its owner has         *)
(* released, and the owner may reuse its storage.                          *)
NoUseAfterRelease ==
    \A a \in Threads : pc[a] \in CallPcs => Live(call[a].sync)

(* "The loop in release handles a race condition between the signaling     *)
(* thread and the destruction of the condition variable" (the comment on   *)
(* WAIT_SYNC_RELEASE): a thread in WAIT_SYNC_SIGNAL has a live sync.       *)
ReleaseWaitsForSignallers ==
    \A a \in Threads : pc[a] \in {"signal", "clear"} => Live(call[a].sync)

(* A global wakeup with an error that has been around the ring has         *)
(* completed every sync that waits in it.                                  *)
WakeupReachesAll ==
    \A a \in Threads :
        pc[a] = "wk_next" /\ next[call[a].sync] = wait_sync_list /\ call[a].status # 0
            => \A s \in Registered : count[s] <= 0

(* "If status is OMPI_SUCCESS this operation is a NO-OP" (the comment on   *)
(* the global wakeup): such a wakeup changes no sync.                      *)
SuccessWakeupIsNoOp ==
    [][\A a \in Threads :
        pc[a] \in CallPcs /\ pc'[a] # pc[a]
        /\ call[a].updates = 0 /\ call[a].status = 0
            => UNCHANGED sync]_vars

(* Every wait returns and its sync can be released, although only the      *)
(* threads that progress report completions: the duty to progress is       *)
(* always with somebody who is awake.                                      *)
EveryWaitReturns == \A t \in Waiters : pc[t] = "enter" ~> pc[t] = "start"

(* Every global wakeup ends, in spite of the ring it iterates over and of  *)
(* the sync locks it takes inside wait_sync_lock.                          *)
EveryWakeupEnds == \A a \in Threads : pc[a] = "wk_lock" ~> pc[a] = Home(a)

=============================================================================
