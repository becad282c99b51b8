---------------------------- MODULE SingleThread ----------------------------
(***************************************************************************)
(* libult while using_threads() is false: sync_wait_st and                 *)
(* wait_sync_update (src/src/wait_sync.h), the global wakeup without       *)
(* threads (src/src/impl/base/wait_sync.c), the loops of condition_t that  *)
(* take no lock (src/src/condition.h) and the macros on top of them        *)
(* (src/src/threads.h), whose THREAD_LOCK does nothing.                    *)
(*                                                                         *)
(* There is one thread, but waits nest: below a wait, progress() runs      *)
(* callbacks that may wait themselves.  stack holds the waits that are in  *)
(* progress, the innermost first; only that one can return.  The contract  *)
(* that sync_wait_st asserts is that no SYNC_WAIT is made below another.   *)
(*                                                                         *)
(* Times are in seconds: tv_sec <= tv_sec decides the loop of              *)
(* condition_timedwait.                                                    *)
(*                                                                         *)
(* A definition whose name begins with Bug is a faulty variant of the one  *)
(* after it, and not part of the specification.                            *)
(***************************************************************************)
EXTENDS Integers, Sequences, FiniteSets

CONSTANTS
    Syncs, NULL,
    Errors,             \* statuses other than SUCCESS
    Counts,             \* bound: the counts given to WAIT_SYNC_INIT
    MaxDepth,           \* bound: waits in progress
    MaxCalls,           \* bound: waits of conditions and acquisitions
    MaxSignaled,        \* bound: signals that nobody has taken
    MaxTime             \* bound: the clock

Statuses == {0} \cup Errors

ASSUME SingleThreadAssumption ==
    /\ NULL \notin Syncs /\ NULL \notin Statuses
    /\ 0 \notin Errors /\ Errors \subseteq Int
    /\ Counts \subseteq Nat /\ {MaxDepth, MaxCalls, MaxSignaled, MaxTime} \subseteq Nat

VARIABLES
    stack,
    wait_sync_list, count, status,
    pending, result,                \* as in WaitSync; result is the status itself
    state,                          \* of a sync: none, open, waiting or returned
    c_waiting, c_signaled, act,
    now, calls,
    mixed                           \* a wait of the condition outside ACQUIRE_THREAD was made

syncs == <<wait_sync_list, count, status, pending, result, state>>
cond  == <<c_waiting, c_signaled, act>>
vars  == <<stack, syncs, cond, now, calls, mixed>>

Init ==
    /\ stack = <<>>
    /\ wait_sync_list = NULL
    /\ count = [s \in Syncs |-> 0] /\ status = count /\ pending = count
    /\ result = [s \in Syncs |-> NULL]
    /\ state = [s \in Syncs |-> "none"]
    /\ c_waiting = 0 /\ c_signaled = 0 /\ act = FALSE
    /\ now = 0 /\ calls = 0 /\ mixed = FALSE

(* The innermost wait. *)
Top == IF stack = <<>> THEN <<"client", NULL>> ELSE Head(stack)

(* The client's code runs, or progress() below the innermost wait. *)
Running == Top[1] # "acquire"

Push(frame) == stack' = <<frame>> \o stack
Pop(kind)   == Top[1] = kind /\ stack' = Tail(stack)

Call(frame) ==
    /\ Running /\ Len(stack) < MaxDepth /\ Push(frame)
    /\ calls < MaxCalls /\ calls' = calls + 1

-----------------------------------------------------------------------------
(* ompi_wait_sync_t *)

WaitSyncInit(s, c) ==
    /\ Running /\ state[s] = "none" /\ state' = [state EXCEPT ![s] = "open"]
    /\ count'   = [count EXCEPT ![s] = c]
    /\ pending' = [pending EXCEPT ![s] = c]
    /\ status'  = [status EXCEPT ![s] = 0]
    /\ result'  = [result EXCEPT ![s] = NULL]
    /\ UNCHANGED <<stack, wait_sync_list, cond, now, calls, mixed>>

(* sync_wait_st registers its sync and polls ... *)
SyncWait(s) ==
    /\ Running /\ wait_sync_list = NULL /\ Push(<<"sync", s>>)
    /\ state[s] = "open" /\ state' = [state EXCEPT ![s] = "waiting"]
    /\ wait_sync_list' = s
    /\ UNCHANGED <<count, status, pending, result, cond, now, calls, mixed>>

EndSyncWait(s, list) ==
    /\ Pop("sync") /\ s = Top[2] /\ count[s] <= 0
    /\ state'  = [state EXCEPT ![s] = "returned"]
    /\ result' = [result EXCEPT ![s] = status[s]]
    /\ wait_sync_list' = list
    /\ UNCHANGED <<count, status, pending, cond, now, calls, mixed>>

(* Stays registered. *)
BugSyncReturn(s) == EndSyncWait(s, s)

(* ... until count is used up; the list is empty then.  The status is      *)
(* returned as it is.                                                      *)
SyncReturn(s) == EndSyncWait(s, NULL)

(* Nothing spins or is destroyed. *)
WaitSyncRelease(s) ==
    /\ Running /\ state[s] = "returned" /\ state' = [state EXCEPT ![s] = "none"]
    /\ UNCHANGED <<stack, wait_sync_list, count, status, pending, result, cond, now, calls, mixed>>

(* Does not record the status. *)
BugUpdate(s, updates, st) ==
    /\ count' = [count EXCEPT ![s] = IF st = 0 THEN @ - updates ELSE 0]
    /\ UNCHANGED status

(* wait_sync_update, whose WAIT_SYNC_SIGNAL does nothing. *)
Update(s, updates, st) ==
    \/ st = 0 /\ count' = [count EXCEPT ![s] = @ - updates] /\ UNCHANGED status
    \/ /\ st # 0
       /\ status' = [status EXCEPT ![s] = st]
       /\ count'  = [count EXCEPT ![s] = 0]

(* A callback reports one of the pending completions. *)
Complete(s, st) ==
    /\ Running /\ pending[s] > 0
    /\ state[s] # "none"
    /\ pending' = [pending EXCEPT ![s] = @ - 1]
    /\ Update(s, 1, st)
    /\ UNCHANGED <<stack, wait_sync_list, result, state, cond, now, calls, mixed>>

(* The global wakeup: the registered sync has no successor. *)
GlobalWakeup(st) ==
    /\ Running
    /\ \/ wait_sync_list = NULL /\ UNCHANGED <<count, status>>
       \/ wait_sync_list # NULL /\ Update(wait_sync_list, 0, st)
    /\ UNCHANGED <<stack, wait_sync_list, pending, result, state, cond, now, calls, mixed>>

-----------------------------------------------------------------------------
(* condition_t *)

(* condition_wait and condition_timedwait until second d count themselves  *)
(* and poll; a signal that is there already is taken at once.              *)
CondWait ==
    /\ Call(<<"cond", NULL>>)
    /\ c_waiting' = c_waiting + 1 /\ mixed' = TRUE
    /\ UNCHANGED <<syncs, c_signaled, act, now>>

TimedWait(d) ==
    /\ Call(<<"timed", d>>)
    /\ c_waiting' = c_waiting + 1 /\ mixed' = TRUE
    /\ UNCHANGED <<syncs, c_signaled, act, now>>

(* Is still counted after the wait. *)
BugCondReturn ==
    /\ Pop("cond") /\ c_signaled # 0
    /\ c_signaled' = c_signaled - 1
    /\ UNCHANGED <<syncs, c_waiting, act, now, calls, mixed>>

CondReturn ==
    /\ Pop("cond") /\ c_signaled # 0
    /\ c_signaled' = c_signaled - 1
    /\ c_waiting'  = c_waiting - 1
    /\ UNCHANGED <<syncs, act, now, calls, mixed>>

(* Takes a signal that is not there. *)
BugTimedReturn ==
    /\ Pop("timed") /\ (c_signaled # 0 \/ now > Top[2])
    /\ c_signaled' = c_signaled - 1
    /\ c_waiting'  = c_waiting - 1
    /\ UNCHANGED <<syncs, act, now, calls, mixed>>

TimedReturn ==
    /\ Pop("timed") /\ (c_signaled # 0 \/ now > Top[2])
    /\ c_signaled' = IF c_signaled # 0 THEN c_signaled - 1 ELSE 0
    /\ c_waiting'  = c_waiting - 1
    /\ UNCHANGED <<syncs, act, now, calls, mixed>>

Signal ==
    /\ Running /\ c_waiting # 0
    /\ c_signaled < MaxSignaled /\ c_signaled' = c_signaled + 1
    /\ UNCHANGED <<stack, syncs, c_waiting, act, now, calls, mixed>>

Broadcast ==
    /\ Running /\ c_signaled' = c_waiting
    /\ UNCHANGED <<stack, syncs, c_waiting, act, now, calls, mixed>>

Tick == now < MaxTime /\ now' = now + 1 /\ UNCHANGED <<stack, syncs, cond, calls, mixed>>

(* ACQUIRE_THREAD takes the flag, or waits for the condition and tests the *)
(* flag again.                                                             *)
Acquire == Call(<<"acquire", NULL>>) /\ UNCHANGED <<syncs, cond, now, mixed>>

AcquireTest ==
    /\ Top[1] = "acquire"
    /\ \/ ~act /\ Pop("acquire") /\ act' = TRUE /\ UNCHANGED c_waiting
       \/ act /\ Push(<<"cond", NULL>>) /\ c_waiting' = c_waiting + 1 /\ UNCHANGED act
    /\ UNCHANGED <<syncs, c_signaled, now, calls, mixed>>

(* Wakes nobody. *)
BugReleaseThread ==
    Running /\ act' = FALSE /\ UNCHANGED <<stack, syncs, c_waiting, c_signaled, now, calls, mixed>>

(* RELEASE_THREAD, and WAKEUP_THREAD from a callback. *)
ReleaseThread ==
    /\ Running /\ act' = FALSE
    /\ c_signaled' = c_waiting
    /\ UNCHANGED <<stack, syncs, c_waiting, now, calls, mixed>>

-----------------------------------------------------------------------------

(* A wait tests what it waits for. *)
LoopStep ==
    \/ \E s \in Syncs : SyncReturn(s)
    \/ CondReturn \/ TimedReturn \/ AcquireTest

Next ==
    \/ LoopStep
    \/ \E s \in Syncs :
        \/ \E c \in Counts : WaitSyncInit(s, c)
        \/ SyncWait(s) \/ WaitSyncRelease(s)
        \/ \E st \in Statuses : Complete(s, st)
    \/ \E st \in Statuses : GlobalWakeup(st)
    \/ CondWait \/ \E d \in 0..MaxTime - 1 : TimedWait(d)
    \/ Signal \/ Broadcast \/ Tick \/ Acquire \/ ReleaseThread

Spec == Init /\ [][Next]_vars

(* The loops go on and time passes; progress(), called again and again,    *)
(* eventually reports what is pending, and a flag that is taken is given   *)
(* back.  Nobody is obliged to signal a condition or to wake those who     *)
(* wait for a flag that is free.                                           *)
FairSpec ==
    /\ Spec /\ WF_vars(LoopStep) /\ WF_vars(Tick) /\ SF_vars(act /\ ReleaseThread)
    /\ \A s \in Syncs : SF_vars(\E st \in Statuses : Complete(s, st))

-----------------------------------------------------------------------------
(* Properties *)

(* Every variable has its type, and c_signaled is never negative, although *)
(* nested waits take each other's signals.                                 *)
TypeOK ==
    /\ stack \in Seq({"sync", "cond", "timed", "acquire"} \X (Syncs \cup {NULL} \cup 0..MaxTime))
    /\ wait_sync_list \in Syncs \cup {NULL}
    /\ count \in [Syncs -> Int] /\ status \in [Syncs -> Statuses]
    /\ pending \in [Syncs -> Nat] /\ result \in [Syncs -> Statuses \cup {NULL}]
    /\ state \in [Syncs -> {"none", "open", "waiting", "returned"}]
    /\ {c_waiting, c_signaled} \subseteq Nat /\ act \in BOOLEAN
    /\ now \in 0..MaxTime /\ calls \in 0..MaxCalls /\ mixed \in BOOLEAN

Frames(kinds) == {i \in DOMAIN stack : stack[i][1] \in kinds}

(* However deep the waits nest, the list holds exactly the one sync that   *)
(* is being waited for, so that a global wakeup from any depth reaches it, *)
(* and never a sync whose wait has returned.                               *)
WaitRegistered ==
    {wait_sync_list} \ {NULL} = {stack[i][2] : i \in Frames({"sync"})}

(* c_waiting counts exactly the waits on the stack, those inside           *)
(* ACQUIRE_THREAD and those that time out included.                        *)
WaitersCounted == c_waiting = Cardinality(Frames({"cond", "timed"}))

W == INSTANCE Wait WITH
        Clients <- Syncs,
        Outcome <- [st \in Statuses |-> st],
        open   <- [s \in Syncs |-> state[s] # "none"],
        left   <- [s \in Syncs |-> IF state[s] # "none" THEN pending[s] ELSE 0],
        error  <- [s \in Syncs |-> IF state[s] # "none" THEN status[s] ELSE 0],
        result <- [s \in Syncs |-> IF state[s] # "none" THEN result[s] ELSE NULL]

(* sync_wait_st, without lock, ring or signal, returns when                *)
(* ompi_sync_wait_mt would, and not what it would: SUCCESS only after the  *)
(* last completion, and otherwise the very status that was reported last,  *)
(* where ompi_sync_wait_mt makes every error the same.                     *)
ImplementsWait == W!Spec

(* The innermost wait waits for a signal that nobody owes it: the flag is  *)
(* free, and the condition is used for other waits than those for the      *)
(* flag.  They may have taken the signals of the broadcast that freed it.  *)
Unsignalled == mixed /\ Top[1] = "cond" /\ c_signaled = 0 /\ ~act

(* A SYNC_WAIT returns in the end, although timed waits and acquisitions   *)
(* of the flag below it must return first; only a wait of the condition    *)
(* that is left without a signal can keep it.  ACQUIRE_THREAD never is,    *)
(* as long as it alone waits for the condition: RELEASE_THREAD leaves a    *)
(* signal for every wait on the stack, however often they test the flag.   *)
EveryWaitReturns ==
    \A s \in Syncs : state[s] = "waiting" ~> (state[s] = "returned" \/ []Unsignalled)

=============================================================================
