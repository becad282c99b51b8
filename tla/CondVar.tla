------------------------------ MODULE CondVar ------------------------------
(***************************************************************************)
(* What a condition variable of libult and its mutex promise, whatever the *)
(* backend: a wait gives the mutex up and joins the queue in one step, a   *)
(* signal wakes the thread that waits longest, a broadcast wakes all of    *)
(* them, and a wait returns only when it was woken, holding the mutex      *)
(* again.  No wakeup is spurious, and none is kept for a later wait.       *)
(***************************************************************************)
EXTENDS Naturals, Sequences

CONSTANTS Threads, NULL

VARIABLES
    owner,      \* the thread that holds the mutex, or NULL
    queue,      \* the threads that wait, the oldest first
    woken       \* the threads that were woken and need the mutex

vars == <<owner, queue, woken>>

Waiting == {queue[i] : i \in DOMAIN queue}

Init == owner = NULL /\ queue = <<>> /\ woken = {}

Lock(t) ==
    /\ owner = NULL
    /\ t \notin Waiting \cup woken
    /\ owner' = t
    /\ UNCHANGED <<queue, woken>>

Unlock(t) ==
    /\ owner = t
    /\ owner' = NULL
    /\ UNCHANGED <<queue, woken>>

Wait(t) ==
    /\ owner = t
    /\ owner' = NULL
    /\ queue' = Append(queue, t)
    /\ UNCHANGED woken

Signal ==
    /\ queue # <<>>
    /\ queue' = Tail(queue)
    /\ woken' = woken \cup {Head(queue)}
    /\ UNCHANGED owner

Broadcast ==
    /\ queue' = <<>>
    /\ woken' = woken \cup Waiting
    /\ UNCHANGED owner

Resume(t) ==
    /\ t \in woken
    /\ owner = NULL
    /\ owner' = t
    /\ woken' = woken \ {t}
    /\ UNCHANGED queue

Next ==
    \/ \E t \in Threads : Lock(t) \/ Unlock(t) \/ Wait(t) \/ Resume(t)
    \/ Signal
    \/ Broadcast

Spec == Init /\ [][Next]_vars

=============================================================================
