-------------------------------- MODULE Wait --------------------------------
(***************************************************************************)
(* What SYNC_WAIT promises (src/src/wait_sync.h), whichever of the two     *)
(* implementations runs: a wait that has been opened for some completions  *)
(* returns when all of them have been reported, or earlier with an error   *)
(* that somebody has reported.  What the caller learns of the error is     *)
(* where the two differ: Outcome is what they make of a status.            *)
(***************************************************************************)
EXTENDS Integers

CONSTANTS
    Clients, Counts, NULL,
    Errors,         \* the statuses other than SUCCESS, which is 0
    Outcome         \* what a wait returns for a status

VARIABLES
    open,           \* whether the client's sync exists
    left,           \* the completions that have not been counted
    error,          \* the last error that was reported, or 0
    result          \* what the wait returned, or NULL

wvars == <<open, left, error, result>>

Init ==
    /\ open   = [t \in Clients |-> FALSE]
    /\ left   = [t \in Clients |-> 0]
    /\ error  = [t \in Clients |-> 0]
    /\ result = [t \in Clients |-> NULL]

(* WAIT_SYNC_INIT and WAIT_SYNC_RELEASE *)
Open(t, c) ==
    /\ ~open[t] /\ open' = [open EXCEPT ![t] = TRUE]
    /\ left' = [left EXCEPT ![t] = c]
    /\ UNCHANGED <<error, result>>

Release(t) ==
    /\ result[t] # NULL /\ result' = [result EXCEPT ![t] = NULL]
    /\ open'  = [open EXCEPT ![t] = FALSE]
    /\ left'  = [left EXCEPT ![t] = 0]
    /\ error' = [error EXCEPT ![t] = 0]

(* wait_sync_update with success, and with an error, which may or may not  *)
(* be the outcome of one of the completions.                               *)
Complete(t) ==
    /\ left[t] > 0 /\ left' = [left EXCEPT ![t] = @ - 1]
    /\ UNCHANGED <<open, error, result>>

Fail(t, st) ==
    /\ open[t] /\ error' = [error EXCEPT ![t] = st]
    /\ left' \in {left, [left EXCEPT ![t] = @ - 1]} /\ left'[t] >= 0
    /\ UNCHANGED <<open, result>>

(* The wait returns. *)
Return(t) ==
    /\ open[t] /\ result[t] = NULL
    /\ left[t] = 0 \/ error[t] # 0
    /\ result' = [result EXCEPT ![t] = Outcome[error[t]]]
    /\ UNCHANGED <<open, left, error>>

Next ==
    \E t \in Clients :
        \/ Release(t) \/ Complete(t) \/ Return(t)
        \/ \E st \in Errors : Fail(t, st)
        \/ \E c \in Counts : Open(t, c)

Spec == Init /\ [][Next]_wvars

=============================================================================
