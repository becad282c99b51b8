------------------------------ MODULE FirstUse ------------------------------
(***************************************************************************)
(* The first use of a backend.                                             *)
(*                                                                         *)
(* Qthreads (src/src/impl/qthreads/threads_qthreads_module.c): the key of  *)
(* self_key_ensure_init is created under a lock by the first thread that   *)
(* asks, and found through a flag that is read without it.                 *)
(*                                                                         *)
(* Argobots (src/src/impl/argobots): creating a key and setting a value    *)
(* test whether the library runs and start it; reading a value and         *)
(* deleting a key do not look.  ABT_init counts its calls.                 *)
(*                                                                         *)
(* The flag and the handle are plain variables.  A store stays in the      *)
(* buffer of its thread and reaches memory in any order, until a barrier   *)
(* or the release of the lock empties the buffer.  The caller's load of    *)
(* the handle may be done early, before the load of the flag that guards   *)
(* it; only taking the lock undoes that.                                   *)
(*                                                                         *)
(* A definition whose name begins with Bug is a faulty variant of the one  *)
(* after it, and not part of the specification.                            *)
(***************************************************************************)
EXTENDS Naturals, FiniteSets

CONSTANTS
    Threads, NULL,
    MaxCalls                \* bound: calls of all threads together

ASSUME FirstUseAssumption == NULL \notin Threads \cup Nat /\ MaxCalls \in Nat

VARIABLES
    thread_self_key_lock,   \* the holder, or NULL
    memory,                 \* thread_self_key, thread_self_key_init
    buffer,                 \* the stores of each thread that wait
    loaded,                 \* what an early load of the handle gave, or NULL
    created,                \* handles that qthread_key_create has given out
    inits,                  \* calls of ABT_init
    key,                    \* whether the client's tsd_key_t exists
    op,                     \* the call that a thread makes on it
    pc, calls

self == <<thread_self_key_lock, memory, buffer, loaded, created>>
abt  == <<inits, key, op>>
vars == <<self, abt, pc, calls>>

(* No handle, and no store that waits. *)
Nothing == [x \in {"key", "init"} |-> 0]

Init ==
    /\ thread_self_key_lock = NULL
    /\ memory = Nothing
    /\ buffer = [t \in Threads |-> Nothing]
    /\ loaded = [t \in Threads |-> NULL]
    /\ created = 0 /\ inits = 0 /\ key = FALSE
    /\ op    = [t \in Threads |-> "none"]
    /\ pc    = [t \in Threads |-> "idle"]
    /\ calls = 0

Goto(t, from, to) == pc[t] = from /\ pc' = [pc EXCEPT ![t] = to] /\ UNCHANGED calls

Begin(t, label) ==
    /\ pc[t] = "idle" /\ pc' = [pc EXCEPT ![t] = label]
    /\ calls < MaxCalls /\ calls' = calls + 1

(* A thread reads its own stores; a store of x reaches memory. *)
Load(t, x) == IF buffer[t][x] # 0 THEN buffer[t][x] ELSE memory[x]

Store(t, x, v) == buffer' = [buffer EXCEPT ![t][x] = v]

Flush(t, x) ==
    /\ buffer[t][x] # 0
    /\ memory' = [memory EXCEPT ![x] = buffer[t][x]]
    /\ Store(t, x, 0)
    /\ UNCHANGED <<thread_self_key_lock, loaded, created, abt, pc, calls>>

Flushed(t) == buffer[t] = Nothing

(* The caller's load of the handle, before a load of the flag or before    *)
(* the lock is released; it is not repeated.                               *)
Prefetch(t) ==
    /\ pc[t] \in {"test", "recheck", "unlock"} /\ loaded[t] = NULL
    /\ loaded' = [loaded EXCEPT ![t] = Load(t, "key")]
    /\ UNCHANGED <<thread_self_key_lock, memory, buffer, created, abt, pc, calls>>

Forget(t) == loaded' = [loaded EXCEPT ![t] = NULL]

(* The handle that the caller works with. *)
Handle(t) == IF loaded[t] = NULL THEN Load(t, "key") ELSE loaded[t]

-----------------------------------------------------------------------------
(* self_key_ensure_init *)

SelfCall(t) == Begin(t, "test") /\ UNCHANGED <<self, abt>>

SelfTest(t) ==
    Goto(t, "test", IF Load(t, "init") # 0 THEN "found" ELSE "lock") /\ UNCHANGED <<self, abt>>

(* No load that is made with the lock was done before. *)
SelfLock(t) ==
    /\ Goto(t, "lock", "recheck") /\ Forget(t)
    /\ thread_self_key_lock = NULL /\ thread_self_key_lock' = t
    /\ UNCHANGED <<memory, buffer, created, abt>>

(* Does not check again. *)
BugRecheck(t) == Goto(t, "recheck", "create") /\ UNCHANGED <<self, abt>>

(* Returns with the lock when the key is there. *)
BugRecheckKeepsLock(t) ==
    /\ Goto(t, "recheck", IF Load(t, "init") # 0 THEN "ready" ELSE "create")
    /\ UNCHANGED <<self, abt>>

SelfRecheck(t) ==
    /\ Goto(t, "recheck", IF Load(t, "init") # 0 THEN "unlock" ELSE "create")
    /\ UNCHANGED <<self, abt>>

(* A thread sees its own store. *)
SelfCreate(t) ==
    /\ Goto(t, "create", "barrier") /\ Forget(t)
    /\ created' = created + 1
    /\ Store(t, "key", created')
    /\ UNCHANGED <<thread_self_key_lock, memory, abt>>

(* No barrier. *)
BugBarrier(t) == Goto(t, "barrier", "flag") /\ UNCHANGED <<self, abt>>

(* atomic_mb *)
SelfBarrier(t) == Flushed(t) /\ Goto(t, "barrier", "flag") /\ UNCHANGED <<self, abt>>

SelfSetFlag(t) ==
    /\ Goto(t, "flag", "unlock")
    /\ Store(t, "init", 1)
    /\ UNCHANGED <<thread_self_key_lock, memory, loaded, created, abt>>

SelfUnlock(t) ==
    /\ Flushed(t) /\ Goto(t, "unlock", "ready")
    /\ thread_self_key_lock' = NULL
    /\ UNCHANGED <<memory, buffer, loaded, created, abt>>

(* The caller has the key, by the unlocked test or through the lock. *)
SelfDone(t) ==
    /\ \E from \in {"found", "ready"} : Goto(t, from, "idle")
    /\ Forget(t)
    /\ UNCHANGED <<thread_self_key_lock, memory, buffer, created, abt>>

-----------------------------------------------------------------------------
(* tsd_key_create, tsd_set, tsd_get and tsd_key_delete of Argobots; the    *)
(* client creates its key before it uses it.                               *)

Prefix == [create |-> "ensure", set |-> "ensure", get |-> "use", delete |-> "use"]

TsdCall(t, o) ==
    /\ o # "create" => key
    /\ Begin(t, Prefix[o])
    /\ op' = [op EXCEPT ![t] = o]
    /\ UNCHANGED <<self, inits, key>>

(* Takes the library to run already. *)
BugEnsureInit(t) == Goto(t, "ensure", "use") /\ UNCHANGED <<self, abt>>

(* threads_argobots_ensure_init: the test ... *)
EnsureInit(t) ==
    Goto(t, "ensure", IF inits > 0 THEN "use" ELSE "init") /\ UNCHANGED <<self, abt>>

(* ... and ABT_init. *)
AbtInit(t) == Goto(t, "init", "use") /\ inits' = inits + 1 /\ UNCHANGED <<self, key, op>>

(* The operation itself; a creation may fail. *)
Use(t) ==
    /\ Goto(t, "use", "idle")
    /\ \/ op[t] # "delete" /\ UNCHANGED key
       \/ op[t] = "create" /\ key' = TRUE
       \/ op[t] = "delete" /\ key' = FALSE
    /\ op'  = [op EXCEPT ![t] = "none"]
    /\ UNCHANGED <<self, inits>>

-----------------------------------------------------------------------------

Step(t) ==
    \/ SelfTest(t) \/ SelfLock(t) \/ SelfRecheck(t) \/ SelfCreate(t) \/ SelfBarrier(t)
    \/ SelfSetFlag(t) \/ SelfUnlock(t) \/ SelfDone(t)
    \/ EnsureInit(t) \/ AbtInit(t) \/ Use(t)
    \/ Flush(t, "key") \/ Flush(t, "init")

(* All calls have been made. *)
Finished == calls = MaxCalls /\ (\A t \in Threads : pc[t] = "idle") /\ UNCHANGED vars

Next ==
    \/ \E t \in Threads :
        Step(t) \/ Prefetch(t) \/ SelfCall(t) \/ \E o \in DOMAIN Prefix : TsdCall(t, o)
    \/ Finished

Spec == Init /\ [][Next]_vars

(* Threads are scheduled fairly, stores reach memory in the end, and the   *)
(* holder of the lock blocks on nothing, so that others get it in turn.    *)
FairSpec ==
    /\ Spec
    /\ \A t \in Threads : WF_vars(Step(t)) /\ SF_vars(SelfLock(t))

-----------------------------------------------------------------------------
(* Properties *)

(* "thread_self_key has been already initialized" (the comment at the end  *)
(* of self_key_ensure_init): whoever returns, the key has been created.    *)
(* Who went through the lock has the handle, wherever its load was done.   *)
(* Who found the flag has it too if it loads the handle after the flag;    *)
(* nothing but the machine makes it do so, and a load done before the flag *)
(* may have found no handle yet, but no other one.                         *)
KeyVisible ==
    \A t \in Threads :
        /\ pc[t] \in {"found", "ready"} => created # 0
        /\ pc[t] = "ready" => Handle(t) = created
        /\ pc[t] = "found" => Handle(t) = created \/ loaded[t] = 0

(* However many first callers race, the key is created once: no thread     *)
(* keeps a handle that another has replaced.                               *)
KeyCreatedOnce == created <= 1

(* No key operation reaches Argobots before ABT_init has returned, the     *)
(* ones that do not look included: a key exists only after its creator     *)
(* has started the library.                                                *)
LibraryReady == \A t \in Threads : pc[t] = "use" => inits > 0

(* Every call returns: the lock is released on both branches. *)
EveryCallReturns == \A t \in Threads : pc[t] # "idle" ~> pc[t] = "idle"

=============================================================================
