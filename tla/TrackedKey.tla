----------------------------- MODULE TrackedKey -----------------------------
(***************************************************************************)
(* Tracked thread-specific data (src/src/impl/base/tsd.c, src/src/tsd.h):  *)
(* a key that remembers, in tsd_list, the item of every thread, so that    *)
(* the values of threads that still run are destroyed with the key.        *)
(*                                                                         *)
(* A thread's item is reached from two sides: by the thread's exit, which  *)
(* takes it from the backend's slot and runs _tracked_destructor, and by   *)
(* the key's destructor, which walks tsd_list without key->mutex.  The     *)
(* client's contract is that no thread is inside a call on the key when    *)
(* the key is destroyed.                                                   *)
(*                                                                         *)
(* Items are the memory of OBJ_NEW and are reused; the order of tsd_list   *)
(* is left out.  Every value is given to the key at most once, and fate    *)
(* is its history.                                                         *)
(*                                                                         *)
(* A definition whose name begins with Bug is a faulty variant of the one  *)
(* after it, and not part of the specification.                            *)
(***************************************************************************)
EXTENDS Naturals, FiniteSets

CONSTANTS Threads, Items, Values, NULL

ASSUME DistinctAssumption == NULL \notin Items \cup Values

VARIABLES
    key,                \* "live", "deleted" (the list is walked), "destroyed"
    tsd_list,           \* the items in key->tsd_list
    user_destructor,    \* whether one was set
    allocated, data,    \* the items that exist, and their values
    slot,               \* the backend's value of the key in each thread
    pc, ret,            \* ret: where tsd_tracked_key_set returns to
    tsd, arg,           \* its item and its argument p
    dying,              \* the item of _tracked_destructor
    fate                \* what became of each value

thread == <<pc, ret, tsd, arg, dying>>
vars   == <<key, tsd_list, user_destructor, allocated, data, slot, thread, fate>>

(* tsd_tracked_key_constructor *)
Init ==
    /\ key = "live"
    /\ tsd_list = {}
    /\ user_destructor = FALSE
    /\ allocated = {}
    /\ data  = [i \in Items |-> NULL]
    /\ slot  = [t \in Threads |-> NULL]
    /\ pc    = [t \in Threads |-> "run"]
    /\ ret   = [t \in Threads |-> "run"]
    /\ tsd   = [t \in Threads |-> NULL]
    /\ arg   = [t \in Threads |-> NULL]
    /\ dying = [t \in Threads |-> NULL]
    /\ fate  = [v \in Values |-> "unused"]

Goto(t, label) == pc' = [pc EXCEPT ![t] = label]

(* A step of t that changes nothing but its place. *)
Move(t, from, to) ==
    /\ pc[t] = from /\ Goto(t, to)
    /\ UNCHANGED <<key, tsd_list, user_destructor, allocated, data, slot, ret, tsd, arg, dying, fate>>

(* tsd_tracked_key_set_destructor, also with NULL *)
SetDestructor ==
    /\ key = "live"
    /\ user_destructor' \in BOOLEAN \ {user_destructor}
    /\ UNCHANGED <<key, tsd_list, allocated, data, slot, thread, fate>>

-----------------------------------------------------------------------------
(* tsd_get and tsd_set of the backend; tsd_set may fail. *)
TsdGet(t)    == slot[t]
TsdSet(t, i) == slot' \in {slot, [slot EXCEPT ![t] = i]}

(* What tsd_tracked_key_get gives to thread t. *)
Get(t) == IF TsdGet(t) = NULL THEN NULL ELSE data[TsdGet(t)]

(* tsd_tracked_key_set(key, p), by a running thread or by the user's       *)
(* destructor in a thread that exits.                                      *)

(* The thread has an item, or OBJ_NEW gives it one.  If OBJ_NEW fails,     *)
(* nothing has changed.                                                    *)
BeginSet(t, p) ==
    /\ key = "live"
    /\ pc[t] \in {"run", "in_user"}
    /\ fate[p] = "unused" /\ \A u \in Threads : arg[u] # p
    /\ ret' = [ret EXCEPT ![t] = pc[t]]
    /\ arg' = [arg EXCEPT ![t] = p]
    /\ \/ /\ TsdGet(t) # NULL
          /\ tsd' = [tsd EXCEPT ![t] = TsdGet(t)]
          /\ Goto(t, "store")
          /\ UNCHANGED <<allocated, data>>
       \/ /\ TsdGet(t) = NULL
          /\ \E i \in Items \ allocated :
                /\ tsd' = [tsd EXCEPT ![t] = i]
                /\ allocated' = allocated \cup {i}
                /\ data' = [data EXCEPT ![i] = NULL]
          /\ Goto(t, "append")
    /\ UNCHANGED <<key, tsd_list, user_destructor, slot, dying, fate>>

(* Leaves the new item out of the list. *)
BugAppendNothing(t) == Move(t, "append", "store")

(* list_append under key->mutex *)
AppendItem(t) ==
    /\ pc[t] = "append"
    /\ tsd_list' = tsd_list \cup {tsd[t]}
    /\ Goto(t, "store")
    /\ UNCHANGED <<key, user_destructor, allocated, data, slot, ret, tsd, arg, dying, fate>>

(* A value that is overwritten is the caller's again. *)
Replace(f, old, new) ==
    [v \in Values |-> IF v = new THEN "held"
                      ELSE IF v = old /\ f[v] = "held" THEN "replaced" ELSE f[v]]

(* The value is stored before tsd_set: if that fails for a new item, the   *)
(* item stays in the list without a thread.                                *)
StoreValue(t) ==
    /\ pc[t] = "store"
    /\ data' = [data EXCEPT ![tsd[t]] = arg[t]]
    /\ fate' = Replace(fate, data[tsd[t]], arg[t])
    /\ TsdSet(t, tsd[t])
    /\ Goto(t, ret[t])
    /\ tsd' = [tsd EXCEPT ![t] = NULL]
    /\ arg' = [arg EXCEPT ![t] = NULL]
    /\ UNCHANGED <<key, tsd_list, user_destructor, allocated, ret, dying>>

-----------------------------------------------------------------------------
(* The exit of a thread.  The backend clears the slot, calls               *)
(* _tracked_destructor, and may do so again if the slot was set again.     *)

BeginExit(t) ==
    /\ key = "live"
    /\ pc[t] \in {"run", "exiting"}
    /\ slot[t] # NULL
    /\ dying' = [dying EXCEPT ![t] = slot[t]]
    /\ slot' = [slot EXCEPT ![t] = NULL]
    /\ Goto(t, "remove")
    /\ UNCHANGED <<key, tsd_list, user_destructor, allocated, data, ret, tsd, arg, fate>>

(* Nothing to destroy, destroyed often enough, or the key is gone. *)
EndExit(t) ==
    \/ (slot[t] = NULL \/ key # "live") /\ Move(t, "run", "exited")
    \/ Move(t, "exiting", "exited")

(* Leaves the item in the list. *)
BugRemoveNothing(t) == Move(t, "remove", "call_user")

(* list_remove_item under key->mutex *)
RemoveItem(t) ==
    /\ pc[t] = "remove"
    /\ tsd_list' = tsd_list \ {dying[t]}
    /\ Goto(t, "call_user")
    /\ UNCHANGED <<key, user_destructor, allocated, data, slot, ret, tsd, arg, dying, fate>>

(* What the end of its item means for a value: the user's destructor is    *)
(* called with it, if there is one.                                        *)
DestroyValue(v) ==
    fate' = [w \in Values |->
        IF w # v THEN fate[w]
        ELSE IF ~user_destructor THEN "dropped"
        ELSE IF fate[w] = "destroyed" THEN "twice" ELSE "destroyed"]

CallUser(t) ==
    /\ pc[t] = "call_user"
    /\ DestroyValue(data[dying[t]])
    /\ Goto(t, IF user_destructor THEN "in_user" ELSE "release")
    /\ UNCHANGED <<key, tsd_list, user_destructor, allocated, data, slot, ret, tsd, arg, dying>>

UserReturns(t) == Move(t, "in_user", "release")

(* Does not release the item. *)
BugReleaseNothing(t) == Move(t, "release", "exiting")

(* OBJ_RELEASE(tsd) *)
ReleaseItem(t) ==
    /\ pc[t] = "release"
    /\ allocated' = allocated \ {dying[t]}
    /\ dying' = [dying EXCEPT ![t] = NULL]
    /\ Goto(t, "exiting")
    /\ UNCHANGED <<key, tsd_list, user_destructor, data, slot, ret, tsd, arg, fate>>

-----------------------------------------------------------------------------
(* tsd_tracked_key_destructor *)

(* tsd_key_delete, when the client's contract allows it. *)
DeleteKey ==
    /\ key = "live"
    /\ \A t \in Threads : pc[t] \in {"run", "exited"}
    /\ key' = "deleted"
    /\ UNCHANGED <<tsd_list, user_destructor, allocated, data, slot, thread, fate>>

(* One turn of LIST_FOREACH_SAFE. *)
DestroyItem(i) ==
    /\ key = "deleted"
    /\ i \in tsd_list
    /\ tsd_list' = tsd_list \ {i}
    /\ DestroyValue(data[i])
    /\ allocated' = allocated \ {i}
    /\ UNCHANGED <<key, user_destructor, data, slot, thread>>

EndKey ==
    /\ key = "deleted" /\ key' = "destroyed"
    /\ UNCHANGED <<tsd_list, user_destructor, allocated, data, slot, thread, fate>>

(* Does not walk the list. *)
BugDestroyKey == EndKey

DestroyKey == tsd_list = {} /\ EndKey

-----------------------------------------------------------------------------

ThreadStep(t) ==
    \/ \E p \in Values : BeginSet(t, p)
    \/ AppendItem(t) \/ StoreValue(t)
    \/ BeginExit(t) \/ EndExit(t)
    \/ RemoveItem(t) \/ CallUser(t) \/ UserReturns(t) \/ ReleaseItem(t)

(* The key is gone and so are the threads. *)
Finished ==
    /\ key = "destroyed"
    /\ \A t \in Threads : pc[t] = "exited"
    /\ UNCHANGED vars

Next ==
    \/ SetDestructor
    \/ \E t \in Threads : ThreadStep(t)
    \/ DeleteKey
    \/ \E i \in Items : DestroyItem(i)
    \/ DestroyKey
    \/ Finished

Spec == Init /\ [][Next]_vars

-----------------------------------------------------------------------------
(* Properties *)

Optional(S) == S \cup {NULL}

SetPcs  == {"append", "store"}
ExitPcs == {"remove", "call_user", "in_user", "release"}

(* Every variable has its type; a thread inside a set has an item and a    *)
(* value, one inside _tracked_destructor has an item.                      *)
TypeOK ==
    /\ key \in {"live", "deleted", "destroyed"}
    /\ tsd_list \subseteq Items /\ allocated \subseteq Items
    /\ user_destructor \in BOOLEAN
    /\ data \in [Items -> Optional(Values)]
    /\ slot \in [Threads -> Optional(Items)]
    /\ pc \in [Threads -> SetPcs \cup ExitPcs \cup {"run", "exiting", "exited"}]
    /\ ret \in [Threads -> {"run", "in_user"}]
    /\ tsd \in [Threads -> Optional(Items)] /\ arg \in [Threads -> Optional(Values)]
    /\ dying \in [Threads -> Optional(Items)]
    /\ fate \in [Values -> {"unused", "held", "replaced", "destroyed", "dropped", "twice"}]
    /\ \A t \in Threads :
        /\ pc[t] \in SetPcs <=> tsd[t] # NULL
        /\ pc[t] \in SetPcs <=> arg[t] # NULL
        /\ (pc[t] \in ExitPcs \/ (pc[t] \in SetPcs /\ ret[t] = "in_user")) <=> dying[t] # NULL

(* While the key lives, a thread's slot leads to an item that exists, is   *)
(* in the list, and is nobody else's: neither another thread's nor one     *)
(* that is being destroyed, however memory is reused.  What                *)
(* tsd_tracked_key_get returns has been neither replaced nor destroyed.    *)
SlotsAreSafe ==
    key = "live" => \A t \in Threads : slot[t] # NULL =>
        /\ slot[t] \in tsd_list \cap allocated
        /\ \A u \in Threads : dying[u] # slot[t] /\ (u # t => slot[u] # slot[t] /\ tsd[u] # slot[t])
        /\ fate[Get(t)] = "held"

(* No value is handed to the user's destructor twice: not by two threads,  *)
(* and not by a thread's exit and the key's destructor.                    *)
DestroyedOnce == \A v \in Values : fate[v] # "twice"

(* When the key is destroyed no item and no value is left over: each       *)
(* value was replaced, or handed to the user's destructor, or dropped      *)
(* because there was none.  Threads that failed to store their item, and   *)
(* threads that set the key again while they exited, are no exception.     *)
NothingLost ==
    key = "destroyed" => allocated = {} /\ \A v \in Values : fate[v] # "held"

=============================================================================
