--------------------------- MODULE FirstUseProofs ---------------------------
(***************************************************************************)
(* Proofs, for any set of threads and any number of calls, that the first  *)
(* use of a backend creates the Qthreads key once and shows it to everyone *)
(* who has passed self_key_ensure_init, and that Argobots runs before it   *)
(* is used.                                                                *)
(***************************************************************************)
EXTENDS FirstUse, TLAPS

Stores == [{"key", "init"} -> Nat]

SelfPcs == {"test", "lock", "recheck", "create", "barrier", "flag", "unlock", "ready",
            "found"}
TsdPcs  == {"ensure", "init", "use"}
LockPcs == {"recheck", "create", "barrier", "flag", "unlock"}

TypeInv ==
    /\ thread_self_key_lock \in Threads \cup {NULL}
    /\ memory \in Stores /\ buffer \in [Threads -> Stores]
    /\ loaded \in [Threads -> Nat \cup {NULL}]
    /\ created \in Nat /\ inits \in Nat /\ key \in BOOLEAN
    /\ op \in [Threads -> DOMAIN Prefix \cup {"none"}]
    /\ pc \in [Threads -> SelfPcs \cup TsdPcs \cup {"idle"}]
    /\ calls \in Nat

(* The critical section of thread_self_key_lock. *)
LockInv == \A t \in Threads : pc[t] \in LockPcs <=> thread_self_key_lock = t

(* A store of the handle waits only before the barrier, one of the flag    *)
(* only after it.                                                          *)
BufferInv ==
    \A t \in Threads :
        /\ buffer[t]["key"] # 0 => pc[t] = "barrier" /\ buffer[t]["key"] = created
        /\ buffer[t]["init"] # 0 => pc[t] = "unlock"

(* Who is about to create the key is the first; the handle reaches memory  *)
(* before the flag does; and the lock is not free between the creation and *)
(* the flag.                                                               *)
KeyInv ==
    /\ created <= 1
    /\ memory["key"] \in {0, created} /\ (memory["init"] # 0 => memory["key"] = 1)
    /\ \A t \in Threads :
        /\ pc[t] = "create" => created = 0
        /\ pc[t] = "barrier" => created = 1 /\ Load(t, "key") = 1
        /\ pc[t] \in {"flag", "unlock", "ready", "found"} => memory["key"] = 1
        /\ pc[t] = "unlock" => Load(t, "init") # 0
    /\ created = 1 => \/ memory["init"] # 0
                      \/ \E t \in Threads : pc[t] \in {"barrier", "flag", "unlock"}

(* An early load found nothing or the handle; the one of a thread that has *)
(* the lock found what is in memory still, since nobody else stores it.    *)
LoadInv ==
    \A t \in Threads :
        /\ loaded[t] \in {NULL, 0, 1}
        /\ pc[t] = "recheck" => loaded[t] \in {NULL, memory["key"]}
        /\ pc[t] \in {"barrier", "flag"} => loaded[t] = NULL
        /\ pc[t] \in {"unlock", "ready"} => loaded[t] \in {NULL, 1}

(* A key exists only in a library that runs. *)
LibraryInv == (key => inits > 0) /\ LibraryReady

Inv == TypeInv /\ LockInv /\ BufferInv /\ KeyInv /\ LoadInv /\ LibraryInv

-----------------------------------------------------------------------------

LEMMA InitInv == Init => Inv
  <1> SUFFICES ASSUME Init PROVE Inv
    OBVIOUS
  <1> USE DEF Init
  <1>1. TypeInv
    BY DEF TypeInv, Nothing, Stores, SelfPcs, TsdPcs
  <1>2. LockInv
    BY FirstUseAssumption DEF LockInv, LockPcs
  <1>3. BufferInv /\ KeyInv /\ LoadInv
    BY DEF BufferInv, KeyInv, LoadInv, Nothing
  <1>4. LibraryInv
    BY DEF LibraryInv, LibraryReady
  <1> QED  BY <1>1, <1>2, <1>3, <1>4 DEF Inv

LEMMA StoreType ==
  ASSUME TypeInv, NEW t \in Threads, NEW x \in {"key", "init"}, NEW v \in Nat, Store(t, x, v)
  PROVE  buffer' \in [Threads -> Stores]
  <1>1. buffer[t] \in Stores /\ [buffer[t] EXCEPT ![x] = v] \in Stores
    BY DEF TypeInv, Stores
  <1>2. buffer' = [buffer EXCEPT ![t] = [buffer[t] EXCEPT ![x] = v]]
    BY DEF Store
  <1> QED  BY <1>1, <1>2 DEF TypeInv

LEMMA TypeStep == Inv /\ [Next]_vars => TypeInv'
  <1> SUFFICES ASSUME Inv, [Next]_vars PROVE TypeInv'
    OBVIOUS
  <1> USE DEF Inv, TypeInv, Stores, SelfPcs, TsdPcs, Goto, self, abt
  <1>1. ASSUME NEW t \in Threads, Step(t) PROVE TypeInv'
    <2>1. CASE SelfTest(t) \/ SelfLock(t) \/ SelfRecheck(t) \/ SelfBarrier(t) \/ SelfDone(t)
      BY <2>1 DEF SelfTest, SelfLock, SelfRecheck, SelfBarrier, SelfDone, Forget
    <2>2. CASE SelfCreate(t)
      <3>1. created' \in Nat /\ Store(t, "key", created')
        BY <2>2 DEF SelfCreate
      <3>2. buffer' \in [Threads -> Stores]
        BY <3>1, StoreType DEF Inv
      <3> QED  BY <2>2, <3>1, <3>2 DEF SelfCreate, Forget
    <2>3. CASE SelfSetFlag(t)
      <3>1. buffer' \in [Threads -> Stores]
        <4>1. Store(t, "init", 1)
          BY <2>3 DEF SelfSetFlag
        <4> QED  BY <4>1, StoreType DEF Inv
      <3> QED  BY <2>3, <3>1 DEF SelfSetFlag
    <2>7. CASE SelfUnlock(t)
      BY <2>7 DEF SelfUnlock
    <2>4. CASE EnsureInit(t) \/ AbtInit(t)
      BY <2>4 DEF EnsureInit, AbtInit
    <2>5. CASE Use(t)
      <3>1. key' \in BOOLEAN
        BY <2>5 DEF Use
      <3> QED  BY <2>5, <3>1 DEF Use
    <2>6. ASSUME NEW x \in {"key", "init"}, Flush(t, x) PROVE TypeInv'
      <3>1. buffer' \in [Threads -> Stores]
        <4>1. Store(t, x, 0)
          BY <2>6 DEF Flush
        <4> QED  BY <4>1, StoreType DEF Inv
      <3>2. memory' \in Stores
        BY <2>6 DEF Flush
      <3> QED  BY <2>6, <3>1, <3>2 DEF Flush
    <2> QED  BY <1>1, <2>1, <2>2, <2>3, <2>4, <2>5, <2>6, <2>7 DEF Step
  <1>2. ASSUME NEW t \in Threads, SelfCall(t) PROVE TypeInv'
    BY <1>2 DEF SelfCall, Begin
  <1>5. ASSUME NEW t \in Threads, Prefetch(t) PROVE TypeInv'
    BY <1>5 DEF Prefetch, Load
  <1>3. ASSUME NEW t \in Threads, NEW o \in DOMAIN Prefix, TsdCall(t, o) PROVE TypeInv'
    <2>1. Prefix[o] \in {"ensure", "use"}
      BY DEF Prefix
    <2> QED  BY <1>3, <2>1 DEF TsdCall, Begin
  <1>4. CASE UNCHANGED vars
    BY <1>4 DEF vars
  <1> QED  BY <1>1, <1>2, <1>3, <1>4, <1>5 DEF Next, Finished

LEMMA LockStep == Inv /\ [Next]_vars => LockInv'
  <1> SUFFICES ASSUME Inv, [Next]_vars PROVE LockInv'
    OBVIOUS
  <1> USE FirstUseAssumption DEF Inv, TypeInv, LockInv, LockPcs, Goto, self, abt
  <1>1. ASSUME NEW t \in Threads, Step(t) PROVE LockInv'
    BY <1>1 DEF Step, SelfTest, SelfLock, SelfRecheck, SelfCreate, SelfBarrier,
       SelfSetFlag, SelfUnlock, SelfDone, EnsureInit, AbtInit, Use, Flush
  <1>2. ASSUME NEW t \in Threads, SelfCall(t) \/ Prefetch(t) PROVE LockInv'
    BY <1>2 DEF SelfCall, Begin, Prefetch
  <1>3. ASSUME NEW t \in Threads, NEW o \in DOMAIN Prefix, TsdCall(t, o) PROVE LockInv'
    <2>1. Prefix[o] \in {"ensure", "use"}
      BY DEF Prefix
    <2> QED  BY <1>3, <2>1 DEF TsdCall, Begin
  <1>4. CASE UNCHANGED vars
    BY <1>4 DEF vars
  <1> QED  BY <1>1, <1>2, <1>3, <1>4 DEF Next, Finished

(* The steps of self_key_ensure_init, and stores that reach memory. *)
LEMMA KeyStep == Inv /\ [Next]_vars => BufferInv' /\ KeyInv'
  <1> SUFFICES ASSUME Inv, [Next]_vars PROVE BufferInv' /\ KeyInv'
    OBVIOUS
  <1> USE DEF Inv, TypeInv, Stores, LockInv, LockPcs, BufferInv, KeyInv, Load, Goto, self, abt
  <1>1. ASSUME NEW t \in Threads, Step(t) PROVE BufferInv' /\ KeyInv'
    <2>1. CASE SelfTest(t)
      BY <2>1 DEF SelfTest
    <2>2. CASE SelfLock(t)
      BY <2>2 DEF SelfLock
    <2>3. CASE SelfRecheck(t)
      BY <2>3 DEF SelfRecheck
    <2>4. CASE SelfCreate(t)
      BY <2>4 DEF SelfCreate, Store
    <2>5. CASE SelfBarrier(t)
      BY <2>5 DEF SelfBarrier, Flushed, Nothing
    <2>6. CASE SelfSetFlag(t)
      BY <2>6 DEF SelfSetFlag, Store
    <2>7. CASE SelfUnlock(t)
      BY <2>7 DEF SelfUnlock, Flushed, Nothing
    <2>8. CASE SelfDone(t) \/ EnsureInit(t) \/ AbtInit(t) \/ Use(t)
      BY <2>8 DEF SelfDone, EnsureInit, AbtInit, Use
    <2>9. CASE Flush(t, "key")
      BY <2>9 DEF Flush, Store
    <2>10. CASE Flush(t, "init")
      BY <2>10 DEF Flush, Store
    <2> QED  BY <1>1, <2>1, <2>2, <2>3, <2>4, <2>5, <2>6, <2>7, <2>8, <2>9, <2>10 DEF Step
  <1>2. ASSUME NEW t \in Threads, SelfCall(t) \/ Prefetch(t) PROVE BufferInv' /\ KeyInv'
    BY <1>2 DEF SelfCall, Begin, Prefetch
  <1>3. ASSUME NEW t \in Threads, NEW o \in DOMAIN Prefix, TsdCall(t, o)
        PROVE  BufferInv' /\ KeyInv'
    <2>1. Prefix[o] \in {"ensure", "use"}
      BY DEF Prefix
    <2> QED  BY <1>3, <2>1 DEF TsdCall, Begin
  <1>4. CASE UNCHANGED vars
    BY <1>4 DEF vars
  <1> QED  BY <1>1, <1>2, <1>3, <1>4 DEF Next, Finished

(* Early loads. *)
LEMMA LoadStep == Inv /\ [Next]_vars => LoadInv'
  <1> SUFFICES ASSUME Inv, [Next]_vars PROVE LoadInv'
    OBVIOUS
  <1> USE DEF Inv, TypeInv, Stores, LockInv, LockPcs, BufferInv, KeyInv, LoadInv, Goto, self, abt
  <1>1. ASSUME NEW t \in Threads, Step(t) PROVE LoadInv'
    <2>1. CASE SelfTest(t)
      BY <2>1 DEF SelfTest
    <2>2. CASE SelfLock(t) \/ SelfDone(t)
      BY <2>2 DEF SelfLock, SelfDone, Forget
    <2>3. CASE SelfRecheck(t)
      BY <2>3 DEF SelfRecheck, Load
    <2>4. CASE SelfCreate(t)
      BY <2>4 DEF SelfCreate, Forget
    <2>5. CASE SelfBarrier(t) \/ SelfSetFlag(t) \/ SelfUnlock(t)
      BY <2>5 DEF SelfBarrier, SelfSetFlag, SelfUnlock
    <2>6. CASE EnsureInit(t) \/ AbtInit(t) \/ Use(t)
      BY <2>6 DEF EnsureInit, AbtInit, Use
    <2>7. CASE Flush(t, "init")
      <3>1. memory'["key"] = memory["key"] /\ loaded' = loaded /\ pc' = pc
        BY <2>7 DEF Flush
      <3> QED  BY <3>1
    <2>8. CASE Flush(t, "key")
      <3>1. pc[t] = "barrier" /\ loaded' = loaded /\ pc' = pc
        BY <2>8 DEF Flush
      <3>2. \A u \in Threads : pc[u] # "recheck"
        BY <3>1
      <3> QED  BY <3>1, <3>2
    <2> QED  BY <1>1, <2>1, <2>2, <2>3, <2>4, <2>5, <2>6, <2>7, <2>8 DEF Step
  <1>2. ASSUME NEW t \in Threads, SelfCall(t) PROVE LoadInv'
    BY <1>2 DEF SelfCall, Begin
  <1>3. ASSUME NEW t \in Threads, NEW o \in DOMAIN Prefix, TsdCall(t, o) PROVE LoadInv'
    <2>1. Prefix[o] \in {"ensure", "use"}
      BY DEF Prefix
    <2> QED  BY <1>3, <2>1 DEF TsdCall, Begin
  <1>4. ASSUME NEW t \in Threads, Prefetch(t) PROVE LoadInv'
    <2>1. Load(t, "key") = memory["key"] /\ memory["key"] \in {0, 1}
      BY <1>4 DEF Prefetch, Load
    <2> QED  BY <1>4, <2>1 DEF Prefetch
  <1>5. CASE UNCHANGED vars
    BY <1>5 DEF vars
  <1> QED  BY <1>1, <1>2, <1>3, <1>4, <1>5 DEF Next, Finished

(* Get and delete do not look, but they need a key. *)
LEMMA LibraryStep == Inv /\ [Next]_vars => LibraryInv'
  <1> SUFFICES ASSUME Inv, [Next]_vars PROVE LibraryInv'
    OBVIOUS
  <1> USE DEF Inv, TypeInv, LibraryInv, LibraryReady, Goto, self, abt
  <1>1. ASSUME NEW t \in Threads, Step(t) PROVE LibraryInv'
    BY <1>1 DEF Step, SelfTest, SelfLock, SelfRecheck, SelfCreate, SelfBarrier,
       SelfSetFlag, SelfUnlock, SelfDone, EnsureInit, AbtInit, Use, Flush
  <1>2. ASSUME NEW t \in Threads, SelfCall(t) \/ Prefetch(t) PROVE LibraryInv'
    BY <1>2 DEF SelfCall, Begin, Prefetch
  <1>3. ASSUME NEW t \in Threads, NEW o \in DOMAIN Prefix, TsdCall(t, o) PROVE LibraryInv'
    <2>1. Prefix[o] \in {"ensure", "use"} /\ (o = "create" => Prefix[o] = "ensure")
      BY DEF Prefix
    <2> QED  BY <1>3, <2>1 DEF TsdCall, Begin
  <1>4. CASE UNCHANGED vars
    BY <1>4 DEF vars
  <1> QED  BY <1>1, <1>2, <1>3, <1>4 DEF Next, Finished

-----------------------------------------------------------------------------

(* Inv is an inductive invariant of the first use. *)
THEOREM Invariance == Spec => []Inv
  <1>1. Inv /\ [Next]_vars => Inv'
    BY TypeStep, LockStep, KeyStep, LoadStep, LibraryStep DEF Inv
  <1> QED  BY <1>1, InitInv, PTL DEF Spec

(* Whoever returns from self_key_ensure_init through the lock has the      *)
(* handle that was created, and so has whoever found the flag without the  *)
(* lock, except for a load of the handle that the machine did before the   *)
(* load of the flag.  Stores and loads of both are plain and may be        *)
(* reordered.                                                              *)
THEOREM KeyVisibleCorrect == Spec => []KeyVisible
  <1>1. Inv => KeyVisible
    <2> SUFFICES ASSUME Inv, NEW t \in Threads
                 PROVE  /\ pc[t] \in {"found", "ready"} => created # 0
                        /\ pc[t] = "ready" => Handle(t) = created
                        /\ pc[t] = "found" => Handle(t) = created \/ loaded[t] = 0
      BY DEF KeyVisible
    <2>1. pc[t] \in {"found", "ready"} => created = 1 /\ Load(t, "key") = 1
      BY DEF Inv, TypeInv, Stores, BufferInv, KeyInv, Load
    <2> QED  BY <2>1 DEF Inv, LoadInv, Handle
  <1> QED  BY <1>1, Invariance, PTL

(* The race of the first callers creates the key once. *)
THEOREM KeyCreatedOnceCorrect == Spec => []KeyCreatedOnce
  <1>1. Inv => KeyCreatedOnce
    BY DEF Inv, KeyInv, KeyCreatedOnce
  <1> QED  BY <1>1, Invariance, PTL

(* No key operation of Argobots runs before ABT_init. *)
THEOREM LibraryReadyCorrect == Spec => []LibraryReady
  <1>1. Inv => LibraryReady
    BY DEF Inv, LibraryInv
  <1> QED  BY <1>1, Invariance, PTL

=============================================================================
