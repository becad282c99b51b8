-------------------------- MODULE TrackedKeyProofs --------------------------
(***************************************************************************)
(* Proofs, for any threads, items and values, that tracked thread-specific *)
(* data is safe to read, destroyed once, and never left over.              *)
(***************************************************************************)
EXTENDS TrackedKey, TLAPS

(* An item that exists is in the list, or on its way into it or out of it. *)
ItemInv ==
    /\ tsd_list \subseteq allocated
    /\ \A t \in Threads :
        /\ pc[t] = "append" => tsd[t] \in allocated \ tsd_list
        /\ pc[t] = "store" => tsd[t] \in tsd_list
        /\ pc[t] = "remove" => dying[t] \in tsd_list
        /\ dying[t] # NULL /\ pc[t] # "remove" => dying[t] \in allocated \ tsd_list
    /\ \A i \in allocated \ tsd_list : \E t \in Threads :
        \/ pc[t] = "append" /\ tsd[t] = i
        \/ pc[t] # "remove" /\ dying[t] = i

(* Nobody works on another thread's item. *)
OwnerInv ==
    \A t, u \in Threads :
        /\ tsd[t] # NULL => tsd[t] # dying[u] /\ (t # u => tsd[t] # tsd[u])
        /\ dying[t] # NULL /\ t # u => dying[t] # dying[u]

SlotInv ==
    key = "live" => \A t \in Threads : slot[t] # NULL =>
        /\ slot[t] \in tsd_list /\ data[slot[t]] # NULL
        /\ tsd[t] \in {NULL, slot[t]}
        /\ \A u \in Threads : dying[u] # slot[t] /\ (u # t => slot[u] # slot[t] /\ tsd[u] # slot[t])

(* A value is in one item for good; it is held as long as that item is in  *)
(* the list, or has left it with the user's destructor still to be called. *)
ValueInv ==
    /\ \A i, j \in Items : data[i] # NULL /\ data[i] = data[j] => i = j
    /\ \A i \in Items : data[i] # NULL => fate[data[i]] # "unused"
    /\ \A t \in Threads : arg[t] # NULL =>
        fate[arg[t]] = "unused" /\ \A u \in Threads : t # u => arg[t] # arg[u]
    /\ \A t \in Threads : pc[t] = "append" => data[tsd[t]] = NULL
    /\ \A i \in tsd_list : data[i] # NULL => fate[data[i]] = "held"
    /\ \A t \in Threads : pc[t] = "call_user" /\ data[dying[t]] # NULL
                            => fate[data[dying[t]]] = "held"
    /\ \A v \in Values : fate[v] = "held" =>
        \E i \in Items : /\ data[i] = v
                         /\ \/ i \in tsd_list
                            \/ \E t \in Threads : pc[t] = "call_user" /\ dying[t] = i
    /\ DestroyedOnce

(* The key goes while no thread uses it. *)
KeyInv ==
    /\ key # "live" => \A t \in Threads : pc[t] \in {"run", "exited"}
    /\ key = "destroyed" => tsd_list = {}

Inv == TypeOK /\ ItemInv /\ OwnerInv /\ SlotInv /\ ValueInv /\ KeyInv

-----------------------------------------------------------------------------

LEMMA InitInv == Init => Inv
  <1> SUFFICES ASSUME Init PROVE Inv
    OBVIOUS
  <1> USE DistinctAssumption DEF Init
  <1>1. TypeOK
    BY DEF TypeOK, Optional, SetPcs, ExitPcs
  <1>2. ItemInv /\ OwnerInv /\ SlotInv /\ KeyInv
    BY DEF ItemInv, OwnerInv, SlotInv, KeyInv
  <1>3. ValueInv
    BY DEF ValueInv, DestroyedOnce
  <1> QED  BY <1>1, <1>2, <1>3 DEF Inv

(* A value that is stored or destroyed has a fate of its type. *)
LEMMA ReplaceType ==
  ASSUME TypeOK, NEW x, NEW y
  PROVE  Replace(fate, x, y) \in [Values -> {"unused", "held", "replaced", "destroyed", "dropped", "twice"}]
  BY DEF TypeOK, Replace

LEMMA DestroyType ==
  ASSUME TypeOK, NEW x, DestroyValue(x)
  PROVE  fate' \in [Values -> {"unused", "held", "replaced", "destroyed", "dropped", "twice"}]
  BY DEF TypeOK, DestroyValue

LEMMA TypeStep == Inv /\ [Next]_vars => TypeOK'
  <1> SUFFICES ASSUME Inv, [Next]_vars PROVE TypeOK'
    OBVIOUS
  <1> USE DistinctAssumption
      DEF Inv, TypeOK, Optional, SetPcs, ExitPcs, Goto, Move, TsdGet, TsdSet, thread
  <1>1. CASE SetDestructor
    BY <1>1 DEF SetDestructor
  <1>2. ASSUME NEW t \in Threads, NEW p \in Values, BeginSet(t, p) PROVE TypeOK'
    BY <1>2 DEF BeginSet
  <1>3. ASSUME NEW t \in Threads, StoreValue(t) PROVE TypeOK'
    BY <1>3, ReplaceType DEF StoreValue
  <1>4. ASSUME NEW t \in Threads, CallUser(t) PROVE TypeOK'
    BY <1>4, DestroyType DEF CallUser
  <1>5. ASSUME NEW t \in Threads, AppendItem(t) \/ RemoveItem(t) \/ ReleaseItem(t) PROVE TypeOK'
    BY <1>5 DEF AppendItem, RemoveItem, ReleaseItem
  <1>6. ASSUME NEW t \in Threads, BeginExit(t) \/ EndExit(t) \/ UserReturns(t) PROVE TypeOK'
    BY <1>6 DEF BeginExit, EndExit, UserReturns
  <1>7. ASSUME NEW i \in Items, DestroyItem(i) PROVE TypeOK'
    BY <1>7, DestroyType DEF DestroyItem
  <1>8. CASE DeleteKey \/ DestroyKey
    BY <1>8 DEF DeleteKey, DestroyKey, EndKey
  <1>9. CASE UNCHANGED vars
    BY <1>9 DEF vars
  <1> QED  BY <1>1, <1>2, <1>3, <1>4, <1>5, <1>6, <1>7, <1>8, <1>9 DEF Next, ThreadStep, Finished


(* The list and the memory of the items. *)
LEMMA ItemStep == Inv /\ [Next]_vars => ItemInv'
  <1> SUFFICES ASSUME Inv, [Next]_vars PROVE ItemInv'
    OBVIOUS
  <1> USE DistinctAssumption
      DEF Inv, TypeOK, Optional, SetPcs, ExitPcs, ItemInv, Goto, Move, TsdGet, thread
  <1>1. ASSUME NEW t \in Threads, NEW p \in Values, BeginSet(t, p) PROVE ItemInv'
    BY <1>1 DEF BeginSet, SlotInv
  <1>2. ASSUME NEW t \in Threads, AppendItem(t) PROVE ItemInv'
    BY <1>2 DEF AppendItem, OwnerInv
  <1>3. ASSUME NEW t \in Threads, StoreValue(t) PROVE ItemInv'
    BY <1>3 DEF StoreValue
  <1>4. ASSUME NEW t \in Threads, BeginExit(t) PROVE ItemInv'
    BY <1>4 DEF BeginExit, SlotInv
  <1>5. ASSUME NEW t \in Threads, RemoveItem(t) PROVE ItemInv'
    BY <1>5 DEF RemoveItem, OwnerInv
  <1>6. ASSUME NEW t \in Threads, CallUser(t) \/ UserReturns(t) \/ EndExit(t) PROVE ItemInv'
    BY <1>6 DEF CallUser, UserReturns, EndExit
  <1>7. ASSUME NEW t \in Threads, ReleaseItem(t) PROVE ItemInv'
    BY <1>7 DEF ReleaseItem, OwnerInv
  <1>8. ASSUME NEW i \in Items, DestroyItem(i) PROVE ItemInv'
    BY <1>8 DEF DestroyItem, KeyInv
  <1>9. CASE SetDestructor \/ DeleteKey \/ DestroyKey \/ UNCHANGED vars
    BY <1>9 DEF SetDestructor, DeleteKey, DestroyKey, EndKey, vars
  <1> QED  BY <1>1, <1>2, <1>3, <1>4, <1>5, <1>6, <1>7, <1>8, <1>9 DEF Next, ThreadStep, Finished

(* An item changes hands only between a thread and its own destructor. *)
LEMMA OwnerStep == Inv /\ [Next]_vars => OwnerInv'
  <1> SUFFICES ASSUME Inv, [Next]_vars PROVE OwnerInv'
    OBVIOUS
  <1> USE DistinctAssumption
      DEF Inv, TypeOK, Optional, SetPcs, ExitPcs, OwnerInv, Goto, Move, TsdGet, thread
  <1>1. ASSUME NEW t \in Threads, NEW p \in Values, BeginSet(t, p) PROVE OwnerInv'
    BY <1>1 DEF BeginSet, SlotInv, ItemInv
  <1>2. ASSUME NEW t \in Threads, BeginExit(t) PROVE OwnerInv'
    BY <1>2 DEF BeginExit, SlotInv
  <1>3. ASSUME NEW t \in Threads, StoreValue(t) \/ ReleaseItem(t) PROVE OwnerInv'
    BY <1>3 DEF StoreValue, ReleaseItem
  <1>4. ASSUME NEW t \in Threads, AppendItem(t) \/ RemoveItem(t) \/ CallUser(t)
                                   \/ UserReturns(t) \/ EndExit(t)
        PROVE  OwnerInv'
    BY <1>4 DEF AppendItem, RemoveItem, CallUser, UserReturns, EndExit
  <1>5. ASSUME NEW i \in Items, DestroyItem(i) PROVE OwnerInv'
    BY <1>5 DEF DestroyItem
  <1>6. CASE SetDestructor \/ DeleteKey \/ DestroyKey \/ UNCHANGED vars
    BY <1>6 DEF SetDestructor, DeleteKey, DestroyKey, EndKey, vars
  <1> QED  BY <1>1, <1>2, <1>3, <1>4, <1>5, <1>6 DEF Next, ThreadStep, Finished

(* A slot is set to the item of the set, whether tsd_set fails or not, and *)
(* cleared before the item is destroyed.                                   *)
LEMMA SlotStep == Inv /\ [Next]_vars => SlotInv'
  <1> SUFFICES ASSUME Inv, [Next]_vars PROVE SlotInv'
    OBVIOUS
  <1> USE DistinctAssumption
      DEF Inv, TypeOK, Optional, SetPcs, ExitPcs, SlotInv, Goto, Move, TsdGet, thread
  <1>1. ASSUME NEW t \in Threads, NEW p \in Values, BeginSet(t, p) PROVE SlotInv'
    BY <1>1 DEF BeginSet, ItemInv
  <1>2. ASSUME NEW t \in Threads, StoreValue(t) PROVE SlotInv'
    <2>1. /\ tsd[t] \in tsd_list /\ tsd[t] \in Items /\ arg[t] # NULL
          /\ \A u \in Threads : dying[u] # tsd[t] /\ (u # t => tsd[u] # tsd[t])
      BY <1>2 DEF StoreValue, ItemInv, OwnerInv
    <2>2. slot'[t] \in {slot[t], tsd[t]} /\ \A u \in Threads : u # t => slot'[u] = slot[u]
      BY <1>2 DEF StoreValue, TsdSet
    <2>3. key = "live" => \A u \in Threads : u # t => slot[u] # tsd[t]
      BY <2>1
    <2>4. data'[tsd[t]] # NULL /\ \A i \in Items : i # tsd[t] => data'[i] = data[i]
      BY <1>2, <2>1 DEF StoreValue
    <2>5. /\ UNCHANGED <<key, tsd_list, dying>>
          /\ tsd'[t] = NULL /\ \A u \in Threads : u # t => tsd'[u] = tsd[u]
      BY <1>2 DEF StoreValue
    <2> QED  BY <2>1, <2>2, <2>3, <2>4, <2>5
  <1>3. ASSUME NEW t \in Threads, BeginExit(t) PROVE SlotInv'
    BY <1>3 DEF BeginExit
  <1>4. ASSUME NEW t \in Threads, AppendItem(t) \/ CallUser(t) \/ UserReturns(t) \/ EndExit(t)
        PROVE  SlotInv'
    BY <1>4 DEF AppendItem, CallUser, UserReturns, EndExit
  <1>5. ASSUME NEW t \in Threads, RemoveItem(t) \/ ReleaseItem(t) PROVE SlotInv'
    BY <1>5 DEF RemoveItem, ReleaseItem
  <1>6. ASSUME NEW i \in Items, DestroyItem(i) PROVE SlotInv'
    BY <1>6 DEF DestroyItem
  <1>7. CASE SetDestructor \/ DeleteKey \/ DestroyKey \/ UNCHANGED vars
    BY <1>7 DEF SetDestructor, DeleteKey, DestroyKey, EndKey, vars
  <1> QED  BY <1>1, <1>2, <1>3, <1>4, <1>5, <1>6, <1>7 DEF Next, ThreadStep, Finished

LEMMA KeyStep == Inv /\ [Next]_vars => KeyInv'
  <1> SUFFICES ASSUME Inv, [Next]_vars PROVE KeyInv'
    OBVIOUS
  <1> USE DEF Inv, TypeOK, SetPcs, ExitPcs, KeyInv, Goto, Move, thread
  <1>1. ASSUME NEW t \in Threads, ThreadStep(t) PROVE KeyInv'
    BY <1>1 DEF ThreadStep, BeginSet, AppendItem, StoreValue, BeginExit, EndExit, RemoveItem,
       CallUser, UserReturns, ReleaseItem
  <1>2. ASSUME NEW i \in Items, DestroyItem(i) PROVE KeyInv'
    BY <1>2 DEF DestroyItem
  <1>3. CASE SetDestructor \/ DeleteKey \/ DestroyKey \/ UNCHANGED vars
    BY <1>3 DEF SetDestructor, DeleteKey, DestroyKey, EndKey, vars
  <1> QED  BY <1>1, <1>2, <1>3 DEF Next, Finished

(* What became of the values. *)
LEMMA ValueStep == Inv /\ [Next]_vars => ValueInv'
  <1> SUFFICES ASSUME Inv, [Next]_vars PROVE ValueInv'
    OBVIOUS
  <1> USE DistinctAssumption
      DEF Inv, TypeOK, Optional, SetPcs, ExitPcs, ValueInv, DestroyedOnce, Goto, Move, TsdGet, thread
  <1>1. ASSUME NEW t \in Threads, NEW p \in Values, BeginSet(t, p) PROVE ValueInv'
    <2>1. /\ arg' = [arg EXCEPT ![t] = p] /\ fate[p] = "unused"
          /\ \A u \in Threads : arg[u] # p
          /\ UNCHANGED <<tsd_list, dying, fate>>
      BY <1>1 DEF BeginSet
    <2>2. \A u \in Threads : pc'[u] = "call_user" <=> pc[u] = "call_user"
      BY <1>1 DEF BeginSet
    <2>3. CASE data' = data /\ pc'[t] = "store"
      <3>1. \A u \in Threads : pc'[u] = "append" => pc[u] = "append" /\ u # t /\ tsd'[u] = tsd[u]
        BY <1>1, <2>3 DEF BeginSet
      <3> QED  BY <2>1, <2>2, <2>3, <3>1
    <2>4. ASSUME NEW i \in Items \ allocated, data' = [data EXCEPT ![i] = NULL], tsd'[t] = i
          PROVE  ValueInv'
      <3>1. i \notin tsd_list /\ \A u \in Threads : pc[u] = "call_user" => dying[u] # i
        BY <2>4 DEF ItemInv
      <3>2. data'[i] = NULL /\ \A j \in Items : j # i => data'[j] = data[j]
        BY <2>4
      <3>3. \A u \in Threads : pc[u] = "call_user" => dying[u] \in Items
        OBVIOUS
      <3>4. \A u \in Threads : u # t /\ pc'[u] = "append" =>
              pc[u] = "append" /\ tsd'[u] = tsd[u] /\ tsd[u] \in Items
        BY <1>1 DEF BeginSet
      <3> QED  BY <2>1, <2>2, <2>4, <3>1, <3>2, <3>3, <3>4
    <2> QED  BY <1>1, <2>3, <2>4 DEF BeginSet
  <1>2. ASSUME NEW t \in Threads, StoreValue(t) PROVE ValueInv'
    <2> DEFINE i == tsd[t]  old == data[tsd[t]]  new == arg[t]
    <2>1. /\ i \in tsd_list /\ i \in Items /\ new \in Values
          /\ \A u \in Threads : dying[u] # i
      BY <1>2 DEF StoreValue, ItemInv, OwnerInv
    <2>2. /\ data'[i] = new /\ \A j \in Items : j # i => data'[j] = data[j]
          /\ UNCHANGED <<tsd_list, dying>>
          /\ arg'[t] = NULL /\ \A u \in Threads : u # t => arg'[u] = arg[u]
      BY <1>2, <2>1 DEF StoreValue
    <2>3. /\ fate'[new] = "held"
          /\ old # NULL => fate'[old] = "replaced"
          /\ \A v \in Values : v # new /\ v # old => fate'[v] = fate[v]
      <3>1. fate[new] = "unused" /\ (old # NULL => fate[old] = "held" /\ old \in Values)
        BY <2>1
      <3> QED  BY <1>2, <2>1, <3>1 DEF StoreValue, Replace
    <2>4. \A u \in Threads : pc'[u] = "call_user" => pc[u] = "call_user" /\ u # t
      BY <1>2 DEF StoreValue
    <2>5. \A u \in Threads : pc[u] = "call_user" => pc'[u] = "call_user"
      BY <1>2 DEF StoreValue
    <2>6. \A j \in Items : data[j] # new
      BY <2>1
    <2> HIDE DEF i, old, new
    <2>7. /\ \A j, k \in Items : data'[j] # NULL /\ data'[j] = data'[k] => j = k
          /\ \A j \in Items : data'[j] # NULL => fate'[data'[j]] # "unused"
      BY <2>1, <2>2, <2>3, <2>6
    <2>8. \A u \in Threads : arg'[u] # NULL =>
            fate'[arg'[u]] = "unused" /\ \A w \in Threads : u # w => arg'[u] # arg'[w]
      <3>1. \A u \in Threads : u # t /\ arg[u] # NULL => arg[u] \in Values /\ arg[u] # new /\ arg[u] # old
        BY <2>1 DEF old, new
      <3> QED  BY <2>2, <2>3, <3>1
    <2>9. old = data[i] /\ \A j \in Items : j # i /\ data[j] # NULL =>
             data[j] \in Values /\ data[j] # old /\ data[j] # new
      BY <2>1, <2>6 DEF old, i
    <2>10. \A j \in tsd_list' : data'[j] # NULL => fate'[data'[j]] = "held"
      BY <2>1, <2>2, <2>3, <2>9
    <2>11. \A u \in Threads : pc'[u] = "call_user" /\ data'[dying'[u]] # NULL
                                => fate'[data'[dying'[u]]] = "held"
      <3>1. \A u \in Threads : pc[u] = "call_user" => dying[u] \in Items /\ dying[u] # i
        BY <2>1
      <3> QED  BY <2>2, <2>3, <2>4, <2>9, <3>1
    <2>12. ASSUME NEW v \in Values, fate'[v] = "held"
           PROVE  \E j \in Items : /\ data'[j] = v
                                   /\ \/ j \in tsd_list'
                                      \/ \E u \in Threads : pc'[u] = "call_user" /\ dying'[u] = j
      <3>1. CASE v = new
        BY <3>1, <2>1, <2>2
      <3>2. CASE v # new
        <4>1. v # old /\ fate[v] = "held"
          BY <2>3, <2>12, <3>2
        <4>2. PICK j \in Items : /\ data[j] = v
                                 /\ \/ j \in tsd_list
                                    \/ \E u \in Threads : pc[u] = "call_user" /\ dying[u] = j
          BY <4>1
        <4>3. j # i
          BY <4>1, <4>2, <2>9
        <4> QED  BY <4>2, <4>3, <2>2, <2>5
      <3> QED  BY <3>1, <3>2
    <2>13. \A v \in Values : fate'[v] # "twice"
      BY <2>1, <2>3
    <2>14. \A u \in Threads : pc'[u] = "append" => data'[tsd'[u]] = NULL
      <3>1. \A u \in Threads : pc'[u] = "append" => pc[u] = "append" /\ u # t /\ tsd'[u] = tsd[u]
        BY <1>2 DEF StoreValue
      <3>2. \A u \in Threads : pc[u] = "append" => tsd[u] \in Items /\ tsd[u] # i
        BY <2>1 DEF ItemInv
      <3> QED  BY <3>1, <3>2, <2>2
    <2> QED  BY <2>7, <2>8, <2>10, <2>11, <2>12, <2>13, <2>14
  <1>3. ASSUME NEW t \in Threads, CallUser(t) PROVE ValueInv'
    <2>1. dying[t] \in Items /\ dying[t] \notin tsd_list
      BY <1>3 DEF CallUser, ItemInv
    <2>2. \A u \in Threads : u # t /\ pc[u] = "call_user" => dying[u] \in Items /\ dying[u] # dying[t]
      BY <2>1 DEF OwnerInv
    <2> DEFINE v == data[dying[t]]
    <2>3. /\ v # NULL => fate[v] = "held" /\ fate'[v] \in {"dropped", "destroyed"}
          /\ \A w \in Values : w # v => fate'[w] = fate[w]
      BY <1>3, <2>1 DEF CallUser, DestroyValue
    <2>4. /\ UNCHANGED <<tsd_list, data, arg, tsd, dying>>
          /\ pc'[t] \in {"in_user", "release"} /\ \A u \in Threads : u # t => pc'[u] = pc[u]
      BY <1>3 DEF CallUser
    <2>5. \A j \in Items : j # dying[t] /\ data[j] # NULL => data[j] \in Values /\ data[j] # v
      BY <2>1
    <2> QED  BY <2>1, <2>2, <2>3, <2>4, <2>5
  <1>4. ASSUME NEW i \in Items, DestroyItem(i) PROVE ValueInv'
    <2>1. \A u \in Threads : pc[u] # "call_user"
      BY <1>4 DEF DestroyItem, KeyInv
    <2> DEFINE v == data[i]
    <2>2. /\ v # NULL => fate[v] = "held" /\ fate'[v] \in {"dropped", "destroyed"}
          /\ \A w \in Values : w # v => fate'[w] = fate[w]
      BY <1>4 DEF DestroyItem, DestroyValue
    <2>3. /\ UNCHANGED <<data, arg, tsd, dying, pc>>
          /\ tsd_list' = tsd_list \ {i}
      BY <1>4 DEF DestroyItem
    <2>4. \A j \in Items : j # i /\ data[j] # NULL => data[j] \in Values /\ data[j] # v
      OBVIOUS
    <2> QED  BY <2>1, <2>2, <2>3, <2>4
  <1>5. ASSUME NEW t \in Threads, RemoveItem(t) PROVE ValueInv'
    BY <1>5 DEF RemoveItem, ItemInv
  <1>6. ASSUME NEW t \in Threads, AppendItem(t) PROVE ValueInv'
    <2>1. tsd[t] \in Items /\ tsd[t] \notin tsd_list
      BY <1>6 DEF AppendItem, ItemInv
    <2>2. data[tsd[t]] = NULL
      BY <1>6 DEF AppendItem
    <2> QED  BY <1>6, <2>1, <2>2 DEF AppendItem
  <1>7. ASSUME NEW t \in Threads, BeginExit(t) \/ EndExit(t) \/ UserReturns(t) \/ ReleaseItem(t)
        PROVE  ValueInv'
    BY <1>7 DEF BeginExit, EndExit, UserReturns, ReleaseItem
  <1>8. CASE SetDestructor \/ DeleteKey \/ DestroyKey \/ UNCHANGED vars
    BY <1>8 DEF SetDestructor, DeleteKey, DestroyKey, EndKey, vars
  <1> QED  BY <1>1, <1>2, <1>3, <1>4, <1>5, <1>6, <1>7, <1>8 DEF Next, ThreadStep, Finished

-----------------------------------------------------------------------------

THEOREM Invariance == Spec => []Inv
  <1>1. Inv /\ [Next]_vars => Inv'
    BY TypeStep, ItemStep, OwnerStep, SlotStep, ValueStep, KeyStep DEF Inv
  <1> QED  BY <1>1, InitInv, PTL DEF Spec

(* Every variable of the tracked key has its type, and a thread inside     *)
(* tsd_tracked_key_set or _tracked_destructor has the item it works on.    *)
THEOREM TypeCorrect == Spec => []TypeOK
  <1>1. Inv => TypeOK
    BY DEF Inv
  <1> QED  BY <1>1, Invariance, PTL

(* tsd_tracked_key_get never follows a slot to an item that was released,  *)
(* is being destroyed or is another thread's, and never returns a value    *)
(* that was replaced or destroyed.                                         *)
THEOREM SlotsCorrect == Spec => []SlotsAreSafe
  <1>1. Inv => SlotsAreSafe
    BY DistinctAssumption DEF Inv, TypeOK, Optional, ItemInv, SlotInv, ValueInv, SlotsAreSafe, Get, TsdGet
  <1> QED  BY <1>1, Invariance, PTL

(* _tracked_destructor and the key's destructor never both hand a value to *)
(* the user's destructor.                                                  *)
THEOREM DestroyedOnceCorrect == Spec => []DestroyedOnce
  <1>1. Inv => DestroyedOnce
    BY DEF Inv, ValueInv
  <1> QED  BY <1>1, Invariance, PTL

(* tsd_tracked_key_destructor leaves neither an item nor a value behind.   *)
THEOREM NothingLostCorrect == Spec => []NothingLost
  <1>1. Inv => NothingLost
    <2> SUFFICES ASSUME Inv, key = "destroyed"
                 PROVE  allocated = {} /\ \A v \in Values : fate[v] # "held"
      BY DEF NothingLost
    <2>1. tsd_list = {} /\ \A t \in Threads : pc[t] \in {"run", "exited"}
      BY DEF Inv, KeyInv
    <2>2. \A t \in Threads : tsd[t] = NULL /\ dying[t] = NULL
      BY <2>1 DEF Inv, TypeOK, SetPcs, ExitPcs
    <2>3. allocated = {}
      BY <2>1, <2>2, DistinctAssumption DEF Inv, TypeOK, ItemInv
    <2> QED  BY <2>1, <2>3 DEF Inv, ValueInv
  <1> QED  BY <1>1, Invariance, PTL

=============================================================================
