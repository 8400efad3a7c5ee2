--------------------------- MODULE IndexMapProofs ---------------------------
(***************************************************************************)
(* Proofs about the map INDEX stands for: every walk ends, every node that *)
(* hangs in a tree is found by its own key, an insert drops only what was  *)
(* below the node it replaces, and the handlers implement KeyMap.          *)
(***************************************************************************)
EXTENDS IndexProofs, NatLemmas

(* Whether a walk for k stops at position n, and where it goes from there. *)
Stops(k, n) == n = OffsetFeb31 \/ item[n].key = k
Follow(k, n) ==
  IF Stops(k, n) THEN n
  ELSE IF k < item[n].key THEN item[n].left ELSE item[n].right

(* The pointer by which a walk for k leaves n.                             *)
Branch(k, n) == [at |-> IF k < item[n].key THEN "left" ELSE "right", of |-> n]

(* A walk starts at the head of the key's bucket and follows the nodes.    *)
TrailsStep ==
  \A k \in NodeKeys :
    /\ Trail(k) \in [0 .. NumItems -> Pointer]
    /\ Trail(k)[0] = hash_head[GetHTId(k)]
    /\ \A i \in 1 .. NumItems : Trail(k)[i] = Follow(k, Trail(k)[i - 1])
(* The recursive function has these values, by induction over its argument.*)
LEMMA TrailSteps == TypeOK => TrailsStep
  <1> SUFFICES ASSUME TypeOK, NEW k \in NodeKeys
               PROVE  /\ Trail(k) \in [0 .. NumItems -> Pointer]
                      /\ Trail(k)[0] = hash_head[GetHTId(k)]
                      /\ \A i \in 1 .. NumItems : Trail(k)[i] = Follow(k, Trail(k)[i - 1])
    BY DEF TrailsStep
  <1>0. NumItems \in Nat /\ hash_head[GetHTId(k)] \in Pointer
    BY RootIsHead, IndexAssumption
  <1> DEFINE head == hash_head[GetHTId(k)]
             step == [n \in Pointer |-> Follow(k, n)]
  <1>1. step \in [Pointer -> Pointer]
    BY DEF Follow, Stops, TypeOK, Node, Pointer
  <1>2. PICK f \in [0 .. NumItems -> Pointer] :
          f = [i \in 0 .. NumItems |-> IF i = 0 THEN head ELSE step[f[i - 1]]]
    <2>1. head \in Pointer /\ NumItems \in Nat
      BY <1>0
    <2> HIDE DEF head, step
    <2> QED
      BY <1>1, <2>1, Iterate
  <1>3. f[0] = head /\ \A i \in 1 .. NumItems : f[i] = Follow(k, f[i - 1])
    <2>1. \A i \in 1 .. NumItems : i # 0 /\ i \in 0 .. NumItems /\ i - 1 \in 0 .. NumItems
      BY <1>0
    <2>2. \A i \in 1 .. NumItems : f[i - 1] \in Pointer /\ f[i] = step[f[i - 1]]
      BY <1>2, <2>1
    <2>3. 0 \in 0 .. NumItems
      BY <1>0
    <2> QED
      BY <1>2, <2>2, <2>3
  <1>4. f = [i \in 0 .. NumItems |->
               IF i = 0 THEN hash_head[GetHTId(k)]
               ELSE LET n == f[i - 1] IN
                    IF n = OffsetFeb31 \/ item[n].key = k THEN n
                    ELSE IF k < item[n].key THEN item[n].left ELSE item[n].right]
    <2>1. \A i \in 0 .. NumItems : f[i] = IF i = 0 THEN head ELSE Follow(k, f[i - 1])
      BY <1>0, <1>3
    <2>2. f = [i \in 0 .. NumItems |-> IF i = 0 THEN head ELSE Follow(k, f[i - 1])]
      BY <1>2, <2>1
    <2> QED
      BY <2>2 DEF Follow, Stops
  <1>5. Trail(k) = [i \in 0 .. NumItems |->
               IF i = 0 THEN hash_head[GetHTId(k)]
               ELSE LET n == Trail(k)[i - 1] IN
                    IF n = OffsetFeb31 \/ item[n].key = k THEN n
                    ELSE IF k < item[n].key THEN item[n].left ELSE item[n].right]
    BY <1>4 DEF Trail
  <1>6. Trail(k) = [i \in 0 .. NumItems |->
               IF i = 0 THEN head ELSE Follow(k, Trail(k)[i - 1])]
    BY <1>5 DEF Follow, Stops
  <1> DEFINE g == Trail(k)
  <1>7. \A i \in 0 .. NumItems : g[i] = f[i]
    <2>1. g[0] = f[0]
      BY <1>0, <1>3, <1>6
    <2>2. \A i \in 1 .. NumItems : g[i - 1] = f[i - 1] => g[i] = f[i]
      BY <1>0, <1>3, <1>6
    <2> DEFINE S == {i \in 0 .. NumItems : g[i] = f[i]}
    <2>3. 0 \in S /\ \A i \in 1 .. NumItems : i - 1 \in S => i \in S
      BY <1>0, <2>1, <2>2
    <2> HIDE DEF S
    <2>4. 0 .. NumItems \subseteq S
      BY <1>0, <2>3, InductionTo
    <2> QED
      BY <2>4 DEF S
  <1>8. g = f
    <2>1. g = [i \in 0 .. NumItems |-> g[i]]
      BY <1>6
    <2>2. f = [i \in 0 .. NumItems |-> f[i]]
      BY <1>2
    <2> HIDE DEF g
    <2> QED
      BY <1>7, <2>1, <2>2
  <1> QED
    BY <1>2, <1>3, <1>8

------------------------------------------------------------------------------
(* The invariant.                                                          *)

(* The walk for k comes to its i-th position by a step, and by which       *)
(* pointer.                                                                *)
Reached(k, i) == i = 0 \/ ~Stops(k, Trail(k)[i - 1])
Hook(k, i) == IF i = 0 THEN Root(k) ELSE Branch(k, Trail(k)[i - 1])

(* The nodes that a walk for their own key ends at.                        *)
InTree == {n \in Live : Trail(item[n].key)[NumItems] = n}

(* Every node that hangs from a bucket is one of them: the pointers of the *)
(* buckets and of such nodes lead only to such nodes.                      *)
TreeLocations == {loc \in Locations : loc.at # "head" => loc.of \in InTree}
TreeClosed == \A loc \in TreeLocations : Deref(loc) \in InTree \cup {OffsetFeb31}

(* A node in use holds a key and a place of the caller.                    *)
NodesHold == \A n \in Live : item[n].key \in Keys /\ item[n].place \in Places

(* What the handler's parameters and locals are while it runs: the walk is *)
(* on the trail of its key, and the second walk of BSTDelete has ended the *)
(* first at a node with two children.                                      *)
CallInv ==
  /\ pc \in {"idle", "halted"} <=> op = "none"
  /\ pc \in {"walk", "nearest"} => new.key \in Keys
  /\ op = "insert" => new.place \in Places
  /\ cover => TRUE \in Covers
  /\ pc = "walk" => \E i \in 0 .. NumItems :
       /\ Reached(new.key, i) /\ Trail(new.key)[i] = node_id
       /\ pre_node_ptr = Hook(new.key, i)
  /\ pc = "nearest" =>
       /\ op = "delete" /\ node_id # OffsetFeb31
       /\ Trail(new.key)[NumItems] = node_id /\ item[node_id].key = new.key
       /\ item[node_id].left # OffsetFeb31 /\ item[node_id].right # OffsetFeb31

MapInv ==
  /\ PoolInv /\ TreeClosed /\ NodesHold /\ CallInv
  /\ TRUE \notin Covers => Live \subseteq InTree

------------------------------------------------------------------------------
(* Walks.                                                                  *)

(* Where a walk has stopped it stays.                                      *)
LEMMA StopStays ==
  TypeOK =>
    \A k \in NodeKeys : \A i, j \in 0 .. NumItems :
      Stops(k, Trail(k)[i]) /\ i <= j => Trail(k)[j] = Trail(k)[i]
  <1> SUFFICES ASSUME TypeOK, NEW k \in NodeKeys, NEW i \in 0 .. NumItems,
                      Stops(k, Trail(k)[i])
               PROVE  \A j \in 0 .. NumItems : i <= j => Trail(k)[j] = Trail(k)[i]
    OBVIOUS
  <1> DEFINE S == {j \in 0 .. NumItems : i <= j => Trail(k)[j] = Trail(k)[i]}
  <1>0. NumItems \in Nat
    BY IndexAssumption
  <1>1. 0 \in S
    BY <1>0
  <1>2. ASSUME NEW j \in 1 .. NumItems, j - 1 \in S PROVE j \in S
    <2>1. Trail(k)[j] = Follow(k, Trail(k)[j - 1])
      BY TrailSteps DEF TrailsStep
    <2> QED
      BY <1>0, <1>2, <2>1 DEF Follow
  <1>3. 0 .. NumItems \subseteq S
    <2> HIDE DEF S
    <2> QED BY <1>0, <1>1, <1>2, InductionTo
  <1> QED
    BY <1>3

(* A walk that moves on from its i-th position got there by steps only.    *)
LEMMA ReachedBefore ==
  TypeOK =>
    \A k \in NodeKeys : \A i, j \in 0 .. NumItems :
      /\ ~Stops(k, Trail(k)[j]) /\ i <= j => ~Stops(k, Trail(k)[i]) /\ Reached(k, i)
      /\ Reached(k, j) /\ i <= j => Reached(k, i)
  <1> SUFFICES ASSUME TypeOK, NEW k \in NodeKeys,
                      NEW i \in 0 .. NumItems, NEW j \in 0 .. NumItems, i <= j
               PROVE  /\ ~Stops(k, Trail(k)[j]) => ~Stops(k, Trail(k)[i]) /\ Reached(k, i)
                      /\ Reached(k, j) => Reached(k, i)
    OBVIOUS
  <1>0. NumItems \in Nat
    BY IndexAssumption
  <1>1. \A h, l \in 0 .. NumItems :
          h <= l /\ ~Stops(k, Trail(k)[l]) => ~Stops(k, Trail(k)[h])
    BY StopStays
  <1>2. i = 0 \/ i - 1 \in 0 .. NumItems
    BY <1>0
  <1>3. j = 0 \/ j - 1 \in 0 .. NumItems
    BY <1>0
  <1> QED
    BY <1>0, <1>1, <1>2, <1>3 DEF Reached

(* The pointer a walk follows matters and holds the next position.         *)
LEMMA HookHolds ==
  TypeOK /\ PoolSafe =>
    \A k \in NodeKeys : \A i \in 0 .. NumItems :
      /\ Trail(k)[i] \in Live \cup {OffsetFeb31}
      /\ Reached(k, i) =>
           /\ Hook(k, i) \in Locations /\ Deref(Hook(k, i)) = Trail(k)[i]
           /\ i # 0 => Hook(k, i).at # "head" /\ Hook(k, i).of = Trail(k)[i - 1]
  <1> SUFFICES ASSUME TypeOK, PoolSafe, NEW k \in NodeKeys
               PROVE  \A i \in 0 .. NumItems :
      /\ Trail(k)[i] \in Live \cup {OffsetFeb31}
      /\ Reached(k, i) =>
           /\ Hook(k, i) \in Locations /\ Deref(Hook(k, i)) = Trail(k)[i]
           /\ i # 0 => Hook(k, i).at # "head" /\ Hook(k, i).of = Trail(k)[i - 1]
    OBVIOUS
  <1> DEFINE S == {i \in 0 .. NumItems : Trail(k)[i] \in Live \cup {OffsetFeb31}}
  <1>0. NumItems \in Nat
    BY IndexAssumption
  <1>1. Root(k) \in Locations /\ Deref(Root(k)) = Trail(k)[0]
    BY RootIsHead, TrailSteps DEF TrailsStep, Root, Locations, Deref
  <1>2. ASSUME NEW i \in 1 .. NumItems, i - 1 \in S, ~Stops(k, Trail(k)[i - 1])
        PROVE  /\ Branch(k, Trail(k)[i - 1]) \in Locations
               /\ Deref(Branch(k, Trail(k)[i - 1])) = Trail(k)[i]
               /\ Branch(k, Trail(k)[i - 1]).at # "head"
               /\ Branch(k, Trail(k)[i - 1]).of = Trail(k)[i - 1]
    <2>1. Trail(k)[i - 1] \in Live
      BY <1>2 DEF Stops
    <2>2. Trail(k)[i] = Follow(k, Trail(k)[i - 1])
      BY TrailSteps DEF TrailsStep
    <2> QED
      BY <1>2, <2>1, <2>2 DEF Branch, Locations, Deref, Follow
  <1>3. 0 \in S
    BY <1>0, <1>1 DEF PoolSafe, NoDangling
  <1>4. ASSUME NEW i \in 1 .. NumItems, i - 1 \in S PROVE i \in S
    <2>1. CASE Stops(k, Trail(k)[i - 1])
      <3>1. Trail(k)[i] = Trail(k)[i - 1]
        BY <2>1, TrailSteps DEF TrailsStep, Follow
      <3> QED
        BY <1>4, <3>1
    <2>2. CASE ~Stops(k, Trail(k)[i - 1])
      BY <1>0, <1>2, <1>4, <2>2 DEF PoolSafe, NoDangling
    <2> QED
      BY <2>1, <2>2
  <1>5. 0 .. NumItems \subseteq S
    <2> HIDE DEF S
    <2> QED BY <1>0, <1>3, <1>4, InductionTo
  <1>6. \A i \in 0 .. NumItems : i = 0 \/ (i \in 1 .. NumItems /\ i - 1 \in 0 .. NumItems)
    BY <1>0
  <1> QED
    BY <1>1, <1>2, <1>5, <1>6 DEF Reached, Hook

(* Two walks that come to one node came there by the same positions: no    *)
(* two pointers lead to one node.                                          *)
LEMMA SamePath ==
  TypeOK /\ PoolSafe =>
    \A a, b \in NodeKeys : \A p, q \in 0 .. NumItems :
      /\ Reached(a, p) /\ Reached(b, q)
      /\ Trail(a)[p] = Trail(b)[q] /\ Trail(a)[p] # OffsetFeb31
      => p = q /\ \A r \in 0 .. p : Trail(a)[r] = Trail(b)[r] /\ Hook(a, r) = Hook(b, r)
  <1> SUFFICES ASSUME TypeOK, PoolSafe, NEW a \in NodeKeys, NEW b \in NodeKeys
               PROVE  \A p, q \in 0 .. NumItems :
      /\ Reached(a, p) /\ Reached(b, q)
      /\ Trail(a)[p] = Trail(b)[q] /\ Trail(a)[p] # OffsetFeb31
      => p = q /\ \A r \in 0 .. p : Trail(a)[r] = Trail(b)[r] /\ Hook(a, r) = Hook(b, r)
    OBVIOUS
  <1> DEFINE Meet(p, q) == /\ Reached(a, p) /\ Reached(b, q)
                           /\ Trail(a)[p] = Trail(b)[q] /\ Trail(a)[p] # OffsetFeb31
             Same(p) == \A r \in 0 .. p : Trail(a)[r] = Trail(b)[r] /\ Hook(a, r) = Hook(b, r)
             S == {p \in 0 .. NumItems : \A q \in 0 .. NumItems : Meet(p, q) => p = q /\ Same(p)}
  <1>0. NumItems \in Nat /\ 0 \in 0 .. NumItems
    BY IndexAssumption
  <1>1. \A p, q \in 0 .. NumItems : Meet(p, q) => Hook(a, p) = Hook(b, q)
    BY HookHolds DEF PoolSafe, NoSharing
  <1>2. \A k \in NodeKeys : Hook(k, 0).at = "head"
    BY DEF Hook, Root
  <1>3. \A p \in 0 .. NumItems :
          (Meet(p, 0) => p = 0) /\ (Meet(0, p) => p = 0)
    BY <1>0, <1>1, <1>2, HookHolds
  <1>4. 0 \in S
    BY <1>0, <1>1, <1>3
  <1>5. ASSUME NEW p \in 1 .. NumItems, p - 1 \in S PROVE p \in S
    <2> SUFFICES ASSUME NEW q \in 0 .. NumItems, Meet(p, q) PROVE p = q /\ Same(p)
      BY <1>0
    <2>1. p \in 0 .. NumItems /\ p # 0 /\ p - 1 \in 0 .. NumItems
      BY <1>0
    <2>2. q # 0 /\ q \in 1 .. NumItems /\ q - 1 \in 0 .. NumItems
      BY <1>0, <1>3, <2>1
    <2>3. Hook(a, p) = Hook(b, q)
      BY <1>1, <2>1
    <2>4. Trail(a)[p - 1] = Trail(b)[q - 1]
      BY <2>1, <2>2, <2>3, HookHolds
    <2>5. ~Stops(a, Trail(a)[p - 1]) /\ ~Stops(b, Trail(b)[q - 1])
      BY <2>1, <2>2 DEF Reached
    <2>6. Reached(a, p - 1) /\ Reached(b, q - 1) /\ Trail(a)[p - 1] # OffsetFeb31
      BY <2>1, <2>2, <2>5, ReachedBefore DEF Stops
    <2>7. p - 1 = q - 1 /\ Same(p - 1)
      BY <1>5, <2>2, <2>4, <2>6
    <2>8. p = q
      BY <2>1, <2>2, <2>7
    <2>9. \A r \in 0 .. p : r = p \/ r \in 0 .. p - 1
      BY <2>1
    <2> QED
      BY <2>3, <2>7, <2>8, <2>9
  <1>6. 0 .. NumItems \subseteq S
    <2> HIDE DEF S
    <2> QED BY <1>0, <1>4, <1>5, InductionTo
  <1> QED
    BY <1>6

(* Every walk stops by NumItems steps: it never comes to a node twice.     *)
LEMMA WalkStops ==
  TypeOK /\ PoolSafe => \A k \in NodeKeys : Stops(k, Trail(k)[NumItems])
  <1> SUFFICES ASSUME TypeOK, PoolSafe, NEW k \in NodeKeys, ~Stops(k, Trail(k)[NumItems])
               PROVE  FALSE
    OBVIOUS
  <1>0. NumItems \in Nat /\ NumItems \in 0 .. NumItems
    BY IndexAssumption
  <1>1. \A i \in 0 .. NumItems : ~Stops(k, Trail(k)[i]) /\ Reached(k, i)
    BY <1>0, ReachedBefore
  <1>2. \A i \in 0 .. NumItems : Trail(k)[i] \in Positions
    BY <1>1, HookHolds DEF Stops, Live
  <1>3. \A i, j \in 0 .. NumItems : Trail(k)[i] = Trail(k)[j] => i = j
    BY <1>1, SamePath DEF Stops
  <1> DEFINE f == [i \in 0 .. NumItems |-> Trail(k)[i]]
  <1>4. f \in Injection(0 .. NumItems, Positions)
    BY <1>2, <1>3 DEF Injection, IsInjective
  <1>5. /\ IsFiniteSet(Positions) /\ Cardinality(Positions) = NumItems
        /\ IsFiniteSet(0 .. NumItems) /\ Cardinality(0 .. NumItems) = NumItems + 1
    BY <1>0, FS_Interval DEF Positions
  <1> HIDE DEF f
  <1> QED
    BY <1>0, <1>4, <1>5, FS_Injection

(* A position of a walk was first come to by a step.                       *)
LEMMA FirstVisit ==
  TypeOK =>
    \A k \in NodeKeys : \A i \in 0 .. NumItems :
      \E j \in 0 .. i : Reached(k, j) /\ Trail(k)[j] = Trail(k)[i]
  <1> SUFFICES ASSUME TypeOK, NEW k \in NodeKeys, NEW i \in 0 .. NumItems
               PROVE  \E j \in 0 .. i : Reached(k, j) /\ Trail(k)[j] = Trail(k)[i]
    OBVIOUS
  <1>0. NumItems \in Nat
    BY IndexAssumption
  <1> DEFINE T == {j \in 0 .. i : Trail(k)[j] = Trail(k)[i]}
  <1>1. T \in SUBSET Nat /\ i \in T
    BY <1>0
  <1>2. PICK j \in T : \A h \in T : j <= h
    <2> HIDE DEF T
    <2> QED BY <1>1, LeastNatural
  <1>3. j \in 0 .. i /\ j \in 0 .. NumItems /\ Trail(k)[j] = Trail(k)[i]
    BY <1>0, <1>2
  <1>4. ASSUME j # 0, Stops(k, Trail(k)[j - 1]) PROVE FALSE
    <2>1. j - 1 \in 0 .. i /\ j \in 1 .. NumItems /\ j - 1 < j
      BY <1>0, <1>3, <1>4
    <2>2. Trail(k)[j] = Trail(k)[j - 1]
      BY <1>4, <2>1, TrailSteps DEF TrailsStep, Follow
    <2> QED
      BY <1>2, <1>3, <2>1, <2>2
  <1> QED
    BY <1>3, <1>4 DEF Reached

------------------------------------------------------------------------------
(* One write through a pointer.                                            *)

(* A walk that does not follow the pointer written through does not notice *)
(* the write: the node that hung there is the only one that may change.    *)
LEMMA TrailApart ==
  ASSUME TypeOK, PoolSafe, TypeOK', hash_head_size' = hash_head_size,
         NEW ptr \in Locations, NEW k \in NodeKeys, NEW m \in 0 .. NumItems,
         \A i \in 0 .. m : Reached(k, i) => Hook(k, i) # ptr,
         \A n \in Live : n # Deref(ptr) => item'[n].key = item[n].key,
         \A loc \in Locations :
           loc # ptr /\ (loc.at # "head" => loc.of # Deref(ptr))
             => Deref(loc)' = Deref(loc)
  PROVE  \A i \in 0 .. m : Trail(k)[i]' = Trail(k)[i]
  <1>0. NumItems \in Nat /\ 0 \in 0 .. NumItems /\ m \in Nat
        /\ \A i \in 0 .. m : i \in 0 .. NumItems
    BY IndexAssumption
  <1>1. \A i \in 0 .. m : Trail(k)[i] # OffsetFeb31 => Trail(k)[i] # Deref(ptr)
    <2> SUFFICES ASSUME NEW i \in 0 .. m, Trail(k)[i] # OffsetFeb31
                 PROVE  Trail(k)[i] # Deref(ptr)
      OBVIOUS
    <2>1. PICK j \in 0 .. i : Reached(k, j) /\ Trail(k)[j] = Trail(k)[i]
      BY <1>0, FirstVisit
    <2>2. j \in 0 .. m /\ j \in 0 .. NumItems
      BY <1>0
    <2>3. Hook(k, j) # ptr /\ Hook(k, j) \in Locations /\ Deref(Hook(k, j)) = Trail(k)[i]
      BY <2>1, <2>2, HookHolds
    <2> QED
      BY <2>3 DEF PoolSafe, NoSharing
  <1>2. /\ Trail(k)[0]' = hash_head'[GetHTId(k)]
        /\ \A i \in 1 .. NumItems : Trail(k)[i]' = Follow(k, Trail(k)[i - 1])'
    <2>1. TypeOK' => TrailsStep'
      BY TrailSteps, PTL
    <2> QED
      BY <2>1 DEF TrailsStep, GetHTId
  <1> DEFINE S == {i \in 0 .. m : Trail(k)[i]' = Trail(k)[i]}
  <1>3. 0 \in S
    <2>1. Hook(k, 0) = Root(k) /\ Reached(k, 0) /\ 0 \in 0 .. m
      BY <1>0 DEF Hook, Reached
    <2>2. Root(k) \in Locations /\ Root(k) # ptr /\ Root(k).at = "head" /\ Root(k).of = GetHTId(k)
      BY <1>0, <2>1, HookHolds DEF Root
    <2>3. hash_head'[GetHTId(k)] = hash_head[GetHTId(k)]
      BY <2>2 DEF Deref
    <2> QED
      BY <1>2, <2>1, <2>3, TrailSteps DEF TrailsStep
  <1>4. ASSUME NEW i \in 1 .. m, i - 1 \in S PROVE i \in S
    <2>0. PICK n : n = Trail(k)[i - 1]
      OBVIOUS
    <2>1. /\ i \in 0 .. m /\ i \in 1 .. NumItems /\ i \in 0 .. NumItems /\ i # 0
          /\ i - 1 \in 0 .. m /\ i - 1 \in 0 .. NumItems
      BY <1>0
    <2>2. Trail(k)[i]' = Follow(k, n)' /\ Trail(k)[i] = Follow(k, n)
      BY <1>2, <1>4, <2>0, <2>1, TrailSteps DEF TrailsStep
    <2>3. n = OffsetFeb31 \/ (n \in Live /\ n # Deref(ptr) /\ item'[n].key = item[n].key)
      BY <1>1, <2>0, <2>1, HookHolds
    <2>4. CASE Stops(k, n)
      BY <2>0, <2>1, <2>2, <2>3, <2>4 DEF Follow, Stops
    <2>5. CASE ~Stops(k, n)
      <3>1. Reached(k, i) /\ Hook(k, i) = Branch(k, n)
        BY <2>0, <2>1, <2>5 DEF Reached, Hook
      <3>2. /\ Branch(k, n) \in Locations /\ Branch(k, n) # ptr
            /\ Branch(k, n).of = n /\ Branch(k, n).at # "head"
        BY <2>0, <2>1, <3>1, HookHolds
      <3>3. Deref(Branch(k, n))' = Deref(Branch(k, n)) /\ Branch(k, n)' = Branch(k, n)
        BY <2>3, <2>5, <3>2 DEF Branch, Stops
      <3> QED
        BY <2>1, <2>2, <2>3, <2>5, <3>3 DEF Branch, Stops, Deref, Follow
    <2> QED
      BY <2>4, <2>5
  <1>5. 0 .. m \subseteq S
    <2> HIDE DEF S
    <2> QED BY <1>0, <1>3, <1>4, InductionTo
  <1> QED
    BY <1>5

(* A walk comes to live nodes only.                                        *)
LEMMA TrailLive ==
  TypeOK /\ PoolSafe =>
    \A k \in NodeKeys : \A i \in 0 .. NumItems : Trail(k)[i] \in Live \cup {OffsetFeb31}
  BY HookHolds

(* The state predicates above, after a step.                               *)
LEMMA WalksAfter ==
  ASSUME TypeOK', PoolSafe'
  PROVE  /\ TrailsStep'
         /\ (\A k \in NodeKeys : \A i, j \in 0 .. NumItems :
               Stops(k, Trail(k)[i]) /\ i <= j => Trail(k)[j] = Trail(k)[i])'
         /\ (\A k \in NodeKeys : Stops(k, Trail(k)[NumItems]))'
         /\ (\A k \in NodeKeys : \A i \in 0 .. NumItems :
               Trail(k)[i] \in Live \cup {OffsetFeb31})'
  <1>1. TypeOK' => TrailsStep'
    BY TrailSteps, PTL
  <1>2. TypeOK' =>
          (\A k \in NodeKeys : \A i, j \in 0 .. NumItems :
             Stops(k, Trail(k)[i]) /\ i <= j => Trail(k)[j] = Trail(k)[i])'
    BY StopStays, PTL
  <1>3. TypeOK' /\ PoolSafe' => (\A k \in NodeKeys : Stops(k, Trail(k)[NumItems]))'
    BY WalkStops, PTL
  <1>4. TypeOK' /\ PoolSafe' =>
          (\A k \in NodeKeys : \A i \in 0 .. NumItems : Trail(k)[i] \in Live \cup {OffsetFeb31})'
    BY TrailLive, PTL
  <1> QED
    BY <1>1, <1>2, <1>3, <1>4

------------------------------------------------------------------------------
(* Insert.                                                                 *)

(* The walks that follow the pointer at which the handler is.              *)
Through(k) == \E i \in 0 .. NumItems : Reached(k, i) /\ Hook(k, i) = pre_node_ptr

(* What BSTInsert writes: node f takes the item given, hangs where the     *)
(* walk ended and has no children; the other nodes in use keep key, place  *)
(* and pointers.                                                           *)
Linked(f) ==
  /\ f \in Positions \ Live /\ Live' = Live \cup {f}
  /\ item'[f].key = new.key /\ item'[f].place = new.place
  /\ \A n \in Live : item'[n].key = item[n].key /\ item'[n].place = item[n].place
  /\ \A loc \in Locations' :
       Deref(loc)' = IF loc = pre_node_ptr THEN f
                     ELSE IF loc \in Locations THEN Deref(loc) ELSE OffsetFeb31
  /\ Locations \subseteq Locations' /\ hash_head_size' = hash_head_size
  /\ TypeOK /\ TypeOK' /\ PoolSafe /\ PoolSafe'
  /\ pre_node_ptr \in Locations /\ Deref(pre_node_ptr) = node_id
  /\ new.key \in NodeKeys

(* The insert that links a node writes this.                               *)
LEMMA LinkIsLinked ==
  ASSUME PoolInv, InsertLink
  PROVE  \E f : Linked(f)
  <1>1. PICK f \in Positions \ Live :
          /\ Live' = Live \cup {f}
          /\ Locations \subseteq Locations'
          /\ \A loc \in Locations' :
               Deref(loc)' = IF loc = pre_node_ptr THEN f
                             ELSE IF loc \in Locations THEN Deref(loc) ELSE OffsetFeb31
    BY LinkEffect
  <1>2. /\ TypeOK /\ PoolSafe /\ FreedOnce /\ TypeInv /\ pc = "walk"
        /\ pre_node_ptr \in Locations /\ Deref(pre_node_ptr) = node_id
        /\ new.key \in NodeKeys /\ new \in Node
    BY DEF PoolInv, PoolSafe, TypeInv, TypeOK, InsertLink, Link, Node
  <1>3. PopFreeNode \in Positions /\ PopFreeNode \notin Live /\ Live' = Live \cup {PopFreeNode}
    BY <1>2, PopFreshNode DEF InsertLink, Link
  <1>4. PopFreeNode = f
    BY <1>1, <1>3
  <1>5. Store([item EXCEPT ![f] = new], pre_node_ptr, f) /\ hash_head_size' = hash_head_size
    BY <1>4 DEF InsertLink, Link, Store
  <1>6. \A n \in Positions :
          /\ item'[n].key = IF n = f THEN new.key ELSE item[n].key
          /\ item'[n].place = IF n = f THEN new.place ELSE item[n].place
    BY <1>1, <1>2, <1>5 DEF Store, TypeOK, Node
  <1>7. TypeOK' /\ PoolSafe'
    <2>1. Next
      BY DEF Next, Handler
    <2> QED
      BY <1>2, <2>1, TypeStep, LinkKeepsPool DEF TypeInv
  <1> QED
    BY <1>1, <1>2, <1>5, <1>6, <1>7 DEF Linked, Live

(* A walk that does not come to the pointer written through is as before.  *)
LEMMA LinkAside ==
  ASSUME NEW f, Linked(f), NEW k \in NodeKeys, ~Through(k)
  PROVE  \A i \in 0 .. NumItems : Trail(k)[i]' = Trail(k)[i]
  <1>1. NumItems \in 0 .. NumItems
    BY IndexAssumption
  <1>2. \A loc \in Locations : loc # pre_node_ptr => Deref(loc)' = Deref(loc)
    BY DEF Linked
  <1> QED
    BY <1>1, <1>2, TrailApart DEF Linked, Through

(* A walk that does comes to the new node, and ends there or at null.      *)
LEMMA LinkThrough ==
  ASSUME NEW f, Linked(f), NEW k \in NodeKeys, Through(k)
  PROVE  Trail(k)[NumItems]' = IF k = new.key THEN f ELSE OffsetFeb31
  <1>0. /\ NumItems \in Nat /\ 0 \in 0 .. NumItems /\ NumItems \in 0 .. NumItems
        /\ TypeOK /\ TypeOK' /\ PoolSafe /\ PoolSafe'
        /\ f # OffsetFeb31 /\ f \in Live'
    BY IndexAssumption, NullFacts DEF Linked
  <1>a. PICK ptr : ptr = pre_node_ptr
    OBVIOUS
  <1>1. PICK i \in 0 .. NumItems : Reached(k, i) /\ Hook(k, i) = ptr
    BY <1>a DEF Through
  <1>2. Deref(ptr)' = f
    BY <1>a DEF Linked
  <1>3. /\ Trail(k)[0]' = hash_head[GetHTId(k)]'
        /\ \A h \in 1 .. NumItems : Trail(k)[h]' = Follow(k, Trail(k)[h - 1])'
        /\ \A h, j \in 0 .. NumItems :
             Stops(k, Trail(k)[h])' /\ h <= j => Trail(k)[j]' = Trail(k)[h]'
        /\ Stops(k, Trail(k)[NumItems])'
    BY <1>0, WalksAfter DEF TrailsStep
  <1>4. Trail(k)[i]' = f
    <2>1. CASE i = 0
      <3>1. ptr.at = "head" /\ ptr.of = GetHTId(k)
        BY <1>1, <2>1 DEF Hook, Root
      <3> QED
        BY <1>2, <1>3, <2>1, <3>1 DEF Deref, GetHTId, Linked
    <2>2. CASE i # 0
      <3>1. i - 1 \in 0 .. NumItems /\ i \in 1 .. NumItems /\ 0 .. i - 1 \subseteq 0 .. NumItems
        BY <1>0, <2>2
      <3>2. PICK n : n = Trail(k)[i - 1]
        OBVIOUS
      <3>3. ~Stops(k, n) /\ ptr = Branch(k, n) /\ n \in Live
        BY <1>0, <1>1, <2>2, <3>1, <3>2, HookHolds DEF Reached, Hook, Stops
      <3>4. \A j \in 0 .. i - 1 : Reached(k, j) => Hook(k, j) # ptr
        <4> SUFFICES ASSUME NEW j \in 0 .. i - 1, Reached(k, j), Hook(k, j) = ptr
                     PROVE  FALSE
          OBVIOUS
        <4>1. j \in 0 .. NumItems /\ j <= i - 1
          BY <3>1
        <4>2. j # 0
          BY <3>3 DEF Hook, Root, Branch
        <4>3. j - 1 \in 0 .. NumItems /\ j - 1 # i - 1
          BY <1>0, <4>1, <4>2, <3>1
        <4>4. Trail(k)[j - 1] = n /\ ~Stops(k, Trail(k)[j - 1])
          BY <3>3, <4>2, <4>1, <1>0, HookHolds DEF Branch, Reached
        <4> QED
          BY <1>0, <3>1, <3>2, <3>3, <4>3, <4>4, ReachedBefore, SamePath DEF Stops
      <3>5. \A loc \in Locations : loc # ptr => Deref(loc)' = Deref(loc)
        BY <1>a DEF Linked
      <3>6. \A j \in 0 .. i - 1 : Trail(k)[j]' = Trail(k)[j]
        BY <1>0, <3>1, <3>4, <3>5, <1>a, TrailApart DEF Linked
      <3>7. Trail(k)[i - 1]' = n
        BY <3>1, <3>2, <3>6
      <3>8. Trail(k)[i]' = Follow(k, n)'
        BY <1>3, <3>1, <3>7
      <3>9. item'[n].key = item[n].key
        BY <3>3 DEF Linked
      <3> QED
        BY <1>2, <3>3, <3>8, <3>9 DEF Follow, Stops, Branch, Deref
    <2> QED
      BY <2>1, <2>2
  <1>5. item'[f].key = new.key
    BY DEF Linked
  <1>6. CASE k = new.key
    <2>1. Stops(k, f)'
      BY <1>5, <1>6 DEF Stops
    <2> QED
      BY <1>0, <1>3, <1>4, <1>6, <2>1 DEF Stops
  <1>7. CASE k # new.key
    <2>1. ~Stops(k, f)'
      BY <1>0, <1>5, <1>7 DEF Stops
    <2>2. i # NumItems
      BY <1>3, <1>4, <2>1 DEF Stops
    <2>3. i + 1 \in 1 .. NumItems /\ i + 1 \in 0 .. NumItems /\ (i + 1) - 1 = i
      BY <1>0, <2>2
    <2>4. item'[f].left = OffsetFeb31 /\ item'[f].right = OffsetFeb31
      <3>1. \A side \in {"left", "right"} :
              [at |-> side, of |-> f] \in Locations' \ Locations
        BY <1>0 DEF Locations, Linked
      <3>2. \A side \in {"left", "right"} : Deref([at |-> side, of |-> f])' = OffsetFeb31
        BY <3>1 DEF Linked
      <3> QED
        BY <3>2 DEF Deref
    <2>5. Trail(k)[i + 1]' = OffsetFeb31
      BY <1>3, <1>4, <2>1, <2>3, <2>4 DEF Follow
    <2> QED
      BY <1>0, <1>3, <1>7, <2>3, <2>5 DEF Stops
  <1> QED
    BY <1>6, <1>7

(* What an insert does to the map: the key gets its place, and a key is    *)
(* dropped when its walk comes to the node replaced, and only then.        *)
LEMMA LinkMap ==
  ASSUME NEW f, Linked(f), NEW k \in NodeKeys
  PROVE  /\ k = new.key /\ Through(k) => PlaceOf(k)' = new.place
         /\ k # new.key =>
              PlaceOf(k)' = IF node_id # OffsetFeb31
                               /\ \E i \in 0 .. NumItems : Trail(k)[i] = node_id
                            THEN NoPlace ELSE PlaceOf(k)
  <1>0. /\ NumItems \in Nat /\ NumItems \in 0 .. NumItems
        /\ TypeOK /\ TypeOK' /\ PoolSafe /\ PoolSafe'
        /\ f # OffsetFeb31 /\ f \notin Live
    BY IndexAssumption, NullFacts DEF Linked
  <1>1. CASE k = new.key /\ Through(k)
    BY <1>0, <1>1, LinkThrough DEF Linked, PlaceOf
  <1>2. ASSUME node_id # OffsetFeb31
        PROVE  Through(k) <=> \E i \in 0 .. NumItems : Trail(k)[i] = node_id
    <2>1. ASSUME NEW i \in 0 .. NumItems, Trail(k)[i] = node_id
          PROVE  Through(k)
      <3>1. PICK j \in 0 .. i : Reached(k, j) /\ Trail(k)[j] = node_id
        BY <1>0, <2>1, FirstVisit
      <3>2. j \in 0 .. NumItems
        BY <1>0
      <3>3. Hook(k, j) = pre_node_ptr
        BY <1>0, <1>2, <3>1, <3>2, HookHolds DEF Linked, PoolSafe, NoSharing
      <3> QED
        BY <3>1, <3>2, <3>3 DEF Through
    <2>2. ASSUME Through(k) PROVE \E i \in 0 .. NumItems : Trail(k)[i] = node_id
      BY <1>0, <2>2, HookHolds DEF Through, Linked
    <2> QED
      BY <2>1, <2>2
  <1>3. ASSUME node_id = OffsetFeb31, Through(k) PROVE PlaceOf(k) = NoPlace
    <2>1. PICK i \in 0 .. NumItems : Trail(k)[i] = OffsetFeb31
      BY <1>0, <1>3, HookHolds DEF Through, Linked
    <2>2. Trail(k)[NumItems] = OffsetFeb31
      BY <1>0, <2>1, StopStays DEF Stops
    <2> QED
      BY <2>2 DEF PlaceOf
  <1>4. ASSUME k # new.key, Through(k) PROVE PlaceOf(k)' = NoPlace
    <2>1. Trail(k)[NumItems]' = OffsetFeb31
      BY <1>4, LinkThrough
    <2> QED
      BY <2>1 DEF PlaceOf
  <1>5. ASSUME ~Through(k) PROVE PlaceOf(k)' = PlaceOf(k)
    <2>1. PICK n : n = Trail(k)[NumItems]
      OBVIOUS
    <2>2. Trail(k)[NumItems]' = n
      BY <1>0, <1>5, <2>1, LinkAside
    <2>3. n \in Live \cup {OffsetFeb31}
      BY <1>0, <2>1, TrailLive
    <2> QED
      BY <2>1, <2>2, <2>3 DEF Linked, PlaceOf
  <1> QED
    BY <1>1, <1>2, <1>3, <1>4, <1>5

(* The nodes found by their own key, after an insert: the new one, and     *)
(* those whose walk does not follow the pointer written through.           *)
LEMMA LinkInTree ==
  ASSUME NEW f, Linked(f), NodesHold, Through(new.key)
  PROVE  InTree' = {f} \cup {n \in InTree : ~Through(item[n].key)}
  <1>0. /\ NumItems \in Nat /\ NumItems \in 0 .. NumItems
        /\ f # OffsetFeb31 /\ f \notin Live /\ Live' = Live \cup {f}
        /\ new.key \in NodeKeys /\ OffsetFeb31 \notin Live
        /\ \A n \in Live : item[n].key \in NodeKeys
    BY IndexAssumption, NullFacts DEF Linked, NodesHold, NodeKeys, Live
  <1>1. f \in InTree'
    <2>1. PICK k : k = item'[f].key
      OBVIOUS
    <2>2. k = new.key /\ k \in NodeKeys
      BY <2>1, <1>0 DEF Linked
    <2>3. Trail(k)[NumItems]' = f
      BY <2>2, LinkThrough
    <2> QED
      BY <1>0, <2>1, <2>3 DEF InTree
  <1>2. ASSUME NEW n \in Live
        PROVE  n \in InTree' <=> n \in InTree /\ ~Through(item[n].key)
    <2>1. PICK k : k = item[n].key
      OBVIOUS
    <2>2. k \in NodeKeys /\ item'[n].key = k
      BY <1>0, <2>1 DEF Linked
    <2>3. n \in InTree' <=> Trail(k)[NumItems]' = n
      BY <1>0, <2>2 DEF InTree
    <2>4. n \in InTree <=> Trail(k)[NumItems] = n
      BY <2>1 DEF InTree
    <2>5. CASE Through(k)
      BY <1>0, <2>1, <2>2, <2>3, <2>5, LinkThrough
    <2>6. CASE ~Through(k)
      BY <1>0, <2>1, <2>2, <2>3, <2>4, <2>6, LinkAside
    <2> QED
      BY <2>5, <2>6
  <1>3. InTree' \subseteq Live' /\ InTree \subseteq Live
    BY DEF InTree
  <1> QED
    BY <1>0, <1>1, <1>2, <1>3

(* The node a pointer of the tree leads to is come to through it.          *)
LEMMA TreePath ==
  ASSUME TypeOK, PoolSafe, NodesHold, NEW loc \in Locations, NEW x \in InTree, Deref(loc) = x
  PROVE  \E j \in 0 .. NumItems :
           Reached(item[x].key, j) /\ Trail(item[x].key)[j] = x /\ Hook(item[x].key, j) = loc
  <1>0. NumItems \in Nat /\ NumItems \in 0 .. NumItems
    BY IndexAssumption
  <1>1. PICK k : k = item[x].key
    OBVIOUS
  <1>2. k \in NodeKeys /\ Trail(k)[NumItems] = x /\ x # OffsetFeb31
    BY <1>1, NullFacts DEF InTree, NodesHold, NodeKeys, Live
  <1>3. PICK j \in 0 .. NumItems : Reached(k, j) /\ Trail(k)[j] = x
    BY <1>0, <1>2, FirstVisit
  <1>4. Hook(k, j) = loc
    BY <1>2, <1>3, HookHolds DEF PoolSafe, NoSharing
  <1> QED
    BY <1>1, <1>3, <1>4

(* A node below the pointer the handler is at hangs from a node below it,  *)
(* or from that pointer.                                                   *)
LEMMA ThroughParent ==
  ASSUME TypeOK, PoolSafe, NodesHold,
         NEW loc \in Locations, NEW x \in InTree, Deref(loc) = x,
         loc # pre_node_ptr, loc.at # "head" => loc.of \in InTree,
         Through(item[x].key)
  PROVE  loc.at # "head" /\ Through(item[loc.of].key)
  <1>0. NumItems \in Nat /\ NumItems \in 0 .. NumItems /\ 0 \in 0 .. NumItems
    BY IndexAssumption
  <1>1. PICK k : k = item[x].key
    OBVIOUS
  <1>2. k \in NodeKeys /\ x # OffsetFeb31 /\ Through(k) /\ Stops(k, x)
    BY <1>1, NullFacts DEF InTree, NodesHold, NodeKeys, Live, Stops
  <1>3. PICK j \in 0 .. NumItems : Reached(k, j) /\ Trail(k)[j] = x /\ Hook(k, j) = loc
    BY <1>1, TreePath
  <1>4. PICK i \in 0 .. NumItems : Reached(k, i) /\ Hook(k, i) = pre_node_ptr
    BY <1>2 DEF Through
  <1>5. i < j
    <2>1. i # j
      BY <1>3, <1>4
    <2>2. ASSUME j < i PROVE FALSE
      <3>1. i - 1 \in 0 .. NumItems /\ j <= i - 1 /\ i # 0
        BY <1>0, <2>2
      <3>2. ~Stops(k, Trail(k)[i - 1])
        BY <1>4, <3>1 DEF Reached
      <3>3. ~Stops(k, Trail(k)[j])
        BY <1>2, <3>1, <3>2, ReachedBefore
      <3> QED
        BY <1>2, <1>3, <3>3
    <2> QED
      BY <1>0, <2>1, <2>2
  <1>6. j # 0 /\ j - 1 \in 0 .. NumItems /\ i \in 0 .. j - 1 /\ j \in 1 .. NumItems
    BY <1>0, <1>5
  <1>7. PICK n : n = Trail(k)[j - 1]
    OBVIOUS
  <1>8. loc.at # "head" /\ loc.of = n /\ n \in InTree /\ ~Stops(k, n) /\ Reached(k, j - 1)
    BY <1>2, <1>3, <1>6, <1>7, HookHolds, ReachedBefore DEF Reached
  <1>9. PICK h : h = item[n].key
    OBVIOUS
  <1>10. h \in NodeKeys /\ n # OffsetFeb31 /\ Trail(h)[NumItems] = n
    BY <1>8, <1>9, NullFacts DEF InTree, NodesHold, NodeKeys, Live
  <1>11. PICK q \in 0 .. NumItems : Reached(h, q) /\ Trail(h)[q] = n
    BY <1>0, <1>10, FirstVisit
  <1>12. q = j - 1 /\ Hook(k, i) = Hook(h, i)
    BY <1>2, <1>6, <1>7, <1>8, <1>10, <1>11, SamePath
  <1>13. Reached(h, i)
    BY <1>6, <1>10, <1>11, <1>12, ReachedBefore
  <1> QED
    BY <1>4, <1>8, <1>9, <1>12, <1>13 DEF Through

(* An insert keeps the trees such that every node in them is found.        *)
LEMMA LinkKeepsTree ==
  ASSUME NEW f, Linked(f), NodesHold, TreeClosed, Through(new.key)
  PROVE  TreeClosed'
  <1>0. /\ f # OffsetFeb31 /\ f \notin Live /\ f \in Live'
        /\ TypeOK /\ PoolSafe /\ hash_head_size' = hash_head_size
        /\ InTree \subseteq Live
    BY NullFacts DEF Linked, InTree
  <1>1. InTree' = {f} \cup {n \in InTree : ~Through(item[n].key)}
    BY LinkInTree
  <1>2. SUFFICES ASSUME NEW loc \in Locations', loc.at # "head" => loc.of \in InTree'
                 PROVE  Deref(loc)' \in InTree' \cup {OffsetFeb31}
    BY DEF TreeClosed, TreeLocations
  <1>3. Deref(loc)' = IF loc = pre_node_ptr THEN f
                      ELSE IF loc \in Locations THEN Deref(loc) ELSE OffsetFeb31
    BY DEF Linked
  <1>4. CASE loc = pre_node_ptr \/ loc \notin Locations
    BY <1>1, <1>3, <1>4 DEF Linked
  <1>5. CASE loc # pre_node_ptr /\ loc \in Locations
    <2>1. loc.at # "head" => loc.of \in InTree /\ ~Through(item[loc.of].key)
      BY <1>0, <1>1, <1>2, <1>5, LocationValid
    <2>2. PICK x : x = Deref(loc)
      OBVIOUS
    <2>3. x \in InTree \cup {OffsetFeb31}
      BY <1>5, <2>1, <2>2 DEF TreeClosed, TreeLocations
    <2>4. x \in InTree => ~Through(item[x].key)
      BY <1>0, <1>5, <2>1, <2>2, ThroughParent
    <2> QED
      BY <1>1, <1>3, <1>5, <2>2, <2>3, <2>4
  <1> QED
    BY <1>4, <1>5

------------------------------------------------------------------------------
(* Delete.                                                                 *)

(* What BSTDelete writes when node d has at most one child c: the pointer  *)
(* to d takes c, and d is no longer in use; the other nodes keep key,      *)
(* place and pointers.                                                     *)
Unlinked(d, c) ==
  /\ d = node_id /\ d \in InTree /\ Live' = Live \ {d}
  /\ item[d].key = new.key /\ new.key \in NodeKeys
  /\ c # d /\ (c # OffsetFeb31 => \E side \in {"left", "right"} :
                                    Deref([at |-> side, of |-> d]) = c)
  /\ item[d].left \in {c, OffsetFeb31} /\ item[d].right \in {c, OffsetFeb31}
  /\ \A n \in Live \ {d} : item'[n].key = item[n].key /\ item'[n].place = item[n].place
  /\ Locations' = {loc \in Locations : loc.at = "head" \/ loc.of # d}
  /\ \A loc \in Locations' : Deref(loc)' = IF loc = pre_node_ptr THEN c ELSE Deref(loc)
  /\ hash_head_size' = hash_head_size
  /\ TypeOK /\ TypeOK' /\ PoolSafe /\ PoolSafe'
  /\ pre_node_ptr \in Locations /\ Deref(pre_node_ptr) = d

(* The delete of a node with at most one child writes this.                *)
LEMMA UnlinkIsUnlinked ==
  ASSUME MapInv, DeleteUnlink
  PROVE  \E c : Unlinked(node_id, c)
  <1>0. /\ TypeOK /\ PoolSafe /\ PoolInv /\ TypeInv /\ NodesHold /\ CallInv
        /\ pc = "walk" /\ Hit /\ NumItems \in Nat /\ NumItems \in 0 .. NumItems
        /\ pre_node_ptr \in Locations /\ Deref(pre_node_ptr) = node_id
        /\ new.key \in NodeKeys
    BY IndexAssumption DEF MapInv, PoolInv, TypeInv, TypeOK, DeleteUnlink, Node
  <1>1. /\ node_id \in Live /\ Live' = Live \ {node_id}
        /\ Locations' = {loc \in Locations : loc.at = "head" \/ loc.of # node_id}
    BY <1>0, UnlinkEffect
  <1>2. PICK c \in Pointer :
          /\ c # OffsetFeb31 =>
               \E side \in {"left", "right"} :
                 /\ Deref([at |-> side, of |-> node_id]) = c
                 /\ \A other \in {"left", "right"} \ {side} :
                      Deref([at |-> other, of |-> node_id]) = OffsetFeb31
          /\ c = OffsetFeb31 =>
               \A side \in {"left", "right"} :
                 Deref([at |-> side, of |-> node_id]) = OffsetFeb31
          /\ \A loc \in Locations' :
               Deref(loc)' = IF loc = pre_node_ptr THEN c ELSE Deref(loc)
    BY <1>0, UnlinkEffect
  <1>3. item[node_id].left \in {c, OffsetFeb31} /\ item[node_id].right \in {c, OffsetFeb31}
    <2>1. /\ Deref([at |-> "left", of |-> node_id]) = item[node_id].left
          /\ Deref([at |-> "right", of |-> node_id]) = item[node_id].right
      BY DEF Deref
    <2> QED
      BY <1>2, <2>1
  <1>4. PICK i \in 0 .. NumItems :
          /\ Reached(new.key, i) /\ Trail(new.key)[i] = node_id
          /\ pre_node_ptr = Hook(new.key, i)
    BY <1>0 DEF CallInv
  <1>5. item[node_id].key = new.key /\ Stops(new.key, node_id)
    BY <1>0 DEF Hit, Stops
  <1>6. node_id \in InTree
    <2>1. Trail(new.key)[NumItems] = node_id
      BY <1>0, <1>4, <1>5, StopStays
    <2> QED
      BY <1>1, <1>5, <2>1 DEF InTree
  <1>7. pre_node_ptr.at # "head" => pre_node_ptr.of # node_id
    <2>1. CASE i = 0
      BY <1>4, <2>1 DEF Hook, Root
    <2>2. CASE i # 0
      BY <1>4, <1>5, <2>2 DEF Reached, Hook, Branch, Stops
    <2> QED
      BY <2>1, <2>2
  <1>8. c # node_id
    <2> SUFFICES ASSUME c = node_id PROVE FALSE
      OBVIOUS
    <2>1. c # OffsetFeb31
      BY <1>0 DEF Hit
    <2>2. PICK side \in {"left", "right"} : Deref([at |-> side, of |-> node_id]) = c
      BY <1>2, <2>1
    <2>3. [at |-> side, of |-> node_id] \in Locations
      BY <1>1 DEF Locations
    <2> QED
      BY <1>0, <1>7, <2>1, <2>2, <2>3 DEF PoolSafe, NoSharing
  <1>9. Store([item EXCEPT ![node_id].key = OffsetFeb31], pre_node_ptr, OnlyChild)
        /\ hash_head_size' = hash_head_size
    BY DEF DeleteUnlink, Store
  <1>10. \A n \in Live \ {node_id} : item'[n].key = item[n].key /\ item'[n].place = item[n].place
    BY <1>0, <1>9 DEF Store, TypeOK, Node, Live
  <1>11. TypeOK' /\ PoolSafe'
    <2>1. Next
      BY DEF Next, Handler
    <2> QED
      BY <1>0, <2>1, TypeStep, UnlinkKeepsPool DEF TypeInv
  <1>12. c # OffsetFeb31 => \E side \in {"left", "right"} :
                              Deref([at |-> side, of |-> node_id]) = c
    BY <1>2
  <1> QED
    BY <1>0, <1>1, <1>2, <1>3, <1>5, <1>6, <1>8, <1>9, <1>10, <1>11, <1>12 DEF Unlinked

(* After it the pointers of the trees lead to nodes that were found before,*)
(* and not to the one removed.                                             *)
LEMMA UnlinkPointers ==
  ASSUME NEW d, NEW c, Unlinked(d, c), TreeClosed,
         NEW loc \in Locations', loc.at # "head" => loc.of \in InTree
  PROVE  Deref(loc)' \in (InTree \ {d}) \cup {OffsetFeb31}
  <1>0. /\ d # OffsetFeb31 /\ d \in Live /\ loc \in Locations
        /\ TypeOK /\ PoolSafe /\ loc \in TreeLocations
    BY NullFacts DEF Unlinked, InTree, Live, TreeLocations
  <1>1. c \in InTree \cup {OffsetFeb31}
    <2>1. \A side \in {"left", "right"} : [at |-> side, of |-> d] \in TreeLocations
      BY <1>0 DEF Locations, TreeLocations, Unlinked
    <2> QED
      BY <2>1 DEF Unlinked, TreeClosed
  <1>2. Deref(loc) \in InTree \cup {OffsetFeb31}
    BY <1>0 DEF TreeClosed
  <1>3. loc # pre_node_ptr => Deref(loc) # d
    BY <1>0 DEF Unlinked, PoolSafe, NoSharing
  <1> QED
    BY <1>1, <1>2, <1>3 DEF Unlinked

(* So walks come to such nodes only.                                       *)
LEMMA UnlinkTrail ==
  ASSUME NEW d, NEW c, Unlinked(d, c), TreeClosed, NEW k \in NodeKeys
  PROVE  \A i \in 0 .. NumItems : Trail(k)[i]' \in (InTree \ {d}) \cup {OffsetFeb31}
  <1>0. /\ NumItems \in Nat /\ 0 \in 0 .. NumItems
        /\ TypeOK /\ TypeOK' /\ PoolSafe /\ PoolSafe' /\ InTree \subseteq Live
    BY IndexAssumption DEF Unlinked, InTree
  <1>1. /\ Trail(k)[0]' = hash_head[GetHTId(k)]'
        /\ \A h \in 1 .. NumItems : Trail(k)[h]' = Follow(k, Trail(k)[h - 1])'
    BY <1>0, WalksAfter DEF TrailsStep
  <1> DEFINE S == {i \in 0 .. NumItems : Trail(k)[i]' \in (InTree \ {d}) \cup {OffsetFeb31}}
  <1>2. 0 \in S
    <2>1. Root(k) \in Locations' /\ Root(k).at = "head" /\ Root(k).of = GetHTId(k)
      BY <1>0, RootIsHead DEF Unlinked, Root, Locations
    <2>2. PICK loc : loc = Root(k)
      OBVIOUS
    <2>3. Deref(loc)' \in (InTree \ {d}) \cup {OffsetFeb31}
      BY <2>1, <2>2, UnlinkPointers
    <2>4. Deref(loc)' = hash_head[GetHTId(k)]'
      BY <2>1, <2>2 DEF Deref, GetHTId, Unlinked
    <2> QED
      BY <1>0, <1>1, <2>3, <2>4
  <1>3. ASSUME NEW i \in 1 .. NumItems, i - 1 \in S PROVE i \in S
    <2>1. PICK n : n = Trail(k)[i - 1]'
      OBVIOUS
    <2>2. n \in (InTree \ {d}) \cup {OffsetFeb31} /\ Trail(k)[i]' = Follow(k, n)'
      BY <1>1, <1>3, <2>1
    <2>3. CASE Stops(k, n)'
      BY <1>0, <1>3, <2>2, <2>3 DEF Follow
    <2>4. CASE ~Stops(k, n)'
      <3>1. n \in InTree /\ n # d /\ n \in Live /\ item'[n].key = item[n].key
        BY <1>0, <2>2, <2>4 DEF Stops, Unlinked
      <3>2. PICK loc : loc = Branch(k, n)
        OBVIOUS
      <3>3. loc \in Locations' /\ loc.of = n /\ loc.at # "head"
        BY <3>1, <3>2 DEF Branch, Locations, Unlinked
      <3>4. Deref(loc)' \in (InTree \ {d}) \cup {OffsetFeb31}
        BY <3>1, <3>3, UnlinkPointers
      <3>5. Deref(loc)' = Follow(k, n)'
        BY <2>4, <3>1, <3>2 DEF Follow, Stops, Branch, Deref
      <3> QED
        BY <1>0, <2>2, <3>4, <3>5
    <2> QED
      BY <2>3, <2>4
  <1>4. 0 .. NumItems \subseteq S
    <2> HIDE DEF S
    <2> QED BY <1>0, <1>2, <1>3, InductionTo
  <1> QED
    BY <1>4

(* A walk that ended at another node still ends there: where it passed the *)
(* node removed it now goes on to that node's only child.                  *)
LEMMA UnlinkKeepsFound ==
  ASSUME NEW d, NEW c, Unlinked(d, c), NEW k \in NodeKeys, NEW n,
         Trail(k)[NumItems] = n, n # OffsetFeb31, n # d
  PROVE  Trail(k)[NumItems]' = n
  <1>0. /\ NumItems \in Nat /\ 0 \in 0 .. NumItems /\ NumItems \in 0 .. NumItems
        /\ TypeOK /\ TypeOK' /\ PoolSafe /\ PoolSafe'
        /\ \A j \in 1 .. NumItems : j \in 0 .. NumItems /\ j - 1 \in 0 .. NumItems /\ j # 0
    BY IndexAssumption DEF Unlinked
  <1>1. /\ Trail(k)[0]' = hash_head[GetHTId(k)]'
        /\ \A h \in 1 .. NumItems : Trail(k)[h]' = Follow(k, Trail(k)[h - 1])'
        /\ \A h, j \in 0 .. NumItems :
             Stops(k, Trail(k)[h])' /\ h <= j => Trail(k)[j]' = Trail(k)[h]'
    BY <1>0, WalksAfter DEF TrailsStep
  <1>2. \A j \in 0 .. NumItems : Trail(k)[j] # OffsetFeb31 /\ Trail(k)[j] \in Live
    BY <1>0, StopStays, TrailLive DEF Stops
  <1>3. \A loc \in Locations' :
          Deref(loc)' = IF Deref(loc) = d THEN c ELSE Deref(loc)
    <2> SUFFICES ASSUME NEW loc \in Locations'
                 PROVE  Deref(loc)' = IF Deref(loc) = d THEN c ELSE Deref(loc)
      OBVIOUS
    <2>1. loc \in Locations /\ d # OffsetFeb31
      BY NullFacts DEF Unlinked, InTree, Live
    <2>2. loc = pre_node_ptr <=> Deref(loc) = d
      BY <1>0, <2>1 DEF Unlinked, PoolSafe, NoSharing
    <2> QED
      BY <2>2 DEF Unlinked
  <1> DEFINE G(x) == IF x = d THEN c ELSE x
             S == {j \in 0 .. NumItems : \E h \in 0 .. j : Trail(k)[h]' = G(Trail(k)[j])}
  <1>4. 0 \in S
    <2>1. Root(k) \in Locations' /\ Root(k).at = "head" /\ Root(k).of = GetHTId(k)
      BY <1>0, RootIsHead DEF Unlinked, Root, Locations
    <2>2. PICK loc : loc = Root(k)
      OBVIOUS
    <2>3. Deref(loc)' = hash_head[GetHTId(k)]' /\ Deref(loc) = Trail(k)[0]
      BY <1>0, <2>1, <2>2, TrailSteps DEF TrailsStep, Deref, GetHTId, Unlinked
    <2>4. Trail(k)[0]' = G(Trail(k)[0])
      BY <1>1, <1>3, <2>1, <2>2, <2>3
    <2>5. 0 \in 0 .. 0
      OBVIOUS
    <2> QED
      BY <1>0, <2>4, <2>5
  <1>5. ASSUME NEW j \in 1 .. NumItems, j - 1 \in S PROVE j \in S
    <2>1. PICK m : m = Trail(k)[j - 1]
      OBVIOUS
    <2>2. PICK h \in 0 .. j - 1 : Trail(k)[h]' = G(m)
      BY <1>5, <2>1
    <2>3. h \in 0 .. j /\ h + 1 \in 0 .. j /\ h + 1 \in 1 .. NumItems /\ (h + 1) - 1 = h
      BY <1>0
    <2>4. Trail(k)[j] = Follow(k, m) /\ m \in Live /\ Trail(k)[j] # OffsetFeb31
      BY <1>0, <1>2, <2>1, TrailSteps DEF TrailsStep
    <2>5. CASE Stops(k, m)
      <3>1. Trail(k)[j] = m
        BY <2>4, <2>5 DEF Follow
      <3>2. Trail(k)[h]' = G(Trail(k)[j])
        BY <2>2, <3>1
      <3> QED
        BY <1>0, <2>3, <3>2
    <2>6. CASE m = d /\ ~Stops(k, m)
      <3>1. Trail(k)[j] = c
        BY <2>4, <2>6 DEF Follow, Unlinked
      <3>2. G(Trail(k)[j]) = c /\ G(m) = c
        BY <2>6, <3>1 DEF Unlinked
      <3> QED
        BY <1>0, <2>2, <2>3, <3>2
    <2>7. CASE m # d /\ ~Stops(k, m)
      <3>1. Trail(k)[h]' = m /\ item'[m].key = item[m].key
        BY <2>2, <2>4, <2>7 DEF Unlinked
      <3>2. PICK loc : loc = Branch(k, m)
        OBVIOUS
      <3>3. loc \in Locations'
        BY <2>4, <2>7, <3>2 DEF Branch, Locations, Unlinked
      <3>4. Deref(loc) = Trail(k)[j]
        BY <2>4, <2>7, <3>2 DEF Follow, Branch, Deref
      <3>5. ~Stops(k, m)'
        BY <2>7, <3>1 DEF Stops
      <3>6. Trail(k)[h + 1]' = Follow(k, m)'
        BY <1>1, <2>3, <3>1
      <3>7. Follow(k, m)' = Deref(loc)'
        BY <3>1, <3>2, <3>5 DEF Follow, Branch, Deref
      <3>8. Trail(k)[h + 1]' = G(Trail(k)[j])
        BY <1>3, <3>3, <3>4, <3>6, <3>7
      <3> QED
        BY <1>0, <2>3, <3>8
    <2> QED
      BY <2>5, <2>6, <2>7
  <1>6. 0 .. NumItems \subseteq S
    <2> HIDE DEF S
    <2> QED BY <1>0, <1>4, <1>5, InductionTo
  <1>7. PICK h \in 0 .. NumItems : Trail(k)[h]' = n
    BY <1>0, <1>6
  <1>8. Stops(k, n)'
    <2>1. Stops(k, n) /\ n \in Live
      BY <1>0, <1>2, WalkStops
    <2> QED
      BY <2>1 DEF Stops, Unlinked
  <1> QED
    BY <1>0, <1>1, <1>7, <1>8

(* A delete takes one node out of the trees ...                            *)
LEMMA UnlinkInTree ==
  ASSUME NEW d, NEW c, Unlinked(d, c), TreeClosed, NodesHold
  PROVE  InTree' = InTree \ {d} /\ TreeClosed'
  <1>0. /\ NumItems \in Nat /\ NumItems \in 0 .. NumItems /\ InTree \subseteq Live
        /\ \A n \in Live : item[n].key \in NodeKeys /\ n # OffsetFeb31
    BY IndexAssumption, NullFacts DEF InTree, NodesHold, NodeKeys, Live
  <1>1. ASSUME NEW n \in Live \ {d} PROVE n \in InTree' <=> n \in InTree
    <2>1. PICK k : k = item[n].key
      OBVIOUS
    <2>2. k \in NodeKeys /\ item'[n].key = k /\ n \in Live'
      BY <1>0, <2>1 DEF Unlinked
    <2>3. n \in InTree' <=> Trail(k)[NumItems]' = n
      BY <2>2 DEF InTree
    <2>4. n \in InTree <=> Trail(k)[NumItems] = n
      BY <2>1 DEF InTree
    <2>5. n \in InTree => n \in InTree'
      BY <1>0, <2>2, <2>3, <2>4, UnlinkKeepsFound
    <2>6. n \in InTree' => n \in InTree
      BY <1>0, <2>2, <2>3, UnlinkTrail
    <2> QED
      BY <2>5, <2>6
  <1>2. InTree' \subseteq Live \ {d}
    BY DEF InTree, Unlinked
  <1>3. InTree' = InTree \ {d}
    BY <1>0, <1>1, <1>2
  <1>4. TreeClosed'
    BY <1>3, UnlinkPointers DEF TreeClosed, TreeLocations
  <1> QED
    BY <1>3, <1>4

(* ... and its key out of the map, and no other.                           *)
LEMMA UnlinkMap ==
  ASSUME NEW d, NEW c, Unlinked(d, c), TreeClosed, NodesHold, NEW k \in NodeKeys
  PROVE  PlaceOf(k)' = IF k = new.key THEN NoPlace ELSE PlaceOf(k)
  <1>0. /\ NumItems \in Nat /\ NumItems \in 0 .. NumItems /\ InTree \subseteq Live
        /\ TypeOK /\ TypeOK' /\ PoolSafe /\ PoolSafe'
        /\ d \in Live /\ d # OffsetFeb31 /\ Trail(new.key)[NumItems] = d
    BY IndexAssumption, NullFacts DEF InTree, Unlinked, Live
  <1>1. PICK m : m = Trail(k)[NumItems]'
    OBVIOUS
  <1>2. m \in (InTree \ {d}) \cup {OffsetFeb31} /\ Stops(k, m)'
    BY <1>0, <1>1, UnlinkTrail, WalksAfter DEF Stops
  <1>3. m # OffsetFeb31 => /\ m \in InTree /\ m # d /\ item[m].key = k
                           /\ item'[m].key = k /\ item'[m].place = item[m].place
                           /\ Trail(k)[NumItems] = m
    BY <1>0, <1>2 DEF Stops, InTree, Unlinked
  <1>4. CASE k = new.key
    <2>1. m = OffsetFeb31
      BY <1>0, <1>3, <1>4
    <2> QED
      BY <1>1, <1>4, <2>1 DEF PlaceOf
  <1>5. CASE k # new.key
    <2>1. PICK n : n = Trail(k)[NumItems]
      OBVIOUS
    <2>2. CASE n = OffsetFeb31
      <3>1. m = OffsetFeb31
        BY <1>3, <2>1, <2>2
      <3> QED
        BY <1>1, <1>5, <2>1, <2>2, <3>1 DEF PlaceOf
    <2>3. CASE n # OffsetFeb31
      <3>1. Stops(k, n)
        BY <1>0, <2>1, WalkStops
      <3>2. n # d
        BY <1>5, <2>3, <3>1 DEF Stops, Unlinked
      <3>3. m = n
        BY <1>1, <2>1, <2>3, <3>2, UnlinkKeepsFound
      <3> QED
        BY <1>1, <1>3, <1>5, <2>1, <2>3, <3>3 DEF PlaceOf
    <2> QED
      BY <2>2, <2>3
  <1> QED
    BY <1>4, <1>5

------------------------------------------------------------------------------
(* The invariant is one.                                                   *)

(* A step that writes no node, no head and not the pool changes no walk.   *)
LEMMA TreesUnchanged ==
  ASSUME UNCHANGED <<item, heads, pool>>
  PROVE  /\ \A k : Trail(k)' = Trail(k) /\ PlaceOf(k)' = PlaceOf(k)
         /\ Live' = Live /\ InTree' = InTree
         /\ \A k, i : Reached(k, i)' = Reached(k, i) /\ Hook(k, i)' = Hook(k, i)
         /\ TreeClosed => TreeClosed'
         /\ NodesHold => NodesHold'
  <1>1. item' = item /\ hash_head' = hash_head /\ hash_head_size' = hash_head_size
        /\ item_horizon' = item_horizon /\ free_slots' = free_slots
    BY DEF heads, pool
  <1>2. \A k : Trail(k)' = Trail(k)
    BY <1>1 DEF Trail, GetHTId
  <1>3. \A k : PlaceOf(k)' = PlaceOf(k)
    BY <1>1, <1>2 DEF PlaceOf
  <1>4. Live' = Live /\ Locations' = Locations
    BY <1>1 DEF Live, Freed, Locations
  <1>5. InTree' = InTree
    BY <1>1, <1>2, <1>4 DEF InTree
  <1>6. \A k, i : Reached(k, i)' = Reached(k, i) /\ Hook(k, i)' = Hook(k, i)
    BY <1>1, <1>2 DEF Reached, Hook, Stops, Branch, Root, GetHTId
  <1>7. TreeClosed => TreeClosed'
    BY <1>1, <1>4, <1>5 DEF TreeClosed, TreeLocations, Deref
  <1>8. NodesHold => NodesHold'
    BY <1>1, <1>4 DEF NodesHold
  <1> QED
    BY <1>2, <1>3, <1>4, <1>5, <1>6, <1>7, <1>8

(* At first no position is live.                                           *)
LEMMA MapInit == Init => MapInv
  <1> SUFFICES ASSUME Init PROVE MapInv
    OBVIOUS
  <1>1. PoolInv
    BY PoolInit
  <1>2. Live = {}
    BY DEF Init, Live, Positions
  <1>3. \A loc \in Locations : Deref(loc) = OffsetFeb31
    BY <1>2 DEF Locations, Deref, Init
  <1> QED
    BY <1>1, <1>2, <1>3
    DEF MapInv, TreeClosed, TreeLocations, NodesHold, CallInv, InTree, Init

(* Insert keeps it.                                                        *)
LEMMA LinkKeepsMap ==
  ASSUME MapInv, InsertLink
  PROVE  TreeClosed' /\ NodesHold' /\ (TRUE \notin Covers => Live' \subseteq InTree')
  <1>0. /\ PoolInv /\ NodesHold /\ TreeClosed /\ CallInv /\ pc = "walk" /\ op = "insert"
        /\ NumItems \in Nat /\ NumItems \in 0 .. NumItems
    BY IndexAssumption DEF MapInv, InsertLink, Link
  <1>1. PICK f : Linked(f)
    BY <1>0, LinkIsLinked
  <1>2. Through(new.key)
    BY <1>0 DEF CallInv, Through
  <1>3. TreeClosed'
    BY <1>0, <1>1, <1>2, LinkKeepsTree
  <1>4. NodesHold'
    BY <1>0, <1>1 DEF NodesHold, Linked, CallInv
  <1>5. ASSUME TRUE \notin Covers, NEW n \in Live PROVE n \in InTree /\ ~Through(item[n].key)
    <2>1. n \in InTree
      BY <1>5 DEF MapInv
    <2>2. PICK k : k = item[n].key
      OBVIOUS
    <2>3. k \in NodeKeys /\ Trail(k)[NumItems] = n /\ n # OffsetFeb31
      BY <1>0, <2>1, <2>2, NullFacts DEF NodesHold, NodeKeys, InTree, Live
    <2>4. node_id = OffsetFeb31
      BY <1>0, <1>5 DEF CallInv, InsertLink, Link, Miss, PoolInv, TypeInv, TypeOK
    <2>5. ASSUME NEW i \in 0 .. NumItems, Reached(k, i), Hook(k, i) = pre_node_ptr
          PROVE  FALSE
      <3>1. Trail(k)[i] = OffsetFeb31
        BY <1>1, <2>3, <2>4, <2>5, HookHolds DEF Linked
      <3>2. Trail(k)[NumItems] = OffsetFeb31
        BY <1>0, <1>1, <2>3, <3>1, StopStays DEF Linked, Stops
      <3> QED
        BY <2>3, <3>2
    <2> QED
      BY <2>1, <2>2, <2>5 DEF Through
  <1>6. InTree' = {f} \cup {n \in InTree : ~Through(item[n].key)}
    BY <1>0, <1>1, <1>2, LinkInTree
  <1> QED
    BY <1>1, <1>3, <1>4, <1>5, <1>6 DEF Linked

(* Delete keeps it.                                                        *)
LEMMA UnlinkKeepsMap ==
  ASSUME MapInv, DeleteUnlink
  PROVE  TreeClosed' /\ NodesHold' /\ (TRUE \notin Covers => Live' \subseteq InTree')
  <1>1. PICK c : Unlinked(node_id, c)
    BY UnlinkIsUnlinked
  <1>2. PICK d : d = node_id /\ Unlinked(d, c)
    BY <1>1
  <1>3. InTree' = InTree \ {d} /\ TreeClosed'
    BY <1>2, UnlinkInTree DEF MapInv
  <1> QED
    BY <1>2, <1>3 DEF MapInv, NodesHold, Unlinked

(* The walk goes one position on.                                          *)
LEMMA WalkKeepsCall ==
  ASSUME MapInv, WalkLeft \/ WalkRight
  PROVE  CallInv'
  <1>0. /\ TypeOK /\ PoolSafe /\ CallInv /\ pc = "walk" /\ new.key \in NodeKeys
        /\ UNCHANGED <<item, heads, pool, pc, call>>
        /\ NumItems \in Nat
    BY IndexAssumption
    DEF MapInv, PoolInv, TypeInv, TypeOK, Node, WalkLeft, WalkRight
  <1>1. PICK i \in 0 .. NumItems :
          /\ Reached(new.key, i) /\ Trail(new.key)[i] = node_id
          /\ pre_node_ptr = Hook(new.key, i)
    BY <1>0 DEF CallInv
  <1>2. ~Stops(new.key, node_id) /\ node_id \in Positions
    <2>1. node_id \in Positions /\ item[node_id].key \in Nat /\ new.key \in Nat
      BY <1>0, NullFacts DEF WalkLeft, WalkRight, Miss, TypeOK, Node, Pointer
    <2> QED
      BY <2>1, NullFacts DEF WalkLeft, WalkRight, Miss, Stops
  <1>3. i # NumItems
    BY <1>0, <1>1, <1>2, WalkStops
  <1>4. i + 1 \in 1 .. NumItems /\ i + 1 \in 0 .. NumItems /\ (i + 1) - 1 = i /\ i + 1 # 0
    BY <1>0, <1>3
  <1>5. Reached(new.key, i + 1) /\ Hook(new.key, i + 1) = Branch(new.key, node_id)
    BY <1>1, <1>2, <1>4 DEF Reached, Hook
  <1>6. Trail(new.key)[i + 1] = Follow(new.key, node_id)
    BY <1>0, <1>1, <1>4, TrailSteps DEF TrailsStep
  <1>7. item[node_id].key \in Nat /\ new.key \in Nat
    BY <1>0, <1>2, NullFacts DEF TypeOK, Node
  <1>8. Trail(new.key)[i + 1] = node_id' /\ pre_node_ptr' = Hook(new.key, i + 1)
    BY <1>2, <1>5, <1>6, <1>7 DEF WalkLeft, WalkRight, Follow, Branch
  <1>9. new' = new /\ pc' = pc /\ op' = op /\ cover' = cover
    BY <1>0 DEF call
  <1>10. \A k : /\ Trail(k)' = Trail(k)
                /\ \A j : Reached(k, j)' = Reached(k, j) /\ Hook(k, j)' = Hook(k, j)
    BY <1>0, TreesUnchanged
  <1>11. PICK k : k = new.key
    OBVIOUS
  <1>12. \E j \in 0 .. NumItems :
           Reached(k, j)' /\ Trail(k)[j]' = node_id' /\ pre_node_ptr' = Hook(k, j)'
    BY <1>4, <1>5, <1>8, <1>10, <1>11
  <1> QED
    BY <1>0, <1>9, <1>11, <1>12 DEF CallInv

(* Every step of a program that calls Load only before keeps it.           *)
LEMMA MapStep ==
  ASSUME "load" \notin Ops
  PROVE  MapInv /\ [Next]_vars => MapInv'
  <1> SUFFICES ASSUME MapInv, [Next]_vars PROVE MapInv'
    OBVIOUS
  <1>0. /\ PoolInv /\ PoolInv' /\ TypeOK /\ PoolSafe /\ CallInv /\ TreeClosed /\ NodesHold
        /\ op # "load" /\ pc # "load" /\ NumItems \in Nat /\ 0 \in 0 .. NumItems
        /\ NumItems \in 0 .. NumItems
    BY PoolStep, IndexAssumption DEF MapInv, PoolInv, TypeInv
  <1>1. CASE InsertLink
    <2>1. CallInv'
      BY <1>1 DEF InsertLink, Return, Leave, CallInv
    <2> QED
      BY <1>0, <1>1, <2>1, LinkKeepsMap DEF MapInv
  <1>2. CASE DeleteUnlink
    <2>1. CallInv'
      BY <1>2 DEF DeleteUnlink, Return, Leave, CallInv
    <2> QED
      BY <1>0, <1>2, <2>1, UnlinkKeepsMap DEF MapInv
  <1>3. CASE ~InsertLink /\ ~DeleteUnlink
    <2>1. UNCHANGED <<item, heads, pool>>
      BY <1>0, <1>3 DEF Next, Caller, Handler, vars, CallSearch, CallInsert,
         CallDelete, WrongLength, CallLoad, StartLoad, Call, Enter, WalkLeft,
         WalkRight, SearchEnd, InsertExist, InsertFull, DeleteMiss, DeleteTwo,
         NearestStep, NearestNull, LoadItem, LoadLink, LoadEnd, Crash
    <2>2. /\ TreeClosed' /\ NodesHold' /\ Live' = Live /\ InTree' = InTree
          /\ \A k : /\ Trail(k)' = Trail(k)
                    /\ \A i : Reached(k, i)' = Reached(k, i) /\ Hook(k, i)' = Hook(k, i)
      BY <1>0, <2>1, TreesUnchanged
    <2> SUFFICES CallInv'
      BY <1>0, <2>2 DEF MapInv
    <2>3. ASSUME NEW k \in Keys, NEW c \in BOOLEAN, c => TRUE \in Covers,
                 NEW p \in Places \cup {NoPlace},
                 NEW o \in {"search", "insert", "delete"}, o = "insert" => p \in Places,
                 Call(o, c, FillItem(k, p))
          PROVE  CallInv'
      <3>1. /\ new' = FillItem(k, p) /\ op' = o /\ pc' = "walk" /\ cover' = c
            /\ node_id' = hash_head[GetHTId(k)] /\ pre_node_ptr' = Root(k)
        BY <2>3 DEF Call, Enter, StartWalk, FillItem
      <3>2. FillItem(k, p).key = k /\ FillItem(k, p).place = p /\ k \in NodeKeys
        BY DEF FillItem, NodeKeys
      <3>3. Reached(k, 0)' /\ Trail(k)[0]' = node_id' /\ pre_node_ptr' = Hook(k, 0)'
        BY <1>0, <2>2, <3>1, <3>2, TrailSteps DEF TrailsStep, Reached, Hook
      <3>4. new'.key = k /\ new'.place = p
        BY <3>1, <3>2
      <3>5. \E i \in 0 .. NumItems :
              /\ Reached(k, i)' /\ Trail(k)[i]' = node_id' /\ pre_node_ptr' = Hook(k, i)'
        BY <1>0, <3>3
      <3> QED
        BY <2>3, <3>1, <3>4, <3>5 DEF CallInv
    <2>4. CASE CallSearch \/ CallInsert \/ CallDelete
      BY <2>3, <2>4, IndexAssumption DEF CallSearch, CallInsert, CallDelete
    <2>5. CASE WalkLeft \/ WalkRight
      BY <2>5, WalkKeepsCall
    <2>6. CASE SearchEnd \/ InsertExist \/ InsertFull \/ DeleteMiss \/ NearestNull
      BY <2>6 DEF SearchEnd, InsertExist, InsertFull, DeleteMiss, NearestNull, Crash,
         Return, Leave, CallInv
    <2>7. CASE DeleteTwo
      <3>1. PICK i \in 0 .. NumItems : Trail(new.key)[i] = node_id
        BY <1>0, <2>7 DEF CallInv, DeleteTwo
      <3>2. new.key \in NodeKeys /\ Stops(new.key, node_id)
        BY <1>0, <2>7 DEF DeleteTwo, Hit, Stops, TypeOK, Node
      <3>3. Trail(new.key)[NumItems] = node_id
        BY <1>0, <3>1, <3>2, StopStays
      <3>4. PICK k : k = new.key
        OBVIOUS
      <3>5. Trail(k)[NumItems]' = node_id /\ new' = new /\ node_id' = node_id /\ item' = item
        BY <2>1, <2>2, <2>7, <3>3, <3>4 DEF DeleteTwo, call
      <3> QED
        BY <1>0, <2>7, <3>4, <3>5 DEF DeleteTwo, call, Hit, CallInv
    <2>8. CASE NearestStep \/ WrongLength \/ UNCHANGED vars
      <3>1. UNCHANGED <<pc, call, node_id, pre_node_ptr, item>>
        BY <2>8 DEF NearestStep, WrongLength, vars, cursor
      <3>2. PICK k : k = new.key
        OBVIOUS
      <3>3. \A i : Trail(k)[i]' = Trail(k)[i]
        BY <2>2
      <3>4. new' = new /\ new'.key = k /\ pc' = pc /\ op' = op /\ cover' = cover
        BY <3>1, <3>2 DEF call
      <3>5. pc = "walk" => \E i \in 0 .. NumItems :
              /\ Reached(k, i)' /\ Trail(k)[i]' = node_id'
              /\ pre_node_ptr' = Hook(k, i)'
        BY <1>0, <2>2, <3>1, <3>2, <3>3 DEF CallInv
      <3> QED
        BY <1>0, <3>1, <3>2, <3>3, <3>4, <3>5 DEF CallInv
    <2>9. ~CallLoad /\ ~LoadItem /\ ~LoadLink /\ ~LoadEnd
      BY <1>0 DEF CallLoad, StartLoad, Enter, LoadItem, LoadLink, LoadEnd
    <2> QED
      BY <1>3, <2>4, <2>5, <2>6, <2>7, <2>8, <2>9 DEF Next, Caller, Handler
  <1> QED
    BY <1>1, <1>2, <1>3

------------------------------------------------------------------------------
(* INDEX implements KeyMap.                                                *)

PresentKeys == {k \in Keys : PlaceOf(k) # NoPlace}

(* A key is present when a node of the trees holds it, one node for each   *)
(* key; so at most NumItems keys are present, and NumItems of them when    *)
(* every position is in a tree.                                            *)
LEMMA PresentFacts ==
  ASSUME MapInv
  PROVE  /\ \A n \in InTree : /\ item[n].key \in PresentKeys
                              /\ PlaceOf(item[n].key) = item[n].place
         /\ \A k \in PresentKeys : /\ Trail(k)[NumItems] \in InTree
                                   /\ item[Trail(k)[NumItems]].key = k
         /\ IsFiniteSet(PresentKeys)
         /\ InTree = Positions => Cardinality(PresentKeys) = NumItems
  <1>0. /\ TypeOK /\ PoolSafe /\ NodesHold /\ NoPlace \notin Places
        /\ NumItems \in Nat /\ NumItems \in 0 .. NumItems
        /\ Keys \subseteq NodeKeys /\ InTree \subseteq Live
        /\ OffsetFeb31 \notin Live /\ Live \subseteq Positions
    BY IndexAssumption, NullFacts
    DEF MapInv, PoolInv, TypeInv, NodeKeys, InTree, Live
  <1>1. \A n \in InTree : /\ item[n].key \in PresentKeys
                          /\ PlaceOf(item[n].key) = item[n].place
                          /\ Trail(item[n].key)[NumItems] = n
    BY <1>0 DEF InTree, NodesHold, PlaceOf, PresentKeys
  <1>2. \A k \in PresentKeys : /\ Trail(k)[NumItems] \in InTree
                               /\ item[Trail(k)[NumItems]].key = k
    <2> SUFFICES ASSUME NEW k \in PresentKeys
                 PROVE  /\ Trail(k)[NumItems] \in InTree
                        /\ item[Trail(k)[NumItems]].key = k
      OBVIOUS
    <2>1. PICK n : n = Trail(k)[NumItems]
      OBVIOUS
    <2>2. k \in NodeKeys /\ n # OffsetFeb31 /\ item[n].key = k
      BY <1>0, <2>1 DEF PresentKeys, PlaceOf
    <2>3. n \in Live
      BY <1>0, <2>1, <2>2, TrailLive
    <2> QED
      BY <2>1, <2>2, <2>3 DEF InTree
  <1> DEFINE f == [k \in PresentKeys |-> Trail(k)[NumItems]]
  <1>3. f \in Injection(PresentKeys, Positions)
    <2>1. f \in [PresentKeys -> Positions]
      BY <1>0, <1>2
    <2>2. \A a, b \in PresentKeys : f[a] = f[b] => a = b
      BY <1>2
    <2> HIDE DEF f
    <2> QED
      BY <2>1, <2>2 DEF Injection, IsInjective
  <1>4. InTree = Positions => f \in Surjection(PresentKeys, Positions)
    <2> SUFFICES ASSUME InTree = Positions PROVE f \in Surjection(PresentKeys, Positions)
      OBVIOUS
    <2>1. f \in [PresentKeys -> Positions]
      BY <1>0, <1>2
    <2>2. \A n \in Positions : \E k \in PresentKeys : f[k] = n
      BY <1>1
    <2> HIDE DEF f
    <2> QED
      BY <2>1, <2>2 DEF Surjection
  <1>5. IsFiniteSet(Positions) /\ Cardinality(Positions) = NumItems
    BY <1>0, FS_Interval DEF Positions
  <1> HIDE DEF f
  <1>6. /\ IsFiniteSet(PresentKeys)
        /\ InTree = Positions => Cardinality(PresentKeys) = NumItems
    BY <1>3, <1>4, <1>5, FS_Injection
  <1> QED
    BY <1>1, <1>2, <1>6

(* Where the walk ends tells whether the key is present.                   *)
LEMMA WalkAnswers ==
  ASSUME MapInv, pc = "walk"
  PROVE  /\ Hit => /\ node_id \in InTree /\ new.key \in PresentKeys
                   /\ PlaceOf(new.key) = item[node_id].place
         /\ Miss => PlaceOf(new.key) = NoPlace
  <1>a. TypeOK /\ PoolSafe /\ CallInv
    BY DEF MapInv, PoolInv, TypeInv
  <1>b. new.key \in Keys
    BY <1>a DEF CallInv
  <1>0. /\ TypeOK /\ PoolSafe /\ CallInv /\ new.key \in Keys /\ new.key \in NodeKeys
        /\ NumItems \in Nat /\ NumItems \in 0 .. NumItems
    BY <1>a, <1>b, IndexAssumption DEF NodeKeys
  <1>1. PICK i \in 0 .. NumItems : Reached(new.key, i) /\ Trail(new.key)[i] = node_id
    BY <1>0 DEF CallInv
  <1>2. Hit \/ Miss => Trail(new.key)[NumItems] = node_id
    BY <1>0, <1>1, StopStays DEF Hit, Miss, Stops
  <1>3. Hit => node_id \in InTree
    <2> SUFFICES ASSUME Hit PROVE node_id \in InTree
      OBVIOUS
    <2>1. node_id \in Live
      BY <1>0, <1>1, TrailLive DEF Hit
    <2> QED
      BY <1>2, <2>1 DEF InTree, Hit
  <1>4. Hit => new.key = item[node_id].key
    BY DEF Hit
  <1>5. Miss => PlaceOf(new.key) = NoPlace
    BY <1>2 DEF Miss, PlaceOf
  <1> QED
    BY <1>3, <1>4, <1>5, PresentFacts

(* An insert finds no node left only when all NumItems positions are live. *)
LEMMA PoolEmpty ==
  ASSUME TypeOK, PopFreeNode = OffsetFeb31
  PROVE  Live = Positions
  <1>1. free_slots = <<>>
    <2> SUFFICES ASSUME free_slots # <<>> PROVE FALSE
      OBVIOUS
    <2>1. free_slots[Len(free_slots)] \in Positions
      BY EmptySeq, ElementOfSeq DEF TypeOK
    <2> QED
      BY <2>1, NullFacts DEF PopFreeNode
  <1>2. item_horizon = NumItems
    BY <1>1, NullFacts, IndexAssumption DEF PopFreeNode, TypeOK, Positions
  <1>3. Freed = {}
    BY <1>1 DEF Freed
  <1> QED
    BY <1>2, <1>3, IndexAssumption DEF Live, Positions

(* A delete comes to its second walk only among three keys: its own and    *)
(* those of the two children.                                              *)
LEMMA TwoChildren ==
  ASSUME MapInv, pc = "nearest"
  PROVE  new.key \in PresentKeys /\ Cardinality(PresentKeys) >= 3
  <1>0. /\ TypeOK /\ PoolSafe /\ CallInv /\ TreeClosed /\ NodesHold
        /\ new.key \in Keys /\ new.key \in NodeKeys
        /\ NumItems \in Nat /\ NumItems \in 0 .. NumItems /\ InTree \subseteq Live
    <2>1. TypeOK /\ PoolSafe /\ CallInv /\ TreeClosed /\ NodesHold
      BY DEF MapInv, PoolInv, TypeInv
    <2>2. new.key \in Keys
      BY <2>1 DEF CallInv
    <2> QED
      BY <2>1, <2>2, IndexAssumption DEF NodeKeys, InTree
  <1>1. /\ node_id # OffsetFeb31 /\ item[node_id].key = new.key
        /\ Trail(new.key)[NumItems] = node_id
        /\ item[node_id].left # OffsetFeb31 /\ item[node_id].right # OffsetFeb31
    BY <1>0 DEF CallInv
  <1>2. node_id \in InTree
    <2>1. node_id \in Live
      BY <1>0, <1>1, TrailLive
    <2> QED
      BY <1>1, <2>1 DEF InTree
  <1> DEFINE l == [at |-> "left", of |-> node_id]
             r == [at |-> "right", of |-> node_id]
  <1>3. /\ l \in TreeLocations /\ r \in TreeLocations /\ l # r
        /\ Deref(l) = item[node_id].left /\ Deref(r) = item[node_id].right
    BY <1>0, <1>2 DEF TreeLocations, Locations, Deref
  <1>4. PICK m, n \in InTree : m = item[node_id].left /\ n = item[node_id].right
    BY <1>0, <1>1, <1>3 DEF TreeClosed
  <1>5. m # n
    BY <1>0, <1>1, <1>3, <1>4 DEF PoolSafe, NoSharing, TreeLocations
  <1>6. m # node_id /\ n # node_id
    <2>1. PICK j \in 0 .. NumItems : Reached(new.key, j) /\ Trail(new.key)[j] = node_id
      BY <1>0, <1>1, FirstVisit
    <2>2. /\ Hook(new.key, j) \in Locations /\ Deref(Hook(new.key, j)) = node_id
          /\ Hook(new.key, j).at # "head" => Hook(new.key, j).of # node_id
      <3>1. CASE j = 0
        BY <1>0, <2>1, <3>1, HookHolds DEF Hook, Root
      <3>2. CASE j # 0
        <4>1. ~Stops(new.key, Trail(new.key)[j - 1])
          BY <2>1, <3>2 DEF Reached
        <4> QED
          BY <1>0, <1>1, <2>1, <3>2, <4>1, HookHolds DEF Stops
      <3> QED
        BY <3>1, <3>2
    <2> QED
      BY <1>1, <1>3, <1>4, <2>2, <1>0 DEF PoolSafe, NoSharing, TreeLocations
  <1>7. /\ \A x \in InTree : item[x].key \in PresentKeys
        /\ IsFiniteSet(PresentKeys)
    BY PresentFacts
  <1>8. \A x, y \in InTree : item[x].key = item[y].key => x = y
    BY DEF InTree
  <1> DEFINE a == item[node_id].key
             b == item[m].key
             c == item[n].key
  <1>9. a \in PresentKeys /\ b \in PresentKeys /\ c \in PresentKeys
        /\ a # b /\ a # c /\ b # c
    BY <1>2, <1>4, <1>5, <1>6, <1>7, <1>8
  <1> HIDE DEF a, b, c
  <1>10. Cardinality({a} \cup {b} \cup {c}) = 3 /\ IsFiniteSet({a} \cup {b} \cup {c})
    <2>1. IsFiniteSet({a}) /\ Cardinality({a}) = 1
      BY FS_Singleton
    <2>2. IsFiniteSet({a} \cup {b}) /\ Cardinality({a} \cup {b}) = 2
      BY <1>9, <2>1, FS_AddElement
    <2>3. c \notin {a} \cup {b}
      BY <1>9
    <2> DEFINE ab == {a} \cup {b}
    <2>4. IsFiniteSet(ab) /\ Cardinality(ab) = 2 /\ c \notin ab
      BY <2>2, <2>3
    <2> HIDE DEF ab
    <2>5. IsFiniteSet(ab \cup {c}) /\ Cardinality(ab \cup {c}) = 3
      BY <2>4, FS_AddElement
    <2> QED
      BY <2>5 DEF ab
  <1>11. Cardinality({a} \cup {b} \cup {c}) <= Cardinality(PresentKeys)
    BY <1>7, <1>9, FS_Subset
  <1>12. Cardinality(PresentKeys) \in Nat
    BY <1>7, FS_CardinalityType
  <1> QED
    BY <1>1, <1>2, <1>7, <1>10, <1>11, <1>12

(* Between loads the abstract map is where the walks of the keys end.      *)
LEMMA ContentsIs ==
  op # "load" => /\ Contents = [k \in Keys |-> PlaceOf(k)]
                 /\ Promise!Present = PresentKeys
  BY DEF Contents, Promise!Present, PresentKeys

(* The empty index is the empty map.                                       *)
LEMMA RefinesInit == Init => Promise!Init
  <1> SUFFICES ASSUME Init PROVE Promise!Init
    OBVIOUS
  <1>1. MapInv /\ op = "none" /\ pc = "idle" /\ status = "Ok" /\ found = NoPlace
    BY MapInit DEF Init
  <1>2. \A k \in Keys : PlaceOf(k) = NoPlace
    <2> SUFFICES ASSUME NEW k \in Keys PROVE PlaceOf(k) = NoPlace
      OBVIOUS
    <2>1. InTree = {}
      BY DEF InTree, Init, Live, Positions
    <2> QED
      BY <1>1, <2>1, PresentFacts DEF PresentKeys
  <1>3. Contents = [k \in Keys |-> NoPlace]
    BY <1>1, <1>2, ContentsIs
  <1>4. Request = Promise!NoRequest
    BY <1>1 DEF Request, Promise!NoRequest
  <1> QED
    BY <1>1, <1>3, <1>4 DEF Promise!Init

(* A step that leaves the trees alone leaves the map.                      *)
LEMMA SameMap ==
  ASSUME op # "load", op' # "load", UNCHANGED <<item, heads, pool>>
  PROVE  Contents' = Contents
  <1>1. \A k : PlaceOf(k)' = PlaceOf(k)
    BY TreesUnchanged
  <1>2. Contents = [k \in Keys |-> PlaceOf(k)]
    BY ContentsIs
  <1>3. Contents' = [k \in Keys |-> PlaceOf(k)']
    BY DEF Contents
  <1> QED
    BY <1>1, <1>2, <1>3

(* The call an operation begins with.                                      *)
LEMMA RefinesCall ==
  ASSUME MapInv, MapInv', CallSearch \/ CallInsert \/ CallDelete \/ WrongLength
  PROVE  Promise!Ask \/ Promise!TurnDown
  <1>0. /\ CallInv /\ op # "load" /\ op' # "load"
    BY DEF MapInv, PoolInv
  <1>1. /\ UNCHANGED <<item, heads, pool>> /\ pc = "idle" /\ op = "none" /\ found' = NoPlace
    BY <1>0 DEF CallInv, CallSearch, CallInsert, CallDelete, WrongLength, Call, Enter
  <1>2. Contents' = Contents
    BY <1>0, <1>1, SameMap
  <1>3. Request = [op |-> "none"] /\ Request = Promise!NoRequest
    BY <1>1 DEF Request, Promise!NoRequest
  <1>4. CASE WrongLength
    <2>1. Request' = Request /\ pc' = pc /\ status' = "InvalidParam"
      BY <1>1, <1>4 DEF WrongLength, Request, call
    <2> QED
      BY <1>1, <1>2, <1>3, <2>1 DEF Promise!TurnDown
  <1>5. ASSUME NEW o \in {"search", "insert", "delete"}, NEW c \in BOOLEAN, NEW k \in Keys,
               NEW p \in Places \cup {NoPlace}, o = "insert" => p \in Places,
               Call(o, c, FillItem(k, p))
        PROVE  Promise!Ask
    <2>1. /\ op' = o /\ cover' = c /\ new' = FillItem(k, p) /\ pc' = "walk"
          /\ status' = "Pending"
      BY <1>5 DEF Call, Enter, StartWalk
    <2>2. new'.key = k /\ new'.place = p
      BY <2>1 DEF FillItem
    <2>3. Request' = IF o = "insert" THEN [op |-> o, key |-> k, place |-> p, cover |-> c]
                     ELSE [op |-> o, key |-> k]
      BY <2>1, <2>2 DEF Request
    <2>4. Request' \in Promise!Requests
      BY <1>5, <2>3 DEF Promise!Requests
    <2> QED
      BY <1>1, <1>2, <1>3, <2>1, <2>4 DEF Promise!Ask
  <1>6. CASE CallSearch \/ CallInsert \/ CallDelete
    BY <1>5, <1>6, IndexAssumption DEF CallSearch, CallInsert, CallDelete
  <1> QED
    BY <1>4, <1>6

(* What a returning handler leaves of the request.                         *)
LEMMA RefinesReturn ==
  ASSUME pc = "walk", NEW s, NEW p, Return(s, p)
  PROVE  Promise!Answer(s, p)
  <1>1. op' = "none" /\ pc' = "idle" /\ status' = s /\ found' = p
    BY DEF Return, Leave
  <1>2. Request' = Promise!NoRequest
    BY <1>1 DEF Request, Promise!NoRequest
  <1> QED
    BY <1>1, <1>2 DEF Promise!Answer

(* The answers that change nothing.                                        *)
LEMMA RefinesAnswer ==
  ASSUME MapInv, MapInv', SearchEnd \/ InsertExist \/ DeleteMiss
  PROVE  Promise!Search \/ Promise!Insert \/ Promise!Delete
  <1>0. /\ CallInv /\ op # "load" /\ op' # "load" /\ pc = "walk"
        /\ UNCHANGED <<item, heads, pool>> /\ new.key \in Keys
    BY DEF MapInv, PoolInv, CallInv, SearchEnd, InsertExist, DeleteMiss
  <1>1. Contents' = Contents
    BY <1>0, SameMap
  <1>2. Contents = [k \in Keys |-> PlaceOf(k)] /\ Promise!Present = PresentKeys
    BY <1>0, ContentsIs
  <1>3. CASE SearchEnd
    <2>1. Request.op = "search" /\ Request.key = new.key
      BY <1>3 DEF SearchEnd, Request
    <2>2. CASE Hit
      <3>1. new.key \in PresentKeys /\ Contents[new.key] = item[node_id].place
        BY <1>0, <1>2, <2>2, WalkAnswers
      <3>2. Promise!Answer("Ok", Contents[new.key])
        BY <1>0, <1>3, <2>2, <3>1, RefinesReturn DEF SearchEnd
      <3> QED
        BY <1>1, <1>2, <2>1, <3>1, <3>2 DEF Promise!Search
    <2>3. CASE ~Hit
      <3>1. new.key \notin PresentKeys
        BY <1>0, <1>3, <2>3, WalkAnswers DEF SearchEnd, PresentKeys
      <3>2. Promise!Answer("NotExist", NoPlace)
        BY <1>0, <1>3, <2>3, RefinesReturn DEF SearchEnd
      <3> QED
        BY <1>1, <1>2, <2>1, <3>1, <3>2 DEF Promise!Search
    <2> QED
      BY <2>2, <2>3
  <1>4. CASE InsertExist
    <2>1. Request.op = "insert" /\ Request.key = new.key /\ Request.cover = cover /\ ~cover
      BY <1>4 DEF InsertExist, Request
    <2>2. new.key \in PresentKeys
      BY <1>0, <1>4, WalkAnswers DEF InsertExist
    <2>3. Promise!Answer("Exist", NoPlace)
      BY <1>0, <1>4, RefinesReturn DEF InsertExist
    <2> QED
      BY <1>1, <1>2, <2>1, <2>2, <2>3 DEF Promise!Insert
  <1>5. CASE DeleteMiss
    <2>1. Request.op = "delete" /\ Request.key = new.key
      BY <1>5 DEF DeleteMiss, Request
    <2>2. new.key \notin PresentKeys
      BY <1>0, <1>5, WalkAnswers DEF DeleteMiss, PresentKeys
    <2>3. Promise!Answer("NotExist", NoPlace)
      BY <1>0, <1>5, RefinesReturn DEF DeleteMiss
    <2> QED
      BY <1>1, <1>2, <2>1, <2>2, <2>3 DEF Promise!Delete
  <1> QED
    BY <1>3, <1>4, <1>5

(* An insert that links a node: its key takes its place; other keys are    *)
(* dropped only if it overwrites.                                          *)
LEMMA RefinesInsert ==
  ASSUME MapInv, MapInv', InsertLink
  PROVE  Promise!Insert
  <1>0. /\ CallInv /\ op = "insert" /\ op # "load" /\ op' # "load" /\ pc = "walk"
        /\ new.key \in Keys /\ PoolInv /\ node_id \in Pointer /\ Keys \subseteq NodeKeys
        /\ (Hit /\ cover) \/ Miss
    BY DEF MapInv, PoolInv, TypeInv, TypeOK, CallInv, InsertLink, Link, Return, Leave, NodeKeys
  <1>1. PICK f : Linked(f)
    BY <1>0, LinkIsLinked
  <1>2. Through(new.key)
    BY <1>0 DEF CallInv, Through
  <1>3. Contents = [k \in Keys |-> PlaceOf(k)] /\ Promise!Present = PresentKeys
    BY <1>0, ContentsIs
  <1>4. Contents' = [k \in Keys |-> PlaceOf(k)']
    BY <1>0 DEF Contents
  <1>5. \A k \in Keys :
          /\ k = new.key => PlaceOf(k)' = new.place
          /\ k # new.key => PlaceOf(k)' = IF node_id # OffsetFeb31
                                             /\ \E i \in 0 .. NumItems : Trail(k)[i] = node_id
                                          THEN NoPlace ELSE PlaceOf(k)
    BY <1>0, <1>1, <1>2, LinkMap
  <1>6. /\ Request.op = "insert" /\ Request.key = new.key /\ Request.cover = cover
        /\ Request.place = new.place
    BY <1>0 DEF Request
  <1>7. Promise!Answer("Ok", NoPlace)
    BY <1>0, RefinesReturn DEF InsertLink
  <1>8. CASE Hit /\ cover
    <2>1. new.key \in PresentKeys /\ TRUE \in Covers
      BY <1>0, <1>8, WalkAnswers DEF CallInv
    <2> DEFINE lost == {k \in Keys \ {new.key} : PlaceOf(k)' = NoPlace}
    <2>2. lost \in SUBSET (Keys \ {new.key})
      OBVIOUS
    <2>3. \A k \in Keys : PlaceOf(k)' = IF k = new.key THEN new.place
                                        ELSE IF k \in lost THEN NoPlace
                                        ELSE PlaceOf(k)
      BY <1>5
    <2> HIDE DEF lost
    <2>4. Contents' = [k \in Keys |-> IF k = new.key THEN new.place
                                      ELSE IF k \in lost THEN NoPlace
                                      ELSE Contents[k]]
      BY <1>3, <1>4, <2>3
    <2> QED
      BY <1>3, <1>6, <1>7, <1>8, <2>1, <2>2, <2>4 DEF Promise!Insert
  <1>9. CASE Miss
    <2>1. new.key \notin PresentKeys
      BY <1>0, <1>9, WalkAnswers DEF PresentKeys
    <2>2. Contents' = [k \in Keys |-> IF k = new.key THEN new.place
                                      ELSE IF k \in {} THEN NoPlace
                                      ELSE Contents[k]]
      BY <1>3, <1>4, <1>5, <1>9 DEF Miss
    <2> QED
      BY <1>3, <1>6, <1>7, <2>1, <2>2 DEF Promise!Insert
  <1> QED
    BY <1>0, <1>8, <1>9

(* A delete that unlinks a node takes its key out of the map.              *)
LEMMA RefinesDelete ==
  ASSUME MapInv, MapInv', DeleteUnlink
  PROVE  Promise!Delete
  <1>0. /\ CallInv /\ op = "delete" /\ op # "load" /\ op' # "load" /\ pc = "walk" /\ Hit
        /\ new.key \in Keys /\ TreeClosed /\ NodesHold /\ Keys \subseteq NodeKeys
    BY DEF MapInv, CallInv, DeleteUnlink, Return, Leave, NodeKeys
  <1>1. PICK c : Unlinked(node_id, c)
    BY UnlinkIsUnlinked
  <1>2. PICK d : Unlinked(d, c)
    BY <1>1
  <1>3. Contents = [k \in Keys |-> PlaceOf(k)] /\ Promise!Present = PresentKeys
    BY <1>0, ContentsIs
  <1>4. Contents' = [k \in Keys |-> PlaceOf(k)']
    BY <1>0 DEF Contents
  <1>5. \A k \in Keys : PlaceOf(k)' = IF k = new.key THEN NoPlace ELSE PlaceOf(k)
    BY <1>0, <1>2, UnlinkMap
  <1>6. Contents' = [Contents EXCEPT ![new.key] = NoPlace]
    BY <1>0, <1>3, <1>4, <1>5
  <1>7. Request.op = "delete" /\ Request.key = new.key
    BY <1>0 DEF Request
  <1>8. new.key \in PresentKeys
    BY <1>0, WalkAnswers
  <1>9. Promise!Answer("Ok", NoPlace)
    BY <1>0, RefinesReturn DEF DeleteUnlink
  <1> QED
    BY <1>3, <1>6, <1>7, <1>8, <1>9 DEF Promise!Delete

(* Cardinality is one operator in both modules.                            *)
LEMMA SameCardinality == \A S : Promise!Cardinality(S) = Cardinality(S)
  BY DEF Promise!Cardinality, Cardinality

(* The process dies only where the map says it may.                        *)
LEMMA RefinesStop ==
  ASSUME MapInv, MapInv', InsertFull \/ NearestNull
  PROVE  Promise!Stop
  <1>0. /\ CallInv /\ op # "load" /\ op' # "load" /\ pc \in {"walk", "nearest"}
        /\ pc' = "halted" /\ op' = "none" /\ status' = status /\ found' = found
        /\ UNCHANGED <<item, heads, pool>> /\ new.key \in Keys /\ TypeOK
    BY DEF MapInv, PoolInv, TypeInv, CallInv, InsertFull, NearestNull, Crash, Leave, answer
  <1>1. Contents' = Contents
    BY <1>0, SameMap
  <1>2. Request' = Promise!NoRequest
    BY <1>0 DEF Request, Promise!NoRequest
  <1>3. Promise!Present = PresentKeys
    BY <1>0, ContentsIs
  <1>4. CASE InsertFull
    <2>1. Request.op = "insert" /\ Request.key = new.key
      BY <1>0, <1>4 DEF InsertFull, Request
    <2>2. ASSUME TRUE \notin Covers
          PROVE  new.key \notin PresentKeys /\ Cardinality(PresentKeys) = NumItems
      <3>1. Miss
        BY <1>0, <1>4, <2>2 DEF InsertFull, CallInv
      <3>2. new.key \notin PresentKeys
        BY <1>0, <1>4, <3>1, WalkAnswers DEF InsertFull, PresentKeys
      <3>3. Live = Positions
        BY <1>0, <1>4, PoolEmpty DEF InsertFull
      <3>4. InTree = Positions
        BY <2>2, <3>3 DEF MapInv, InTree
      <3> QED
        BY <3>2, <3>4, PresentFacts
    <2> QED
      BY <1>0, <1>1, <1>2, <1>3, <2>1, <2>2, SameCardinality
      DEF Promise!Stop, Promise!CanStop
  <1>5. CASE NearestNull
    <2>1. op = "delete" /\ pc = "nearest"
      BY <1>0, <1>5 DEF NearestNull, CallInv
    <2>2. Request.op = "delete" /\ Request.key = new.key
      BY <2>1 DEF Request
    <2>3. new.key \in PresentKeys /\ Cardinality(PresentKeys) >= 3
      BY <2>1, TwoChildren
    <2> QED
      BY <1>0, <1>1, <1>2, <1>3, <2>2, <2>3, SameCardinality
      DEF Promise!Stop, Promise!CanStop
  <1> QED
    BY <1>4, <1>5

(* The steps inside a handler do not show.                                 *)
LEMMA RefinesStutter ==
  ASSUME MapInv, MapInv',
         WalkLeft \/ WalkRight \/ DeleteTwo \/ NearestStep \/ UNCHANGED vars
  PROVE  UNCHANGED Promise!vars
  <1>1. /\ op # "load" /\ op' # "load" /\ UNCHANGED <<item, heads, pool>>
        /\ op' = op /\ new' = new /\ cover' = cover /\ status' = status /\ found' = found
        /\ (pc # "halted") = (pc' # "halted")
    BY DEF MapInv, PoolInv, WalkLeft, WalkRight, DeleteTwo, NearestStep, vars, call, answer
  <1>2. Contents' = Contents
    BY <1>1, SameMap
  <1>3. Request' = Request
    BY <1>1 DEF Request
  <1> QED
    BY <1>1, <1>2, <1>3 DEF Promise!vars

(* Every step of INDEX is a step of the map or changes nothing of it.      *)
LEMMA RefinesStep ==
  ASSUME "load" \notin Ops
  PROVE  MapInv /\ MapInv' /\ [Next]_vars => [Promise!Next]_(Promise!vars)
  <1> SUFFICES ASSUME MapInv, MapInv', [Next]_vars
               PROVE  Promise!Next \/ UNCHANGED Promise!vars
    OBVIOUS
  <1>1. ~CallLoad /\ ~LoadItem /\ ~LoadLink /\ ~LoadEnd
    BY DEF MapInv, PoolInv, CallLoad, StartLoad, Enter, LoadItem, LoadLink, LoadEnd
  <1>2. CASE CallSearch \/ CallInsert \/ CallDelete \/ WrongLength
    BY <1>2, RefinesCall DEF Promise!Next
  <1>3. CASE SearchEnd \/ InsertExist \/ DeleteMiss
    BY <1>3, RefinesAnswer DEF Promise!Next, Promise!Work
  <1>4. CASE InsertLink
    BY <1>4, RefinesInsert DEF Promise!Next, Promise!Work
  <1>5. CASE DeleteUnlink
    BY <1>5, RefinesDelete DEF Promise!Next, Promise!Work
  <1>6. CASE InsertFull \/ NearestNull
    BY <1>6, RefinesStop DEF Promise!Next, Promise!Work
  <1>7. CASE WalkLeft \/ WalkRight \/ DeleteTwo \/ NearestStep \/ UNCHANGED vars
    BY <1>7, RefinesStutter
  <1> QED
    BY <1>1, <1>2, <1>3, <1>4, <1>5, <1>6, <1>7 DEF Next, Caller, Handler

(* The trees of INDEX implement the map: over any history of Search,       *)
(* Insert, Del, for every number of nodes, head size and set of keys, each *)
(* call answers what was last put for its key, and the process dies only   *)
(* in an insert with no node left or a delete among three keys             *)
(* (index.cc:78-180).                                                      *)
THEOREM IndexIsKeyMap ==
  ASSUME "load" \notin Ops
  PROVE  Spec => IsKeyMap
  <1>1. Init => MapInv
    BY MapInit
  <1>2. MapInv /\ [Next]_vars => MapInv'
    BY MapStep
  <1>3. Init => Promise!Init
    BY RefinesInit
  <1>4. MapInv /\ MapInv' /\ [Next]_vars => [Promise!Next]_(Promise!vars)
    BY RefinesStep
  <1> QED
    BY <1>1, <1>2, <1>3, <1>4, PTL DEF Spec, IsKeyMap, Promise!Spec

(* An overwriting insert drops the keys below the node it replaces and no  *)
(* other (index.cc:118-128).                                               *)
THEOREM DropsOnlyWhatHangsBelow ==
  ASSUME "load" \notin Ops
  PROVE  Spec => DropsOnlyBelow
  <1> DEFINE Drops == InsertLink => \A k \in Keys \ {new.key} :
               PlaceOf(k)' = IF node_id # OffsetFeb31
                                /\ \E i \in 0 .. NumItems : Trail(k)[i] = node_id
                             THEN NoPlace ELSE PlaceOf(k)
  <1>1. MapInv /\ [Next]_vars => [Drops]_vars
    <2> SUFFICES ASSUME MapInv, InsertLink, NEW k \in Keys, k # new.key
                 PROVE  PlaceOf(k)' = IF node_id # OffsetFeb31
                                         /\ \E i \in 0 .. NumItems : Trail(k)[i] = node_id
                                      THEN NoPlace ELSE PlaceOf(k)
      OBVIOUS
    <2>1. PICK f : Linked(f)
      BY LinkIsLinked DEF MapInv
    <2> QED
      BY <2>1, LinkMap DEF NodeKeys
  <1> QED
    BY <1>1, MapInit, MapStep, PTL DEF Spec, DropsOnlyBelow
=============================================================================
