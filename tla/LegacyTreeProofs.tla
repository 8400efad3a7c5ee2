-------------------------- MODULE LegacyTreeProofs --------------------------
(***************************************************************************)
(* Proofs about the trees of the older engine: nodes in use and free nodes *)
(* stay apart, every node in use is found by its own sign, also after a    *)
(* delete that moves the nearest node, and the engine is a cabinet.        *)
(***************************************************************************)
EXTENDS LegacyProofs, FiniteSetTheorems

------------------------------------------------------------------------------
(* Sound trees *)

(* The nodes on the list of free ones, the others below the horizon, and   *)
(* the pointers that matter.                                               *)
Listed(i) == {i.free_pool[e] : e \in 1 .. i.free_count}
InUse(i) == (0 .. i.horizon - 1) \ Listed(i)
Ptrs(i) == {p \in Pointers : p.at = "head" \/ p.of \in InUse(i)}
KeyOf(i, id) == i.node_pool[id].key_sign

ListOnce(i) ==
  /\ \A e \in 1 .. i.free_count : i.free_pool[e] \in 0 .. i.horizon - 1
  /\ \A e, f \in 1 .. i.free_count : i.free_pool[e] = i.free_pool[f] => e = f

(* The pointers of the trees lead to nodes in use, each to its own.        *)
NoDangling(i) == \A p \in Ptrs(i) : Deref(i, p) \in InUse(i) \cup {NotExist}
NoSharing(i) ==
  \A p, q \in Ptrs(i) : Deref(i, p) = Deref(i, q) /\ Deref(i, p) # NotExist => p = q

(* Every node in use is found by its own sign.  With the above, this fixes *)
(* the order of the signs along the trees.                                 *)
FindsOwn(i) == \A id \in InUse(i) : Found(i, KeyOf(i, id)) = id

Shaped(i) ==
  /\ Fine(i) /\ 0 .. i.horizon - 1 \subseteq Written(i.node_pool)
  /\ ListOnce(i) /\ NoDangling(i) /\ NoSharing(i)
Sound(i) == Shaped(i) /\ FindsOwn(i)

(* What is in use was written and is a place of the pool.                  *)
LEMMA SoundFacts ==
  ASSUME NEW i, Fine(i), 0 .. i.horizon - 1 \subseteq Written(i.node_pool)
  PROVE  /\ InUse(i) \subseteq Ids /\ InUse(i) \subseteq Written(i.node_pool)
         /\ \A id \in InUse(i) : KeyOf(i, id) \in Signs /\ id # NotExist
         /\ Ptrs(i) \subseteq Rooted(i) /\ Ptrs(i) \subseteq Pointers
  <1>1. InUse(i) \subseteq Written(i.node_pool)
    BY DEF InUse
  <1>2. \A id \in Written(i.node_pool) : id \in Ids /\ i.node_pool[id] \in Node
    BY DEF Written, Fine, IndexRecord
  <1> QED
    BY <1>1, <1>2, LegacyFacts DEF KeyOf, Node, Ptrs, Rooted

------------------------------------------------------------------------------
(* Walks *)

(* Whether the loop that looks for a sign ends at a pointer.               *)
Stops(i, s, p) == Deref(i, p) = NotExist \/ KeyOf(i, Deref(i, p)) = s

(* The loop comes to its n-th pointer by a turn that moved it.             *)
Reached(i, s, n) == n = 0 \/ ~Stops(i, s, Trail(i, s)[n - 1])

(* One turn in sound trees.                                                *)
LEMMA TurnIs ==
  ASSUME NEW i, Shaped(i), NEW s \in Signs, NEW p \in Ptrs(i)
  PROVE  /\ Stops(i, s, p) => Turn(i, s)[p] = p
         /\ ~Stops(i, s, p) =>
              /\ Deref(i, p) \in InUse(i)
              /\ Turn(i, s)[p] = Child(Deref(i, p), Side(KeyOf(i, Deref(i, p)), s))
         /\ Turn(i, s)[p] \in Ptrs(i)
  <1>0. Deref(i, p) \in InUse(i) \cup {NotExist} /\ p \in Pointers
    BY SoundFacts DEF Shaped, NoDangling
  <1>1. NotExist \notin Ids /\ \A id \in InUse(i) : IsNode(i, id)
    BY LegacyFacts, SoundFacts DEF IsNode, Written, Shaped
  <1>2. CASE Stops(i, s, p)
    <2>1. Turn(i, s)[p] = p
      BY <1>0, <1>1, <1>2 DEF Turn, Stops, KeyOf, IsNode
    <2> QED
      BY <1>2, <2>1
  <1>3. CASE ~Stops(i, s, p)
    <2>1. Deref(i, p) \in InUse(i) /\ KeyOf(i, Deref(i, p)) # s
      BY <1>0, <1>3 DEF Stops
    <2>2. Turn(i, s)[p] = Child(Deref(i, p), Side(KeyOf(i, Deref(i, p)), s))
      BY <1>0, <1>1, <2>1 DEF Turn, KeyOf
    <2>3. Turn(i, s)[p] \in Ptrs(i)
      <3>1. Deref(i, p) \in Ids
        BY <2>1, SoundFacts DEF Shaped
      <3> QED
        BY <2>1, <2>2, <3>1 DEF Ptrs, Pointers, Child, Side
    <2> QED
      BY <1>3, <2>1, <2>2, <2>3
  <1> QED
    BY <1>2, <1>3

(* The loop goes through pointers that matter.                             *)
LEMMA TrailUsed ==
  ASSUME NEW i, Shaped(i), NEW s \in Signs
  PROVE  /\ Trail(i, s)[0] = HeadOf(s)
         /\ \A n \in 1 .. PoolSize : Trail(i, s)[n] = Turn(i, s)[Trail(i, s)[n - 1]]
         /\ Where(i, s) = Trail(i, s)[PoolSize]
         /\ \A n \in 0 .. PoolSize :
              /\ Trail(i, s)[n] \in Ptrs(i)
              /\ Deref(i, Trail(i, s)[n]) \in InUse(i) \cup {NotExist}
  <1>1. /\ Trail(i, s)[0] = HeadOf(s)
        /\ \A n \in 1 .. PoolSize : Trail(i, s)[n] = Turn(i, s)[Trail(i, s)[n - 1]]
        /\ Where(i, s) = Trail(i, s)[PoolSize]
    BY TrailIs DEF Shaped
  <1> DEFINE S == {n \in 0 .. PoolSize : Trail(i, s)[n] \in Ptrs(i)}
  <1>2. PoolSize \in Nat
    BY LegacyFacts
  <1>3. 0 \in S
    BY <1>1, <1>2, HeadOfIsPointer DEF Ptrs
  <1>4. ASSUME NEW n \in 1 .. PoolSize, n - 1 \in S PROVE n \in S
    BY <1>1, <1>2, <1>4, TurnIs
  <1>5. 0 .. PoolSize \subseteq S
    <2> HIDE DEF S
    <2> QED
      BY <1>2, <1>3, <1>4, InductionTo
  <1> QED
    BY <1>1, <1>5 DEF Shaped, NoDangling

(* Where the loop has ended it stays.                                      *)
LEMMA StopStays ==
  ASSUME NEW i, Shaped(i), NEW s \in Signs, NEW n \in 0 .. PoolSize,
         Stops(i, s, Trail(i, s)[n])
  PROVE  \A m \in 0 .. PoolSize : n <= m => Trail(i, s)[m] = Trail(i, s)[n]
  <1> DEFINE S == {m \in 0 .. PoolSize : n <= m => Trail(i, s)[m] = Trail(i, s)[n]}
  <1>0. PoolSize \in Nat
    BY LegacyFacts
  <1>1. 0 \in S
    BY <1>0
  <1>2. ASSUME NEW m \in 1 .. PoolSize, m - 1 \in S PROVE m \in S
    <2>1. Trail(i, s)[m] = Turn(i, s)[Trail(i, s)[m - 1]]
      BY TrailUsed
    <2>2. Turn(i, s)[Trail(i, s)[n]] = Trail(i, s)[n]
      BY TrailUsed, TurnIs
    <2> QED
      BY <1>0, <1>2, <2>1, <2>2
  <1>3. 0 .. PoolSize \subseteq S
    <2> HIDE DEF S
    <2> QED
      BY <1>0, <1>1, <1>2, InductionTo
  <1> QED
    BY <1>3

(* So it has got by moving turns to where it still moves.                  *)
LEMMA ReachedBefore ==
  ASSUME NEW i, Shaped(i), NEW s \in Signs, NEW n \in 0 .. PoolSize, NEW m \in 0 .. PoolSize, n <= m
  PROVE  /\ ~Stops(i, s, Trail(i, s)[m]) => ~Stops(i, s, Trail(i, s)[n]) /\ Reached(i, s, n)
         /\ Reached(i, s, m) => Reached(i, s, n)
  <1>0. PoolSize \in Nat
    BY LegacyFacts
  <1>1. \A h, l \in 0 .. PoolSize :
          h <= l /\ ~Stops(i, s, Trail(i, s)[l]) => ~Stops(i, s, Trail(i, s)[h])
    BY StopStays
  <1>2. n = 0 \/ n - 1 \in 0 .. PoolSize
    BY <1>0
  <1>3. m = 0 \/ m - 1 \in 0 .. PoolSize
    BY <1>0
  <1> QED
    BY <1>0, <1>1, <1>2, <1>3 DEF Reached

(* A pointer of the loop was first come to by a turn that moved it.        *)
LEMMA FirstVisit ==
  ASSUME NEW i, Shaped(i), NEW s \in Signs, NEW n \in 0 .. PoolSize
  PROVE  \E m \in 0 .. n : Reached(i, s, m) /\ Trail(i, s)[m] = Trail(i, s)[n]
  <1>0. PoolSize \in Nat
    BY LegacyFacts
  <1> DEFINE T == {m \in 0 .. n : Trail(i, s)[m] = Trail(i, s)[n]}
  <1>1. T \in SUBSET Nat /\ n \in T
    BY <1>0
  <1>2. PICK m \in T : \A h \in T : m <= h
    <2> HIDE DEF T
    <2> QED
      BY <1>1, LeastNatural
  <1>3. m \in 0 .. n /\ m \in 0 .. PoolSize /\ Trail(i, s)[m] = Trail(i, s)[n]
    BY <1>0, <1>2
  <1>4. ASSUME m # 0, Stops(i, s, Trail(i, s)[m - 1]) PROVE FALSE
    <2>1. m - 1 \in 0 .. n /\ m - 1 \in 0 .. PoolSize /\ m - 1 < m /\ m - 1 <= m
      BY <1>0, <1>3, <1>4
    <2>2. Trail(i, s)[m] = Trail(i, s)[m - 1]
      BY <1>3, <1>4, <2>1, StopStays
    <2> QED
      BY <1>2, <1>3, <2>1, <2>2
  <1> QED
    BY <1>3, <1>4 DEF Reached

(* Two searches that come to one node came there by the same pointers.     *)
LEMMA SamePath ==
  ASSUME NEW i, Shaped(i), NEW a \in Signs, NEW b \in Signs
  PROVE  \A p, q \in 0 .. PoolSize :
           /\ Reached(i, a, p) /\ Reached(i, b, q)
           /\ Deref(i, Trail(i, a)[p]) = Deref(i, Trail(i, b)[q])
           /\ Deref(i, Trail(i, a)[p]) # NotExist
           => p = q /\ \A r \in 0 .. p : Trail(i, a)[r] = Trail(i, b)[r]
  <1> DEFINE A(n) == Trail(i, a)[n]
             B(n) == Trail(i, b)[n]
             Meet(p, q) == /\ Reached(i, a, p) /\ Reached(i, b, q)
                           /\ Deref(i, A(p)) = Deref(i, B(q)) /\ Deref(i, A(p)) # NotExist
             Same(p) == \A r \in 0 .. p : A(r) = B(r)
             S == {p \in 0 .. PoolSize : \A q \in 0 .. PoolSize : Meet(p, q) => p = q /\ Same(p)}
  <1>0. PoolSize \in Nat /\ 0 \in 0 .. PoolSize
    BY LegacyFacts
  <1>1. \A p, q \in 0 .. PoolSize : Meet(p, q) => A(p) = B(q)
    BY TrailUsed DEF Shaped, NoSharing
  <1>2. A(0).at = "head" /\ B(0).at = "head"
    BY TrailUsed, HeadOfIsPointer
  <1>3. ASSUME NEW s \in {a, b}, NEW n \in 0 .. PoolSize, n # 0, Reached(i, s, n)
        PROVE  /\ n \in 1 .. PoolSize /\ n - 1 \in 0 .. PoolSize
               /\ Trail(i, s)[n].at # "head"
               /\ Trail(i, s)[n].of = Deref(i, Trail(i, s)[n - 1])
               /\ Deref(i, Trail(i, s)[n - 1]) # NotExist /\ Reached(i, s, n - 1)
    <2>1. n \in 1 .. PoolSize /\ n - 1 \in 0 .. PoolSize /\ n - 1 <= n
      BY <1>0, <1>3
    <2>2. ~Stops(i, s, Trail(i, s)[n - 1])
      BY <1>3 DEF Reached
    <2>3. Trail(i, s)[n] = Child(Deref(i, Trail(i, s)[n - 1]),
                                 Side(KeyOf(i, Deref(i, Trail(i, s)[n - 1])), s))
      BY <2>1, <2>2, TrailUsed, TurnIs
    <2>4. Reached(i, s, n - 1)
      BY <1>3, <2>1, ReachedBefore
    <2> QED
      BY <2>1, <2>2, <2>3, <2>4 DEF Child, Side, Stops
  <1>4. 0 \in S
    BY <1>0, <1>1, <1>2, <1>3
  <1>5. ASSUME NEW p \in 1 .. PoolSize, p - 1 \in S PROVE p \in S
    <2> SUFFICES ASSUME NEW q \in 0 .. PoolSize, Meet(p, q) PROVE p = q /\ Same(p)
      BY <1>0
    <2>1. p \in 0 .. PoolSize /\ p # 0 /\ p - 1 \in 0 .. PoolSize
      BY <1>0
    <2>2. A(p) = B(q)
      BY <1>1, <2>1
    <2>3. /\ A(p).at # "head" /\ A(p).of = Deref(i, A(p - 1))
          /\ Deref(i, A(p - 1)) # NotExist /\ Reached(i, a, p - 1)
      BY <1>3, <2>1
    <2>4. q # 0
      BY <1>2, <2>2, <2>3
    <2>5. /\ q \in 1 .. PoolSize /\ q - 1 \in 0 .. PoolSize
          /\ B(q).of = Deref(i, B(q - 1)) /\ Reached(i, b, q - 1)
      BY <1>3, <2>4
    <2>6. Meet(p - 1, q - 1)
      BY <2>2, <2>3, <2>5
    <2>7. p - 1 = q - 1 /\ Same(p - 1)
      BY <1>5, <2>5, <2>6
    <2>8. p = q
      BY <2>1, <2>5, <2>7
    <2>9. \A r \in 0 .. p : r = p \/ r \in 0 .. p - 1
      BY <2>1
    <2> QED
      BY <2>2, <2>7, <2>8, <2>9
  <1>6. 0 .. PoolSize \subseteq S
    <2> HIDE DEF S
    <2> QED
      BY <1>0, <1>4, <1>5, InductionTo
  <1> QED
    BY <1>6

(* Every loop that looks for a sign ends within PoolSize turns.            *)
LEMMA WalkStops ==
  ASSUME NEW i, Shaped(i), NEW s \in Signs
  PROVE  Stops(i, s, Where(i, s))
  <1> SUFFICES ASSUME ~Stops(i, s, Where(i, s)) PROVE FALSE
    OBVIOUS
  <1>0. PoolSize \in Nat /\ PoolSize \in 0 .. PoolSize
    BY LegacyFacts
  <1>1. ~Stops(i, s, Trail(i, s)[PoolSize])
    BY TrailUsed
  <1>2. \A n \in 0 .. PoolSize : ~Stops(i, s, Trail(i, s)[n]) /\ Reached(i, s, n)
    BY <1>0, <1>1, ReachedBefore
  <1> DEFINE f == [n \in 0 .. PoolSize |-> Deref(i, Trail(i, s)[n])]
  <1>3. \A n \in 0 .. PoolSize : Deref(i, Trail(i, s)[n]) \in Ids /\ Deref(i, Trail(i, s)[n]) # NotExist
    <2>1. InUse(i) \subseteq Ids
      BY SoundFacts DEF Shaped
    <2> QED
      BY <1>2, <2>1, TrailUsed DEF Stops
  <1>4. \A n, m \in 0 .. PoolSize :
          Deref(i, Trail(i, s)[n]) = Deref(i, Trail(i, s)[m]) => n = m
    BY <1>2, <1>3, SamePath
  <1>5. f \in Injection(0 .. PoolSize, Ids)
    BY <1>3, <1>4 DEF Injection, IsInjective
  <1>6. /\ IsFiniteSet(Ids) /\ Cardinality(Ids) = PoolSize
        /\ IsFiniteSet(0 .. PoolSize) /\ Cardinality(0 .. PoolSize) = PoolSize + 1
    BY <1>0, FS_Interval DEF Ids
  <1> HIDE DEF f
  <1> QED
    BY <1>0, <1>5, <1>6, FS_Injection

(* What a search brings in sound trees: the one node in use of the sign,   *)
(* or NotExist.                                                            *)
LEMMA FoundSound ==
  ASSUME NEW i, Sound(i), NEW s \in Signs
  PROVE  /\ Where(i, s) \in Ptrs(i) /\ Found(i, s) = Deref(i, Where(i, s))
         /\ Found(i, s) \in InUse(i) \cup {NotExist}
         /\ \A id \in InUse(i) : Found(i, s) = id <=> KeyOf(i, id) = s
         /\ Found(i, s) = NotExist <=> \A id \in InUse(i) : KeyOf(i, id) # s
  <1> USE DEF Sound
  <1>0. PoolSize \in 0 .. PoolSize
    BY LegacyFacts
  <1>1. Where(i, s) \in Ptrs(i) /\ Deref(i, Where(i, s)) \in InUse(i) \cup {NotExist}
    BY <1>0, TrailUsed
  <1>2. Stops(i, s, Where(i, s))
    BY WalkStops
  <1>3. \A id \in InUse(i) : id \in Ids /\ IsNode(i, id) /\ id # NotExist
    BY SoundFacts DEF Shaped, IsNode, Written
  <1>4. Found(i, s) = Deref(i, Where(i, s))
    BY <1>1, <1>2, <1>3 DEF Found, Stops, KeyOf
  <1>5. \A id \in InUse(i) : Found(i, s) = id => KeyOf(i, id) = s
    BY <1>2, <1>3, <1>4 DEF Stops
  <1>6. \A id \in InUse(i) : KeyOf(i, id) = s => Found(i, s) = id
    BY DEF FindsOwn
  <1> QED
    BY <1>1, <1>3, <1>4, <1>5, <1>6

(* The pointers a search goes through.                                     *)
OnTrail(i, s, p) == \E n \in 0 .. PoolSize : Trail(i, s)[n] = p

(* They begin with the head, matter, and end where the search does.        *)
LEMMA TrailEnds ==
  ASSUME NEW i, Shaped(i), NEW s \in Signs
  PROVE  /\ OnTrail(i, s, HeadOf(s)) /\ OnTrail(i, s, Where(i, s))
         /\ \A p : OnTrail(i, s, p) => p \in Ptrs(i)
  BY TrailUsed, LegacyFacts DEF OnTrail

(* A search goes on from every pointer at which it does not end.           *)
LEMMA TrailGoesOn ==
  ASSUME NEW i, Shaped(i), NEW s \in Signs, NEW p, OnTrail(i, s, p), ~Stops(i, s, p)
  PROVE  /\ Deref(i, p) \in InUse(i)
         /\ OnTrail(i, s, Child(Deref(i, p), Side(KeyOf(i, Deref(i, p)), s)))
  <1>0. PoolSize \in Nat
    BY LegacyFacts
  <1>1. PICK n \in 0 .. PoolSize : Trail(i, s)[n] = p
    BY DEF OnTrail
  <1>2. n # PoolSize
    BY <1>1, TrailUsed, WalkStops
  <1>3. n + 1 \in 1 .. PoolSize /\ n + 1 \in 0 .. PoolSize /\ (n + 1) - 1 = n
    BY <1>0, <1>2
  <1>4. Trail(i, s)[n + 1] = Turn(i, s)[p] /\ p \in Ptrs(i)
    BY <1>1, <1>3, TrailUsed
  <1> QED
    BY <1>3, <1>4, TurnIs DEF OnTrail

(* A search that goes through a child pointer has met its node, whose sign *)
(* is another, and took the side the signs tell.                           *)
LEMMA TrailCame ==
  ASSUME NEW i, Shaped(i), NEW s \in Signs, NEW p, OnTrail(i, s, p), p.at # "head"
  PROVE  /\ p.of \in InUse(i) /\ KeyOf(i, p.of) # s /\ p.at = Side(KeyOf(i, p.of), s)
         /\ \E q : OnTrail(i, s, q) /\ Deref(i, q) = p.of
  <1>0. PoolSize \in Nat
    BY LegacyFacts
  <1>1. PICK h \in 0 .. PoolSize : Trail(i, s)[h] = p
    BY DEF OnTrail
  <1>2. PICK n \in 0 .. h : Reached(i, s, n) /\ Trail(i, s)[n] = p
    BY <1>1, FirstVisit
  <1>3. n # 0
    BY <1>2, TrailUsed, HeadOfIsPointer
  <1>4. n \in 1 .. PoolSize /\ n - 1 \in 0 .. PoolSize
    BY <1>0, <1>3
  <1>5. ~Stops(i, s, Trail(i, s)[n - 1]) /\ Trail(i, s)[n - 1] \in Ptrs(i)
    BY <1>2, <1>3, <1>4, TrailUsed DEF Reached
  <1>6. /\ Deref(i, Trail(i, s)[n - 1]) \in InUse(i)
        /\ p = Child(Deref(i, Trail(i, s)[n - 1]),
                     Side(KeyOf(i, Deref(i, Trail(i, s)[n - 1])), s))
    BY <1>2, <1>4, <1>5, TrailUsed, TurnIs
  <1>7. p.of = Deref(i, Trail(i, s)[n - 1]) /\ p.at = Side(KeyOf(i, p.of), s)
    BY <1>6 DEF Child
  <1> QED
    BY <1>4, <1>5, <1>6, <1>7 DEF OnTrail, Stops

(* The one pointer to a node is where a search for its sign ends.          *)
LEMMA OwnPointer ==
  ASSUME NEW i, Sound(i), NEW p \in Ptrs(i), Deref(i, p) # NotExist
  PROVE  /\ Deref(i, p) \in InUse(i) /\ KeyOf(i, Deref(i, p)) \in Signs
         /\ Where(i, KeyOf(i, Deref(i, p))) = p /\ OnTrail(i, KeyOf(i, Deref(i, p)), p)
  <1> USE DEF Sound
  <1>1. Deref(i, p) \in InUse(i)
    BY DEF Shaped, NoDangling
  <1>2. PICK s : s = KeyOf(i, Deref(i, p))
    OBVIOUS
  <1>3. s \in Signs
    BY <1>1, <1>2, SoundFacts DEF Shaped
  <1>4. Deref(i, Where(i, s)) = Deref(i, p) /\ Where(i, s) \in Ptrs(i)
    BY <1>1, <1>2, <1>3, FoundSound
  <1>5. Where(i, s) = p
    BY <1>4 DEF Shaped, NoSharing
  <1> QED
    BY <1>1, <1>2, <1>3, <1>5, TrailEnds

(* The way to a node is the beginning of every way through it.             *)
LEMMA WayTo ==
  ASSUME NEW i, Sound(i), NEW s \in Signs, NEW p, OnTrail(i, s, p), Deref(i, p) # NotExist,
         NEW r, OnTrail(i, KeyOf(i, Deref(i, p)), r)
  PROVE  OnTrail(i, s, r)
  <1> USE DEF Sound
  <1>0. PoolSize \in Nat
    BY LegacyFacts
  <1>1. PICK b : b = KeyOf(i, Deref(i, p))
    OBVIOUS
  <1>2. p \in Ptrs(i) /\ b \in Signs /\ Where(i, b) = p /\ OnTrail(i, b, p)
    BY <1>1, TrailEnds, OwnPointer
  <1>3. PICK n0 \in 0 .. PoolSize : Trail(i, s)[n0] = p
    BY DEF OnTrail
  <1>4. PICK n \in 0 .. n0 : Reached(i, s, n) /\ Trail(i, s)[n] = p
    BY <1>3, FirstVisit
  <1>5. PICK m0 \in 0 .. PoolSize : Trail(i, b)[m0] = p
    BY <1>2 DEF OnTrail
  <1>6. PICK m \in 0 .. m0 : Reached(i, b, m) /\ Trail(i, b)[m] = p
    BY <1>2, <1>5, FirstVisit
  <1>7. n \in 0 .. PoolSize /\ m \in 0 .. PoolSize
    BY <1>0
  <1>8. n = m /\ \A h \in 0 .. m : Trail(i, b)[h] = Trail(i, s)[h]
    BY <1>2, <1>4, <1>6, <1>7, SamePath
  <1>9. \A h \in 0 .. PoolSize : m <= h => Trail(i, b)[h] = p
    <2>1. Stops(i, b, p)
      BY <1>1 DEF Stops
    <2> QED
      BY <1>2, <1>6, <1>7, <2>1, StopStays
  <1>10. PICK h \in 0 .. PoolSize : Trail(i, b)[h] = r
    BY <1>1 DEF OnTrail
  <1>11. CASE h \in 0 .. m
    BY <1>8, <1>10, <1>11 DEF OnTrail
  <1>12. CASE h \notin 0 .. m
    <2>1. m <= h
      BY <1>0, <1>12
    <2> QED
      BY <1>9, <1>10, <2>1
  <1> QED
    BY <1>11, <1>12

(* The search for a node in use meets no end of a tree, and stops at the   *)
(* node.                                                                   *)
LEMMA LiveTrail ==
  ASSUME NEW i, Sound(i), NEW n \in InUse(i), NEW p, OnTrail(i, KeyOf(i, n), p)
  PROVE  /\ Deref(i, p) \in InUse(i) /\ p \in Ptrs(i)
         /\ Stops(i, KeyOf(i, n), p) <=> Deref(i, p) = n
  <1> USE DEF Sound
  <1>0. PoolSize \in Nat /\ PoolSize \in 0 .. PoolSize
    BY LegacyFacts
  <1>1. PICK s : s = KeyOf(i, n)
    OBVIOUS
  <1>2. s \in Signs /\ n # NotExist
    BY <1>1, SoundFacts DEF Shaped
  <1>3. p \in Ptrs(i) /\ Deref(i, p) \in InUse(i) \cup {NotExist}
    BY <1>1, <1>2, TrailEnds DEF Shaped, NoDangling
  <1>4. Deref(i, Where(i, s)) = n
    BY <1>1, <1>2, FoundSound
  <1>5. Stops(i, s, p) => Where(i, s) = p
    <2>1. PICK h \in 0 .. PoolSize : Trail(i, s)[h] = p
      BY <1>1 DEF OnTrail
    <2>2. h <= PoolSize
      BY <1>0
    <2> QED
      BY <1>0, <1>2, <2>1, <2>2, StopStays, TrailUsed
  <1>6. Deref(i, p) = n => Stops(i, s, p)
    BY <1>1 DEF Stops
  <1> QED
    BY <1>1, <1>2, <1>3, <1>4, <1>5, <1>6 DEF Stops

(* A search stays in a set of pointers that has its head and every pointer *)
(* one of its turns moves to.                                              *)
LEMMA WalksWithin ==
  ASSUME NEW i, Shaped(i), NEW s \in Signs, NEW R, HeadOf(s) \in R,
         \A p \in R \cap Ptrs(i) : ~Stops(i, s, p) =>
           Child(Deref(i, p), Side(KeyOf(i, Deref(i, p)), s)) \in R
  PROVE  /\ Where(i, s) \in R \cap Ptrs(i) /\ Stops(i, s, Where(i, s))
  <1>0. PoolSize \in Nat /\ PoolSize \in 0 .. PoolSize
    BY LegacyFacts
  <1> DEFINE S == {n \in 0 .. PoolSize : Trail(i, s)[n] \in R}
  <1>1. 0 \in S
    BY <1>0, TrailUsed
  <1>2. ASSUME NEW n \in 1 .. PoolSize, n - 1 \in S PROVE n \in S
    <2>1. n - 1 \in 0 .. PoolSize /\ Trail(i, s)[n - 1] \in R \cap Ptrs(i)
      BY <1>0, <1>2, TrailUsed
    <2>2. Trail(i, s)[n] = Turn(i, s)[Trail(i, s)[n - 1]]
      BY TrailUsed
    <2> QED
      BY <1>0, <1>2, <2>1, <2>2, TurnIs
  <1>3. 0 .. PoolSize \subseteq S
    <2> HIDE DEF S
    <2> QED
      BY <1>0, <1>1, <1>2, InductionTo
  <1> QED
    BY <1>0, <1>3, TrailUsed, WalkStops

(* A search that ends where the pointer holds its node finds it.           *)
LEMMA FindsWhere ==
  ASSUME NEW i, Shaped(i), NEW id \in InUse(i), NEW s, Deref(i, Where(i, s)) = id, KeyOf(i, id) = s
  PROVE  Found(i, s) = id
  BY SoundFacts DEF Shaped, Found, IsNode, Written, KeyOf

------------------------------------------------------------------------------
(* idx_insert *)

(* The node it takes was free, and what is in use grows by it.             *)
LEMMA FreeIsFree ==
  ASSUME NEW i, Sound(i), NEW s \in Signs, NEW offset \in 1 .. MaxData, FreeNode(i) \in Ids
  PROVE  LET j == Inserted(i, s, offset) IN
         /\ FreeNode(i) \notin InUse(i) /\ InUse(j) = InUse(i) \cup {FreeNode(i)}
         /\ ListOnce(j) /\ 0 .. j.horizon - 1 \subseteq Written(j.node_pool)
  <1> DEFINE id == FreeNode(i)
             j == Inserted(i, s, offset)
  <1>1. /\ i.horizon \in Nat /\ i.free_count \in Nat
        /\ ListOnce(i) /\ 0 .. i.horizon - 1 \subseteq Written(i.node_pool)
    BY LegacyFacts DEF Sound, Shaped, Fine, IndexRecord
  <1>2. /\ j.free_pool = i.free_pool
        /\ IF i.free_count = 0
             THEN j.free_count = 0 /\ j.horizon = i.horizon + 1
             ELSE j.free_count = i.free_count - 1 /\ j.horizon = i.horizon
    BY TakeIs, InsertIs DEF SameList, Sound, Shaped
  <1>3. Written(j.node_pool) = Written(i.node_pool) \cup {id}
    BY InsertIs DEF Sound, Shaped
  <1> HIDE DEF j
  <1>4. CASE i.free_count = 0
    <2>1. Listed(i) = {} /\ Listed(j) = {} /\ ListOnce(j)
      BY <1>2, <1>4 DEF Listed, ListOnce
    <2>2. id = i.horizon
      BY <1>4 DEF FreeNode
    <2>3. 0 .. j.horizon - 1 = (0 .. i.horizon - 1) \cup {id}
      BY <1>1, <1>2, <1>4, <2>2
    <2>4. id \notin 0 .. i.horizon - 1
      BY <1>1, <2>2
    <2> HIDE DEF id
    <2> QED
      BY <1>1, <1>3, <2>1, <2>3, <2>4 DEF InUse, id, j
  <1>5. CASE i.free_count # 0
    <2>1. id = i.free_pool[i.free_count] /\ i.free_count \in 1 .. i.free_count
      BY <1>1, <1>5 DEF FreeNode
    <2> HIDE DEF id
    <2>2. \A e : e \in 1 .. j.free_count <=> e \in 1 .. i.free_count /\ e # i.free_count
      BY <1>1, <1>2, <1>5
    <2>3. Listed(i) = Listed(j) \cup {id} /\ id \notin Listed(j) /\ ListOnce(j)
      BY <1>1, <1>2, <1>5, <2>1, <2>2 DEF Listed, ListOnce
    <2>4. id \in 0 .. i.horizon - 1 /\ j.horizon = i.horizon
      BY <1>1, <1>2, <1>5, <2>1 DEF ListOnce
    <2> QED
      BY <1>1, <1>3, <2>3, <2>4 DEF InUse, id, j
  <1> QED
    BY <1>4, <1>5 DEF j

(* Hanging a node of a new sign where the search for it ended keeps the    *)
(* trees sound.                                                            *)
LEMMA InsertSound ==
  ASSUME NEW i, Sound(i), NEW s \in Signs, NEW offset \in 1 .. MaxData,
         Found(i, s) = NotExist, FreeNode(i) \in Ids
  PROVE  Sound(Inserted(i, s, offset))
  <1> DEFINE id == FreeNode(i)
             w == Where(i, s)
  <1>0. PICK j : j = Inserted(i, s, offset)
    OBVIOUS
  <1>1. /\ id \notin InUse(i) /\ InUse(j) = InUse(i) \cup {id}
        /\ ListOnce(j) /\ 0 .. j.horizon - 1 \subseteq Written(j.node_pool)
    BY <1>0, FreeIsFree
  <1>2. /\ Fine(j) /\ KeyOf(j, id) = s
        /\ \A n \in InUse(i) : KeyOf(j, n) = KeyOf(i, n)
    BY <1>0, <1>1, InsertIs, SoundFacts DEF Sound, Shaped, KeyOf
  <1>3. /\ w \in Ptrs(i) /\ Deref(i, w) = NotExist
        /\ \A n \in InUse(i) : KeyOf(i, n) # s
    BY FoundSound
  <1>4. /\ Ptrs(i) \subseteq Ptrs(j)
        /\ \A q \in Ptrs(j) : q \in Ptrs(i) \/ (q.at # "head" /\ q.of = id)
        /\ \A q \in Ptrs(i) : ~(q.at # "head" /\ q.of = id)
    BY <1>1 DEF Ptrs
  <1>5. Ptrs(j) \subseteq Rooted(j) /\ id # NotExist
    BY <1>1, <1>2, SoundFacts
  <1>6. \A q \in Ptrs(j) : Deref(j, q) = IF q = w THEN id
                                         ELSE IF q \notin Ptrs(i) THEN NotExist
                                         ELSE Deref(i, q)
    BY <1>0, <1>3, <1>4, <1>5, InsertIs DEF Sound, Shaped
  <1> HIDE DEF id, w
  <1>7. \A q \in Ptrs(i) : Deref(i, q) \in InUse(i) \cup {NotExist}
    BY DEF Sound, Shaped, NoDangling
  <1>8. Shaped(j)
    <2>1. NoDangling(j)
      BY <1>1, <1>6, <1>7 DEF NoDangling
    <2>2. NoSharing(j)
      BY <1>1, <1>6, <1>7 DEF NoSharing, Sound, Shaped
    <2> QED
      BY <1>1, <1>2, <2>1, <2>2 DEF Shaped
  <1>9. ASSUME NEW k \in Signs, NEW p, p \in Ptrs(i), p # w, ~Stops(j, k, p)
        PROVE  ~Stops(i, k, p) /\ Deref(j, p) = Deref(i, p) /\ KeyOf(j, Deref(i, p)) = KeyOf(i, Deref(i, p))
    BY <1>2, <1>4, <1>6, <1>7, <1>9 DEF Stops
  <1>10. Found(j, s) = id
    <2> DEFINE R == {p \in Ptrs(i) : OnTrail(i, s, p)}
    <2>1. HeadOf(s) \in R
      BY TrailEnds DEF Sound
    <2>2. \A p \in R \cap Ptrs(j) : ~Stops(j, s, p) =>
             Child(Deref(j, p), Side(KeyOf(j, Deref(j, p)), s)) \in R
      <3> SUFFICES ASSUME NEW p \in R, p \in Ptrs(j), ~Stops(j, s, p)
                   PROVE  Child(Deref(j, p), Side(KeyOf(j, Deref(j, p)), s)) \in R
        OBVIOUS
      <3>1. p # w
        BY <1>2, <1>4, <1>6 DEF Stops
      <3>2. ~Stops(i, s, p) /\ Deref(j, p) = Deref(i, p) /\ KeyOf(j, Deref(i, p)) = KeyOf(i, Deref(i, p))
        BY <1>9, <3>1
      <3> QED
        BY <3>2, TrailGoesOn, TrailEnds DEF Sound
    <2>3. Where(j, s) \in R \cap Ptrs(j) /\ Stops(j, s, Where(j, s))
      <3> HIDE DEF R
      <3> QED
        BY <1>8, <2>1, <2>2, WalksWithin
    <2>4. ASSUME Where(j, s) # w PROVE FALSE
      <3>1. Deref(j, Where(j, s)) = Deref(i, Where(j, s)) /\ Where(j, s) \in Ptrs(i)
        BY <1>4, <1>6, <2>3, <2>4
      <3>2. Deref(i, Where(j, s)) = NotExist
        BY <1>2, <1>3, <1>7, <2>3, <3>1 DEF Stops
      <3>3. Stops(i, s, Where(j, s))
        BY <3>2 DEF Stops
      <3>4. PICK h \in 0 .. PoolSize : Trail(i, s)[h] = Where(j, s)
        BY <2>3 DEF OnTrail
      <3>5. PoolSize \in 0 .. PoolSize /\ h <= PoolSize
        BY LegacyFacts
      <3>6. w = Where(j, s)
        BY <3>3, <3>4, <3>5, StopStays, TrailUsed DEF Sound, w
      <3> QED
        BY <2>4, <3>6
    <2>5. Deref(j, Where(j, s)) = id
      BY <1>4, <1>6, <2>3, <2>4
    <2> QED
      BY <1>1, <1>2, <1>8, <2>5, FindsWhere
  <1>11. ASSUME NEW n \in InUse(i) PROVE Found(j, KeyOf(j, n)) = n
    <2> DEFINE k == KeyOf(i, n)
               R == {p \in Ptrs(i) : OnTrail(i, k, p)}
    <2>0. k \in Signs /\ KeyOf(j, n) = k /\ n # NotExist
      BY <1>2, SoundFacts DEF Sound, Shaped
    <2>1. HeadOf(k) \in R
      BY <2>0, TrailEnds DEF Sound
    <2>2. \A p \in R : /\ p # w /\ Deref(i, p) \in InUse(i) /\ Deref(j, p) = Deref(i, p)
                       /\ (Stops(i, k, p) <=> Deref(i, p) = n)
      <3> SUFFICES ASSUME NEW p \in R
                   PROVE  /\ p # w /\ Deref(i, p) \in InUse(i) /\ Deref(j, p) = Deref(i, p)
                          /\ (Stops(i, k, p) <=> Deref(i, p) = n)
        OBVIOUS
      <3>1. Deref(i, p) \in InUse(i) /\ (Stops(i, k, p) <=> Deref(i, p) = n)
        BY LiveTrail
      <3>2. Deref(i, p) # NotExist
        BY <3>1, SoundFacts DEF Sound, Shaped
      <3> QED
        BY <1>3, <1>4, <1>6, <3>1, <3>2
    <2>3. \A p \in R \cap Ptrs(j) : ~Stops(j, k, p) =>
             Child(Deref(j, p), Side(KeyOf(j, Deref(j, p)), k)) \in R
      <3> SUFFICES ASSUME NEW p \in R, ~Stops(j, k, p)
                   PROVE  Child(Deref(j, p), Side(KeyOf(j, Deref(j, p)), k)) \in R
        OBVIOUS
      <3>1. ~Stops(i, k, p) /\ Deref(j, p) = Deref(i, p) /\ KeyOf(j, Deref(i, p)) = KeyOf(i, Deref(i, p))
        BY <1>9, <2>0, <2>2
      <3> QED
        BY <2>0, <3>1, TrailGoesOn, TrailEnds DEF Sound
    <2>4. Where(j, k) \in R \cap Ptrs(j) /\ Stops(j, k, Where(j, k))
      <3> HIDE DEF R, k
      <3> QED
        BY <1>8, <2>0, <2>1, <2>3, WalksWithin
    <2>5. Stops(i, k, Where(j, k))
      BY <1>2, <1>7, <2>2, <2>4 DEF Stops
    <2>6. Deref(j, Where(j, k)) = n
      BY <2>2, <2>4, <2>5
    <2> QED
      BY <1>1, <1>8, <2>0, <2>6, FindsWhere
  <1> QED
    BY <1>0, <1>1, <1>2, <1>8, <1>10, <1>11 DEF Sound, FindsOwn

------------------------------------------------------------------------------
(* The nearest node *)

(* A node with two children, in sound trees.                               *)
HasTwo(i, id) ==
  id \in InUse(i) /\ i.node_pool[id].left_id # NotExist /\ i.node_pool[id].right_id # NotExist

(* The children of nodes in use are pointers of the trees.                 *)
LEMMA ChildPtrs ==
  ASSUME NEW i, Shaped(i), NEW id \in InUse(i)
  PROVE  /\ \A side \in {"left", "right"} : Child(id, side) \in Ptrs(i)
         /\ \A p \in Ptrs(i) : p.at # "head" => p.at \in {"left", "right"} /\ p = Child(p.of, p.at)
         /\ i.node_pool[id].left_id \in InUse(i) \cup {NotExist}
         /\ i.node_pool[id].right_id \in InUse(i) \cup {NotExist}
  <1>1. id \in Ids
    BY SoundFacts DEF Shaped
  <1>2. \A side \in {"left", "right"} : Child(id, side) \in Ptrs(i)
    BY <1>1 DEF Ptrs, Pointers, Child
  <1>3. \A p \in Ptrs(i) : p.at # "head" => p.at \in {"left", "right"} /\ p = Child(p.of, p.at)
    BY DEF Ptrs, Pointers, Child
  <1> QED
    BY <1>2, <1>3, FieldsAre DEF Shaped, NoDangling

(* A turn of the inner loop of idx_delete.                                 *)
LEMMA NearestTurn ==
  ASSUME NEW i, Sound(i), NEW id, HasTwo(i, id), NEW n \in 0 .. PoolSize
  PROVE  LET p == NearestTrail(i, id)[n]
             y == Deref(i, p) IN
         /\ p \in Ptrs(i) /\ y \in InUse(i) /\ OnTrail(i, KeyOf(i, y), p)
         /\ TurnLeft(i)[p] = IF i.node_pool[y].left_id # NotExist THEN Child(y, "left") ELSE p
  <1> USE DEF Sound
  <1>0. PoolSize \in Nat /\ 0 \in 0 .. PoolSize
    BY LegacyFacts
  <1>1. id \in Written(i.node_pool) /\ Fine(i)
    BY SoundFacts DEF HasTwo, Shaped
  <1>2. /\ NearestTrail(i, id)[0] = Child(id, "right")
        /\ \A m \in 1 .. PoolSize : NearestTrail(i, id)[m] = TurnLeft(i)[NearestTrail(i, id)[m - 1]]
        /\ \A m \in 0 .. PoolSize :
              Deref(i, NearestTrail(i, id)[m]) # NotExist
    BY <1>1, NearestTrailIs, LegacyFacts DEF HasTwo, Written
  <1>3. ASSUME NEW p \in Ptrs(i), Deref(i, p) # NotExist
        PROVE  LET y == Deref(i, p) IN
               /\ y \in InUse(i)
               /\ TurnLeft(i)[p] = IF i.node_pool[y].left_id # NotExist THEN Child(y, "left") ELSE p
               /\ TurnLeft(i)[p] \in Ptrs(i)
    <2>1. Deref(i, p) \in InUse(i)
      BY <1>3 DEF Shaped, NoDangling
    <2>2. IsNode(i, Deref(i, p)) /\ p \in Pointers
      BY <2>1, SoundFacts DEF Shaped, IsNode, Written
    <2> QED
      BY <1>3, <2>1, <2>2, ChildPtrs DEF TurnLeft
  <1> DEFINE S == {m \in 0 .. PoolSize : NearestTrail(i, id)[m] \in Ptrs(i)}
  <1>4. 0 \in S
    BY <1>0, <1>2, ChildPtrs DEF HasTwo
  <1>5. ASSUME NEW m \in 1 .. PoolSize, m - 1 \in S PROVE m \in S
    <2>1. m - 1 \in 0 .. PoolSize
      BY <1>0
    <2> QED
      BY <1>0, <1>2, <1>3, <1>5, <2>1
  <1>6. 0 .. PoolSize \subseteq S
    <2> HIDE DEF S
    <2> QED
      BY <1>0, <1>4, <1>5, InductionTo
  <1>7. NearestTrail(i, id)[n] \in Ptrs(i) /\ Deref(i, NearestTrail(i, id)[n]) # NotExist
    BY <1>2, <1>6
  <1> QED
    BY <1>3, <1>7, OwnPointer

(* What the loop has met lies below the right child of the node.           *)
LEMMA NearestBelow ==
  ASSUME NEW i, Sound(i), NEW id, HasTwo(i, id)
  PROVE  \A n \in 0 .. PoolSize :
           OnTrail(i, KeyOf(i, Deref(i, NearestTrail(i, id)[n])), Child(id, "right"))
  <1> DEFINE P(n) == NearestTrail(i, id)[n]
             Y(n) == Deref(i, NearestTrail(i, id)[n])
             S == {n \in 0 .. PoolSize : OnTrail(i, KeyOf(i, Y(n)), Child(id, "right"))}
  <1>0. PoolSize \in Nat /\ 0 \in 0 .. PoolSize
    BY LegacyFacts
  <1>1. /\ P(0) = Child(id, "right")
        /\ \A m \in 1 .. PoolSize : P(m) = TurnLeft(i)[P(m - 1)]
    BY SoundFacts, NearestTrailIs DEF HasTwo, Sound, Shaped
  <1>2. 0 \in S
    BY <1>0, <1>1, NearestTurn
  <1>3. ASSUME NEW n \in 1 .. PoolSize, n - 1 \in S PROVE n \in S
    <2>0. n - 1 \in 0 .. PoolSize /\ n \in 0 .. PoolSize
      BY <1>0
    <2>1. CASE P(n) = P(n - 1)
      BY <1>3, <2>0, <2>1
    <2>2. CASE P(n) # P(n - 1)
      <3>1. P(n) = Child(Y(n - 1), "left")
        BY <1>1, <2>0, <2>2, NearestTurn
      <3>2. OnTrail(i, KeyOf(i, Y(n)), P(n)) /\ P(n).at # "head" /\ P(n).of = Y(n - 1)
        <4>1. OnTrail(i, KeyOf(i, Y(n)), P(n))
          BY <2>0, NearestTurn
        <4> HIDE DEF P, Y
        <4> QED
          BY <3>1, <4>1 DEF Child
      <3>3. KeyOf(i, Y(n)) \in Signs /\ Y(n - 1) # NotExist
        BY <2>0, NearestTurn, SoundFacts DEF Sound, Shaped
      <3>4. PICK q : OnTrail(i, KeyOf(i, Y(n)), q) /\ Deref(i, q) = Y(n - 1)
        BY <3>2, <3>3, TrailCame DEF Sound
      <3>5. OnTrail(i, KeyOf(i, Y(n - 1)), Child(id, "right"))
        BY <1>3
      <3>6. OnTrail(i, KeyOf(i, Y(n)), Child(id, "right"))
        BY <3>3, <3>4, <3>5, WayTo
      <3> QED
        BY <2>0, <3>6
    <2> QED
      BY <2>1, <2>2
  <1>4. 0 .. PoolSize \subseteq S
    <2> HIDE DEF S
    <2> QED
      BY <1>0, <1>2, <1>3, InductionTo
  <1> QED
    BY <1>4

(* The loop goes to greater signs.                                         *)
LEMMA NearestGrows ==
  ASSUME NEW i, Sound(i), NEW id, HasTwo(i, id), NEW n \in 1 .. PoolSize
  PROVE  LET p == NearestTrail(i, id)[n]
             q == NearestTrail(i, id)[n - 1]
             x == Deref(i, q) IN
         IF i.node_pool[x].left_id # NotExist
           THEN p = Child(x, "left") /\ KeyOf(i, x) < KeyOf(i, Deref(i, p))
           ELSE p = q
  <1> DEFINE p == NearestTrail(i, id)[n]
             q == NearestTrail(i, id)[n - 1]
             x == Deref(i, q)
  <1>0. n - 1 \in 0 .. PoolSize /\ n \in 0 .. PoolSize
    BY LegacyFacts
  <1>1. p = TurnLeft(i)[q]
    BY SoundFacts, NearestTrailIs DEF HasTwo, Sound, Shaped
  <1>2. CASE i.node_pool[x].left_id # NotExist
    <2>1. p = Child(x, "left")
      BY <1>0, <1>1, <1>2, NearestTurn
    <2>2. PICK k : k = KeyOf(i, Deref(i, p))
      OBVIOUS
    <2>3. OnTrail(i, k, p) /\ k \in Signs
      BY <1>0, <2>2, NearestTurn, SoundFacts DEF Sound, Shaped
    <2>4. x \in InUse(i) /\ KeyOf(i, x) \in Signs
      BY <1>0, NearestTurn, SoundFacts DEF Sound, Shaped
    <2> HIDE DEF p, x
    <2>5. p.at = "left" /\ p.of = x
      BY <2>1 DEF Child
    <2>6. KeyOf(i, x) # k /\ "left" = Side(KeyOf(i, x), k)
      BY <2>3, <2>5, TrailCame DEF Sound
    <2>7. KeyOf(i, x) < k
      BY <2>6 DEF Side
    <2> QED
      BY <1>2, <2>1, <2>2, <2>7 DEF p, x
  <1>3. CASE i.node_pool[x].left_id = NotExist
    BY <1>0, <1>1, <1>3, NearestTurn
  <1> QED
    BY <1>2, <1>3

(* A node below the right child that the loop has left aside has a smaller *)
(* sign than the one the loop is at.                                       *)
LEMMA NearestGreatest ==
  ASSUME NEW i, Sound(i), NEW id, HasTwo(i, id), NEW z \in InUse(i),
         OnTrail(i, KeyOf(i, z), Child(id, "right"))
  PROVE  \A n \in 0 .. PoolSize :
           \/ OnTrail(i, KeyOf(i, z), NearestTrail(i, id)[n])
           \/ KeyOf(i, z) < KeyOf(i, Deref(i, NearestTrail(i, id)[n]))
  <1> DEFINE P(n) == NearestTrail(i, id)[n]
             Y(n) == Deref(i, NearestTrail(i, id)[n])
             S == {n \in 0 .. PoolSize : OnTrail(i, KeyOf(i, z), P(n)) \/ KeyOf(i, z) < KeyOf(i, Y(n))}
  <1>0. PoolSize \in Nat /\ 0 \in 0 .. PoolSize
    BY LegacyFacts
  <1>1. 0 \in S
    BY <1>0, SoundFacts, NearestTrailIs DEF HasTwo, Sound, Shaped
  <1>2. ASSUME NEW n \in 1 .. PoolSize, n - 1 \in S PROVE n \in S
    <2>0. n - 1 \in 0 .. PoolSize /\ n \in 0 .. PoolSize
      BY <1>0
    <2>1. CASE i.node_pool[Y(n - 1)].left_id = NotExist
      <3>1. P(n) = P(n - 1)
        BY <2>1, NearestGrows
      <3> QED
        BY <1>2, <2>0, <3>1
    <2>2. CASE i.node_pool[Y(n - 1)].left_id # NotExist
      <3>1. P(n) = Child(Y(n - 1), "left") /\ KeyOf(i, Y(n - 1)) < KeyOf(i, Y(n))
        BY <2>2, NearestGrows
      <3>2. /\ KeyOf(i, z) \in Nat /\ KeyOf(i, Y(n)) \in Nat /\ KeyOf(i, Y(n - 1)) \in Nat
            /\ KeyOf(i, z) \in Signs
        BY <2>0, NearestTurn, SoundFacts, LegacyAssumption DEF Sound, Shaped
      <3>3. CASE KeyOf(i, z) < KeyOf(i, Y(n - 1)) \/ Y(n - 1) = z
        <4>1. KeyOf(i, z) < KeyOf(i, Y(n))
          BY <3>1, <3>2, <3>3
        <4> QED
          BY <2>0, <4>1
      <3>4. CASE OnTrail(i, KeyOf(i, z), P(n - 1)) /\ Y(n - 1) # z
        <4>1. ~Stops(i, KeyOf(i, z), P(n - 1))
          BY <3>4, LiveTrail
        <4>2. OnTrail(i, KeyOf(i, z), Child(Y(n - 1), Side(KeyOf(i, Y(n - 1)), KeyOf(i, z))))
          BY <3>2, <3>4, <4>1, TrailGoesOn DEF Sound
        <4>3. CASE KeyOf(i, Y(n - 1)) < KeyOf(i, z)
          <5>1. OnTrail(i, KeyOf(i, z), P(n))
            BY <3>1, <4>2, <4>3 DEF Side
          <5> QED
            BY <2>0, <5>1
        <4>4. CASE ~(KeyOf(i, Y(n - 1)) < KeyOf(i, z))
          <5>1. KeyOf(i, z) < KeyOf(i, Y(n))
            BY <3>1, <3>2, <4>4
          <5> QED
            BY <2>0, <5>1
        <4> QED
          BY <4>3, <4>4
      <3>5. OnTrail(i, KeyOf(i, z), P(n - 1)) \/ KeyOf(i, z) < KeyOf(i, Y(n - 1))
        BY <1>2
      <3> QED
        BY <3>3, <3>4, <3>5
    <2> QED
      BY <2>1, <2>2
  <1>3. 0 .. PoolSize \subseteq S
    <2> HIDE DEF S
    <2> QED
      BY <1>0, <1>1, <1>2, InductionTo
  <1> QED
    BY <1>3

(* The loop ends within PoolSize turns, at the leftmost node.              *)
LEMMA NearestStops ==
  ASSUME NEW i, Sound(i), NEW id, HasTwo(i, id)
  PROVE  i.node_pool[Deref(i, Nearest(i, id))].left_id = NotExist
  <1> DEFINE Y(n) == Deref(i, NearestTrail(i, id)[n])
             Ends(n) == i.node_pool[Y(n)].left_id = NotExist
             Key(n) == KeyOf(i, Y(n))
             S == {n \in 0 .. PoolSize : Ends(n) \/ \A h, l \in 0 .. n : h < l => Key(h) < Key(l)}
  <1>0. PoolSize \in Nat /\ 0 \in 0 .. PoolSize /\ PoolSize \in 0 .. PoolSize
    BY LegacyFacts
  <1>1. \A n \in 0 .. PoolSize : Y(n) \in InUse(i) /\ Y(n) \in Ids /\ Key(n) \in Nat
    BY NearestTurn, SoundFacts, LegacyAssumption DEF Sound, Shaped
  <1>2. \A n \in 1 .. PoolSize : IF Ends(n - 1) THEN Y(n) = Y(n - 1) ELSE Key(n - 1) < Key(n)
    BY NearestGrows
  <1> HIDE DEF Y
  <1>3. 0 \in S
    BY <1>0
  <1>4. ASSUME NEW n \in 1 .. PoolSize, n - 1 \in S PROVE n \in S
    <2>0. n - 1 \in 0 .. PoolSize /\ n \in 0 .. PoolSize /\ 0 .. n - 1 \subseteq 0 .. PoolSize
      BY <1>0
    <2>1. CASE Ends(n - 1)
      <3>1. Ends(n)
        BY <1>2, <2>1
      <3> QED
        BY <2>0, <3>1
    <2>2. CASE ~Ends(n - 1)
      <3>1. \A h, l \in 0 .. n - 1 : h < l => Key(h) < Key(l)
        BY <1>4, <2>2
      <3>2. Key(n - 1) < Key(n)
        BY <1>2, <2>2
      <3> HIDE DEF Key, Ends
      <3>3. \A h \in 0 .. n - 1 : Key(h) < Key(n)
        <4> SUFFICES ASSUME NEW h \in 0 .. n - 1 PROVE Key(h) < Key(n)
          OBVIOUS
        <4>1. Key(h) \in Nat /\ Key(n) \in Nat /\ Key(n - 1) \in Nat
          BY <1>1, <2>0 DEF Key
        <4>2. h = n - 1 \/ h < n - 1
          BY <1>0
        <4>3. h < n - 1 => Key(h) < Key(n - 1)
          BY <1>0, <3>1
        <4> QED
          BY <3>2, <4>1, <4>2, <4>3
      <3>4. \A h, l \in 0 .. n : h < l => h \in 0 .. n - 1 /\ (l = n \/ l \in 0 .. n - 1)
        BY <1>0
      <3>5. \A h, l \in 0 .. n : h < l => Key(h) < Key(l)
        BY <3>1, <3>3, <3>4
      <3> QED
        BY <2>0, <3>5
    <2> QED
      BY <2>1, <2>2
  <1>5. PoolSize \in S
    <2> HIDE DEF S
    <2> QED
      BY <1>0, <1>3, <1>4, InductionTo
  <1>6. ASSUME ~Ends(PoolSize) PROVE FALSE
    <2>1. \A h, l \in 0 .. PoolSize : h < l => Key(h) < Key(l)
      BY <1>5, <1>6
    <2> DEFINE f == [n \in 0 .. PoolSize |-> Y(n)]
    <2>2. \A h, l \in 0 .. PoolSize : Y(h) = Y(l) => h = l
      <3> SUFFICES ASSUME NEW h \in 0 .. PoolSize, NEW l \in 0 .. PoolSize, Y(h) = Y(l), h # l
                   PROVE  FALSE
        OBVIOUS
      <3>1. Key(h) = Key(l) /\ Key(h) \in Nat /\ (h < l \/ l < h)
        BY <1>0, <1>1
      <3> HIDE DEF Key
      <3> QED
        BY <2>1, <3>1
    <2>3. f \in Injection(0 .. PoolSize, Ids)
      BY <1>1, <2>2 DEF Injection, IsInjective
    <2>4. /\ IsFiniteSet(Ids) /\ Cardinality(Ids) = PoolSize
          /\ IsFiniteSet(0 .. PoolSize) /\ Cardinality(0 .. PoolSize) = PoolSize + 1
      BY <1>0, FS_Interval DEF Ids
    <2> HIDE DEF f
    <2> QED
      BY <1>0, <2>3, <2>4, FS_Injection
  <1>7. Nearest(i, id) = NearestTrail(i, id)[PoolSize]
    BY SoundFacts, NearestTrailIs DEF HasTwo, Sound, Shaped
  <1> QED
    BY <1>6, <1>7 DEF Y

(* So it is the node of the greatest sign below the one to be deleted.     *)
LEMMA NearestIs ==
  ASSUME NEW i, Sound(i), NEW id, HasTwo(i, id)
  PROVE  LET q == Nearest(i, id)
             m == Deref(i, q) IN
         /\ q \in Ptrs(i) /\ q.at # "head" /\ q # Child(id, "left") /\ q.of # m
         /\ m \in InUse(i) /\ m # id /\ i.node_pool[m].left_id = NotExist
         /\ KeyOf(i, m) < KeyOf(i, id) /\ OnTrail(i, KeyOf(i, m), Child(id, "right"))
         /\ ~OnTrail(i, KeyOf(i, id), q)
         /\ \A z \in InUse(i) :
              z # m /\ OnTrail(i, KeyOf(i, z), Child(id, "right")) => KeyOf(i, z) < KeyOf(i, m)
  <1>0. PoolSize \in 0 .. PoolSize
    BY LegacyFacts
  <1>1. PICK q : q = Nearest(i, id)
    OBVIOUS
  <1>2. PICK m : m = Deref(i, q)
    OBVIOUS
  <1>3. q = NearestTrail(i, id)[PoolSize] /\ q.at # "head"
    BY <1>0, <1>1, SoundFacts, NearestTrailIs DEF HasTwo, Sound, Shaped
  <1>4. q \in Ptrs(i) /\ m \in InUse(i) /\ OnTrail(i, KeyOf(i, m), q) /\ i.node_pool[m].left_id = NotExist
    <2>1. q \in Ptrs(i) /\ m \in InUse(i) /\ OnTrail(i, KeyOf(i, m), q)
      BY <1>0, <1>2, <1>3, NearestTurn
    <2>2. i.node_pool[m].left_id = NotExist
      BY <1>1, <1>2, NearestStops
    <2> QED
      BY <2>1, <2>2
  <1>5. OnTrail(i, KeyOf(i, m), Child(id, "right"))
    BY <1>0, <1>2, <1>3, NearestBelow
  <1>6. /\ KeyOf(i, m) \in Signs /\ KeyOf(i, id) \in Signs /\ m # NotExist /\ id \in InUse(i)
        /\ \A z \in InUse(i) : KeyOf(i, z) \in Nat /\ KeyOf(i, z) \in Signs
    BY <1>4, SoundFacts, LegacyAssumption DEF HasTwo, Sound, Shaped
  <1>7. \A side : Child(id, side).at = side /\ Child(id, side).of = id
    BY DEF Child
  <1>8. KeyOf(i, id) # KeyOf(i, m) /\ "right" = Side(KeyOf(i, id), KeyOf(i, m))
    BY <1>5, <1>6, <1>7, TrailCame DEF Sound
  <1>9. KeyOf(i, m) < KeyOf(i, id) /\ m # id
    <2>1. ~(KeyOf(i, id) < KeyOf(i, m))
      BY <1>8 DEF Side
    <2>2. KeyOf(i, id) \in Nat /\ KeyOf(i, m) \in Nat
      BY <1>4, <1>6
    <2> QED
      BY <1>8, <2>1, <2>2
  <1>10. q # Child(id, "left") /\ q.of # m
    <2>1. KeyOf(i, q.of) # KeyOf(i, m) /\ q.at = Side(KeyOf(i, q.of), KeyOf(i, m))
      BY <1>3, <1>4, <1>6, TrailCame DEF Sound
    <2> QED
      BY <1>7, <1>8, <2>1
  <1>11. ASSUME OnTrail(i, KeyOf(i, id), q) PROVE FALSE
    <2>1. OnTrail(i, KeyOf(i, id), Child(id, "right"))
      BY <1>2, <1>5, <1>6, <1>11, WayTo
    <2> QED
      BY <1>6, <1>7, <2>1, TrailCame DEF Sound
  <1>12. ASSUME NEW z \in InUse(i), z # m, OnTrail(i, KeyOf(i, z), Child(id, "right"))
         PROVE  KeyOf(i, z) < KeyOf(i, m)
    <2>1. OnTrail(i, KeyOf(i, z), q) \/ KeyOf(i, z) < KeyOf(i, m)
      BY <1>0, <1>2, <1>3, <1>12, NearestGreatest
    <2>2. ASSUME OnTrail(i, KeyOf(i, z), q) PROVE KeyOf(i, z) < KeyOf(i, m)
      <3>1. ~Stops(i, KeyOf(i, z), q)
        BY <1>2, <1>12, <2>2, LiveTrail
      <3>2. OnTrail(i, KeyOf(i, z), Child(m, Side(KeyOf(i, m), KeyOf(i, z))))
        BY <1>2, <1>6, <2>2, <3>1, TrailGoesOn DEF Sound
      <3>3. KeyOf(i, m) # KeyOf(i, z)
        BY <1>2, <1>4, <3>1 DEF Stops
      <3>4. ASSUME KeyOf(i, m) < KeyOf(i, z) PROVE FALSE
        <4>1. OnTrail(i, KeyOf(i, z), Child(m, "left"))
          BY <3>2, <3>4 DEF Side
        <4>2. Deref(i, Child(m, "left")) \in InUse(i)
          BY <4>1, LiveTrail
        <4> QED
          BY <1>4, <4>2, FieldsAre, SoundFacts DEF Sound, Shaped
      <3> QED
        BY <1>4, <1>6, <3>3, <3>4
    <2> QED
      BY <2>1, <2>2
  <1> QED
    BY <1>1, <1>2, <1>3, <1>4, <1>5, <1>9, <1>10, <1>11, <1>12

------------------------------------------------------------------------------
(* idx_delete *)

(* A head a search goes through is the one it begins with.                 *)
LEMMA TrailHead ==
  ASSUME NEW i, Shaped(i), NEW s \in Signs, NEW p, OnTrail(i, s, p), p.at = "head"
  PROVE  p = HeadOf(s)
  <1>0. PoolSize \in Nat
    BY LegacyFacts
  <1>1. PICK h \in 0 .. PoolSize : Trail(i, s)[h] = p
    BY DEF OnTrail
  <1>2. PICK n \in 0 .. h : Reached(i, s, n) /\ Trail(i, s)[n] = p
    BY <1>1, FirstVisit
  <1>3. ASSUME n # 0 PROVE FALSE
    <2>1. n \in 1 .. PoolSize /\ n - 1 \in 0 .. PoolSize
      BY <1>0, <1>3
    <2>2. ~Stops(i, s, Trail(i, s)[n - 1]) /\ Trail(i, s)[n - 1] \in Ptrs(i)
      BY <1>2, <1>3, <2>1, TrailUsed DEF Reached
    <2>3. p = Child(Deref(i, Trail(i, s)[n - 1]),
                    Side(KeyOf(i, Deref(i, Trail(i, s)[n - 1])), s))
      BY <1>2, <2>1, <2>2, TrailUsed, TurnIs
    <2> QED
      BY <2>3 DEF Child, Side
  <1> QED
    BY <1>2, <1>3, TrailUsed

(* A node of sound trees is found in the trees made from them where its    *)
(* search stays in a set of pointers and ends at no other node.            *)
LEMMA FindsAfter ==
  ASSUME NEW i, Sound(i), NEW j, Shaped(j), NEW n \in InUse(i), n \in InUse(j),
         \A x \in InUse(i) : KeyOf(j, x) = KeyOf(i, x),
         NEW R, HeadOf(KeyOf(i, n)) \in R,
         \A p \in R \cap Ptrs(j) :
           /\ Deref(j, p) \in InUse(i)
           /\ Deref(j, p) # n =>
                Child(Deref(j, p), Side(KeyOf(i, Deref(j, p)), KeyOf(i, n))) \in R
  PROVE  Found(j, KeyOf(j, n)) = n
  <1>1. PICK k : k = KeyOf(i, n)
    OBVIOUS
  <1>2. k \in Signs /\ \A x \in InUse(i) : KeyOf(i, x) = k <=> x = n
    BY <1>1, SoundFacts, FoundSound DEF Sound, Shaped
  <1>3. \A p \in R \cap Ptrs(j) : Deref(j, p) = n => Stops(j, k, p)
    BY <1>1 DEF Stops
  <1>4. \A p \in R \cap Ptrs(j) : Stops(j, k, p) => Deref(j, p) = n
    BY <1>2, SoundFacts DEF Stops, Sound, Shaped
  <1>5. Where(j, k) \in R \cap Ptrs(j) /\ Stops(j, k, Where(j, k))
    BY <1>1, <1>2, <1>3, WalksWithin
  <1> QED
    BY <1>1, <1>4, <1>5, FindsWhere

(* The node it takes out becomes free.                                     *)
LEMMA DeleteFrees ==
  ASSUME NEW i, Sound(i), NEW s \in Signs, Found(i, s) \in Ids, i.free_count < FreeRoom
  PROVE  LET id == Found(i, s)
             w == Where(i, s)
             j == Deleted(i, s) IN
         /\ id \in InUse(i) /\ KeyOf(i, id) = s /\ Deref(i, w) = id
         /\ w \in Ptrs(i) /\ OnTrail(i, s, w) /\ (w.at = "head" \/ w.of # id)
         /\ \A p \in Ptrs(i) : Deref(i, p) = id => p = w
         /\ Fine(j) /\ InUse(j) = InUse(i) \ {id} /\ ListOnce(j)
         /\ 0 .. j.horizon - 1 \subseteq Written(j.node_pool)
         /\ Ptrs(j) = {p \in Ptrs(i) : p.at = "head" \/ p.of # id}
         /\ \A n \in InUse(i) : KeyOf(j, n) = KeyOf(i, n)
         /\ \A p : Deref(j, p) = Deref(Unlinked(i, w, id), p)
  <1> USE DEF Sound
  <1>1. PICK id : id = Found(i, s)
    OBVIOUS
  <1>2. PICK j : j = Deleted(i, s)
    OBVIOUS
  <1>3. PICK w : w = Where(i, s)
    OBVIOUS
  <1>4. /\ id \in InUse(i) /\ KeyOf(i, id) = s /\ Deref(i, w) = id /\ id # NotExist
        /\ w \in Ptrs(i) /\ OnTrail(i, s, w)
    BY <1>1, <1>3, FoundSound, TrailEnds, SoundFacts, LegacyFacts DEF Shaped
  <1>5. w.at = "head" \/ w.of # id
    BY <1>4, TrailCame
  <1>6. \A p \in Ptrs(i) : Deref(i, p) = id => p = w
    BY <1>4 DEF Shaped, NoSharing
  <1>7. /\ Fine(j) /\ SameNodes(i, j)
        /\ j.node_pool = Unlinked(i, w, id).node_pool
        /\ j.hash_head = Unlinked(i, w, id).hash_head
        /\ j.horizon = i.horizon /\ j.free_count = i.free_count + 1
        /\ \A e \in 1 .. FreeRoom : j.free_pool[e] = IF e = i.free_count + 1 THEN id ELSE i.free_pool[e]
    BY <1>1, <1>2, <1>3, DeleteIs DEF Shaped
  <1>8. 0 .. j.horizon - 1 \subseteq Written(j.node_pool)
    BY <1>7 DEF Shaped, SameNodes
  <1>9. \A n \in InUse(i) : KeyOf(j, n) = KeyOf(i, n)
    BY <1>7, SoundFacts DEF Shaped, SameNodes, KeyOf
  <1>10. \A p : Deref(j, p) = Deref(Unlinked(i, w, id), p)
    BY <1>7 DEF Deref
  <1>11. i.free_count \in Nat /\ FreeRoom \in Nat
    BY LegacyFacts DEF Shaped, Fine, IndexRecord
  <1>12. /\ \A e : e \in 1 .. j.free_count <=> e \in 1 .. i.free_count \/ e = i.free_count + 1
         /\ \A e \in 1 .. i.free_count : e \in 1 .. FreeRoom /\ e # i.free_count + 1
         /\ i.free_count + 1 \in 1 .. FreeRoom
    BY <1>7, <1>11
  <1>13. /\ j.free_pool[i.free_count + 1] = id
         /\ \A e \in 1 .. i.free_count : j.free_pool[e] = i.free_pool[e]
    BY <1>7, <1>12
  <1>14. Listed(j) = Listed(i) \cup {id}
    BY <1>12, <1>13 DEF Listed
  <1>15. id \notin Listed(i) /\ id \in 0 .. i.horizon - 1
    BY <1>4 DEF InUse
  <1>16. ListOnce(j)
    <2>1. \A e \in 1 .. j.free_count : j.free_pool[e] \in 0 .. j.horizon - 1
      BY <1>7, <1>12, <1>13, <1>15 DEF Shaped, ListOnce
    <2>2. \A e \in 1 .. i.free_count : i.free_pool[e] # id
      BY <1>15 DEF Listed
    <2>3. \A e, f \in 1 .. j.free_count : j.free_pool[e] = j.free_pool[f] => e = f
      BY <1>12, <1>13, <2>2 DEF Shaped, ListOnce
    <2> QED
      BY <2>1, <2>3 DEF ListOnce
  <1>17. InUse(j) = InUse(i) \ {id}
    BY <1>7, <1>14 DEF InUse
  <1>18. Ptrs(j) = {p \in Ptrs(i) : p.at = "head" \/ p.of # id}
    BY <1>17 DEF Ptrs
  <1> QED
    BY <1>1, <1>2, <1>3, <1>4, <1>5, <1>6, <1>7, <1>8, <1>9, <1>10, <1>16, <1>17, <1>18

(* With at most one child the child takes the node's place.                *)
LEMMA DeleteOneSound ==
  ASSUME NEW i, Sound(i), NEW s \in Signs, Found(i, s) \in Ids, i.free_count < FreeRoom,
         ~HasTwo(i, Found(i, s))
  PROVE  Sound(Deleted(i, s))
  <1>1. PICK id : id = Found(i, s)
    OBVIOUS
  <1>2. PICK j : j = Deleted(i, s)
    OBVIOUS
  <1>3. PICK w : w = Where(i, s)
    OBVIOUS
  <1>4. PICK c : c = OnlyChild(i.node_pool[id].left_id, i.node_pool[id].right_id)
    OBVIOUS
  <1>5. /\ id \in InUse(i) /\ KeyOf(i, id) = s /\ Deref(i, w) = id
        /\ w \in Ptrs(i) /\ (w.at = "head" \/ w.of # id)
        /\ \A p \in Ptrs(i) : Deref(i, p) = id => p = w
        /\ Fine(j) /\ InUse(j) = InUse(i) \ {id} /\ ListOnce(j)
        /\ 0 .. j.horizon - 1 \subseteq Written(j.node_pool)
        /\ Ptrs(j) = {p \in Ptrs(i) : p.at = "head" \/ p.of # id}
        /\ \A n \in InUse(i) : KeyOf(j, n) = KeyOf(i, n)
        /\ \A p : Deref(j, p) = Deref(Unlinked(i, w, id), p)
    BY <1>1, <1>2, <1>3, DeleteFrees
  <1>6. /\ Ptrs(i) \subseteq Rooted(i) /\ NotExist \notin InUse(i)
        /\ Fine(i) /\ id \in Written(i.node_pool)
        /\ \A n \in InUse(i) : KeyOf(i, n) \in Signs
    BY <1>5, SoundFacts DEF Sound, Shaped
  <1>7. \A p \in Ptrs(j) : Deref(j, p) = IF p = w THEN c ELSE Deref(i, p)
    <2>1. UnlinksOne(i, w, id, Unlinked(i, w, id))
      BY <1>1, <1>5, <1>6, UnlinkIs DEF HasTwo
    <2> QED
      BY <1>4, <1>5, <1>6, <2>1 DEF UnlinksOne
  <1>8. \A side \in {"left", "right"} :
          /\ Child(id, side) \in Ptrs(i) /\ Child(id, side) # w /\ Child(id, side) \notin Ptrs(j)
          /\ Deref(i, Child(id, side)) # NotExist => Deref(i, Child(id, side)) = c
    <2>1. \A side \in {"left", "right"} : Child(id, side) \in Ptrs(i)
      BY <1>5, ChildPtrs DEF Sound
    <2>2. \A side \in {"left", "right"} : Child(id, side).of = id /\ Child(id, side).at # "head"
      BY DEF Child
    <2>3. \A side \in {"left", "right"} :
            Deref(i, Child(id, side)) # NotExist => Deref(i, Child(id, side)) = c
      BY <1>1, <1>4, <1>5, FieldsAre DEF OnlyChild, HasTwo
    <2> QED
      BY <1>5, <2>1, <2>2, <2>3
  <1>9. c # NotExist => \E side \in {"left", "right"} : Deref(i, Child(id, side)) = c
    BY <1>4, FieldsAre DEF OnlyChild
  <1>10. c \in (InUse(i) \ {id}) \cup {NotExist}
    BY <1>5, <1>8, <1>9 DEF Sound, Shaped, NoDangling
  <1>11. \A p \in Ptrs(i) : p # w => Deref(i, p) \in (InUse(i) \ {id}) \cup {NotExist}
    BY <1>5 DEF Sound, Shaped, NoDangling
  <1>12. \A p \in Ptrs(j) : p # w /\ Deref(i, p) = c => c = NotExist
    BY <1>5, <1>8, <1>9 DEF Sound, Shaped, NoSharing
  <1>13. Shaped(j)
    <2>1. NoDangling(j)
      BY <1>5, <1>7, <1>10, <1>11 DEF NoDangling
    <2>2. NoSharing(j)
      BY <1>5, <1>7, <1>12 DEF NoSharing, Sound, Shaped
    <2> QED
      BY <1>5, <2>1, <2>2 DEF Shaped
  <1>14. ASSUME NEW n \in InUse(i), n # id PROVE Found(j, KeyOf(j, n)) = n
    <2>1. PICK k : k = KeyOf(i, n)
      OBVIOUS
    <2>2. k \in Signs /\ HeadOf(k).at = "head"
      BY <1>6, <2>1, HeadOfIsPointer
    <2> DEFINE R == {p \in Ptrs(j) : OnTrail(i, k, p)}
    <2>3. HeadOf(k) \in R
      BY <1>5, <2>2, TrailEnds DEF Sound
    <2>4. ASSUME NEW p \in R
          PROVE  \E u : OnTrail(i, k, u) /\ Deref(j, p) = Deref(i, u) /\ Deref(i, u) # id
      <3>1. CASE p # w
        <4>1. Deref(j, p) = Deref(i, p) /\ Deref(i, p) # id
          BY <1>5, <1>7, <3>1
        <4> QED
          BY <4>1
      <3>2. CASE p = w
        <4>1. PICK side : side = Side(KeyOf(i, id), k)
          OBVIOUS
        <4>2. ~Stops(i, k, w)
          BY <1>5, <1>14, <2>1, <3>2, LiveTrail
        <4>3. OnTrail(i, k, Child(id, side)) /\ side \in {"left", "right"}
          BY <1>5, <2>2, <3>2, <4>1, <4>2, TrailGoesOn DEF Sound, Side
        <4>4. Deref(i, Child(id, side)) # NotExist
          BY <1>6, <2>1, <4>3, LiveTrail
        <4>5. Deref(i, Child(id, side)) = c
          BY <1>8, <4>3, <4>4
        <4>6. Deref(j, w) = c /\ c # id
          BY <1>7, <1>10, <3>2, <4>4, <4>5, <1>8, <4>3, <1>5
        <4> QED
          BY <3>2, <4>3, <4>5, <4>6
      <3> QED
        BY <3>1, <3>2
    <2>5. ASSUME NEW p \in R
          PROVE  /\ Deref(j, p) \in InUse(i)
                 /\ Deref(j, p) # n => Child(Deref(j, p), Side(KeyOf(i, Deref(j, p)), k)) \in R
      <3>1. PICK u : OnTrail(i, k, u) /\ Deref(j, p) = Deref(i, u) /\ Deref(i, u) # id
        BY <2>4
      <3>2. PICK x : x = Deref(i, u)
        OBVIOUS
      <3>3. x \in InUse(i) /\ (Stops(i, k, u) <=> x = n)
        BY <2>1, <3>1, <3>2, LiveTrail
      <3>4. ASSUME x # n PROVE Child(x, Side(KeyOf(i, x), k)) \in R
        <4>1. OnTrail(i, k, Child(x, Side(KeyOf(i, x), k)))
          BY <2>2, <3>1, <3>2, <3>3, <3>4, TrailGoesOn DEF Sound
        <4>2. Child(x, Side(KeyOf(i, x), k)) \in Ptrs(i) /\ Child(x, Side(KeyOf(i, x), k)).of = x
          BY <2>2, <4>1, TrailEnds DEF Sound, Child
        <4> QED
          BY <1>5, <3>1, <3>2, <4>1, <4>2
      <3> HIDE DEF R
      <3> QED
        BY <3>1, <3>2, <3>3, <3>4
    <2> HIDE DEF R
    <2> QED
      BY <1>5, <1>13, <1>14, <2>1, <2>3, <2>5, FindsAfter
  <1> QED
    BY <1>2, <1>5, <1>13, <1>14 DEF Sound, FindsOwn

(* Where a pointer of the trees after the move of the nearest node, m, was *)
(* before: m has got the pointers of the deleted node, id.                 *)
Was(id, m, p) == IF p.at # "head" /\ p.of = m THEN Child(id, p.at) ELSE p

(* What the delete of a node with two children does to the pointers.       *)
LEMMA DeleteTwoPointers ==
  ASSUME NEW i, Sound(i), NEW s \in Signs, Found(i, s) \in Ids, i.free_count < FreeRoom,
         HasTwo(i, Found(i, s))
  PROVE  LET id == Found(i, s)
             w == Where(i, s)
             q == Nearest(i, id)
             m == Deref(i, q)
             r == i.node_pool[m].right_id
             j == Deleted(i, s) IN
         /\ w # q /\ (w.at = "head" \/ w.of # m)
         /\ Deref(i, Child(m, "right")) = r /\ r \in (InUse(i) \ {id, m}) \cup {NotExist}
         /\ \A p \in Ptrs(i) : Deref(i, p) = m => p = q
         /\ \A p \in Ptrs(j) :
              Deref(j, p) = IF p = w THEN m
                            ELSE IF Was(id, m, p) = q THEN r ELSE Deref(i, Was(id, m, p))
         /\ \A p \in Ptrs(j) : Was(id, m, p) \in Ptrs(i) /\ (p # w => Was(id, m, p) # w)
         /\ \A p \in Ptrs(j) : Was(id, m, p).at = "head" \/ Was(id, m, p).of # m
         /\ \A p, x \in Ptrs(j) : Was(id, m, p) = Was(id, m, x) => p = x
         /\ Shaped(j)
  <1>1. PICK id : id = Found(i, s)
    OBVIOUS
  <1>2. PICK j : j = Deleted(i, s)
    OBVIOUS
  <1>3. PICK w : w = Where(i, s)
    OBVIOUS
  <1>4. PICK q : q = Nearest(i, id)
    OBVIOUS
  <1>5. PICK m : m = Deref(i, q)
    OBVIOUS
  <1>6. PICK r : r = i.node_pool[m].right_id
    OBVIOUS
  <1>7. /\ id \in InUse(i) /\ Deref(i, w) = id
        /\ w \in Ptrs(i) /\ (w.at = "head" \/ w.of # id)
        /\ \A p \in Ptrs(i) : Deref(i, p) = id => p = w
        /\ Fine(j) /\ InUse(j) = InUse(i) \ {id} /\ ListOnce(j)
        /\ 0 .. j.horizon - 1 \subseteq Written(j.node_pool)
        /\ Ptrs(j) = {p \in Ptrs(i) : p.at = "head" \/ p.of # id}
        /\ \A p : Deref(j, p) = Deref(Unlinked(i, w, id), p)
    BY <1>1, <1>2, <1>3, DeleteFrees
  <1>8. /\ q \in Ptrs(i) /\ q # Child(id, "left") /\ q.of # m /\ q.at # "head"
        /\ m \in InUse(i) /\ m # id /\ i.node_pool[m].left_id = NotExist
        /\ OnTrail(i, KeyOf(i, m), Child(id, "right"))
    BY <1>1, <1>4, <1>5, NearestIs
  <1>9. /\ Ptrs(i) \subseteq Rooted(i) /\ NotExist \notin InUse(i) /\ Fine(i)
        /\ id \in Written(i.node_pool) /\ KeyOf(i, m) \in Signs
        /\ Ptrs(j) \subseteq Rooted(i)
    BY <1>7, <1>8, SoundFacts DEF Sound, Shaped
  <1>10. \A n, side : Child(n, side).at = side /\ Child(n, side).of = n
    BY DEF Child
  <1>11. \A p \in Ptrs(i) : Deref(i, p) = m => p = q
    BY <1>5, <1>8, <1>9 DEF Sound, Shaped, NoSharing
  <1>12. w # q /\ (w.at = "head" \/ w.of # m)
    <2>1. w # q
      BY <1>5, <1>7, <1>8
    <2>2. PICK x : OnTrail(i, KeyOf(i, m), x) /\ Deref(i, x) = id
      BY <1>8, <1>9, <1>10, TrailCame DEF Sound
    <2>3. OnTrail(i, KeyOf(i, m), w)
      BY <1>7, <1>9, <2>2, TrailEnds DEF Sound
    <2> QED
      BY <1>9, <2>1, <2>3, TrailCame DEF Sound
  <1>13. /\ Child(m, "right") \in Ptrs(i) /\ Deref(i, Child(m, "right")) = r
         /\ \A side \in {"left", "right"} : Child(id, side) \in Ptrs(i)
    BY <1>6, <1>7, <1>8, ChildPtrs, FieldsAre DEF Sound
  <1>14. r \in (InUse(i) \ {id, m}) \cup {NotExist}
    <2>1. r \in InUse(i) \cup {NotExist}
      BY <1>13 DEF Sound, Shaped, NoDangling
    <2>2. Child(m, "right") # w /\ Child(m, "right") # q
      BY <1>8, <1>10, <1>12
    <2> QED
      BY <1>7, <1>11, <1>13, <2>1, <2>2
  <1>15. \A p \in Ptrs(i) : p.at # "head" => p.at \in {"left", "right"} /\ p = Child(p.of, p.at)
    BY <1>7, ChildPtrs DEF Sound
  <1>16. \A p \in Ptrs(j) :
           /\ Was(id, m, p) \in Ptrs(i) /\ (p # w => Was(id, m, p) # w)
           /\ (Was(id, m, p).at = "head" \/ Was(id, m, p).of # m)
    BY <1>7, <1>8, <1>10, <1>13, <1>15 DEF Was
  <1>17. \A p, x \in Ptrs(j) : Was(id, m, p) = Was(id, m, x) => p = x
    BY <1>7, <1>10, <1>15 DEF Was
  <1>18. \A p \in Ptrs(j) :
           Deref(j, p) = IF p = w THEN m
                         ELSE IF Was(id, m, p) = q THEN r ELSE Deref(i, Was(id, m, p))
    <2>1. UnlinksTwo(i, w, id, Unlinked(i, w, id))
      BY <1>1, <1>7, <1>9, UnlinkIs DEF HasTwo
    <2> SUFFICES ASSUME NEW p \in Ptrs(j), p # w
                 PROVE  Deref(j, p) = IF Was(id, m, p) = q THEN r ELSE Deref(i, Was(id, m, p))
      BY <1>4, <1>5, <1>7, <1>9, <2>1 DEF UnlinksTwo
    <2>2. p \in Rooted(i) /\ p \in Ptrs(i)
      BY <1>7, <1>9
    <2>3. CASE p = Child(m, "right")
      <3>1. Was(id, m, p) = Child(id, "right")
        BY <1>10, <2>3 DEF Was
      <3> QED
        BY <1>4, <1>5, <1>6, <1>7, <1>10, <2>1, <2>2, <2>3, <3>1 DEF UnlinksTwo
    <2>4. CASE p = Child(m, "left")
      <3>1. Was(id, m, p) = Child(id, "left") /\ p # Child(m, "right")
        BY <1>10, <2>4 DEF Was
      <3> QED
        BY <1>4, <1>5, <1>6, <1>7, <2>1, <2>2, <2>4, <3>1 DEF UnlinksTwo
    <2>5. CASE p # Child(m, "right") /\ p # Child(m, "left")
      <3>1. Was(id, m, p) = p
        BY <1>15, <2>2, <2>5 DEF Was
      <3> QED
        BY <1>4, <1>5, <1>6, <1>7, <2>1, <2>2, <2>5, <3>1 DEF UnlinksTwo
    <2> QED
      BY <2>3, <2>4, <2>5
  <1>19. \A x \in Ptrs(i) : x # w /\ x # q => Deref(i, x) \in (InUse(i) \ {id, m}) \cup {NotExist}
    BY <1>7, <1>11 DEF Sound, Shaped, NoDangling
  <1>20. NoDangling(j)
    BY <1>7, <1>8, <1>14, <1>16, <1>18, <1>19 DEF NoDangling
  <1>21. NoSharing(j)
    <2> SUFFICES ASSUME NEW p \in Ptrs(j), NEW x \in Ptrs(j), Deref(j, p) = Deref(j, x),
                        Deref(j, p) # NotExist
                 PROVE  p = x
      BY DEF NoSharing
    <2>1. p = w <=> x = w
      BY <1>8, <1>9, <1>14, <1>16, <1>18, <1>19
    <2>2. CASE p = w
      BY <2>1, <2>2
    <2>3. CASE p # w
      <3>1. PICK u \in Ptrs(i) : u = Was(id, m, p) /\ (u.at = "head" \/ u.of # m)
        BY <1>16
      <3>2. PICK v \in Ptrs(i) : v = Was(id, m, x) /\ (v.at = "head" \/ v.of # m)
        BY <1>16
      <3>3. /\ Deref(j, p) = IF u = q THEN r ELSE Deref(i, u)
            /\ Deref(j, x) = IF v = q THEN r ELSE Deref(i, v)
        BY <1>18, <2>1, <2>3, <3>1, <3>2
      <3>4. \A y \in Ptrs(i) : (y.at = "head" \/ y.of # m) => y # Child(m, "right")
        BY <1>10
      <3>5. u = v
        BY <1>13, <3>1, <3>2, <3>3, <3>4 DEF Sound, Shaped, NoSharing
      <3> QED
        BY <1>17, <3>1, <3>2, <3>5
    <2> QED
      BY <2>2, <2>3
  <1>22. Shaped(j)
    BY <1>7, <1>20, <1>21 DEF Shaped
  <1> QED
    BY <1>1, <1>2, <1>3, <1>4, <1>5, <1>6, <1>11, <1>12, <1>13, <1>14, <1>16, <1>17, <1>18, <1>22

(* With two children the nearest node takes the node's place, and every    *)
(* other is still found.                                                   *)
LEMMA DeleteTwoSound ==
  ASSUME NEW i, Sound(i), NEW s \in Signs, Found(i, s) \in Ids, i.free_count < FreeRoom,
         HasTwo(i, Found(i, s))
  PROVE  Sound(Deleted(i, s))
  <1>1. PICK id : id = Found(i, s)
    OBVIOUS
  <1>2. PICK j : j = Deleted(i, s)
    OBVIOUS
  <1>3. PICK w : w = Where(i, s)
    OBVIOUS
  <1>4. PICK q : q = Nearest(i, id)
    OBVIOUS
  <1>5. PICK m : m = Deref(i, q)
    OBVIOUS
  <1>6. PICK r : r = i.node_pool[m].right_id
    OBVIOUS
  <1> DEFINE W(p) == Was(id, m, p)
  <1>7. /\ id \in InUse(i) /\ KeyOf(i, id) = s /\ Deref(i, w) = id /\ w \in Ptrs(i)
        /\ \A p \in Ptrs(i) : Deref(i, p) = id => p = w
        /\ OnTrail(i, s, w) /\ (w.at = "head" \/ w.of # id)
        /\ InUse(j) = InUse(i) \ {id}
        /\ Ptrs(j) = {p \in Ptrs(i) : p.at = "head" \/ p.of # id}
        /\ \A n \in InUse(i) : KeyOf(j, n) = KeyOf(i, n)
    BY <1>1, <1>2, <1>3, DeleteFrees
  <1>8. /\ q \in Ptrs(i) /\ m \in InUse(i) /\ m # id /\ i.node_pool[m].left_id = NotExist
        /\ KeyOf(i, m) < KeyOf(i, id) /\ OnTrail(i, KeyOf(i, m), Child(id, "right"))
        /\ ~OnTrail(i, KeyOf(i, id), q)
        /\ \A z \in InUse(i) :
             z # m /\ OnTrail(i, KeyOf(i, z), Child(id, "right")) => KeyOf(i, z) < KeyOf(i, m)
    BY <1>1, <1>4, <1>5, NearestIs
  <1>9. /\ w # q /\ (w.at = "head" \/ w.of # m)
        /\ Deref(i, Child(m, "right")) = r /\ r \in (InUse(i) \ {id, m}) \cup {NotExist}
        /\ \A p \in Ptrs(i) : Deref(i, p) = m => p = q
        /\ \A p \in Ptrs(j) : Deref(j, p) = IF p = w THEN m ELSE IF W(p) = q THEN r ELSE Deref(i, W(p))
        /\ \A p \in Ptrs(j) : W(p) \in Ptrs(i) /\ (p # w => W(p) # w)
        /\ \A p \in Ptrs(j) : W(p).at = "head" \/ W(p).of # m
        /\ Shaped(j)
    BY <1>1, <1>2, <1>3, <1>4, <1>5, <1>6, DeleteTwoPointers
  <1>10. /\ NotExist \notin InUse(i)
         /\ \A n \in InUse(i) : KeyOf(i, n) \in Signs /\ KeyOf(i, n) \in Nat
    BY SoundFacts, LegacyAssumption DEF Sound, Shaped
  <1>11. /\ \A n, side : Child(n, side).at = side /\ Child(n, side).of = n
         /\ \A a, b : Side(a, b) \in {"left", "right"}
    BY DEF Child, Side
  <1>12. \A n \in InUse(i), side \in {"left", "right"} : Child(n, side) \in Ptrs(i)
    BY ChildPtrs DEF Sound
  <1>13. \A n \in InUse(i) \ {id, m}, side \in {"left", "right"} :
            Child(n, side) \in Ptrs(j) /\ W(Child(n, side)) = Child(n, side)
    BY <1>7, <1>11, <1>12 DEF Was
  <1>14. \A side \in {"left", "right"} :
            Child(m, side) \in Ptrs(j) /\ W(Child(m, side)) = Child(id, side)
    BY <1>7, <1>8, <1>11, <1>12 DEF Was
  <1>15. \A k \in Signs : HeadOf(k) \in Ptrs(j) /\ W(HeadOf(k)) = HeadOf(k)
    BY <1>7, HeadOfIsPointer, TrailEnds DEF Was, Sound
  <1> HIDE DEF W
  <1>16. ASSUME NEW n \in InUse(i), n # id, n # m PROVE Found(j, KeyOf(j, n)) = n
    <2>1. PICK k : k = KeyOf(i, n)
      OBVIOUS
    <2>2. k \in Signs /\ k \in Nat
      BY <1>10, <2>1
    <2> DEFINE R == {p \in Ptrs(j) : OnTrail(i, k, W(p))}
    <2>3. HeadOf(k) \in R
      BY <1>15, <2>2, TrailEnds DEF Sound
    <2>4. ASSUME NEW x \in InUse(i) \ {id, m}, OnTrail(i, k, Child(x, Side(KeyOf(i, x), k)))
          PROVE  Child(x, Side(KeyOf(i, x), k)) \in R
      BY <1>11, <1>13, <2>4
    <2>5. ASSUME NEW p \in R
          PROVE  /\ Deref(j, p) \in InUse(i)
                 /\ Deref(j, p) # n => Child(Deref(j, p), Side(KeyOf(i, Deref(j, p)), k)) \in R
      <3>1. /\ OnTrail(i, k, W(p)) /\ Deref(i, W(p)) \in InUse(i)
            /\ (Stops(i, k, W(p)) <=> Deref(i, W(p)) = n)
        BY <2>1, LiveTrail
      <3>2. Deref(i, W(p)) # n =>
              OnTrail(i, k, Child(Deref(i, W(p)), Side(KeyOf(i, Deref(i, W(p))), k)))
        BY <2>2, <3>1, TrailGoesOn DEF Sound
      <3> HIDE DEF R
      <3>3. CASE p = w
        <4>1. Deref(j, p) = m
          BY <1>9, <3>3, <2>5 DEF R
        <4>2. W(p) = w
          BY <1>9, <3>3 DEF W, Was
        <4>3. OnTrail(i, k, Child(id, Side(KeyOf(i, id), k)))
          BY <1>7, <1>16, <3>2, <4>2
        <4>4. Side(KeyOf(i, id), k) = Side(KeyOf(i, m), k)
          <5>1. KeyOf(i, id) # k /\ KeyOf(i, id) \in Nat /\ KeyOf(i, m) \in Nat
            BY <1>7, <1>8, <1>10, <1>16, <3>1, <4>2 DEF Stops
          <5>2. CASE KeyOf(i, id) < k
            BY <1>8, <2>2, <5>1, <5>2 DEF Side
          <5>3. CASE ~(KeyOf(i, id) < k)
            <6>1. Side(KeyOf(i, id), k) = "right"
              BY <5>3 DEF Side
            <6>2. k < KeyOf(i, m)
              BY <1>8, <1>16, <2>1, <4>3, <6>1
            <6> QED
              BY <2>2, <5>1, <6>1, <6>2 DEF Side
          <5> QED
            BY <5>2, <5>3
        <4>5. Child(m, Side(KeyOf(i, m), k)) \in R
          BY <1>11, <1>14, <4>3, <4>4 DEF R
        <4> QED
          BY <1>8, <4>1, <4>5
      <3>4. CASE p # w /\ W(p) # q
        <4>1. Deref(j, p) = Deref(i, W(p))
          BY <1>9, <3>4, <2>5 DEF R
        <4>2. Deref(i, W(p)) \in InUse(i) \ {id, m}
          BY <1>7, <1>9, <2>5, <3>1, <3>4 DEF R
        <4> QED
          BY <2>4, <3>2, <4>1, <4>2
      <3>5. CASE p # w /\ W(p) = q
        <4>1. Deref(j, p) = r
          BY <1>9, <3>5, <2>5 DEF R
        <4>2. OnTrail(i, k, Child(m, Side(KeyOf(i, m), k)))
          BY <1>5, <1>16, <3>2, <3>5
        <4>3. Deref(i, Child(m, Side(KeyOf(i, m), k))) \in InUse(i)
          BY <2>1, <4>2, LiveTrail
        <4>4. Side(KeyOf(i, m), k) = "right"
          BY <1>8, <1>10, <1>11, <4>3, FieldsAre
        <4>5. OnTrail(i, k, Child(m, "right")) /\ r \in InUse(i) \ {id, m}
          BY <1>9, <1>10, <4>2, <4>3, <4>4
        <4>6. r # n => OnTrail(i, k, Child(r, Side(KeyOf(i, r), k)))
          BY <1>9, <2>1, <2>2, <4>5, LiveTrail, TrailGoesOn DEF Sound
        <4> QED
          BY <2>4, <4>1, <4>5, <4>6
      <3> QED
        BY <3>3, <3>4, <3>5
    <2> HIDE DEF R
    <2>6. n \in InUse(j)
      BY <1>7, <1>16
    <2> QED
      BY <1>7, <1>9, <2>1, <2>3, <2>5, <2>6, FindsAfter
  <1>17. Found(j, KeyOf(j, m)) = m
    <2>1. PICK k : k = KeyOf(i, m)
      OBVIOUS
    <2>2. k \in Signs /\ s \in Signs
      BY <1>8, <1>10, <2>1
    <2> DEFINE R == {p \in Ptrs(j) : OnTrail(i, s, p)}
    <2>3. OnTrail(i, k, w)
      <3>1. PICK x : OnTrail(i, k, x) /\ Deref(i, x) = id
        BY <1>8, <1>11, <2>1, <2>2, TrailCame DEF Sound
      <3> QED
        BY <1>7, <2>2, <3>1, TrailEnds DEF Sound
    <2>4. \A p : OnTrail(i, s, p) => OnTrail(i, k, p)
      BY <1>7, <1>10, <2>2, <2>3, WayTo
    <2>5. HeadOf(k) \in R
      <3>1. OnTrail(i, k, HeadOf(s)) /\ HeadOf(s).at = "head"
        BY <2>2, <2>4, HeadOfIsPointer, TrailEnds DEF Sound
      <3>2. HeadOf(s) = HeadOf(k)
        BY <2>2, <3>1, TrailHead DEF Sound
      <3> QED
        BY <1>15, <2>2, <3>2, TrailEnds DEF Sound
    <2>6. ASSUME NEW p \in R
          PROVE  /\ Deref(j, p) \in InUse(i)
                 /\ Deref(j, p) # m => Child(Deref(j, p), Side(KeyOf(i, Deref(j, p)), k)) \in R
      <3>1. CASE p = w
        BY <1>8, <1>9, <3>1
      <3>2. CASE p # w
        <4>1. p \in Ptrs(i) /\ p # q
          BY <1>7, <1>8
        <4>2. p.at = "head" \/ p.of # m
          <5>1. ASSUME p.at # "head", p.of = m PROVE FALSE
            <6>1. PICK x : OnTrail(i, s, x) /\ Deref(i, x) = m
              BY <2>2, <5>1, TrailCame DEF Sound
            <6>2. x = q
              BY <1>9, <2>2, <6>1, TrailEnds DEF Sound
            <6> QED
              BY <1>7, <1>8, <6>1, <6>2
          <5> QED
            BY <5>1
        <4>3. W(p) = p
          BY <4>2 DEF W, Was
        <4>4. PICK x : x = Deref(i, p)
          OBVIOUS
        <4>5. Deref(j, p) = x
          BY <1>9, <3>2, <4>1, <4>3, <4>4
        <4>6. x \in InUse(i)
          BY <1>7, <4>4, LiveTrail
        <4>7. x \in InUse(i) \ {id, m}
          BY <1>7, <1>9, <3>2, <4>1, <4>4, <4>6
        <4>8. OnTrail(i, s, Child(x, Side(KeyOf(i, x), s)))
          <5>1. ~Stops(i, s, p)
            BY <1>7, <4>4, <4>7, LiveTrail
          <5> QED
            BY <2>2, <4>4, <5>1, TrailGoesOn DEF Sound
        <4>9. Side(KeyOf(i, x), s) = Side(KeyOf(i, x), k)
          <5>1. PICK c : c = Child(x, Side(KeyOf(i, x), s))
            OBVIOUS
          <5>2. OnTrail(i, k, c) /\ c.of = x /\ c.at = Side(KeyOf(i, x), s)
            BY <1>11, <2>4, <4>8, <5>1
          <5>3. c.at # "head"
            BY <1>11, <5>2
          <5> QED
            BY <2>2, <5>2, <5>3, TrailCame DEF Sound
        <4>10. Child(x, Side(KeyOf(i, x), k)) \in R
          BY <1>11, <1>13, <4>7, <4>8, <4>9
        <4> QED
          BY <4>5, <4>7, <4>10
      <3> QED
        BY <3>1, <3>2
    <2> HIDE DEF R
    <2>7. m \in InUse(j)
      BY <1>7, <1>8
    <2> QED
      BY <1>7, <1>8, <1>9, <2>1, <2>5, <2>6, <2>7, FindsAfter
  <1> QED
    BY <1>2, <1>7, <1>9, <1>16, <1>17 DEF Sound, FindsOwn

(* Taking a node out keeps the trees sound.                                *)
LEMMA DeleteSound ==
  ASSUME NEW i, Sound(i), NEW s \in Signs, Found(i, s) \in Ids, i.free_count < FreeRoom
  PROVE  Sound(Deleted(i, s))
  BY DeleteOneSound, DeleteTwoSound

------------------------------------------------------------------------------
(* The trees in memory and in the file *)

(* The index a kv_open with LOAD makes of the file.                        *)
FileIndex ==
  [hash_head |-> idx_file.hash_head, node_pool |-> idx_file.node_pool,
   horizon |-> idx_file.head.horizon, free_count |-> idx_file.head.free_count,
   free_pool |-> idx_file.free_pool, is_change |-> FALSE]

(* What the save that is going on has written is what memory holds.        *)
SavedInv ==
  MidSync =>
    /\ idx_file.head = IndexHead
    /\ Head(todo) # "pool" => idx_file.node_pool = idx.node_pool
    /\ Head(todo) = "free" => idx_file.hash_head = idx.hash_head

(* The trees are sound in memory and, between two saves, in the file, as   *)
(* long as no save was cut short.                                          *)
SoundInv ==
  /\ pc \in {"up", "exit"} /\ ~cut => Sound(idx)
  /\ SavedInv
  /\ ~cut /\ ~MidSync /\ idx_file.head # Junk => Sound(FileIndex)

(* is_change says nothing of the trees.                                    *)
LEMMA SameTrees ==
  ASSUME NEW i, NEW j, j \in IndexRecord,
         j.hash_head = i.hash_head, j.node_pool = i.node_pool, SameList(i, j)
  PROVE  /\ InUse(j) = InUse(i)
         /\ \A s \in Signs : Found(j, s) = Found(i, s)
         /\ Sound(i) => Sound(j)
  <1>1. InUse(j) = InUse(i) /\ Ptrs(j) = Ptrs(i) /\ (ListOnce(i) => ListOnce(j))
    BY DEF SameList, InUse, Listed, Ptrs, ListOnce
  <1>2. /\ \A p : Deref(j, p) = Deref(i, p)
        /\ \A id : IsNode(j, id) = IsNode(i, id) /\ KeyOf(j, id) = KeyOf(i, id)
    BY DEF Deref, IsNode, KeyOf
  <1>3. \A s : Turn(j, s) = Turn(i, s)
    BY <1>2 DEF Turn, KeyOf
  <1>4. ASSUME NEW s PROVE Where(j, s) = Where(i, s)
    <2>1. PICK step : step = Turn(i, s) /\ step = Turn(j, s)
      BY <1>3
    <2>2. IsLoop(HeadOf(s), step, Trail(i, s)) /\ IsLoop(HeadOf(s), step, Trail(j, s))
      BY <2>1 DEF IsLoop, Trail
    <2>3. Trail(i, s) = Trail(j, s)
      BY <2>2 DEF IsLoop
    <2> QED
      BY <2>3 DEF Where, Trail
  <1>5. \A s : Found(j, s) = Found(i, s)
    BY <1>2, <1>4 DEF Found, KeyOf
  <1>6. Fine(i) => Fine(j)
    BY DEF Fine
  <1>7. 0 .. i.horizon - 1 \subseteq Written(i.node_pool) => 0 .. j.horizon - 1 \subseteq Written(j.node_pool)
    BY DEF SameList
  <1>8. Shaped(i) => Shaped(j)
    BY <1>1, <1>2, <1>6, <1>7 DEF Shaped, NoDangling, NoSharing
  <1> QED
    BY <1>1, <1>2, <1>5, <1>8 DEF Sound, FindsOwn

(* An index that was just made is sound: nothing is in use.                *)
LEMMA NoIndexSound == Sound(NoIndex) /\ InUse(NoIndex) = {}
  <1>1. NoIndex.horizon = 0 /\ NoIndex.free_count = 0 /\ 0 .. 0 - 1 = {} /\ 1 .. 0 = {}
    BY DEF NoIndex
  <1>2. InUse(NoIndex) = {}
    BY <1>1 DEF InUse
  <1>3. \A p \in Ptrs(NoIndex) : Deref(NoIndex, p) = NotExist
    BY <1>2 DEF Ptrs, Pointers, Deref, NoIndex
  <1>4. Fine(NoIndex) /\ ListOnce(NoIndex)
    BY <1>1, NoIndexIs DEF Fine, ListOnce
  <1> QED
    BY <1>1, <1>2, <1>3, <1>4 DEF Sound, Shaped, NoDangling, NoSharing, FindsOwn

(* The beginning: nothing was saved.                                       *)
LEMMA SoundInit == Init => SoundInv
  BY DEF Init, SoundInv, SavedInv, MidSync

(* Steps that leave the index file alone and end or begin no save.         *)
LEMMA FileSound ==
  ASSUME SoundInv, UNCHANGED idx_file, ~MidSync, ~MidSync', ~cut' => ~cut
  PROVE  /\ SavedInv'
         /\ (~cut /\ ~MidSync /\ idx_file.head # Junk => Sound(FileIndex))'
  <1>1. FileIndex' = FileIndex
    BY DEF FileIndex
  <1> QED
    BY <1>1 DEF SoundInv, SavedInv

(* Which write comes before which.                                         *)
LEMMA WriteOrder ==
  ASSUME LegacyTypeInv, todo # <<>>, pc # "halted"
  PROVE  /\ pc \in {"create", "exit"}
         /\ Head(todo) \in {"head", "pool", "heads", "free", "data"}
         /\ Head(todo) = "head" => Tail(todo) # <<>> /\ Head(Tail(todo)) = "pool"
         /\ Head(todo) = "pool" => Tail(todo) # <<>> /\ Head(Tail(todo)) = "heads"
         /\ Head(todo) = "heads" => Tail(todo) # <<>> /\ Head(Tail(todo)) = "free"
         /\ Head(todo) \in {"free", "data"} =>
              Tail(todo) = <<>> \/ Head(Tail(todo)) \notin {"pool", "heads", "free"}
  <1>1. pc \in {"create", "exit"} /\ todo \in CreateLeft \cup ExitLeft
    BY DEF LegacyTypeInv, LegacyTypeOK, TodoInv
  <1>2. \A t \in CreateLeft \cup ExitLeft : t # <<>> =>
          /\ Head(t) \in {"head", "pool", "heads", "free", "data"}
          /\ Head(t) = "head" => Tail(t) # <<>> /\ Head(Tail(t)) = "pool"
          /\ Head(t) = "pool" => Tail(t) # <<>> /\ Head(Tail(t)) = "heads"
          /\ Head(t) = "heads" => Tail(t) # <<>> /\ Head(Tail(t)) = "free"
          /\ Head(t) \in {"free", "data"} =>
               Tail(t) = <<>> \/ Head(Tail(t)) \notin {"pool", "heads", "free"}
    <2>1. /\ \A a : Head(<<a>>) = a
          /\ \A a, b : Head(<<a, b>>) = a
          /\ \A a, b, c : Head(<<a, b, c>>) = a
          /\ \A a, b, c, d : Head(<<a, b, c, d>>) = a
          /\ \A a, b, c, d, e : Head(<<a, b, c, d, e>>) = a
      OBVIOUS
    <2>2. /\ \A a : <<a>> # <<>>
          /\ \A a, b : <<a, b>> # <<>>
          /\ \A a, b, c : <<a, b, c>> # <<>>
          /\ \A a, b, c, d : <<a, b, c, d>> # <<>>
      OBVIOUS
    <2>3. ASSUME NEW t \in CreateLeft \cup ExitLeft, t # <<>>
          PROVE  \E h : /\ h = Head(t) /\ h \in {"head", "pool", "heads", "free", "data"}
                        /\ h = "head" => Tail(t) # <<>> /\ Head(Tail(t)) = "pool"
                        /\ h = "pool" => Tail(t) # <<>> /\ Head(Tail(t)) = "heads"
                        /\ h = "heads" => Tail(t) # <<>> /\ Head(Tail(t)) = "free"
                        /\ h \in {"free", "data"} =>
                             Tail(t) = <<>> \/ Head(Tail(t)) \notin {"pool", "heads", "free"}
      <3>1. CASE t = <<"head", "pool", "heads", "free", "data">>
        BY <2>1, <2>2, <3>1, Tails
      <3>2. CASE t = <<"pool", "heads", "free", "data">>
        BY <2>1, <2>2, <3>2, Tails
      <3>3. CASE t = <<"heads", "free", "data">>
        BY <2>1, <2>2, <3>3, Tails
      <3>4. CASE t = <<"free", "data">>
        BY <2>1, <2>2, <3>4, Tails
      <3>5. CASE t = <<"data">>
        BY <2>1, <2>2, <3>5, Tails
      <3>6. CASE t = <<"data", "head", "pool", "heads", "free">>
        BY <2>1, <2>2, <3>6, Tails
      <3>7. CASE t = <<"head", "pool", "heads", "free">>
        BY <2>1, <2>2, <3>7, Tails
      <3>8. CASE t = <<"pool", "heads", "free">>
        BY <2>1, <2>2, <3>8, Tails
      <3>9. CASE t = <<"heads", "free">>
        BY <2>1, <2>2, <3>9, Tails
      <3>10. CASE t = <<"free">>
        BY <2>1, <2>2, <3>10, Tails
      <3> QED
        BY <2>3, <3>1, <3>2, <3>3, <3>4, <3>5, <3>6, <3>7, <3>8, <3>9, <3>10 DEF CreateLeft, ExitLeft
    <2> QED
      BY <2>3
  <1> QED
    BY <1>1, <1>2

(* One write of a save.                                                    *)
LEMMA WriteSound == LegacyTypeInv /\ OwnInv /\ SoundInv /\ Write => SoundInv'
  <1> SUFFICES ASSUME LegacyTypeInv, OwnInv, SoundInv, Write PROVE SoundInv'
    OBVIOUS
  <1>1. /\ pc # "halted" /\ todo # <<>> /\ todo' = Tail(todo) /\ UNCHANGED <<pc, idx>>
        /\ IF Head(todo) = "data" THEN UNCHANGED idx_file ELSE IndexSync(Head(todo))
        /\ cut' = (cut /\ ~(pc = "create" /\ Head(todo) = "free"))
    BY DEF Write, Blank
  <1>2. idx_file \in IndexFile /\ idx_file' \in IndexFile /\ idx \in IndexRecord
    BY SaveTyped DEF LegacyTypeInv
  <1>3. pc' \notin {"up"} /\ (pc' = "exit" /\ ~cut' => Sound(idx'))
    <2>1. pc \in {"create", "exit"}
      BY <1>1, WriteOrder
    <2> QED
      BY <1>1, <2>1 DEF SoundInv
  <1>4. IndexHead' = IndexHead
    BY <1>1 DEF IndexHead
  <1>5. CASE Head(todo) = "data"
    <2>1. ~MidSync /\ ~MidSync'
      BY <1>1, <1>5, WriteOrder DEF MidSync
    <2>2. ~cut' => ~cut
      BY <1>1, <1>5
    <2> QED
      BY <1>1, <1>3, <1>5, <2>1, <2>2, FileSound DEF SoundInv
  <1>6. CASE Head(todo) = "head"
    <2>1. MidSync' /\ Head(todo') = "pool"
      BY <1>1, <1>6, WriteOrder DEF MidSync
    <2>2. idx_file'.head = IndexHead
      BY <1>1, <1>2, <1>6 DEF IndexSync, IndexFile
    <2> QED
      BY <1>3, <1>4, <2>1, <2>2 DEF SoundInv, SavedInv
  <1>7. CASE Head(todo) = "pool"
    <2>1. MidSync /\ MidSync' /\ Head(todo') = "heads"
      BY <1>1, <1>7, WriteOrder DEF MidSync
    <2>2. idx_file'.head = idx_file.head /\ idx_file'.node_pool = idx.node_pool
      BY <1>1, <1>2, <1>7 DEF IndexSync, IndexFile
    <2> QED
      BY <1>1, <1>3, <1>4, <2>1, <2>2 DEF SoundInv, SavedInv
  <1>8. CASE Head(todo) = "heads"
    <2>1. MidSync /\ MidSync' /\ Head(todo') = "free"
      BY <1>1, <1>8, WriteOrder DEF MidSync
    <2>2. /\ idx_file'.head = idx_file.head /\ idx_file'.node_pool = idx_file.node_pool
          /\ idx_file'.hash_head = idx.hash_head
      BY <1>1, <1>2, <1>8 DEF IndexSync, IndexFile
    <2> QED
      BY <1>1, <1>3, <1>4, <1>8, <2>1, <2>2 DEF SoundInv, SavedInv
  <1>9. CASE Head(todo) = "free"
    <2>1. MidSync /\ ~MidSync'
      BY <1>1, <1>9, WriteOrder DEF MidSync
    <2>2. /\ idx_file'.head = IndexHead /\ idx_file'.node_pool = idx.node_pool
          /\ idx_file'.hash_head = idx.hash_head /\ idx_file'.free_pool = idx.free_pool
      BY <1>1, <1>2, <1>9, <2>1 DEF IndexSync, IndexFile, SoundInv, SavedInv
    <2>3. FileIndex' \in IndexRecord /\ FileIndex'.hash_head = idx.hash_head
          /\ FileIndex'.node_pool = idx.node_pool /\ SameList(idx, FileIndex')
      BY <1>2, <2>2 DEF FileIndex, IndexHead, SameList, IndexRecord
    <2>4. ~cut' => Sound(idx)
      <3>1. pc = "create" => idx = NoIndex
        BY DEF OwnInv
      <3>2. pc \in {"create", "exit"}
        BY <1>1, WriteOrder
      <3> QED
        BY <1>1, <3>1, <3>2, NoIndexSound DEF SoundInv
    <2>5. ~cut' => Sound(FileIndex')
      BY <2>3, <2>4, SameTrees
    <2> QED
      BY <1>3, <2>1, <2>5 DEF SoundInv, SavedInv
  <1> QED
    BY <1>1, <1>5, <1>6, <1>7, <1>8, <1>9, WriteOrder

(* kv_put and kv_delete.                                                   *)
LEMMA CallsSound ==
  ASSUME LegacyTypeInv, SoundInv, NEW s \in Signs, (\E v \in Values : Put(s, v)) \/ Delete(s), ~Halt
  PROVE  SoundInv'
  <1>1. pc = "up" /\ todo = <<>> /\ UNCHANGED <<pc, idx_file, todo, cut>>
    BY DEF Put, Delete, LegacyTypeInv, TodoInv, files, history
  <1>2. ~MidSync /\ ~MidSync'
    BY <1>1 DEF MidSync
  <1>3. Sound(idx) => Sound(idx')
    <2>1. CASE \E v \in Values : Put(s, v)
      <3>1. /\ Found(idx, s) = NotExist /\ FreeNode(idx) \in Ids /\ append <= MaxData
            /\ idx' = Inserted(idx, s, append)
        BY <2>1 DEF Put
      <3>2. append \in 1 .. MaxData
        BY <3>1, LegacyFacts DEF LegacyTypeInv, LegacyTypeOK
      <3> QED
        BY <3>1, <3>2, InsertSound
    <2>2. CASE Delete(s)
      <3>1. Found(idx, s) \in Ids /\ idx.free_count < FreeRoom /\ idx' = Deleted(idx, s)
        BY <2>2 DEF Delete
      <3> QED
        BY <3>1, DeleteSound
    <2> QED
      BY <2>1, <2>2
  <1> QED
    BY <1>1, <1>2, <1>3, FileSound DEF SoundInv

(* The exits begin with the end of the data file or the head of the index. *)
LEMMA ExitBegins == Exit => ~MidSync' /\ todo' # <<>>
  <1> SUFFICES ASSUME Exit PROVE ~MidSync' /\ todo' # <<>>
    OBVIOUS
  <1>1. todo' \in {<<"data", "head", "pool", "heads", "free">>,
                   <<"head", "pool", "heads", "free", "data">>, <<"data">>}
    BY TodoMoves DEF Exit
  <1>2. Head(todo') \in {"data", "head"} /\ todo' # <<>>
    BY <1>1
  <1> QED
    BY <1>2 DEF MidSync

(* Every action.                                                           *)
LEMMA SoundStep == LegacyTypeInv /\ OwnInv /\ SoundInv /\ [Next]_vars => SoundInv'
  <1> SUFFICES ASSUME LegacyTypeInv, OwnInv, SoundInv, [Next]_vars PROVE SoundInv'
    OBVIOUS
  <1>0. pc \in {"down", "up"} => ~MidSync
    BY DEF LegacyTypeInv, TodoInv, MidSync
  <1>1. CASE Create
    <2>1. pc = "down" /\ pc' = "create" /\ UNCHANGED <<idx_file, cut>>
      BY <1>1 DEF Create, CanOpen, files, history
    <2>2. ~MidSync'
      <3>1. todo' = <<"head", "pool", "heads", "free", "data">>
        BY <1>1, TodoMoves DEF Create
      <3>2. Head(todo') = "head"
        BY <3>1
      <3> QED
        BY <3>2 DEF MidSync
    <2> QED
      BY <1>0, <2>1, <2>2, FileSound DEF SoundInv
  <1>2. CASE Load
    <2>1. /\ pc = "down" /\ UNCHANGED <<idx_file, cut, todo>> /\ idx_file.head # Junk
          /\ idx' = FileIndex
      BY <1>2 DEF Load, CanOpen, files, history, FileIndex
    <2>2. ~MidSync' /\ ~MidSync
      BY <1>0, <2>1 DEF MidSync
    <2> QED
      BY <2>1, <2>2, FileSound DEF SoundInv
  <1>3. CASE Exit
    <2>1. pc = "up" /\ UNCHANGED <<idx, idx_file, cut>>
      BY <1>3 DEF Exit, files, history
    <2>2. ~MidSync'
      BY <1>3, ExitBegins
    <2> QED
      BY <1>0, <2>1, <2>2, FileSound DEF SoundInv
  <1>4. CASE Write
    BY <1>4, WriteSound
  <1>5. CASE Opened
    <2>1. idx = NoIndex /\ pc' = "up" /\ todo = <<>> /\ UNCHANGED <<idx, idx_file, cut, todo>>
      BY <1>5 DEF Opened, OwnInv, files, history
    <2>2. ~MidSync /\ ~MidSync'
      BY <2>1 DEF MidSync
    <2> QED
      BY <2>1, <2>2, FileSound, NoIndexSound DEF SoundInv
  <1>6. CASE Closed
    <2>1. pc' = "down" /\ todo = <<>> /\ UNCHANGED <<idx_file, cut, todo>>
      BY <1>6 DEF Closed, files, history
    <2>2. ~MidSync /\ ~MidSync'
      BY <2>1 DEF MidSync
    <2> QED
      BY <2>1, <2>2, FileSound DEF SoundInv
  <1>7. CASE Die
    <2>1. pc' = "down" /\ todo' = <<>> /\ UNCHANGED idx_file /\ cut' = (cut \/ MidSync)
      BY <1>7 DEF Die, files
    <2>2. ~MidSync'
      BY <2>1 DEF MidSync
    <2>3. FileIndex' = FileIndex
      BY <2>1 DEF FileIndex
    <2> QED
      BY <2>1, <2>2, <2>3 DEF SoundInv, SavedInv
  <1>h. CASE Halt
    <2>1. pc' = "halted" /\ UNCHANGED <<idx, idx_file, cut, todo>>
      BY <1>h DEF Halt, files, history
    <2> QED
      BY <2>1 DEF SoundInv, SavedInv, MidSync, IndexHead, FileIndex
  <1>8. ASSUME NEW s \in Signs, (\E v \in Values : Put(s, v)) \/ Delete(s) PROVE SoundInv'
    BY <1>h, <1>8, CallsSound
  <1>9. CASE SaveOverrun \/ LoadOverrun
    BY <1>h, <1>9 DEF SaveOverrun, LoadOverrun
  <1>10. CASE UNCHANGED vars
    <2>1. UNCHANGED <<pc, idx, idx_file, todo, cut>>
      BY <1>10 DEF vars, files, history
    <2> QED
      BY <2>1 DEF SoundInv, SavedInv, MidSync, IndexHead, FileIndex
  <1> QED
    BY <1>1, <1>2, <1>3, <1>4, <1>5, <1>6, <1>7, <1>8, <1>9, <1>10 DEF Next

------------------------------------------------------------------------------
(* The pool *)

(* In sound trees the searches find what is in use, and no more.           *)
LEMMA LiveIsInUse ==
  ASSUME Sound(idx)
  PROVE  Live = InUse(idx) /\ Free = Listed(idx) /\ Used = Ptrs(idx)
  <1>1. InUse(idx) \subseteq Ids /\ NotExist \notin Ids
    BY SoundFacts, LegacyFacts DEF Sound, Shaped
  <1>2. \A s \in Signs : Found(idx, s) \in InUse(idx) \cup {NotExist}
    BY FoundSound
  <1>3. \A id \in InUse(idx) : KeyOf(idx, id) \in Signs /\ Found(idx, KeyOf(idx, id)) = id
    BY SoundFacts DEF Sound, Shaped, FindsOwn
  <1>4. Live = InUse(idx)
    BY <1>1, <1>2, <1>3 DEF Live
  <1> QED
    BY <1>4 DEF Free, Listed, Used, Ptrs

(* So the places below the horizon are counted once each.                  *)
LEMMA SoundCounts ==
  ASSUME Sound(idx)
  PROVE  /\ IsFiniteSet(Live) /\ Live \cup Free = 0 .. idx.horizon - 1
         /\ Cardinality(Live) + idx.free_count = idx.horizon
         /\ Cardinality({p \in Used : Deref(idx, p) # NotExist}) = Cardinality(Live)
  <1>1. Live = InUse(idx) /\ Free = Listed(idx) /\ Used = Ptrs(idx)
    BY LiveIsInUse
  <1>2. idx.horizon \in Nat /\ idx.free_count \in Nat /\ ListOnce(idx)
    BY LegacyFacts DEF Sound, Shaped, Fine, IndexRecord
  <1>3. Listed(idx) \subseteq 0 .. idx.horizon - 1
    BY <1>2 DEF Listed, ListOnce
  <1>4. Live \cup Free = 0 .. idx.horizon - 1 /\ Live \cap Free = {}
    BY <1>1, <1>3 DEF InUse
  <1>5. /\ IsFiniteSet(0 .. idx.horizon - 1) /\ Cardinality(0 .. idx.horizon - 1) = idx.horizon
        /\ IsFiniteSet(1 .. idx.free_count) /\ Cardinality(1 .. idx.free_count) = idx.free_count
    <2>1. \A n \in Nat : /\ IsFiniteSet(0 .. n - 1) /\ Cardinality(0 .. n - 1) = n
                         /\ IsFiniteSet(1 .. n) /\ Cardinality(1 .. n) = n
      <3> SUFFICES ASSUME NEW n \in Nat
                   PROVE  /\ IsFiniteSet(0 .. n - 1) /\ Cardinality(0 .. n - 1) = n
                          /\ IsFiniteSet(1 .. n) /\ Cardinality(1 .. n) = n
        OBVIOUS
      <3>1. 0 \in Int /\ 1 \in Int /\ n \in Int /\ n - 1 \in Int
        OBVIOUS
      <3>2. /\ IsFiniteSet(0 .. n - 1)
            /\ Cardinality(0 .. n - 1) = IF 0 > n - 1 THEN 0 ELSE (n - 1) - 0 + 1
        BY <3>1, FS_Interval
      <3>3. IsFiniteSet(1 .. n) /\ Cardinality(1 .. n) = IF 1 > n THEN 0 ELSE n - 1 + 1
        BY <3>1, FS_Interval
      <3> QED
        BY <3>2, <3>3
    <2> QED
      BY <1>2, <2>1
  <1>6. IsFiniteSet(Free) /\ Cardinality(Free) = idx.free_count
    <2> DEFINE f == [e \in 1 .. idx.free_count |-> idx.free_pool[e]]
    <2>1. f \in Bijection(1 .. idx.free_count, Listed(idx))
      BY <1>2 DEF Listed, ListOnce, Bijection, Injection, Surjection, IsInjective
    <2>2. ExistsBijection(1 .. idx.free_count, Listed(idx))
      BY <2>1 DEF ExistsBijection
    <2> QED
      BY <1>1, <1>5, <2>2, FS_Bijection
  <1>7. IsFiniteSet(Live)
    BY <1>4, <1>5, FS_Subset
  <1>8. Cardinality(Live) + idx.free_count = idx.horizon
    <2>1. Cardinality(Live \cup Free) = Cardinality(Live) + Cardinality(Free) - Cardinality(Live \cap Free)
      BY <1>6, <1>7, FS_Union
    <2>2. Cardinality(Live \cap Free) = 0
      BY <1>4, FS_EmptySet
    <2>3. Cardinality(Live) \in Nat
      BY <1>7, FS_CardinalityType
    <2>4. Cardinality(Live \cup Free) = idx.horizon
      BY <1>4, <1>5
    <2> QED
      BY <1>2, <1>6, <2>1, <2>2, <2>3, <2>4
  <1>9. Cardinality({p \in Used : Deref(idx, p) # NotExist}) = Cardinality(Live)
    <2> DEFINE S == {p \in Used : Deref(idx, p) # NotExist}
               g == [id \in Live |-> Where(idx, KeyOf(idx, id))]
    <2>1. \A id \in Live : /\ KeyOf(idx, id) \in Signs /\ id # NotExist
                           /\ Where(idx, KeyOf(idx, id)) \in Used
                           /\ Deref(idx, Where(idx, KeyOf(idx, id))) = id
      BY <1>1, SoundFacts, FoundSound DEF Sound, Shaped
    <2>2. \A p \in S : Deref(idx, p) \in Live /\ Where(idx, KeyOf(idx, Deref(idx, p))) = p
      BY <1>1, OwnPointer
    <2>3. g \in Bijection(Live, S)
      BY <2>1, <2>2 DEF Bijection, Injection, Surjection, IsInjective
    <2>4. ExistsBijection(Live, S)
      BY <2>3 DEF ExistsBijection
    <2> HIDE DEF S
    <2>5. Cardinality(S) = Cardinality(Live)
      BY <1>7, <2>4, FS_Bijection
    <2> QED
      BY <2>5 DEF S
  <1> QED
    BY <1>4, <1>7, <1>8, <1>9

(* Nodes in use and free nodes share out the places below the horizon, and *)
(* the pointers of the trees the nodes in use, whatever was inserted,      *)
(* deleted, saved and loaded, as long as no save was cut short.            *)
THEOREM OldPoolApart == Spec => []PoolApart
  <1>1. SoundInv => PoolApart
    <2> SUFFICES ASSUME SoundInv, Whole
                 PROVE  /\ Live \cup Free = 0 .. idx.horizon - 1
                        /\ Cardinality(Live) + idx.free_count = idx.horizon
                        /\ {Deref(idx, p) : p \in Used} \subseteq Live \cup {NotExist}
                        /\ Cardinality({p \in Used : Deref(idx, p) # NotExist}) = Cardinality(Live)
      BY DEF PoolApart
    <2>1. Sound(idx)
      BY DEF SoundInv, Whole
    <2>2. {Deref(idx, p) : p \in Used} \subseteq Live \cup {NotExist}
      BY <2>1, LiveIsInUse DEF Sound, Shaped, NoDangling
    <2> QED
      BY <2>1, <2>2, SoundCounts
  <1> QED
    BY <1>1, LegacyTypeInit, LegacyTypeStep, OwnInit, OwnStep, SoundInit, SoundStep, PTL DEF Spec

(* A put or a delete leaves what C defines only with the pool or the list  *)
(* of free nodes full: no search and no loop for the nearest node goes     *)
(* astray in trees that were saved whole.  It says nothing of saves and    *)
(* loads, which may leave it every time.                                   *)
THEOREM OldEngineHaltsOnlyFull == Spec => HaltsOnlyFull
  <1>1. LegacyTypeInv /\ SoundInv /\ [Next]_vars =>
          [pc = "up" /\ pc' = "halted" /\ Whole =>
             Cardinality(Live) = PoolSize \/ idx.free_count = FreeRoom]_vars
    <2> SUFFICES ASSUME LegacyTypeInv, SoundInv, Next, pc = "up", pc' = "halted", Whole
                 PROVE  Cardinality(Live) = PoolSize \/ idx.free_count = FreeRoom
      OBVIOUS
    <2>1. Sound(idx)
      BY DEF SoundInv, Whole
    <2>2. PICK s \in Signs : (\E v \in Values : Put(s, v)) \/ Delete(s)
      BY DEF Next, Create, Load, Exit, Write, Opened, Closed, Die, CanOpen,
             SaveOverrun, LoadOverrun, LegacyTypeInv, TodoInv
    <2>3. pc = "up"
      OBVIOUS
    <2>4. Found(idx, s) \in InUse(idx) \cup {NotExist} /\ InUse(idx) \subseteq Ids /\ NotExist \notin Ids
      BY <2>1, FoundSound, SoundFacts, LegacyFacts DEF Sound, Shaped
    <2>5. idx.horizon \in 0 .. PoolSize /\ idx.free_count \in 0 .. FreeRoom /\ PoolSize \in Nat
      BY LegacyFacts DEF LegacyTypeInv, LegacyTypeOK
    <2>6. CASE \E v \in Values : Put(s, v)
      <3>1. FreeNode(idx) \notin Ids
        BY <2>1, <2>3, <2>4, <2>6 DEF Put
      <3>2. idx.free_count = 0 /\ idx.horizon = PoolSize
        <4>1. ASSUME idx.free_count # 0 PROVE FALSE
          <5>1. idx.free_count \in 1 .. idx.free_count /\ FreeNode(idx) = idx.free_pool[idx.free_count]
            BY <2>5, <4>1, LegacyFacts DEF FreeNode
          <5>2. FreeNode(idx) \in 0 .. idx.horizon - 1
            BY <2>1, <5>1 DEF Sound, Shaped, ListOnce
          <5> QED
            BY <2>5, <3>1, <5>2 DEF Ids
        <4>2. FreeNode(idx) = idx.horizon
          BY <4>1 DEF FreeNode
        <4> QED
          BY <2>5, <3>1, <4>1, <4>2 DEF Ids
      <3>3. Cardinality(Live) \in Nat
        BY <2>1, SoundCounts, FS_CardinalityType
      <3> QED
        BY <2>1, <2>5, <3>2, <3>3, SoundCounts
    <2>7. CASE Delete(s)
      <3>1. Found(idx, s) \in InUse(idx) /\ Found(idx, s) \in Ids
        BY <2>4, <2>7 DEF Delete
      <3>2. NearestEnds(idx, Found(idx, s))
        BY <2>1, <3>1, NearestStops DEF NearestEnds, HasTwo
      <3>3. ~(idx.free_count < FreeRoom)
        BY <2>3, <2>7, <3>1, <3>2 DEF Delete
      <3> QED
        BY <2>5, <3>3, LegacyFacts
    <2> QED
      BY <2>2, <2>6, <2>7
  <1> QED
    BY <1>1, LegacyTypeInit, LegacyTypeStep, OwnInit, OwnStep, SoundInit, SoundStep, PTL
    DEF Spec, HaltsOnlyFull

------------------------------------------------------------------------------
(* The cabinet *)

(* The map an index and the items of a data file stand for.                *)
Entry(i, items, s) ==
  LET id == Found(i, s)
      r == IF id \in Ids THEN items[i.node_pool[id].value_offset] ELSE Junk
  IN IF r = Junk THEN Junk ELSE r.value
MapOf(i, items) == [s \in Signs |-> Entry(i, items, s)]

(* The map a kv_open with LOAD brings back is one it may bring back, and   *)
(* that of a save that has begun is among them.                            *)
DurableInv ==
  /\ pc = "exit" /\ Straight /\ MidSync => Stored \in durable
  /\ pc = "create" /\ todo \in {<<"data">>, <<>>} =>
       Straight /\ durable = {[s \in Signs |-> Junk]}
  /\ Straight /\ ~MidSync /\ idx_file.head # Junk => MapOf(FileIndex, data_file.items) \in durable

(* The map users see, by its entries.                                      *)
LEMMA StoredIs ==
  Stored = MapOf(idx, data_file.items) /\ Stored' = MapOf(idx', data_file'.items)
  BY DEF Stored, Lookup, RecordAt, MapOf, Entry

(* Two indexes in which every search finds nodes of the same records.      *)
LEMMA SameEntry ==
  ASSUME NEW i, NEW d, NEW j, NEW e, NEW s, Found(j, s) = Found(i, s),
         Found(i, s) \in Ids =>
           e[j.node_pool[Found(i, s)].value_offset] = d[i.node_pool[Found(i, s)].value_offset]
  PROVE  Entry(j, e, s) = Entry(i, d, s)
  BY DEF Entry

(* An index without nodes stands for the empty map.                        *)
LEMMA EmptyMapIs ==
  ASSUME NEW d
  PROVE  MapOf(NoIndex, d) = [s \in Signs |-> Junk]
  <1>1. \A s \in Signs : Found(NoIndex, s) = NotExist
    BY NoIndexSound, FoundSound
  <1> QED
    BY <1>1, LegacyFacts DEF MapOf, Entry

(* Two data files in which the nodes in use have the same records, and the *)
(* value of an item.                                                       *)
SameRecords(i, d, e) ==
  \A n \in InUse(i) : e[i.node_pool[n].value_offset] = d[i.node_pool[n].value_offset]
ValueAt(e, offset) == IF e[offset] = Junk THEN Junk ELSE e[offset].value

(* A put changes the entry of its sign.                                    *)
LEMMA InsertMap ==
  ASSUME NEW i, Sound(i), NEW s \in Signs, NEW offset \in 1 .. MaxData,
         Found(i, s) = NotExist, FreeNode(i) \in Ids, NEW d, NEW e, SameRecords(i, d, e)
  PROVE  /\ Entry(Inserted(i, s, offset), e, s) = ValueAt(e, offset)
         /\ \A k \in Signs : k # s => Entry(Inserted(i, s, offset), e, k) = Entry(i, d, k)
  <1>1. PICK j : j = Inserted(i, s, offset)
    OBVIOUS
  <1>2. PICK id : id = FreeNode(i)
    OBVIOUS
  <1>3. Sound(j)
    BY <1>1, InsertSound
  <1>4. id \notin InUse(i) /\ InUse(j) = InUse(i) \cup {id} /\ id \in Ids
    BY <1>1, <1>2, FreeIsFree
  <1>5. /\ KeyOf(j, id) = s /\ j.node_pool[id].value_offset = offset
        /\ \A n \in InUse(i) : /\ KeyOf(j, n) = KeyOf(i, n)
                               /\ j.node_pool[n].value_offset = i.node_pool[n].value_offset
    BY <1>1, <1>2, <1>4, InsertIs, SoundFacts DEF Sound, Shaped, KeyOf
  <1>6. Found(j, s) = id
    BY <1>3, <1>4, <1>5, FoundSound
  <1>7. ASSUME NEW k \in Signs, k # s PROVE Entry(j, e, k) = Entry(i, d, k)
    <2>1. CASE Found(i, k) \in InUse(i)
      <3>1. PICK n \in InUse(i) : n = Found(i, k)
        BY <2>1
      <3>2. KeyOf(i, n) = k
        BY <3>1, FoundSound
      <3>3. Found(j, k) = n
        BY <1>3, <1>4, <1>5, <3>2, FoundSound
      <3> QED
        BY <1>5, <3>1, <3>3 DEF Entry, SameRecords
    <2>2. CASE Found(i, k) = NotExist
      <3>1. \A n \in InUse(i) : KeyOf(i, n) # k
        BY <2>2, FoundSound
      <3>2. Found(j, k) = NotExist
        BY <1>3, <1>4, <1>5, <1>7, <3>1, FoundSound
      <3> QED
        BY <2>2, <3>2, LegacyFacts, SameEntry
    <2> QED
      BY <2>1, <2>2, FoundSound
  <1>8. Entry(j, e, s) = ValueAt(e, offset)
    BY <1>4, <1>5, <1>6 DEF Entry, ValueAt
  <1> QED
    BY <1>1, <1>7, <1>8

(* A delete takes the entry of its sign out.                               *)
LEMMA DeleteMap ==
  ASSUME NEW i, Sound(i), NEW s \in Signs, Found(i, s) \in Ids, i.free_count < FreeRoom, NEW d
  PROVE  MapOf(Deleted(i, s), d) = [MapOf(i, d) EXCEPT ![s] = Junk]
  <1>1. PICK j : j = Deleted(i, s)
    OBVIOUS
  <1>2. PICK id : id = Found(i, s)
    OBVIOUS
  <1>3. Sound(j)
    BY <1>1, DeleteSound
  <1>4. /\ id \in InUse(i) /\ KeyOf(i, id) = s /\ InUse(j) = InUse(i) \ {id}
        /\ \A n \in InUse(i) : KeyOf(j, n) = KeyOf(i, n)
    BY <1>1, <1>2, DeleteFrees
  <1>5. \A n \in InUse(i) : j.node_pool[n].value_offset = i.node_pool[n].value_offset
    BY <1>1, DeleteIs, SoundFacts DEF Sound, Shaped, SameNodes
  <1>6. Found(j, s) = NotExist
    <2>1. \A n \in InUse(i) : KeyOf(i, n) = s => n = id
      BY <1>2, FoundSound
    <2> QED
      BY <1>3, <1>4, <2>1, FoundSound
  <1>7. ASSUME NEW k \in Signs, k # s PROVE Entry(j, d, k) = Entry(i, d, k)
    <2>1. CASE Found(i, k) \in InUse(i)
      <3>1. PICK n \in InUse(i) : n = Found(i, k)
        BY <2>1
      <3>2. KeyOf(i, n) = k /\ n # id
        BY <1>4, <1>7, <3>1, FoundSound
      <3>3. Found(j, k) = n
        BY <1>3, <1>4, <3>2, FoundSound
      <3> QED
        BY <1>5, <3>1, <3>3 DEF Entry
    <2>2. CASE Found(i, k) = NotExist
      <3>1. \A n \in InUse(i) : KeyOf(i, n) # k
        BY <2>2, FoundSound
      <3>2. Found(j, k) = NotExist
        BY <1>3, <1>4, <3>1, FoundSound
      <3> QED
        BY <2>2, <3>2, LegacyFacts, SameEntry
    <2> QED
      BY <2>1, <2>2, FoundSound
  <1>8. Entry(j, d, s) = Junk
    BY <1>6, LegacyFacts DEF Entry
  <1> QED
    BY <1>1, <1>7, <1>8 DEF MapOf

(* The beginning: no cabinet is open and none was saved.                   *)
LEMMA DurableInit == Init => DurableInv /\ Promised!Init
  BY DEF Init, DurableInv, Promised!Init, Whole, MidSync

(* A step that leaves the records the file's index names leaves its map.   *)
LEMMA FileMapStays ==
  ASSUME LegacyTypeInv, OwnInv, UNCHANGED idx_file, ~behind, pc # "halted",
         \A n \in 1 .. MaxData : Written(idx_file.node_pool) # {} /\ n < EndOfData =>
            data_file'.items[n] = data_file.items[n],
         Sound(FileIndex)
  PROVE  MapOf(FileIndex', data_file'.items) = MapOf(FileIndex, data_file.items)
  <1>1. FileIndex' = FileIndex /\ FileIndex.node_pool = idx_file.node_pool
    BY DEF FileIndex
  <1>2. ASSUME NEW s \in Signs
        PROVE  Entry(FileIndex, data_file'.items, s) = Entry(FileIndex, data_file.items, s)
    <2>1. CASE Found(FileIndex, s) \in Ids
      <3>1. PICK id : id = Found(FileIndex, s)
        OBVIOUS
      <3>2. id \in Written(idx_file.node_pool)
        BY <1>1, <2>1, <3>1, FoundIs DEF Sound, Shaped
      <3>3. idx_file.node_pool[id].value_offset \in 1 .. MaxData
        BY <3>2, OffsetsTyped
      <3>4. idx_file.node_pool[id].value_offset < EndOfData
        BY <3>2 DEF OwnInv, OwnBelow, HasOwn
      <3>5. data_file'.items[idx_file.node_pool[id].value_offset]
              = data_file.items[idx_file.node_pool[id].value_offset]
        BY <3>2, <3>3, <3>4
      <3> QED
        BY <1>1, <3>1, <3>5 DEF Entry
    <2>2. CASE Found(FileIndex, s) \notin Ids
      BY <2>2 DEF Entry
    <2> QED
      BY <2>1, <2>2
  <1> QED
    BY <1>1, <1>2 DEF MapOf

(* Between two saves, such a step keeps what may come back.                *)
LEMMA DurableStays ==
  ASSUME LegacyTypeInv, OwnInv, SoundInv, DurableInv, UNCHANGED <<idx_file, durable>>,
         \A n \in 1 .. MaxData : Written(idx_file.node_pool) # {} /\ n < EndOfData =>
            data_file'.items[n] = data_file.items[n],
         ~MidSync, ~MidSync', Straight' => Straight, pc # "halted"
  PROVE  /\ (pc = "exit" /\ Straight /\ MidSync => Stored \in durable)'
         /\ (Straight /\ ~MidSync /\ idx_file.head # Junk =>
               MapOf(FileIndex, data_file.items) \in durable)'
  BY FileMapStays DEF SoundInv, DurableInv, Straight

(* One write of a save: the index file gets the map of the index.          *)
LEMMA WriteDurable ==
  ASSUME LegacyTypeInv, OwnInv, SoundInv, SoundInv', DurableInv, Write
  PROVE  DurableInv' /\ (Promised!Next \/ UNCHANGED Promised!vars)
  <1>1. /\ pc # "halted" /\ todo # <<>> /\ todo' = Tail(todo) /\ UNCHANGED <<pc, idx>>
        /\ IF Head(todo) = "data" THEN DataSync /\ UNCHANGED idx_file
                                  ELSE IndexSync(Head(todo)) /\ UNCHANGED data_file
        /\ Straight' <=> Straight \/ (pc = "create" /\ Head(todo) = "free")
        /\ durable' = Durable(Head(todo))
    BY DEF Write, Blank, Straight
  <1>2. pc \in {"create", "exit"} /\ Head(todo) \in {"head", "pool", "heads", "free", "data"}
    BY <1>1, WriteOrder
  <1>3. data_file'.items = data_file.items
    BY <1>1 DEF DataSync, LegacyTypeInv, DataFile
  <1>4. Stored' = Stored /\ Stored # Junk
    <2>1. Stored' = MapOf(idx', data_file'.items) /\ Stored = MapOf(idx, data_file.items)
      BY StoredIs
    <2> QED
      BY <1>1, <1>3, <2>1, MapTyped, LegacyAssumption
  <1>5. pc = "create" => idx = NoIndex /\ Stored = [s \in Signs |-> Junk]
    BY StoredIs, EmptyMapIs DEF OwnInv
  <1>6. pc = "create" => ~Whole /\ ~Whole'
    BY <1>1 DEF Whole
  <1>7. pc = "exit" => /\ Straight' <=> Straight
                       /\ (Whole /\ Straight) <=> Straight
                       /\ (Whole /\ Straight)' <=> Straight
    BY <1>1 DEF Whole, Straight
  <1>13. Head(<<"data">>) = "data"
    OBVIOUS
  <1>8. CASE Head(todo) = "data"
    <2>1. ~MidSync /\ ~MidSync' /\ (Straight' => Straight) /\ durable' = durable /\ UNCHANGED idx_file
      BY <1>1, <1>8, WriteOrder DEF MidSync, Durable
    <2>2. pc = "create" => todo = <<"data">> /\ (Straight' <=> Straight)
      <3>1. ASSUME pc = "create" PROVE todo = <<"data">>
        <4>1. todo \in CreateLeft
          BY <3>1 DEF LegacyTypeInv, TodoInv
        <4> QED
          BY <1>1, <1>8, <4>1 DEF CreateLeft
      <3> QED
        BY <1>1, <1>8, <3>1
    <2>3. DurableInv'
      BY <1>1, <1>3, <2>1, <2>2, DurableStays DEF DurableInv
    <2> QED
      BY <1>2, <1>4, <1>6, <1>7, <2>1, <2>3 DEF Promised!vars
  <1>9. CASE Head(todo) = "head"
    <2>1. MidSync' /\ todo' # <<"data">> /\ todo' # <<>>
      <3>1. todo' # <<>> /\ Head(todo') = "pool"
        BY <1>1, <1>9, WriteOrder
      <3> QED
        BY <1>13, <3>1 DEF MidSync
    <2>2. CASE pc = "exit" /\ Straight
      <3>1. durable' = durable \cup {Stored}
        BY <1>1, <1>9, <2>2 DEF Durable
      <3>2. DurableInv'
        BY <1>1, <1>4, <2>1, <2>2, <3>1 DEF DurableInv
      <3> QED
        BY <1>4, <1>7, <2>2, <3>1, <3>2 DEF Promised!Next, Promised!SolidBegins
    <2>3. CASE ~(pc = "exit" /\ Straight)
      <3>1. durable' = durable
        BY <1>1, <1>9, <2>3 DEF Durable
      <3>2. DurableInv'
        BY <1>1, <1>2, <1>7, <2>1, <2>3 DEF DurableInv
      <3> QED
        BY <1>2, <1>4, <1>6, <1>7, <3>1, <3>2 DEF Promised!vars
    <2> QED
      BY <2>2, <2>3
  <1>10. CASE Head(todo) \in {"pool", "heads"}
    <2>1. MidSync /\ MidSync' /\ todo' # <<"data">> /\ todo' # <<>>
      <3>1. todo' # <<>> /\ Head(todo') \in {"heads", "free"}
        BY <1>1, <1>10, WriteOrder
      <3> QED
        BY <1>1, <1>10, <1>13, <3>1 DEF MidSync
    <2>2. durable' = durable
      BY <1>1, <1>10 DEF Durable
    <2>3. DurableInv'
      BY <1>1, <1>2, <1>4, <1>7, <2>1, <2>2 DEF DurableInv
    <2> QED
      BY <1>2, <1>4, <1>6, <1>7, <2>2, <2>3 DEF Promised!vars
  <1>11. CASE Head(todo) = "free"
    <2>1. MidSync /\ ~MidSync'
      BY <1>1, <1>11, WriteOrder DEF MidSync
    <2>2. MapOf(FileIndex', data_file'.items) = Stored
      <3>1. /\ idx_file'.head = IndexHead /\ idx_file'.node_pool = idx.node_pool
            /\ idx_file'.hash_head = idx.hash_head /\ idx_file'.free_pool = idx.free_pool
            /\ idx_file' \in IndexFile /\ idx \in IndexRecord
        <4>1. idx_file \in IndexFile /\ idx_file' \in IndexFile /\ idx \in IndexRecord
          BY SaveTyped DEF LegacyTypeInv
        <4> QED
          BY <1>1, <1>11, <2>1, <4>1 DEF IndexSync, IndexFile, SoundInv, SavedInv
      <3>2. FileIndex' \in IndexRecord /\ FileIndex'.hash_head = idx.hash_head
            /\ FileIndex'.node_pool = idx.node_pool /\ SameList(idx, FileIndex')
        BY <3>1 DEF FileIndex, IndexHead, SameList, IndexRecord
      <3>3. PICK j : j = FileIndex'
        OBVIOUS
      <3>4. \A s \in Signs : Found(j, s) = Found(idx, s)
        BY <3>2, <3>3, SameTrees
      <3>5. \A s \in Signs : Entry(j, data_file.items, s) = Entry(idx, data_file.items, s)
        BY <3>2, <3>3, <3>4 DEF Entry
      <3> QED
        BY <1>3, <3>3, <3>5, StoredIs DEF MapOf
    <2>3. CASE pc = "exit" /\ ~Straight
      <3>1. durable' = durable /\ ~Straight'
        BY <1>1, <1>11, <2>3 DEF Durable
      <3>2. DurableInv'
        BY <1>1, <2>1, <2>3, <3>1 DEF DurableInv
      <3> QED
        BY <1>7, <2>3, <3>1, <3>2 DEF Promised!vars
    <2>4. CASE pc = "exit" /\ Straight
      <3>1. durable' = {Stored} /\ Straight' /\ Stored \in durable
        BY <1>1, <1>11, <2>1, <2>4 DEF Durable, DurableInv
      <3>2. DurableInv'
        BY <1>1, <2>1, <2>2, <2>4, <3>1 DEF DurableInv
      <3> QED
        BY <1>4, <1>7, <2>4, <3>1, <3>2 DEF Promised!Next, Promised!SolidEnds
    <2>5. CASE pc = "create"
      <3>1. durable' = {Stored} /\ Straight'
        BY <1>1, <1>11, <2>5 DEF Durable
      <3>2. DurableInv'
        BY <1>1, <1>5, <2>1, <2>2, <2>5, <3>1 DEF DurableInv
      <3> QED
        BY <1>5, <1>6, <2>5, <3>1, <3>2 DEF Promised!Next, Promised!CreateBegins, Promised!EmptyMap
    <2> QED
      BY <1>2, <2>3, <2>4, <2>5
  <1> QED
    BY <1>2, <1>8, <1>9, <1>10, <1>11

(* kv_put and kv_delete change one key of the map.                         *)
LEMMA CallsDurable ==
  ASSUME LegacyTypeInv, OwnInv, SoundInv, DurableInv,
         NEW s \in Signs, (\E v \in Values : Put(s, v)) \/ Delete(s), ~Halt
  PROVE  DurableInv' /\ (Promised!Next \/ UNCHANGED Promised!vars)
  <1>1. pc = "up" /\ todo = <<>> /\ UNCHANGED <<pc, idx_file, todo, cut, behind, durable>>
    BY DEF Put, Delete, LegacyTypeInv, TodoInv, files, history
  <1>2. /\ ~MidSync /\ ~MidSync' /\ (Straight' <=> Straight)
        /\ (Whole /\ Straight) <=> Straight
        /\ (Whole /\ Straight)' <=> Straight
    BY <1>1 DEF MidSync, Whole, Straight
  <1>3. /\ data_file \in DataFile /\ append \in 1 .. MaxData + 1
        /\ data_file.head # Junk /\ data_file.head <= append /\ data_file.head \in Int
    BY <1>1, OffsetsTyped DEF LegacyTypeInv, LegacyTypeOK, OwnInv
  <1>4. \A n \in 1 .. MaxData : n < append => data_file'.items[n] = data_file.items[n]
    <2>1. CASE \E v \in Values : Put(s, v)
      <3>1. PICK v \in Values : DataInsert(s, v)
        BY <2>1 DEF Put
      <3>2. data_file.items \in [1 .. MaxData -> Record \cup {Junk}]
        BY <1>3 DEF DataFile
      <3>3. data_file'.items = [data_file.items EXCEPT ![append] = [sign |-> s, value |-> v]]
        BY <1>3, <3>1 DEF DataInsert, DataFile
      <3> QED
        BY <1>3, <3>2, <3>3
    <2>2. CASE Delete(s)
      BY <2>2 DEF Delete, files
    <2> QED
      BY <2>1, <2>2
  <1>5. DurableInv'
    <2>1. \A n \in 1 .. MaxData : n < EndOfData => n < append
      BY <1>1, <1>3 DEF EndOfData
    <2> QED
      BY <1>1, <1>2, <1>4, <2>1, DurableStays DEF DurableInv
  <1>6. Stored \in [Signs -> Values \cup {Junk}] /\ Stored # Junk
    BY MapTyped, LegacyAssumption
  <1>7. ASSUME Straight
        PROVE  \E v \in Values \cup {Junk} : Stored' = [Stored EXCEPT ![s] = v]
    <2>0. Sound(idx) /\ ~behind
      BY <1>1, <1>7 DEF SoundInv, Straight
    <2>1. CASE \E v \in Values : Put(s, v)
      <3>1. PICK v \in Values : Put(s, v)
        BY <2>1
      <3>2. /\ Found(idx, s) = NotExist /\ FreeNode(idx) \in Ids /\ append <= MaxData
            /\ idx' = Inserted(idx, s, append) /\ DataInsert(s, v)
        BY <3>1 DEF Put
      <3>3. append \in 1 .. MaxData
        BY <1>3, <3>2, LegacyFacts
      <3>4. data_file'.items[append].value = v
        BY <1>3, <3>2, <3>3 DEF DataInsert, DataFile
      <3>5. \A n \in InUse(idx) :
              data_file'.items[idx.node_pool[n].value_offset]
                = data_file.items[idx.node_pool[n].value_offset]
        BY <1>4, <2>0, SoundFacts, OffsetsTyped DEF Sound, Shaped, OwnInv, OwnBelow, HasOwn
      <3>6. PICK i, offset, d, e : /\ i = idx /\ offset = append
                                   /\ d = data_file.items /\ e = data_file'.items
        OBVIOUS
      <3>7. Sound(i) /\ offset \in 1 .. MaxData /\ Found(i, s) = NotExist /\ FreeNode(i) \in Ids
        BY <2>0, <3>2, <3>3, <3>6
      <3>8. SameRecords(i, d, e)
        BY <3>5, <3>6 DEF SameRecords
      <3>9. /\ Entry(Inserted(i, s, offset), e, s) = ValueAt(e, offset)
            /\ \A k \in Signs : k # s => Entry(Inserted(i, s, offset), e, k) = Entry(i, d, k)
        BY <3>7, <3>8, InsertMap
      <3>10. ValueAt(e, offset) \in Values \cup {Junk}
        BY <3>4, <3>6 DEF ValueAt
      <3>11. Stored' = [Stored EXCEPT ![s] = ValueAt(e, offset)]
        BY <3>2, <3>6, <3>9, StoredIs DEF MapOf
      <3> QED
        BY <3>10, <3>11
    <2>2. CASE Delete(s)
      <3>1. Found(idx, s) \in Ids /\ idx.free_count < FreeRoom /\ idx' = Deleted(idx, s)
            /\ data_file' = data_file
        BY <2>2 DEF Delete, files
      <3> QED
        BY <2>0, <3>1, DeleteMap, StoredIs
    <2> QED
      BY <2>1, <2>2
  <1>8. CASE ~Straight
    BY <1>1, <1>2, <1>5, <1>8 DEF Promised!vars
  <1>9. CASE Straight
    BY <1>1, <1>2, <1>5, <1>6, <1>7, <1>9 DEF Promised!Next, Promised!Change
  <1> QED
    BY <1>8, <1>9

(* Every step of the old engine is a step of the cabinet or does not show. *)
LEMMA DurableStep ==
  ASSUME LegacyTypeInv, OwnInv, SoundInv, SoundInv', DurableInv, [Next]_vars
  PROVE  DurableInv' /\ (Promised!Next \/ UNCHANGED Promised!vars)
  <1>0. pc \in {"down", "up"} => ~MidSync
    BY DEF LegacyTypeInv, TodoInv, MidSync
  <1>s. ASSUME data_file' = data_file, idx' = idx PROVE Stored' = Stored
    BY <1>s, StoredIs
  <1>1. CASE Create
    <2>1. pc = "down" /\ pc' = "create" /\ UNCHANGED <<idx_file, data_file, durable, cut, behind>>
      BY <1>1 DEF Create, CanOpen, files, history
    <2>2. todo' = <<"head", "pool", "heads", "free", "data">>
      BY <1>1, TodoMoves DEF Create
    <2>3. Head(todo') = "head" /\ Head(<<"data">>) = "data" /\ todo' # <<>>
      BY <2>2
    <2>4. ~MidSync' /\ todo' # <<"data">>
      BY <2>3 DEF MidSync
    <2>5. DurableInv'
      BY <1>0, <2>1, <2>3, <2>4, DurableStays DEF DurableInv, Straight
    <2> QED
      BY <2>1, <2>5 DEF Promised!vars, Whole
  <1>2. CASE Load
    <2>1. /\ pc = "down" /\ pc' = "up" /\ idx_file.head # Junk /\ idx' = FileIndex
          /\ UNCHANGED <<idx_file, data_file, durable, cut, behind, todo>>
      BY <1>2 DEF Load, CanOpen, files, history, FileIndex
    <2>2. ~MidSync /\ ~MidSync'
      BY <1>0, <2>1 DEF MidSync
    <2>3. DurableInv'
      BY <2>1, <2>2, DurableStays DEF DurableInv, Straight
    <2>4. Straight => Stored' \in durable
      BY <2>1, <2>2, StoredIs DEF DurableInv
    <2>5. ~Whole /\ ((Whole /\ Straight)' <=> Straight)
      BY <2>1 DEF Whole, Straight
    <2> QED
      BY <2>1, <2>3, <2>4, <2>5 DEF Promised!Next, Promised!Open, Promised!vars
  <1>3. CASE Exit
    <2>1. pc = "up" /\ pc' = "exit" /\ UNCHANGED <<idx, idx_file, data_file, durable, cut, behind>>
      BY <1>3 DEF Exit, files, history
    <2>2. ~MidSync'
      BY <1>3, ExitBegins
    <2>3. DurableInv'
      BY <1>0, <2>1, <2>2, DurableStays DEF DurableInv, Straight
    <2> QED
      BY <1>s, <2>1, <2>3 DEF Promised!vars, Whole, Straight
  <1>4. CASE Write
    BY <1>4, WriteDurable
  <1>5. CASE Opened
    <2>1. /\ pc = "create" /\ pc' = "up" /\ todo = <<>> /\ idx = NoIndex
          /\ UNCHANGED <<idx, idx_file, data_file, durable, cut, behind, todo>>
      BY <1>5 DEF Opened, OwnInv, files, history
    <2>2. ~MidSync /\ ~MidSync'
      BY <2>1 DEF MidSync
    <2>3. DurableInv'
      BY <2>1, <2>2, DurableStays DEF DurableInv, Straight
    <2>4. Stored' \in durable /\ Straight /\ Straight'
      BY <2>1, StoredIs, EmptyMapIs DEF DurableInv, Straight
    <2>5. Whole' /\ ~Whole
      BY <2>1, <2>4 DEF Whole, Straight
    <2> QED
      BY <2>1, <2>3, <2>4, <2>5 DEF Promised!Next, Promised!Open
  <1>6. CASE Closed
    <2>1. /\ pc = "exit" /\ pc' = "down" /\ todo = <<>>
          /\ UNCHANGED <<idx_file, data_file, durable, cut, behind, todo>>
      BY <1>6 DEF Closed, files, history
    <2>2. ~MidSync /\ ~MidSync'
      BY <2>1 DEF MidSync
    <2>3. DurableInv'
      BY <2>1, <2>2, DurableStays DEF DurableInv, Straight
    <2> QED
      BY <2>1, <2>3 DEF Promised!Next, Promised!Stop, Whole
  <1>7. CASE Die
    <2>1. /\ pc' = "down" /\ todo' = <<>> /\ UNCHANGED <<idx_file, data_file, durable>>
          /\ cut' = (cut \/ MidSync) /\ behind' = (behind \/ Ahead)
      BY <1>7 DEF Die, files
    <2>2. ~MidSync' /\ (Straight' => Straight /\ ~MidSync)
      BY <2>1 DEF MidSync, Straight
    <2>3. FileIndex' = FileIndex
      BY <2>1 DEF FileIndex
    <2>4. DurableInv'
      BY <2>1, <2>2, <2>3 DEF DurableInv
    <2> QED
      BY <2>1, <2>4 DEF Promised!Next, Promised!Stop, Whole
  <1>h. CASE Halt
    <2>1. /\ pc' = "halted"
          /\ UNCHANGED <<idx_file, data_file, durable, cut, behind, todo>>
      BY <1>h DEF Halt, files, history
    <2>2. DurableInv'
      BY <2>1 DEF DurableInv, MidSync, FileIndex, Straight
    <2> QED
      BY <2>1, <2>2 DEF Promised!Next, Promised!Stop, Whole
  <1>8. ASSUME NEW s \in Signs, (\E v \in Values : Put(s, v)) \/ Delete(s)
        PROVE  DurableInv' /\ (Promised!Next \/ UNCHANGED Promised!vars)
    BY <1>h, <1>8, CallsDurable
  <1>9. CASE SaveOverrun \/ LoadOverrun
    BY <1>h, <1>9 DEF SaveOverrun, LoadOverrun
  <1>10. CASE UNCHANGED vars
    <2>1. UNCHANGED <<pc, idx, idx_file, data_file, todo, durable, cut, behind>>
      BY <1>10 DEF vars, files, history
    <2>2. Stored' = Stored
      BY <1>s, <2>1
    <2>3. DurableInv'
      BY <2>1, <2>2 DEF DurableInv, MidSync, FileIndex, Straight
    <2> QED
      BY <2>1, <2>2, <2>3 DEF Promised!vars, Whole, Straight
  <1> QED
    BY <1>1, <1>2, <1>3, <1>4, <1>5, <1>6, <1>7, <1>8, <1>9, <1>10 DEF Next

(* While the process dies neither in a save of the index nor with the      *)
(* index ahead of the data file, the old engine is a cabinet: a put or a   *)
(* delete, the one that moves the nearest node included, changes the value *)
(* of one key, and a load brings back what the last exits saved, whole.    *)
THEOREM OldEngineIsCabinet == Spec => IsCabinet
  <1>1. LegacyTypeInv /\ OwnInv /\ SoundInv /\ SoundInv' /\ DurableInv /\ [Next]_vars =>
          DurableInv' /\ [Promised!Next]_(Promised!vars)
    BY DurableStep
  <1> QED
    BY <1>1, LegacyTypeInit, LegacyTypeStep, OwnInit, OwnStep, SoundInit, SoundStep, DurableInit, PTL
    DEF Spec, IsCabinet, Promised!Spec
=============================================================================
