---------------------------- MODULE LegacyProps ----------------------------
(***************************************************************************)
(* What makes the older engine correct: nodes in use and free nodes stay   *)
(* apart, a saved cabinet comes back, and what was saved badly still never *)
(* shows one key the record of another.                                    *)
(***************************************************************************)
EXTENDS Legacy, FiniteSets

(* Every variable of the engine and its files holds a value the program    *)
(* can put there.                                                          *)
LegacyTypeOK ==
  /\ pc \in {"down", "create", "up", "exit", "halted"}
  /\ idx.node_pool \in [Ids -> Node \cup {Junk}]
  /\ idx.hash_head \in [Heads -> Ids \cup {NotExist, Junk}]
  /\ idx.horizon \in 0 .. PoolSize /\ idx.free_count \in 0 .. FreeRoom
  /\ idx.free_pool \in [1 .. FreeRoom -> Ids \cup {Junk}]
  /\ append \in 1 .. MaxData + 1
  /\ idx_file.node_pool \in [Ids -> Node \cup {Junk}]
  /\ data_file.items \in [1 .. MaxData -> Record \cup {Junk}]
  /\ data_file.head \in (1 .. MaxData + 1) \cup {Junk}
  /\ durable \subseteq [Signs -> Values \cup {Junk}]
  /\ cut \in BOOLEAN /\ behind \in BOOLEAN

Live == {Found(idx, s) : s \in Signs} \cap Ids
Free == {idx.free_pool[e] : e \in 1 .. idx.free_count}
Used == {p \in Pointers : p.at = "head" \/ p.of \in Live}
Whole == pc \in {"up", "exit"} /\ ~cut

(* A position below the horizon is a node some search finds or is on the   *)
(* list of free ones, never both and never twice, and no two pointers lead *)
(* to one node, over any sequence of inserts, deletes (the one that moves  *)
(* the nearest node included), saves and loads (index.c:267-342).          *)
PoolApart ==
  Whole =>
    /\ Live \cup Free = 0 .. idx.horizon - 1
    /\ Cardinality(Live) + idx.free_count = idx.horizon
    /\ {Deref(idx, p) : p \in Used} \subseteq Live \cup {NotExist}
    /\ Cardinality({p \in Used : Deref(idx, p) # NotExist}) = Cardinality(Live)

(* What kv_get returns for a key is a record of that key, or nothing,      *)
(* whatever idx_syncs the process died in and whatever mixture of old and  *)
(* new nodes, heads and free ones a load then brings back (index.c:38-44), *)
(* although kv_get compares no key (kvs_api.c:119-127).  The case it       *)
(* leaves out is a process that died with the new index on the disk and    *)
(* the new end of the data file not: then puts write over what is named.   *)
ShowsOwn ==
  pc = "up" /\ ~behind => \A s \in Signs : Lookup(s) # Junk => Lookup(s).sign = s

Promised == INSTANCE Cabinet WITH
  Keys <- Signs, NoValue <- Junk, Down <- Junk,
  mem <- IF Whole /\ Straight THEN Stored ELSE Junk, disk <- durable

(* While the process has died neither in an idx_sync nor with the index    *)
(* ahead of the data file, the engine is a cabinet: a put or a delete      *)
(* changes one key, and a load brings back what the last exits saved, in   *)
(* whichever order they were called (index.c:27-48, 118-157, 182-207).     *)
IsCabinet == Promised!Spec

(* The walks of put and delete stay in the arrays: with an index that was  *)
(* saved whole such a call leaves what C defines only where it puts with   *)
(* every node of the pool in use, or deletes with no room for another free *)
(* node (index.c:364-369, 377: "some check").  Saves and loads, which move *)
(* 8 MB over the list of free nodes, may leave it every time.              *)
HaltsOnlyFull ==
  [][pc = "up" /\ pc' = "halted" /\ Whole =>
       \/ Cardinality(Live) = PoolSize
       \/ idx.free_count = FreeRoom]_vars
=============================================================================
