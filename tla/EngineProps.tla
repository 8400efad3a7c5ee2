----------------------------- MODULE EngineProps -----------------------------
(***************************************************************************)
(* What makes the engine correct: the index and the data file agree, and   *)
(* the cabinet on disk is the one of the last Solid.                       *)
(***************************************************************************)
EXTENDS Engine

Busy == {"create", "open", "put", "delete", "solid index", "solid slots",
         "solid slots horizon", "solid horizon", "solid end"}

(* Every variable of the engine, of its index and of its files holds a     *)
(* value the program can put there.                                        *)
EngineTypeOK ==
  /\ TypeOK
  /\ engine \in Busy \cup {"down", "ready"}
  /\ arg \in [key : Keys, value : Values] \cup {Hole}
  /\ last_offset \in 0 .. MaxData
  /\ data \in Seq([key : Keys, value : Values] \cup {Hole}) /\ Len(data) <= MaxData
  /\ meta.item \in [Positions -> Node]
  /\ meta.horizon \in 0 .. NumItems /\ meta.slots \in Seq(Positions)
  /\ files \subseteq MetaItems \cup {"data"}
  /\ durable \subseteq [Keys -> Values \cup {NoValue}]
  /\ astray \subseteq {"index", "files"}

(* What follows is said of an index whose entries are those of the         *)
(* records.  It is not once an Open has met an entry for a place where the *)
(* data file has ended, until files are created anew (or, in Arrange,      *)
(* after an Arrange that gave up in the middle).  Run EngineAhead shows    *)
(* what the code does then.                                                *)
Straight == astray = {}

Running == engine \notin {"down", "create", "open"}
Promised == INSTANCE Cabinet WITH
  Down <- NoValue, mem <- IF Running /\ Straight THEN Stored ELSE NoValue, disk <- durable

(* The engine is a cabinet: Put and Delete change one key, Solid, refused  *)
(* Puts and failed writes change no other, and an Open after the process   *)
(* died anywhere, or after a Solid that failed in the middle, brings back  *)
(* the map of the last Solid or of one that was cut short (engine.cc:50-   *)
(* 133).  An engine that is not straight counts as being down.             *)
IsCabinet == Promised!Spec

(* Between calls every key the index has is the key of the record at its   *)
(* place: no Put lands on another's record, also after the process died    *)
(* and last_offset_ was taken from the file again (engine.cc:76-84).       *)
RecordMatches ==
  engine = "ready" /\ Straight => \A k \in Keys : PlaceOf(k) # NoPlace => Lookup(k).key = k

(* When writes fail a key may have nothing at its place, but never the     *)
(* record of another key, although SetUse counts failed writes too and     *)
(* later writes leave gaps (space.cc:59-60), and although an Open counts   *)
(* from the end of the file again (space.cc:13).                           *)
HoleOrOwn ==
  engine = "ready" /\ Straight => \A k \in Keys : Lookup(k).key \in {k, OffsetFeb31}

(* The comments at Solid (engine.cc:107-108, 123-125): the data file is    *)
(* the newest one and needs no Solid, and the consistency of the three     *)
(* files is checked at open; so no key is ever shown another key's record. *)
OwnAfterOpen ==
  engine = "ready" => \A k \in Keys : Lookup(k).key \in {k, OffsetFeb31}

(* No two keys share a place, and no key has a place that the next Put     *)
(* will use, whatever failed (engine.cc:78-83).                            *)
NoOverlap ==
  engine = "ready" /\ Straight =>
    \A k \in Keys : PlaceOf(k) # NoPlace =>
      /\ PlaceOf(k) < last_offset
      /\ \A l \in Keys \ {k} : PlaceOf(l) # PlaceOf(k)

(* A Solid that ends well has saved the index whole.  Create says Ok even  *)
(* when an item of the meta file could not be written (configure.cc:141    *)
(* drops all statuses but the last), and that item is missing from then    *)
(* on: no later Solid may report Ok without it (configure.cc:253-264).     *)
SolidTold ==
  [][SolidEnd =>
       /\ MetaItems \subseteq files
       /\ meta = [item |-> item, horizon |-> item_horizon, slots |-> free_slots]]_all


(* The comment at Solid (engine.cc:123-125): the consistency of the three  *)
(* files is checked at open, so an index that Open accepts is one the      *)
(* index code could have built.                                            *)
OpenChecks == [][OpenEnd => PoolSafe]_all

(* What a Solid that ended has written is what Open brings back, deletes   *)
(* included (test_db_create.cc deletes keys before Solid, test_db_load.cc  *)
(* gets the others after Open).                                            *)
OpenRestores ==
  [][\A m \in durable : OpenEnd /\ durable = {m} => Stored' = m]_all
=============================================================================
