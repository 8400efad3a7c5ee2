------------------------------- MODULE Engine -------------------------------
(***************************************************************************)
(* HashEngine (src/kvs/src/engine/engine.cc) with its files: CONFIGURE     *)
(* keeps the index in the meta file and SPACE appends the values to the    *)
(* data file.  The engine calls INDEX, here the steps of module Index, and *)
(* touches a file only when the index has answered.                        *)
(*                                                                         *)
(* A write(2) reaches the file at once and outlives the process; what is   *)
(* in memory does not.  The process may die between any two writes.        *)
(* Records have unit length, so that an offset is a position in the data   *)
(* file.  Get changes nothing: what it reads is an operator (Lookup).      *)
(***************************************************************************)
EXTENDS IndexProps

CONSTANTS
  Values, NoValue, \* values of the clients; none
  MaxData,         \* bound: records the data file may hold
  Crashes,         \* when the process may stop: between calls or anywhere
  Fails,           \* TRUE: a write may fail (IOError)
  Losses           \* sets of items that Create may leave out of the file

(* The items of the meta file that change, in the order Solid writes them: *)
(* index, index_free_slot, index_free_slot_horizon, index_horizon.         *)
MetaItems == {"index", "slots", "slots horizon", "horizon"}

ASSUME EngineAssumption ==
  /\ MaxData \in Nat /\ Places = 0 .. MaxData - 1
  /\ NoValue \notin Values
  /\ NoValue \notin [Keys -> Values \cup {NoValue}]
  /\ Crashes \in {"idle", "any"} /\ Fails \in BOOLEAN
  /\ Losses \subseteq SUBSET MetaItems
  /\ ~Fails => Losses = {{}}

VARIABLES
  engine,       \* what the engine is doing; "down" while there is none
  arg,          \* the record Put was called with
  last_offset,  \* last_offset_ of SPACE
  data,         \* the data file: its records, in order
  meta,         \* the meta file: index, index_horizon, and as many elements
                \* of index_free_slot as index_free_slot_horizon says
  files,        \* the items of the meta file that are in it, and "data", the
                \* header of the data file
  durable,      \* maps a Solid has written or begun to write (history)
  astray        \* which of "index" and "files" has entries that are not those
                \* of the data file's records (history)

memory  == <<engine, arg, last_offset>>
disk    == <<data, meta, files>>
history == <<durable, astray>>
all     == <<vars, memory, disk, history>>

------------------------------------------------------------------------------
(* The map of keys to values *)

Record(k, v) == [key |-> k, value |-> v]
Hole == Record(OffsetFeb31, NoValue)   \* bytes nobody wrote, or no record

(* SPACE::Read finds the end of the file or whatever record is there.      *)
RecordAt(off) == IF off >= Len(data) THEN Hole ELSE data[off + 1]

(* Get: the index's place is read; the key is not looked at again.         *)
Lookup(k) == IF PlaceOf(k) = NoPlace THEN Hole ELSE RecordAt(PlaceOf(k))

(* The map, in which a Put counts from the moment the index has its entry. *)
Pending(k) == engine = "put" /\ k = arg.key /\ PlaceOf(k) = last_offset
Stored == [k \in Keys |-> IF Pending(k) THEN arg.value ELSE Lookup(k).value]
NoEntries == [k \in Keys |-> NoValue]

(* SPACE::Write: the record lands at off, past a gap if there is one.  The *)
(* mutant appends it.                                                      *)
WrittenAtEnd(file, off, rec) == Append(file, rec)
Written(file, off, rec) ==
  [i \in 1 .. IF off < Len(file) THEN Len(file) ELSE off + 1 |->
     IF i = off + 1 THEN rec ELSE IF i <= Len(file) THEN file[i] ELSE Hole]

(* The mutants forget SetUse, or the end of the file.                      *)
SetUseForgotten == last_offset
SetUse == last_offset + 1
NoFileEnd == 0
FileEnd == Len(data)

------------------------------------------------------------------------------
(* The process *)

Blank == [item |-> [n \in Positions |-> NoItem], horizon |-> 0, slots |-> <<>>]

EngineInit ==
  /\ Init
  /\ engine = "down" /\ arg = Hole /\ last_offset = 0
  /\ data = <<>> /\ meta = Blank /\ files = {}
  /\ durable = {} /\ astray = {}

(* INDEX::Born; memory that is lost is taken to be as new.  The mutant     *)
(* makes one head too many.                                                *)
HeadsPlusOne(n) == [b \in 0 .. n |-> OffsetFeb31]
Heads(n) == [b \in 0 .. n - 1 |-> OffsetFeb31]
NewIndex ==
  /\ item' = Blank.item
  /\ hash_head_size' = HeadSize /\ hash_head' = Heads(HeadSize)
  /\ item_horizon' = 0 /\ free_slots' = <<>>
  /\ Leave("idle") /\ status' = "Ok" /\ found' = NoPlace

Lose ==
  /\ engine # "down"
  /\ Crashes = "any" \/ engine = "ready" \/ pc = "halted"
  /\ NewIndex
  /\ engine' = "down" /\ arg' = Hole /\ last_offset' = 0
  /\ durable' = durable /\ astray' = astray \ {"index"}
Die == Lose /\ UNCHANGED disk

(* The index works for a call of Put, Delete or Open.                      *)
IndexStep == engine # "down" /\ Handler /\ UNCHANGED <<memory, disk, history>>

Answered == pc = "idle"
Goto(e) == engine' = e

------------------------------------------------------------------------------
(* Create: ConfsBorn makes the files, ConfsSolid writes meta, conf and     *)
(* data, of which conf is never read for anything that matters here.       *)
(* Files that are there keep what lies beyond the items: the records of an *)
(* older cabinet stay.                                                     *)

(* The first Solid of a CONFIGURE lays its items out one after the other.  *)
(* An item that could not be written is followed by the next at the same   *)
(* place and is lost (the last one may be left there by an older file, or  *)
(* have its head written: then it is not); what is reported is only that   *)
(* the end of the file was found.                                          *)
BlankSolid(items, lost) == files' = (files \ items) \cup (items \ lost)

CreateMeta ==
  /\ engine = "down"
  /\ Goto("create")
  /\ meta' = Blank
  /\ \E lost \in Losses : BlankSolid(MetaItems, lost)
  /\ durable' = {NoEntries} /\ astray' = {}
  /\ UNCHANGED <<vars, arg, last_offset, data>>

CreateData ==
  /\ engine = "create"
  /\ Goto("ready")
  /\ BlankSolid({"data"}, {})
  /\ NewIndex
  /\ last_offset' = FileEnd
  /\ UNCHANGED <<arg, data, meta, history>>

(* An entry of the meta file for a place where the data file has ended, as *)
(* a failed write may leave one.                                           *)
Ahead ==
  Fails /\ \E i \in Positions :
             meta.item[i].key # OffsetFeb31 /\ meta.item[i].place >= Len(data)

(* Open: with the meta or the data file not complete it returns an error   *)
(* and leaves no engine.  It does not compare the files with each other:   *)
(* last_offset_ will be the end of the data file, so that the next Puts    *)
(* write where the entries ahead of it point.                              *)
Complete == files = MetaItems \cup {"data"}
OpenFiles ==
  /\ engine = "down" /\ Complete
  /\ \E size \in LoadSizes : StartLoad(size, meta.item, meta.horizon, meta.slots)
  /\ Goto("open")
  /\ astray' = IF Ahead \/ "files" \in astray THEN {"index", "files"} ELSE astray
  /\ UNCHANGED <<arg, last_offset, disk, durable>>

OpenEnd ==
  /\ engine = "open" /\ Answered
  /\ Goto("ready")
  /\ last_offset' = FileEnd
  /\ UNCHANGED <<vars, arg, disk, history>>

------------------------------------------------------------------------------
(* Put and Delete *)

Put(k, v, c) ==
  /\ engine = "ready" /\ last_offset < MaxData
  /\ Call("insert", c, FillItem(k, last_offset))
  /\ Goto("put") /\ arg' = Record(k, v)
  /\ UNCHANGED <<last_offset, disk, history>>

PutReturns == Goto("ready") /\ arg' = Hole

PutRefused ==
  /\ engine = "put" /\ Answered /\ status # "Ok"
  /\ PutReturns
  /\ UNCHANGED <<vars, last_offset, disk, history>>

(* A write may fail where the run lets it.                                 *)
Outcomes == IF Fails THEN BOOLEAN ELSE {TRUE}

(* SPACE::Write uses up the space whether or not its write worked, and the *)
(* index entry stays: the rollback label does nothing.                     *)
PutWrite ==
  /\ engine = "put" /\ Answered /\ status = "Ok"
  /\ \E ok \in Outcomes :
       data' = IF ok THEN Written(data, last_offset, arg) ELSE data
  /\ last_offset' = SetUse
  /\ PutReturns
  /\ UNCHANGED <<vars, meta, files, history>>

Delete(k) ==
  /\ engine = "ready"
  /\ Call("delete", FALSE, FillItem(k, NoPlace))
  /\ Goto("delete")
  /\ UNCHANGED <<arg, last_offset, disk, history>>

DeleteEnd ==
  /\ engine = "delete" /\ Answered
  /\ Goto("ready")
  /\ UNCHANGED <<vars, arg, last_offset, disk, history>>

------------------------------------------------------------------------------
(* Solid, and Close, which writes the header of the data file once more.   *)
(* The conf file goes first; then the items of the meta file are rewritten *)
(* in place one by one, in the alphabetical order of the std::map.         *)

(* InjectItem looks for the item in the file first; the mutant does not    *)
(* mind when it is not there.                                              *)
InFileOrNot(item_name) == TRUE
InFile(item_name) == item_name \in files

Persists(from, to, ok, file) ==
  /\ engine = from
  /\ IF ok THEN Goto(to) /\ meta' = file ELSE Goto("ready") /\ meta' = meta
  /\ UNCHANGED <<vars, arg, last_offset, data, files>>

(* What is saved counts as long as the entries are those of the records.   *)
Saves(maps) == durable' = IF astray = {} THEN maps ELSE durable

SolidConf ==
  /\ \E ok \in Outcomes : Persists("ready", "solid index", ok, meta)
  /\ Saves(durable \cup {Stored}) /\ astray' = astray

SolidItem(from, to, name, file) ==
  /\ \E ok \in Outcomes : Persists(from, to, ok /\ InFile(name), file)
  /\ durable' = durable

SolidIndex ==
  /\ SolidItem("solid index", "solid slots", "index", [meta EXCEPT !.item = item])
  /\ astray' = IF "index" \in astray THEN {"index", "files"} ELSE astray

(* The buffer of the free slots is there before its horizon: read back     *)
(* with the old horizon it has the elements of the stack and, above them,  *)
(* whatever is left of those that were popped.                             *)
OldHorizon(stack, slots) ==
  {s \in [1 .. Len(slots) -> Positions] :
     \A i \in 1 .. Len(slots) : i <= Len(stack) => s[i] = stack[i]}
SolidSlots ==
  /\ \E slots \in OldHorizon(free_slots, meta.slots) :
       SolidItem("solid slots", "solid slots horizon", "slots", [meta EXCEPT !.slots = slots])
  /\ astray' = astray
SolidSlotsHorizon ==
  /\ SolidItem("solid slots horizon", "solid horizon", "slots horizon",
               [meta EXCEPT !.slots = free_slots])
  /\ astray' = astray

SolidHorizon ==
  /\ SolidItem("solid horizon", "solid end", "horizon", [meta EXCEPT !.horizon = item_horizon])
  /\ astray' = astray

SolidEnd ==
  /\ engine = "solid end"
  /\ Goto("ready")
  /\ Saves({Stored}) /\ astray' = astray
  /\ UNCHANGED <<vars, arg, last_offset, disk>>

------------------------------------------------------------------------------
User ==
  \/ CreateMeta \/ OpenFiles \/ SolidConf
  \/ \E k \in Keys : Delete(k)
  \/ \E k \in Keys, v \in Values, c \in Covers : Put(k, v, c)

Steps ==
  \/ IndexStep \/ CreateData \/ OpenEnd \/ PutRefused \/ PutWrite \/ DeleteEnd
  \/ SolidIndex \/ SolidSlots \/ SolidSlotsHorizon \/ SolidHorizon \/ SolidEnd

EngineNext == User \/ Steps \/ Die

EngineSpec == EngineInit /\ [][EngineNext]_all
=============================================================================
