------------------------------- MODULE KeyMap -------------------------------
(***************************************************************************)
(* What the index promises to the engine: a finite map from keys to the    *)
(* place of the value in the data file, used by one caller at a time.  A   *)
(* request is made, and answered in one later step; a request may instead  *)
(* stop the process, in the situations CanStop and nowhere else.           *)
(***************************************************************************)
EXTENDS Naturals, FiniteSets

CONSTANTS
  Keys,       \* keys of the clients
  Places,     \* (offset, length) pairs of the data file
  NoPlace,    \* what a search that fails leaves in its output
  Capacity,   \* nodes of the index
  MayForget   \* TRUE where an overwriting insert may drop other keys

VARIABLES
  map,        \* place of each key, NoPlace where the key is absent
  request,    \* the operation in progress, NoRequest between two
  status,     \* the answer to the last request
  found,      \* the place a search returned
  up          \* FALSE once the process has died

vars == <<map, request, status, found, up>>

Requests ==
  [op : {"search", "delete"}, key : Keys]
    \cup [op : {"insert"}, key : Keys, place : Places, cover : BOOLEAN]
    \cup [op : {"load"}]
NoRequest == [op |-> "none"]

Present == {k \in Keys : map[k] # NoPlace}

Init ==
  /\ map = [k \in Keys |-> NoPlace]
  /\ request = NoRequest
  /\ status = "Ok"
  /\ found = NoPlace
  /\ up = TRUE

Ask ==
  /\ up /\ request = NoRequest
  /\ request' \in Requests
  /\ status' = "Pending"
  /\ found' = NoPlace
  /\ UNCHANGED <<map, up>>

(* A request the index cannot understand is turned down at once.           *)
TurnDown ==
  /\ up /\ request = NoRequest
  /\ status' = "InvalidParam"
  /\ found' = NoPlace
  /\ UNCHANGED <<map, request, up>>

Answer(s, place) ==
  /\ up
  /\ request' = NoRequest
  /\ status' = s
  /\ found' = place
  /\ up' = up

Search ==
  /\ request.op = "search"
  /\ IF request.key \in Present
       THEN Answer("Ok", map[request.key])
       ELSE Answer("NotExist", NoPlace)
  /\ map' = map

(* Dropping keys is allowed only to an insert that overwrites.             *)
Insert ==
  /\ request.op = "insert"
  /\ IF request.key \in Present /\ ~request.cover
       THEN Answer("Exist", NoPlace) /\ map' = map
       ELSE /\ Answer("Ok", NoPlace)
            /\ \E lost \in IF MayForget /\ request.key \in Present
                             THEN SUBSET (Keys \ {request.key}) ELSE {{}} :
                 map' = [k \in Keys |-> IF k = request.key THEN request.place
                                        ELSE IF k \in lost THEN NoPlace
                                        ELSE map[k]]

Delete ==
  /\ request.op = "delete"
  /\ IF request.key \in Present
       THEN Answer("Ok", NoPlace) /\ map' = [map EXCEPT ![request.key] = NoPlace]
       ELSE Answer("NotExist", NoPlace) /\ map' = map

(* Loading the index again changes no entry.                               *)
Load ==
  /\ request.op = "load"
  /\ Answer("Ok", NoPlace)
  /\ map' = map

(* The process dies in an insert only when every node of the index is      *)
(* taken (by keys, unless keys were forgotten), and in a delete only when  *)
(* the key to delete has at least two others beside it.                    *)
CanStop ==
  \/ /\ request.op = "insert"
     /\ MayForget \/ (request.key \notin Present /\ Cardinality(Present) = Capacity)
  \/ /\ request.op = "delete"
     /\ request.key \in Present /\ Cardinality(Present) >= 3

Stop ==
  /\ up /\ CanStop
  /\ up' = FALSE
  /\ request' = NoRequest
  /\ UNCHANGED <<map, status, found>>

Work == Search \/ Insert \/ Delete \/ Load \/ Stop

Next == Ask \/ TurnDown \/ Work

Spec == Init /\ [][Next]_vars
=============================================================================
