-------------------------------- MODULE Jobs --------------------------------
(***************************************************************************)
(* JOBS (src/kvs/src/server/jobs.cc): a list of slots made once by init    *)
(* and never grown.  inject fills the first slot that is not used, fetch   *)
(* goes up the list from the first.  The operators are what the two do to  *)
(* one list; Server gives each worker its list and its mutex.              *)
(***************************************************************************)
EXTENDS Integers, FiniteSets, FiniteSetsExt

CONSTANTS
  QueueSize,  \* job_queue_size of init
  Timeout     \* timeout_, in the unit of the clock

ASSUME JobsAssumption == QueueSize \in Nat \ {0} /\ Timeout \in Nat

Slots == 1 .. QueueSize
End   == QueueSize + 1          \* jobs_.end()

(* init: a job's descriptor and start are only read while it is used.      *)
EmptyList == [i \in Slots |-> [used |-> FALSE, fd |-> -1, start |-> 0]]

Used(list) == {i \in Slots : list[i].used}

(* Where the search for a slot stops.                                      *)
FirstSlot(list) == 1                  \* used or not
FirstUnused(list) ==
  LET free == Slots \ Used(list) IN IF free = {} THEN End ELSE Min(free)
NextUsed(list, from) ==
  LET rest == {i \in Used(list) : i >= from} IN IF rest = {} THEN End ELSE Min(rest)

(* The job keeps its deadline for its start. *)
PutDeadline(list, i, fd, now) ==
  [list EXCEPT ![i] = [used |-> TRUE, fd |-> fd, start |-> now + Timeout + 1]]
Put(list, i, fd, now) == [list EXCEPT ![i] = [used |-> TRUE, fd |-> fd, start |-> now]]

(* A fetched job's slot keeps its descriptor, an expired one's loses it.   *)
(* The mutants leave the slot used.                                        *)
TakeNot(list, i) == list
Take(list, i)   == [list EXCEPT ![i].used = FALSE]
ExpireNot(list, i) == list
Expire(list, i) == [list EXCEPT ![i].used = FALSE, ![i].fd = -1]

Expired(job, now) == now > job.start + Timeout
=============================================================================
