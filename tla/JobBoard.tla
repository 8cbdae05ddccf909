------------------------------ MODULE JobBoard ------------------------------
(***************************************************************************)
(* What status.clusterJobs of a scenario run promises to whoever reads it: *)
(* one entry per cluster, each following the job life cycle, whatever the  *)
(* reconciler and the REST handlers do to the run in between.              *)
(*                                                                         *)
(*    Pending -> Running -> Succeeded                                      *)
(*                       -> Failed -> (retry) Pending ...                  *)
(*                                 -> Cancelled | MaxRetriesExceeded       *)
(*                                                                         *)
(* A reader sees the life cycle in jumps, since one status update may      *)
(* publish several of its steps.                                           *)
(***************************************************************************)
EXTENDS Naturals

CONSTANT Clusters, \* the cluster names of the run
         Default   \* the retry limit when an entry has none yet

VARIABLES live,    \* does the run exist?
          board    \* its entries, with phase "None" where there is none

Terminal == {"Succeeded", "Cancelled", "MaxRetriesExceeded"}

Limit(job) == IF job.max = 0 THEN Default ELSE job.max

(* What the phase and the retry count of a published entry may say. *)
Sound(job) ==
    /\ job.phase # "Retrying"
    /\ job.retry <= Limit(job)
    /\ job.phase = "Cancelled" => job.cancel
    /\ job.phase = "MaxRetriesExceeded" => job.retry = Limit(job)

(* The first entry of a cluster: a fresh job, at most its first retry. *)
Appears(old, new) ==
    /\ old.phase = "None" /\ new.phase # "None" /\ Sound(new)
    /\ ~new.cancel /\ new.retry <= 1

(* The same attempt goes on: only a job without a result moves. *)
Advances(old, new) ==
    /\ old.phase \notin Terminal \cup {"None"}
    /\ new.phase # "None" /\ Sound(new)
    /\ new.id = old.id /\ new.retry = old.retry /\ new.cancel = old.cancel
    /\ Limit(new) = Limit(old)

(* Another attempt: never of a cancelled job, never beyond the limit. *)
Retries(old, new) ==
    /\ old.phase \notin Terminal \cup {"None"} /\ ~old.cancel
    /\ new.phase \in {"Pending", "Failed"} /\ Sound(new)
    /\ new.retry = old.retry + 1 /\ ~new.cancel
    /\ Limit(new) = Limit(old)

(* The user cancels: nothing but the flag changes. *)
Cancelled(old, new) ==
    old.phase # "None" /\ new = [old EXCEPT !.cancel = TRUE]

EntryStep(old, new) ==
    \/ new = old
    \/ Appears(old, new) \/ Advances(old, new)
    \/ Retries(old, new) \/ Cancelled(old, new)

Init == live = TRUE /\ \A c \in Clusters : board[c].phase = "None"

Publish ==
    /\ live = TRUE /\ live' = TRUE
    /\ \A c \in Clusters : EntryStep(board[c], board'[c])

Delete == live = TRUE /\ live' = FALSE

Next == Publish \/ Delete

Spec == Init /\ [][Next]_<<live, board>>
=============================================================================
