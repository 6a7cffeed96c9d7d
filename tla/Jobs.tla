-------------------------------- MODULE Jobs --------------------------------
(***************************************************************************)
(* What a service with its own thread promises to those who hand it work:  *)
(* an answer for every job it accepted, and no more than one.  A job may   *)
(* be dropped only for a reason (excused), such as the end of the service. *)
(* The components with a queue between threads implement this.             *)
(***************************************************************************)
CONSTANT Jobs

VARIABLES status,   (* of each job                                         *)
          excused   (* the jobs that may be dropped: up to the service     *)

Init == status = [j \in Jobs |-> "new"]

Submit(j) == status[j] = "new" /\ status'[j] = "pending"
Answer(j) == status[j] = "pending" /\ status'[j] = "answered"
Drop(j)   == status[j] = "pending" /\ status'[j] = "dropped" /\ j \in excused'

(* Several jobs may move at once, each in one of these ways.               *)
Next == /\ DOMAIN status' = Jobs
        /\ \A j \in Jobs : \/ status'[j] = status[j]
                           \/ Submit(j) \/ Answer(j) \/ Drop(j)

Spec == Init /\ [][Next]_<<status, excused>>

=============================================================================
