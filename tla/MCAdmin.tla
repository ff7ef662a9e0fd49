------------------------------ MODULE MCAdmin ------------------------------
(* Scaled widths: int16 holds up to 1, int32 up to 3. *)
EXTENDS Admin, TLC

CONSTANTS c1, c2

(* Unset, at the limit, beyond it, and the value that wraps to -1. *)
Counts == [numPartitions : {0, 3, 4, 7}, replicationFactor : {1, 2, 3},
           replicaAssignments : {<<>>}]

(* Lists of one and two entries: dense, beyond the end, doubled, negative. *)
Entries == {[partition |-> 0, replicas |-> "r1"], [partition |-> 1, replicas |-> "r2"],
            [partition |-> -1, replicas |-> "r1"]}
Assigned(n) == [numPartitions : {0}, replicationFactor : {0},
                replicaAssignments : [1 .. n -> Entries]]

(* One VU tries every layout while the other creates the same topic. *)
MCTopicConfigs ==
  (c1 :> (Counts \cup Assigned(1) \cup Assigned(2))) @@
  (c2 :> [numPartitions : {2}, replicationFactor : {0}, replicaAssignments : {<<>>}])
=============================================================================
