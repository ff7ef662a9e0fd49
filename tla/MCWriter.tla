------------------------------ MODULE MCWriter ------------------------------
(* One writer, two records: one names its topic, one uses the default. *)
EXTENDS Writer, TLC

CONSTANTS r1, r2, ta, tb
MCRecords == {r1, r2}
MCTopics == {ta, tb}
MCDefaultTopics == {ta, NoTopic}
MCAckSettings == {-1, 0, 1, 2}
MCAttemptSettings == {Unset, -1, 0, 1}
MCTopicOf == (r1 :> tb) @@ (r2 :> NoTopic)
=============================================================================
