---------------------------- MODULE MCCollector ----------------------------
(* The collector of one writer or one reader with two topics; the first
   topic's batches can pile up before a flush. *)
EXTENDS Collector

CONSTANTS t1, t2
MCTopics == {t1, t2}
MCMaxSeen == [c \in Classes |-> IF c = Batch(t1) THEN 2 ELSE 1]
=============================================================================
