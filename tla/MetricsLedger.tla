--------------------------- MODULE MetricsLedger ---------------------------
(***************************************************************************)
(* What a metrics collector promises to the k6 summary, with no mutex, no   *)
(* buffers and no counters: every event of the Kafka client adds one unit   *)
(* to each of the series it is reported on, waits in `pending', is taken    *)
(* as a whole by a flush, and is then either reported or, once the VU       *)
(* context is done, lost.  No event is split, repeated or forgotten.        *)
(***************************************************************************)
EXTENDS Naturals

CONSTANTS Series,   \* the time series (metric and topic tag) fed by hooks
          Events    \* each event is the set of series one occurrence adds to

VARIABLES pending,   \* units waiting for a flush
          taken,     \* units a flush holds and has not pushed yet
          reported,  \* units that reached the k6 samples channel
          lost,      \* units dropped because the VU context was done
          done       \* the VU context has ended

vars == <<pending, taken, reported, lost, done>>

None == [s \in Series |-> 0]
Plus(f, g) == [s \in Series |-> f[s] + g[s]]
One(E) == [s \in Series |-> IF s \in E THEN 1 ELSE 0]

Init == /\ pending = None /\ taken = None
        /\ reported = None /\ lost = None
        /\ done = FALSE

Occur(E) == /\ pending' = Plus(pending, One(E))
            /\ UNCHANGED <<taken, reported, lost, done>>

Take == /\ taken = None
        /\ taken' = pending
        /\ pending' = None
        /\ UNCHANGED <<reported, lost, done>>

Report == /\ ~done
          /\ reported' = Plus(reported, taken)
          /\ taken' = None
          /\ UNCHANGED <<pending, lost, done>>

Lose == /\ done
        /\ lost' = Plus(lost, taken)
        /\ taken' = None
        /\ UNCHANGED <<pending, reported, done>>

End == /\ done' = TRUE
       /\ UNCHANGED <<pending, taken, reported, lost>>

Next == \/ \E E \in Events : Occur(E)
        \/ Take \/ Report \/ Lose \/ End

Spec == Init /\ [][Next]_vars
=============================================================================
