----------------------------- MODULE Collector -----------------------------
(***************************************************************************)
(* metricsCollector (src/pkg/kafka/metrics.go).  The franz-go client calls  *)
(* the On... hooks on its own goroutines; the VU goroutine drains what they *)
(* accumulated into k6 samples when produce, consume or close flushes.      *)
(* Hooks and drain share the collector's fields under `mu'.                 *)
(*                                                                          *)
(* A hook's critical section is one step.  The drain, which walks several   *)
(* fields and ranges over a map, is one step per field group or map entry,  *)
(* so that what the mutex protects is visible.  Durations and sizes are     *)
(* abstracted: a trend buffer is the number of values it holds, and a       *)
(* series is the sum (counter) or the number of samples (trend) it has got. *)
(***************************************************************************)
EXTENDS Integers

CONSTANTS Topics,     \* topics that batches are written to or fetched from
          Untagged,   \* the tag of a series that has no topic
          MaxSeen,    \* bound: occurrences of each class of events, per class
          MaxCalled   \* bound: call-site samples over the whole behaviour

Roles == {"writer", "reader"}
Keys  == {"produce", "fetch", "metadata"}

Dial == <<"dial", Untagged>>
RW   == <<"rw", Untagged>>
Batch(t) == <<"batch", t>>
Classes == {Dial, RW} \cup {Batch(t) : t \in Topics}

DialCount   == <<"dial_count", Untagged>>
DialSeconds == <<"dial_seconds", Untagged>>
RWSeconds   == <<"rw_seconds", Untagged>>
WaitSeconds == <<"wait_seconds", Untagged>>
BatchCount(t) == <<"batch_count", t>>
BatchSize(t)  == <<"batch_size", t>>
BatchBytes(t) == <<"batch_bytes", t>>
CallSite    == <<"call_site", Untagged>>

ASSUME TopicsAssumption == Untagged \notin Topics
ASSUME BoundsAssumption == MaxSeen \in [Classes -> Nat] /\ MaxCalled \in Nat

(* The series each class of events is reported on. *)
SeriesOf(c) ==
  CASE c = Dial -> {DialCount, DialSeconds}
    [] c = RW   -> {RWSeconds, WaitSeconds}
    [] OTHER    -> {BatchCount(c[2]), BatchSize(c[2]), BatchBytes(c[2])}

HookSeries == {DialCount, DialSeconds, RWSeconds, WaitSeconds}
                \cup {BatchCount(t) : t \in Topics}
                \cup {BatchSize(t)  : t \in Topics}
                \cup {BatchBytes(t) : t \in Topics}
Series == HookSeries \cup {CallSite}

VARIABLES
  role,                                   \* metricsCollector.role
  mu,                                     \* metricsCollector.mu: "free" or "vu"
  dialCount, dialFlushed, dialSeconds,    \* untagged counter and its trend
  rwSeconds, waitSeconds,                 \* request trends
  batchCount, batchFlushed,               \* per-topic counters
  batchSize, batchBytes,                  \* per-topic trend buffers
  pc, todo, out,                          \* a flush: where it is, topics left, samples
  vuState, vuDone,                        \* vu.State() # nil, vu.Context() done
  seen, called,                           \* history: events and call-site samples
  emitted, dropped                        \* history: units pushed, units not pushed

fields   == <<dialCount, dialFlushed, dialSeconds, rwSeconds, waitSeconds,
              batchCount, batchFlushed, batchSize, batchBytes>>
flushing == <<pc, todo, out>>
vu       == <<vuState, vuDone>>
history  == <<seen, called, emitted, dropped>>
vars     == <<role, mu, fields, flushing, vu, history>>

Nothing == [s \in Series |-> 0]
Plus(f, g) == [s \in Series |-> f[s] + g[s]]

TypeOK ==
  /\ role \in Roles
  /\ mu \in {"free", "vu"}
  /\ dialCount \in Nat /\ dialFlushed \in Nat /\ dialSeconds \in Nat
  /\ rwSeconds \in Nat /\ waitSeconds \in Nat
  /\ batchCount \in [Topics -> Nat] /\ batchFlushed \in [Topics -> Nat]
  /\ batchSize \in [Topics -> Nat] /\ batchBytes \in [Topics -> Nat]
  /\ pc \in {"idle", "lock", "dials", "batches", "push"}
  /\ todo \subseteq Topics
  /\ out \in [Series -> Nat]
  /\ vuState \in BOOLEAN /\ vuDone \in BOOLEAN
  /\ seen \in [Classes -> Nat] /\ called \in Nat
  /\ emitted \in [Series -> Nat] /\ dropped \in [Series -> Nat]

(* newMetricsCollector: empty maps and buffers, in the init context. *)
Init ==
  /\ role \in Roles
  /\ mu = "free"
  /\ dialCount = 0 /\ dialFlushed = 0 /\ dialSeconds = 0
  /\ rwSeconds = 0 /\ waitSeconds = 0
  /\ batchCount = [t \in Topics |-> 0] /\ batchFlushed = [t \in Topics |-> 0]
  /\ batchSize = [t \in Topics |-> 0] /\ batchBytes = [t \in Topics |-> 0]
  /\ pc = "idle" /\ todo = {} /\ out = Nothing
  /\ vuState = FALSE /\ vuDone = FALSE
  /\ seen = [c \in Classes |-> 0] /\ called = 0
  /\ emitted = Nothing /\ dropped = Nothing

-----------------------------------------------------------------------------
(* Hooks, off the VU goroutine. *)

Happens(c) == /\ seen[c] < MaxSeen[c]
              /\ seen' = [seen EXCEPT ![c] = @ + 1]

(* A connection attempt of the client; err says the dial failed. *)
OnBrokerConnect(err) ==
  /\ ~err
  /\ mu = "free"
  /\ Happens(Dial)
  /\ dialCount' = dialCount + 1
  /\ dialSeconds' = dialSeconds + 1
  /\ UNCHANGED <<role, mu, dialFlushed, rwSeconds, waitSeconds, batchCount,
                 batchFlushed, batchSize, batchBytes, flushing, vu, called,
                 emitted, dropped>>

(* The early return of OnBrokerWrite and OnBrokerRead. *)
SkipsWrite(key, err) == role # "writer" \/ key # "produce" \/ err
SkipsRead(key, err)  == role # "reader" \/ key # "fetch" \/ err

RecordRW(skips) ==
  /\ mu = "free"
  /\ rwSeconds' = IF skips THEN rwSeconds ELSE rwSeconds + 1
  /\ waitSeconds' = IF skips THEN waitSeconds ELSE waitSeconds + 1
  /\ UNCHANGED <<role, mu, dialCount, dialFlushed, dialSeconds, batchCount,
                 batchFlushed, batchSize, batchBytes, flushing, vu, called,
                 emitted, dropped>>

(* A request was written.  The event belongs to the series exactly when it
   is a successful produce request of a writer's client. *)
OnBrokerWrite(key, err) ==
  /\ IF <<role, key, err>> = <<"writer", "produce", FALSE>>
       THEN Happens(RW) ELSE UNCHANGED seen
  /\ RecordRW(SkipsWrite(key, err))

(* A response was read: likewise a reader's successful fetch. *)
OnBrokerRead(key, err) ==
  /\ IF <<role, key, err>> = <<"reader", "fetch", FALSE>>
       THEN Happens(RW) ELSE UNCHANGED seen
  /\ RecordRW(SkipsRead(key, err))

(* Faulty variant: the hook does not lock. *)
RecordBatchUnlocked(t) ==
  /\ Happens(Batch(t))
  /\ batchCount' = [batchCount EXCEPT ![t] = @ + 1]
  /\ batchSize' = [batchSize EXCEPT ![t] = @ + 1]
  /\ batchBytes' = [batchBytes EXCEPT ![t] = @ + 1]
  /\ UNCHANGED <<role, mu, dialCount, dialFlushed, dialSeconds, rwSeconds,
                 waitSeconds, batchFlushed, flushing, vu, called, emitted,
                 dropped>>

RecordBatch(t) ==
  /\ mu = "free"
  /\ Happens(Batch(t))
  /\ batchCount' = [batchCount EXCEPT ![t] = @ + 1]
  /\ batchSize' = [batchSize EXCEPT ![t] = @ + 1]
  /\ batchBytes' = [batchBytes EXCEPT ![t] = @ + 1]
  /\ UNCHANGED <<role, mu, dialCount, dialFlushed, dialSeconds, rwSeconds,
                 waitSeconds, batchFlushed, flushing, vu, called, emitted,
                 dropped>>

(* franz-go reports produce batches to a producer's client only, and fetch
   batches to a consumer's; the hooks themselves do not look at the role. *)
OnProduceBatchWritten(t) == role = "writer" /\ RecordBatch(t)
OnFetchBatchRead(t)      == role = "reader" /\ RecordBatch(t)

Hooks ==
  \/ \E err \in BOOLEAN : OnBrokerConnect(err)
  \/ \E key \in Keys, err \in BOOLEAN : OnBrokerWrite(key, err)
  \/ \E key \in Keys, err \in BOOLEAN : OnBrokerRead(key, err)
  \/ \E t \in Topics : OnProduceBatchWritten(t)
  \/ \E t \in Topics : OnFetchBatchRead(t)

-----------------------------------------------------------------------------
(* flush, on the VU goroutine. *)

(* The nil-state guard, then the call-site samples.  flushClose passes no
   callback (n = 0); flushProduce and flushConsume add n samples. *)
Flush(n) ==
  /\ pc = "idle"
  /\ vuState
  /\ called + n <= MaxCalled
  /\ called' = called + n
  /\ out' = [out EXCEPT ![CallSite] = @ + n]
  /\ pc' = "lock"
  /\ UNCHANGED <<role, mu, fields, todo, vu, seen, emitted, dropped>>

(* Faulty variant: drainHooks does not lock. *)
NoLockMu ==
  /\ pc = "lock"
  /\ pc' = "dials"
  /\ UNCHANGED <<role, mu, fields, todo, out, vu, history>>

LockMu ==
  /\ pc = "lock"
  /\ mu = "free"
  /\ mu' = "vu"
  /\ pc' = "dials"
  /\ UNCHANGED <<role, fields, todo, out, vu, history>>

(* Faulty variants: the running total, and the difference the wrong way. *)
DeltaTotal(total, flushed)   == total
DeltaSwapped(total, flushed) == flushed - total

(* A counter's sample is its delta since the last flush; 0 adds no sample. *)
Delta(total, flushed) == IF total > flushed THEN total - flushed ELSE 0

DrainUntagged ==
  /\ pc = "dials"
  /\ out' = [out EXCEPT ![DialCount] = @ + Delta(dialCount, dialFlushed),
                        ![DialSeconds] = @ + dialSeconds,
                        ![RWSeconds] = @ + rwSeconds,
                        ![WaitSeconds] = @ + waitSeconds]
  /\ dialFlushed' = dialCount
  /\ dialSeconds' = 0 /\ rwSeconds' = 0 /\ waitSeconds' = 0
  /\ pc' = "batches"
  /\ todo' = Topics
  /\ UNCHANGED <<role, mu, dialCount, batchCount, batchFlushed, batchSize,
                 batchBytes, vu, history>>

(* range mc.batchCount: one entry at a time, in any order. *)
DrainBatchCount(t) ==
  /\ pc = "batches"
  /\ t \in todo
  /\ todo' = todo \ {t}
  /\ out' = [out EXCEPT ![BatchCount(t)] =
                          @ + Delta(batchCount[t], batchFlushed[t])]
  /\ batchFlushed' = [batchFlushed EXCEPT ![t] = batchCount[t]]
  /\ UNCHANGED <<role, mu, dialCount, dialFlushed, dialSeconds, rwSeconds,
                 waitSeconds, batchCount, batchSize, batchBytes, pc, vu,
                 history>>

(* Faulty variant: the mutex stays locked. *)
DrainBatchTrendsLocked ==
  /\ pc = "batches"
  /\ todo = {}
  /\ out' = [s \in Series |->
               out[s] + IF s \in {BatchSize(t) : t \in Topics}
                          THEN batchSize[s[2]]
                        ELSE IF s \in {BatchBytes(t) : t \in Topics}
                          THEN batchBytes[s[2]]
                        ELSE 0]
  /\ batchSize' = [t \in Topics |-> 0]
  /\ batchBytes' = [t \in Topics |-> 0]
  /\ pc' = "push"
  /\ UNCHANGED <<role, mu, dialCount, dialFlushed, dialSeconds, rwSeconds,
                 waitSeconds, batchCount, batchFlushed, todo, vu, history>>

(* The two trend buffers, their truncation and the deferred unlock. *)
DrainBatchTrends ==
  /\ pc = "batches"
  /\ todo = {}
  /\ out' = [s \in Series |->
               out[s] + IF s \in {BatchSize(t) : t \in Topics}
                          THEN batchSize[s[2]]
                        ELSE IF s \in {BatchBytes(t) : t \in Topics}
                          THEN batchBytes[s[2]]
                        ELSE 0]
  /\ batchSize' = [t \in Topics |-> 0]
  /\ batchBytes' = [t \in Topics |-> 0]
  /\ mu' = "free"
  /\ pc' = "push"
  /\ UNCHANGED <<role, dialCount, dialFlushed, dialSeconds, rwSeconds,
                 waitSeconds, batchCount, batchFlushed, todo, vu, history>>

(* Faulty variant: the sample buffer is reused and not emptied. *)
PushKeepsOut ==
  /\ pc = "push"
  /\ IF vuDone
       THEN dropped' = Plus(dropped, out) /\ UNCHANGED emitted
       ELSE emitted' = Plus(emitted, out) /\ UNCHANGED dropped
  /\ pc' = "idle"
  /\ UNCHANGED <<role, mu, fields, todo, out, vu, seen, called>>

(* PushIfNotDone: samples of a VU whose context is done are discarded. *)
Push ==
  /\ pc = "push"
  /\ IF vuDone
       THEN dropped' = Plus(dropped, out) /\ UNCHANGED emitted
       ELSE emitted' = Plus(emitted, out) /\ UNCHANGED dropped
  /\ out' = Nothing
  /\ pc' = "idle"
  /\ UNCHANGED <<role, mu, fields, todo, vu, seen, called>>

FlushSteps == \/ LockMu
              \/ DrainUntagged
              \/ \E t \in Topics : DrainBatchCount(t)
              \/ DrainBatchTrends
              \/ Push

-----------------------------------------------------------------------------
(* The VU: leaves the init context once, and is stopped at any time. *)

StartVU == /\ ~vuState
           /\ vuState' = TRUE
           /\ UNCHANGED <<role, mu, fields, flushing, vuDone, history>>

CancelVU == /\ ~vuDone
            /\ vuDone' = TRUE
            /\ UNCHANGED <<role, mu, fields, flushing, vuState, history>>

Next == \/ Hooks
        \/ \E n \in 0..MaxCalled : Flush(n)
        \/ FlushSteps
        \/ StartVU
        \/ CancelVU

(* The VU goroutine runs a flush it has begun to its end: nothing in it
   waits for anything but a mutex whose holders never block. *)
Spec == Init /\ [][Next]_vars /\ WF_vars(FlushSteps)

-----------------------------------------------------------------------------
(* Properties. *)

(* What the hooks have accumulated and no drain has taken, per series. *)
Buffered == [s \in HookSeries |->
  CASE s = DialCount   -> dialCount - dialFlushed
    [] s = DialSeconds -> dialSeconds
    [] s = RWSeconds   -> rwSeconds
    [] s = WaitSeconds -> waitSeconds
    [] s \in {BatchCount(t) : t \in Topics} -> batchCount[s[2]] - batchFlushed[s[2]]
    [] s \in {BatchSize(t) : t \in Topics}  -> batchSize[s[2]]
    [] OTHER -> batchBytes[s[2]]]

(* Every event is on its way to each of its series exactly once, whatever
   the hooks and a flush do to each other: still in a field, in the flush at
   hand, emitted, or dropped, and dropped only after the VU context ended.
   So the counters that k6 sums reconstruct the true totals (metrics.go: the
   delta arithmetic of drainHooks against the monotonic hook counters). *)
ExactlyOnce ==
  \A c \in Classes : \A s \in SeriesOf(c) :
    seen[c] = Buffered[s] + out[s] + emitted[s] + (IF vuDone THEN dropped[s] ELSE 0)

(* A counter and the trends of the same events never disagree in what k6 has
   received: kafka_writer_dial_count is the number of dial_seconds samples,
   write_count the number of batch_size and of batch_bytes samples, per
   topic (drainHooks takes all of them in one critical section). *)
ReportedTogether ==
  \A c \in Classes : \A s1, s2 \in SeriesOf(c) : emitted[s1] = emitted[s2]

(* The samples a call site adds travel with the drained ones: none is lost
   before the VU ends, none is emitted twice (flush). *)
CallSitesKept ==
  called = out[CallSite] + emitted[CallSite]
             + (IF vuDone THEN dropped[CallSite] ELSE 0)

(* A flush that has begun ends, and so does its critical section: produce,
   consume and close never hang in the collector. *)
FlushEnds == (pc # "idle") ~> (pc = "idle")

(* The drain's critical section is atomic to the rest of the system: the
   collector implements the ledger, whose flush takes everything pending in
   one step.  While the drain holds mu, the units it has not reached yet
   already count as taken. *)
Draining == pc \in {"dials", "batches"}

Ledger == INSTANCE MetricsLedger WITH
  Series   <- HookSeries,
  Events   <- {SeriesOf(c) : c \in Classes},
  pending  <- [s \in HookSeries |-> IF Draining THEN 0 ELSE Buffered[s]],
  taken    <- [s \in HookSeries |->
                 IF Draining THEN out[s] + Buffered[s] ELSE out[s]],
  reported <- [s \in HookSeries |-> emitted[s]],
  lost     <- [s \in HookSeries |-> dropped[s]],
  done     <- vuDone

ImplementsLedger == Ledger!Spec
=============================================================================
