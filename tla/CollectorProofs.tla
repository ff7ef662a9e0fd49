-------------------------- MODULE CollectorProofs --------------------------
(* The collector's accounting, proved for any set of topics and any bounds. *)
EXTENDS Collector, TLAPS

(* Units of a series that left the fields: held, pushed or discarded. *)
Gone(s) == out[s] + emitted[s] + dropped[s]

(* The flush holds the mutex exactly while it drains, and holds no hook unit
   before it starts to. *)
Phase ==
  /\ mu = IF Draining THEN "vu" ELSE "free"
  /\ pc = "idle" => out = Nothing
  /\ pc \in {"lock", "dials"} => \A s \in HookSeries : out[s] = 0

(* Counters: `flushed' is what left; trends: the rest is in the buffer. *)
Books ==
  /\ seen[Dial] = dialCount
  /\ dialFlushed = Gone(DialCount)
  /\ dialCount = dialSeconds + Gone(DialSeconds)
  /\ seen[RW] = rwSeconds + Gone(RWSeconds)
  /\ seen[RW] = waitSeconds + Gone(WaitSeconds)
  /\ \A t \in Topics :
       /\ seen[Batch(t)] = batchCount[t]
       /\ batchFlushed[t] = Gone(BatchCount(t))
       /\ batchCount[t] = batchSize[t] + Gone(BatchSize(t))
       /\ batchCount[t] = batchBytes[t] + Gone(BatchBytes(t))

(* Series of one class agree in a pushed or discarded flush f. *)
Agree(f) ==
  /\ f[DialCount] = f[DialSeconds]
  /\ f[RWSeconds] = f[WaitSeconds]
  /\ \A t \in Topics : f[BatchCount(t)] = f[BatchSize(t)]
                         /\ f[BatchSize(t)] = f[BatchBytes(t)]

(* They agree in the flush at hand too, except that between a topic's counter
   and the trend buffers the counter is ahead; it is then fully flushed. *)
AgreeOut ==
  /\ out[DialCount] = out[DialSeconds]
  /\ out[RWSeconds] = out[WaitSeconds]
  /\ \A t \in Topics :
       /\ out[BatchSize(t)] = out[BatchBytes(t)]
       /\ IF pc = "batches" /\ t \notin todo
            THEN batchFlushed[t] = batchCount[t]
            ELSE out[BatchCount(t)] = out[BatchSize(t)]

Calls == called = Gone(CallSite)

LiveKeeps == ~vuDone => dropped = Nothing

IInv == /\ TypeOK /\ Phase /\ Books /\ Calls /\ LiveKeeps
        /\ Agree(emitted) /\ Agree(dropped) /\ AgreeOut

-----------------------------------------------------------------------------
(* The series and classes are told apart by metric name or by topic.  All
   later steps use these facts and never look inside a series again. *)
(* Every named series is one of Series, and no two of them coincide. *)
LEMMA SeriesFacts ==
  /\ DialCount \in HookSeries /\ DialSeconds \in HookSeries
  /\ RWSeconds \in HookSeries /\ WaitSeconds \in HookSeries
  /\ \A t \in Topics : /\ BatchCount(t) \in HookSeries
                       /\ BatchSize(t) \in HookSeries
                       /\ BatchBytes(t) \in HookSeries
  /\ CallSite \in Series /\ CallSite \notin HookSeries
  /\ HookSeries \subseteq Series
  /\ DialCount # DialSeconds /\ DialCount # RWSeconds /\ DialCount # WaitSeconds
  /\ DialSeconds # RWSeconds /\ DialSeconds # WaitSeconds
  /\ RWSeconds # WaitSeconds
  /\ \A t \in Topics :
       /\ BatchCount(t) \notin {DialCount, DialSeconds, RWSeconds, WaitSeconds}
       /\ BatchSize(t) \notin {DialCount, DialSeconds, RWSeconds, WaitSeconds}
       /\ BatchBytes(t) \notin {DialCount, DialSeconds, RWSeconds, WaitSeconds}
  /\ \A t, u \in Topics :
       /\ BatchCount(t) # BatchSize(u) /\ BatchCount(t) # BatchBytes(u)
       /\ BatchSize(t) # BatchBytes(u)
       /\ BatchCount(t) = BatchCount(u) => t = u
       /\ BatchSize(t) = BatchSize(u) => t = u
       /\ BatchBytes(t) = BatchBytes(u) => t = u
  /\ \A t : BatchCount(t)[2] = t /\ BatchSize(t)[2] = t /\ BatchBytes(t)[2] = t
  BY DEF HookSeries, Series, DialCount, DialSeconds, RWSeconds, WaitSeconds,
         BatchCount, BatchSize, BatchBytes, CallSite

(* The same for the classes of events. *)
LEMMA ClassFacts ==
  /\ Dial \in Classes /\ RW \in Classes /\ Dial # RW
  /\ \A t \in Topics : Batch(t) \in Classes /\ Batch(t) # Dial /\ Batch(t) # RW
  /\ \A t, u \in Topics : Batch(t) = Batch(u) => t = u
  BY DEF Classes, Dial, RW, Batch

(* The parts of the inductive invariant that speak of the samples. *)
Ledgers == Books /\ Calls /\ LiveKeeps /\ Agree(emitted) /\ Agree(dropped) /\ AgreeOut

(* The fields are empty and nothing was seen: IInv holds initially. *)
LEMMA InitIInv == Init => IInv
<1> SUFFICES ASSUME Init PROVE IInv
  OBVIOUS
<1>1. TypeOK
  BY DEF Init, TypeOK, Nothing
<1>2. Phase
  BY SeriesFacts DEF Init, Phase, Draining, Nothing
<1>3. Ledgers
  BY SeriesFacts, ClassFacts
     DEF Init, Ledgers, Books, Calls, LiveKeeps, Agree, AgreeOut, Gone, Nothing
<1> QED
  BY <1>1, <1>2, <1>3 DEF IInv, Ledgers

(* A successful dial adds one to the counter and one to its trend. *)
LEMMA StepDial ==
  ASSUME IInv, NEW err \in BOOLEAN, OnBrokerConnect(err)
  PROVE  IInv'
<1>1. TypeOK'
  BY ClassFacts DEF IInv, TypeOK, OnBrokerConnect, Happens, fields, flushing, vu
<1>2. Phase'
  BY DEF IInv, Phase, OnBrokerConnect, Draining, Nothing, flushing
<1>3. Ledgers'
  BY ClassFacts, SeriesFacts
     DEF IInv, TypeOK, OnBrokerConnect, Happens, flushing, vu, Ledgers, Books, Calls,
         LiveKeeps, Agree, AgreeOut, Gone, Nothing
<1> QED
  BY <1>1, <1>2, <1>3 DEF IInv, Ledgers

(* A request event is filtered by exactly the condition that makes it count,
   and adds one to both of its trends. *)
LEMMA StepRW ==
  ASSUME IInv, NEW key \in Keys, NEW err \in BOOLEAN,
         OnBrokerWrite(key, err) \/ OnBrokerRead(key, err)
  PROVE  IInv'
<1>1. \/ RecordRW(TRUE) /\ UNCHANGED seen
      \/ RecordRW(FALSE) /\ Happens(RW)
  BY DEF IInv, TypeOK, Roles, OnBrokerWrite, OnBrokerRead, SkipsWrite, SkipsRead
<1>2. TypeOK'
  BY <1>1, ClassFacts DEF IInv, TypeOK, RecordRW, Happens, flushing, vu
<1>3. Phase'
  BY <1>1 DEF IInv, Phase, RecordRW, Draining, Nothing, flushing
<1>4. Ledgers'
  BY <1>1, ClassFacts, SeriesFacts
     DEF IInv, TypeOK, RecordRW, Happens, flushing, vu, Ledgers, Books, Calls,
         LiveKeeps, Agree, AgreeOut, Gone, Nothing
<1> QED
  BY <1>2, <1>3, <1>4 DEF IInv, Ledgers

(* A batch adds one to its topic's counter and to both of its trends; the
   mutex keeps it out of the middle of a drain. *)
LEMMA StepBatch ==
  ASSUME IInv, NEW t \in Topics, RecordBatch(t)
  PROVE  IInv'
<1>1. TypeOK'
  BY ClassFacts DEF IInv, TypeOK, RecordBatch, Happens, flushing, vu
<1>2. Phase'
  BY DEF IInv, Phase, RecordBatch, Draining, Nothing, flushing
<1>3. pc # "batches"
  BY DEF IInv, Phase, RecordBatch, Draining
<1>4. Books'
  <2>1. \A u \in Topics : UNCHANGED <<Gone(BatchCount(u)), Gone(BatchSize(u)),
                                     Gone(BatchBytes(u))>>
    BY DEF RecordBatch, flushing, Gone
  <2>2. \A u \in Topics : /\ Gone(BatchCount(u)) \in Nat
                          /\ Gone(BatchSize(u)) \in Nat
                          /\ Gone(BatchBytes(u)) \in Nat
    BY SeriesFacts DEF IInv, TypeOK, Gone
  <2>3. \A u \in Topics : seen'[Batch(u)] = IF u = t THEN seen[Batch(u)] + 1
                                                    ELSE seen[Batch(u)]
    BY ClassFacts DEF IInv, TypeOK, RecordBatch, Happens
  <2>4. (\A u \in Topics :
           /\ seen[Batch(u)] = batchCount[u]
           /\ batchFlushed[u] = Gone(BatchCount(u))
           /\ batchCount[u] = batchSize[u] + Gone(BatchSize(u))
           /\ batchCount[u] = batchBytes[u] + Gone(BatchBytes(u)))'
    BY <2>1, <2>2, <2>3 DEF IInv, TypeOK, Books, RecordBatch
  <2>5. UNCHANGED <<seen[Dial], seen[RW], dialCount, dialFlushed, dialSeconds,
                    rwSeconds, waitSeconds, out, emitted, dropped>>
    BY ClassFacts DEF IInv, TypeOK, RecordBatch, Happens, flushing
  <2> QED
    BY <2>4, <2>5 DEF IInv, Books, Gone
<1>5. (Calls /\ LiveKeeps /\ Agree(emitted) /\ Agree(dropped) /\ AgreeOut)'
  BY <1>3 DEF IInv, RecordBatch, flushing, vu, Calls, LiveKeeps, Agree,
              AgreeOut, Gone, Nothing
<1> QED
  BY <1>1, <1>2, <1>4, <1>5 DEF IInv

(* The call-site samples enter the flush and no hook series. *)
LEMMA StepFlush ==
  ASSUME IInv, NEW n \in Nat, Flush(n)
  PROVE  IInv'
<1>1. TypeOK'
  BY SeriesFacts DEF IInv, TypeOK, Flush, fields, vu
<1>2. \A s \in HookSeries : out'[s] = 0 /\ out[s] = 0
  BY SeriesFacts DEF IInv, TypeOK, Phase, Flush, Nothing
<1>3. Phase'
  BY <1>2 DEF IInv, Phase, Flush, Draining, Nothing
<1>4. Ledgers'
  BY <1>2, SeriesFacts
     DEF IInv, TypeOK, Flush, fields, vu, Ledgers, Books, Calls,
         LiveKeeps, Agree, AgreeOut, Gone, Nothing
<1> QED
  BY <1>1, <1>3, <1>4 DEF IInv, Ledgers

(* Taking the mutex moves nothing. *)
LEMMA StepLock == IInv /\ LockMu => IInv'
<1> SUFFICES ASSUME IInv, LockMu PROVE IInv'
  OBVIOUS
<1>1. TypeOK'
  BY DEF IInv, TypeOK, LockMu, fields, vu, history
<1>2. Phase'
  BY DEF IInv, Phase, LockMu, Draining, Nothing
<1>3. Ledgers'
  BY DEF IInv, LockMu, fields, vu, history, Ledgers, Books, Calls,
         LiveKeeps, Agree, AgreeOut, Gone, Nothing
<1> QED
  BY <1>1, <1>2, <1>3 DEF IInv, Ledgers

(* Draining the untagged fields moves the counter's delta and the whole of
   each buffer; the delta is the buffer's length. *)
LEMMA StepUntagged == IInv /\ DrainUntagged => IInv'
<1> SUFFICES ASSUME IInv, DrainUntagged PROVE IInv'
  OBVIOUS
<1>0. Delta(dialCount, dialFlushed) = dialSeconds /\ rwSeconds = waitSeconds
  BY SeriesFacts DEF IInv, TypeOK, Books, Agree, AgreeOut, Gone, Delta
<1>1. TypeOK'
  BY <1>0, SeriesFacts, SMTT(30) DEF IInv, TypeOK, DrainUntagged, vu, history
<1>2. /\ out'[DialCount] = out[DialCount] + dialSeconds
      /\ out'[DialSeconds] = out[DialSeconds] + dialSeconds
      /\ out'[RWSeconds] = out[RWSeconds] + rwSeconds
      /\ out'[WaitSeconds] = out[WaitSeconds] + rwSeconds
      /\ out'[CallSite] = out[CallSite]
      /\ \A t \in Topics : UNCHANGED <<out[BatchCount(t)], out[BatchSize(t)],
                                       out[BatchBytes(t)]>>
  BY <1>0, SeriesFacts DEF IInv, TypeOK, DrainUntagged
<1>3. Phase'
  BY DEF IInv, Phase, DrainUntagged, Draining
<1>4. Books'
  <2>1. \A t \in Topics : UNCHANGED <<Gone(BatchCount(t)), Gone(BatchSize(t)),
                                      Gone(BatchBytes(t))>>
    BY <1>2 DEF DrainUntagged, history, Gone
  <2>2. (\A t \in Topics :
           /\ seen[Batch(t)] = batchCount[t]
           /\ batchFlushed[t] = Gone(BatchCount(t))
           /\ batchCount[t] = batchSize[t] + Gone(BatchSize(t))
           /\ batchCount[t] = batchBytes[t] + Gone(BatchBytes(t)))'
    BY <2>1 DEF IInv, Books, DrainUntagged, history
  <2>3. (/\ seen[Dial] = dialCount
         /\ dialFlushed = Gone(DialCount)
         /\ dialCount = dialSeconds + Gone(DialSeconds)
         /\ seen[RW] = rwSeconds + Gone(RWSeconds)
         /\ seen[RW] = waitSeconds + Gone(WaitSeconds))'
    BY <1>0, <1>2, SeriesFacts, ClassFacts
       DEF IInv, TypeOK, Books, Agree, AgreeOut, DrainUntagged, history, Gone
  <2> QED
    BY <2>2, <2>3 DEF Books
<1>5. AgreeOut'
  BY <1>2, SeriesFacts DEF IInv, TypeOK, Phase, AgreeOut, DrainUntagged
<1>6. (Calls /\ LiveKeeps /\ Agree(emitted) /\ Agree(dropped))'
  BY <1>2 DEF IInv, DrainUntagged, vu, history, Calls, LiveKeeps, Agree, Gone, Nothing
<1> QED
  BY <1>1, <1>3, <1>4, <1>5, <1>6 DEF IInv

(* One topic's counter: its delta moves, and it counts as flushed. *)
LEMMA StepBatchCount ==
  ASSUME IInv, NEW t \in Topics, DrainBatchCount(t)
  PROVE  IInv'
<1>0. Delta(batchCount[t], batchFlushed[t]) = batchCount[t] - batchFlushed[t]
  BY SeriesFacts DEF IInv, TypeOK, Books, Agree, AgreeOut, Gone, Delta, DrainBatchCount
<1>1. TypeOK'
  BY <1>0, SeriesFacts DEF IInv, TypeOK, DrainBatchCount, vu, history, Delta
<1>2. /\ UNCHANGED <<out[DialCount], out[DialSeconds], out[RWSeconds],
                     out[WaitSeconds], out[CallSite]>>
      /\ \A u \in Topics :
           /\ UNCHANGED <<out[BatchSize(u)], out[BatchBytes(u)]>>
           /\ out'[BatchCount(u)] = IF u = t
                THEN out[BatchCount(u)] + (batchCount[t] - batchFlushed[t])
                ELSE out[BatchCount(u)]
  BY <1>0, SeriesFacts DEF IInv, TypeOK, DrainBatchCount
<1>3. Phase'
  BY DEF IInv, Phase, DrainBatchCount, Draining
<1>4. Books'
  <2>1. UNCHANGED <<seen, dialCount, dialFlushed, dialSeconds, rwSeconds,
                    waitSeconds, batchCount, batchSize, batchBytes, emitted,
                    dropped>>
    BY DEF DrainBatchCount, history
  <2>2. \A u \in Topics :
          /\ UNCHANGED <<Gone(BatchSize(u)), Gone(BatchBytes(u))>>
          /\ (batchFlushed[u] = Gone(BatchCount(u)))'
    BY <1>2, <2>1, SeriesFacts DEF IInv, TypeOK, Books, Gone, DrainBatchCount
  <2>3. UNCHANGED <<Gone(DialCount), Gone(DialSeconds), Gone(RWSeconds),
                    Gone(WaitSeconds)>>
    BY <1>2, <2>1 DEF Gone
  <2> QED
    BY <2>1, <2>2, <2>3 DEF IInv, Books
<1>5. AgreeOut'
  BY <1>2, SeriesFacts DEF IInv, TypeOK, AgreeOut, DrainBatchCount
<1>6. (Calls /\ LiveKeeps /\ Agree(emitted) /\ Agree(dropped))'
  BY <1>2 DEF IInv, DrainBatchCount, vu, history, Calls, LiveKeeps, Agree, Gone, Nothing
<1> QED
  BY <1>1, <1>3, <1>4, <1>5, <1>6 DEF IInv

(* The per-topic buffers: with every counter flushed, what they hold is what
   the counters were ahead by, so the flush agrees again. *)
LEMMA StepBatchTrends == IInv /\ DrainBatchTrends => IInv'
<1> SUFFICES ASSUME IInv, DrainBatchTrends PROVE IInv'
  OBVIOUS
<1>1. \A t \in Topics :
        /\ out'[BatchCount(t)] = out[BatchCount(t)]
        /\ out'[BatchSize(t)] = out[BatchSize(t)] + batchSize[t]
        /\ out'[BatchBytes(t)] = out[BatchBytes(t)] + batchBytes[t]
  BY SeriesFacts DEF IInv, TypeOK, DrainBatchTrends
<1>2. UNCHANGED <<out[DialCount], out[DialSeconds], out[RWSeconds],
                  out[WaitSeconds], out[CallSite]>>
  BY SeriesFacts DEF IInv, TypeOK, DrainBatchTrends
<1>3. TypeOK'
  <2>1. out' \in [Series -> Nat]
    <3> SUFFICES ASSUME NEW s \in Series PROVE out'[s] \in Nat
      BY DEF DrainBatchTrends
    <3>1. CASE s \in {BatchSize(t) : t \in Topics}
      BY <3>1, <1>1, SeriesFacts DEF IInv, TypeOK
    <3>2. CASE s \in {BatchBytes(t) : t \in Topics}
      BY <3>2, <1>1, SeriesFacts DEF IInv, TypeOK
    <3>3. CASE s \notin {BatchSize(t) : t \in Topics}
                 /\ s \notin {BatchBytes(t) : t \in Topics}
      BY <3>3 DEF IInv, TypeOK, DrainBatchTrends
    <3> QED
      BY <3>1, <3>2, <3>3
  <2> QED
    BY <2>1 DEF IInv, TypeOK, DrainBatchTrends, vu, history
<1>4. Phase'
  BY DEF IInv, Phase, DrainBatchTrends, Draining
<1>5. Books'
  <2>1. UNCHANGED <<seen, dialCount, dialFlushed, dialSeconds, rwSeconds,
                    waitSeconds, batchCount, batchFlushed, emitted, dropped>>
    BY DEF DrainBatchTrends, history
  <2>2. UNCHANGED <<Gone(DialCount), Gone(DialSeconds), Gone(RWSeconds),
                    Gone(WaitSeconds)>>
    BY <1>2, <2>1 DEF Gone
  <2>3. \A t \in Topics :
          /\ UNCHANGED Gone(BatchCount(t))
          /\ (batchCount[t] = batchSize[t] + Gone(BatchSize(t)))'
          /\ (batchCount[t] = batchBytes[t] + Gone(BatchBytes(t)))'
    BY <1>1, <2>1, SeriesFacts DEF IInv, TypeOK, Books, Gone, DrainBatchTrends
  <2> QED
    BY <2>1, <2>2, <2>3 DEF IInv, Books
<1>6. AgreeOut'
  <2>1. \A t \in Topics : batchFlushed[t] = batchCount[t]
    BY DEF IInv, AgreeOut, DrainBatchTrends
  <2>2. \A t \in Topics : /\ out[BatchCount(t)] = out[BatchSize(t)] + batchSize[t]
                          /\ batchSize[t] = batchBytes[t]
    <3> TAKE t \in Topics
    <3>1. /\ batchFlushed[t] = Gone(BatchCount(t))
          /\ batchCount[t] = batchSize[t] + Gone(BatchSize(t))
          /\ batchCount[t] = batchBytes[t] + Gone(BatchBytes(t))
      BY DEF IInv, Books
    <3>2. /\ emitted[BatchCount(t)] = emitted[BatchSize(t)]
          /\ emitted[BatchSize(t)] = emitted[BatchBytes(t)]
          /\ dropped[BatchCount(t)] = dropped[BatchSize(t)]
          /\ dropped[BatchSize(t)] = dropped[BatchBytes(t)]
          /\ out[BatchSize(t)] = out[BatchBytes(t)]
      BY DEF IInv, Agree, AgreeOut
    <3>3. /\ out[BatchCount(t)] \in Nat /\ out[BatchSize(t)] \in Nat
          /\ emitted[BatchSize(t)] \in Nat /\ dropped[BatchSize(t)] \in Nat
      BY SeriesFacts DEF IInv, TypeOK
    <3>4. batchSize[t] \in Nat /\ batchBytes[t] \in Nat
      BY DEF IInv, TypeOK
    <3> QED
      BY <2>1, <3>1, <3>2, <3>3, <3>4 DEF Gone
  <2>3. \A t \in Topics : /\ out'[BatchSize(t)] = out'[BatchBytes(t)]
                          /\ out'[BatchCount(t)] = out'[BatchSize(t)]
    BY <1>1, <2>2 DEF IInv, AgreeOut
  <2>4. pc' # "batches"
    BY DEF DrainBatchTrends
  <2> QED
    BY <1>2, <2>3, <2>4 DEF IInv, AgreeOut
<1>7. (Calls /\ LiveKeeps /\ Agree(emitted) /\ Agree(dropped))'
  BY <1>2 DEF IInv, DrainBatchTrends, vu, history, Calls, LiveKeeps, Agree, Gone, Nothing
<1> QED
  BY <1>3, <1>4, <1>5, <1>6, <1>7 DEF IInv

(* The push empties the flush into emitted or dropped, all series at once. *)
LEMMA StepPush == IInv /\ Push => IInv'
<1> SUFFICES ASSUME IInv, Push PROVE IInv'
  OBVIOUS
<1>1. \A s \in Series : out[s] \in Nat /\ emitted[s] \in Nat /\ dropped[s] \in Nat
  BY DEF IInv, TypeOK
<1>2. \A s \in Series : out'[s] = 0
  BY DEF Push, Nothing
<1>3. \/ /\ vuDone
         /\ UNCHANGED emitted
         /\ dropped' = [s \in Series |-> dropped[s] + out[s]]
      \/ /\ ~vuDone
         /\ UNCHANGED dropped
         /\ emitted' = [s \in Series |-> emitted[s] + out[s]]
  BY DEF Push, Plus
<1>4. TypeOK'
  BY <1>1, <1>3 DEF IInv, TypeOK, Push, Nothing, fields, vu
<1>5. Phase'
  BY DEF IInv, Phase, Push, Draining, Nothing
<1>6. \A s \in Series : UNCHANGED Gone(s)
  BY <1>1, <1>2, <1>3 DEF Gone
<1>7. Books' /\ Calls'
  BY <1>6, SeriesFacts DEF IInv, Books, Calls, Push, fields
<1>8. Agree(emitted)' /\ Agree(dropped)'
  <2>1. Agree(out)
    BY DEF IInv, AgreeOut, Agree, Push
  <2> QED
    BY <1>1, <1>3, <2>1, SeriesFacts DEF IInv, Agree
<1>9. AgreeOut'
  BY <1>2, SeriesFacts DEF AgreeOut, Push
<1>10. LiveKeeps'
  BY <1>3 DEF IInv, LiveKeeps, Push, vu, Nothing
<1> QED
  BY <1>4, <1>5, <1>7, <1>8, <1>9, <1>10 DEF IInv

(* Starting and cancelling the VU leave the collector alone. *)
LEMMA StepVU == IInv /\ (StartVU \/ CancelVU) => IInv'
<1> SUFFICES ASSUME IInv, StartVU \/ CancelVU PROVE IInv'
  OBVIOUS
<1>1. UNCHANGED <<role, mu, fields, flushing, history>>
  BY DEF StartVU, CancelVU
<1>2. TypeOK'
  BY <1>1 DEF IInv, TypeOK, StartVU, CancelVU, fields, flushing, history
<1>3. Phase' /\ Ledgers'
  BY <1>1 DEF IInv, Phase, Draining, StartVU, CancelVU, fields, flushing, history,
              Ledgers, Books, Calls, LiveKeeps, Agree, AgreeOut, Gone, Nothing
<1> QED
  BY <1>2, <1>3 DEF IInv, Ledgers

(* A stuttering step changes nothing the invariant reads. *)
LEMMA StepStutter == IInv /\ UNCHANGED vars => IInv'
  BY DEF IInv, TypeOK, Phase, Draining, Books, Calls, LiveKeeps, Agree, AgreeOut,
         Gone, Nothing, vars, fields, flushing, vu, history

(* IInv is inductive. *)
LEMMA NextIInv == IInv /\ [Next]_vars => IInv'
<1> SUFFICES ASSUME IInv, [Next]_vars PROVE IInv'
  OBVIOUS
<1>1. CASE Hooks
  BY <1>1, StepDial, StepRW, StepBatch
     DEF Hooks, OnProduceBatchWritten, OnFetchBatchRead
<1>2. CASE \E n \in 0..MaxCalled : Flush(n)
  BY <1>2, StepFlush, BoundsAssumption
<1>3. CASE FlushSteps
  BY <1>3, StepLock, StepUntagged, StepBatchCount, StepBatchTrends, StepPush
     DEF FlushSteps
<1>4. CASE StartVU \/ CancelVU
  BY <1>4, StepVU
<1>5. CASE UNCHANGED vars
  BY <1>5, StepStutter
<1> QED
  BY <1>1, <1>2, <1>3, <1>4, <1>5 DEF Next

(* The value of Buffered, series by series. *)
Unfolded ==
  /\ Buffered[DialCount] = dialCount - dialFlushed
  /\ Buffered[DialSeconds] = dialSeconds
  /\ Buffered[RWSeconds] = rwSeconds
  /\ Buffered[WaitSeconds] = waitSeconds
  /\ \A t \in Topics :
       /\ Buffered[BatchCount(t)] = batchCount[t] - batchFlushed[t]
       /\ Buffered[BatchSize(t)] = batchSize[t]
       /\ Buffered[BatchBytes(t)] = batchBytes[t]

(* The names of series do not clash, so the CASE of Buffered picks the field
   its name says. *)
LEMMA BufferedValues == Unfolded
<1>1. /\ Buffered[DialCount] = dialCount - dialFlushed
      /\ Buffered[DialSeconds] = dialSeconds
      /\ Buffered[RWSeconds] = rwSeconds
      /\ Buffered[WaitSeconds] = waitSeconds
  BY SeriesFacts DEF Buffered
<1>2. ASSUME NEW t \in Topics
      PROVE  Buffered[BatchCount(t)] = batchCount[t] - batchFlushed[t]
  BY SeriesFacts DEF Buffered
<1>3. ASSUME NEW t \in Topics
      PROVE  Buffered[BatchSize(t)] = batchSize[t]
  BY SeriesFacts DEF Buffered
<1>4. ASSUME NEW t \in Topics
      PROVE  Buffered[BatchBytes(t)] = batchBytes[t]
  BY SeriesFacts DEF Buffered
<1> QED
  BY <1>1, <1>2, <1>3, <1>4 DEF Unfolded

(* The series of each class. *)
LEMMA SeriesOfClass ==
  /\ SeriesOf(Dial) = {DialCount, DialSeconds}
  /\ SeriesOf(RW) = {RWSeconds, WaitSeconds}
  /\ \A t \in Topics : SeriesOf(Batch(t)) = {BatchCount(t), BatchSize(t), BatchBytes(t)}
  BY ClassFacts DEF SeriesOf, Batch

(* What the inductive invariant says of each property. *)
LEMMA IInvImplies == IInv => ExactlyOnce /\ ReportedTogether /\ CallSitesKept
<1> SUFFICES ASSUME IInv PROVE ExactlyOnce /\ ReportedTogether /\ CallSitesKept
  OBVIOUS
<1>1. \A s \in Series : /\ out[s] \in Nat /\ emitted[s] \in Nat /\ dropped[s] \in Nat
                        /\ ~vuDone => dropped[s] = 0
  BY DEF IInv, TypeOK, LiveKeeps, Nothing
<1>2. /\ Buffered[DialCount] = dialCount - dialFlushed
      /\ Buffered[DialSeconds] = dialSeconds
      /\ Buffered[RWSeconds] = rwSeconds
      /\ Buffered[WaitSeconds] = waitSeconds
      /\ \A t \in Topics :
           /\ Buffered[BatchCount(t)] = batchCount[t] - batchFlushed[t]
           /\ Buffered[BatchSize(t)] = batchSize[t]
           /\ Buffered[BatchBytes(t)] = batchBytes[t]
  BY BufferedValues DEF Unfolded
<1>3. /\ SeriesOf(Dial) = {DialCount, DialSeconds}
      /\ SeriesOf(RW) = {RWSeconds, WaitSeconds}
      /\ \A t \in Topics : SeriesOf(Batch(t)) = {BatchCount(t), BatchSize(t), BatchBytes(t)}
  BY SeriesOfClass
<1>4. \A c \in Classes : c = Dial \/ c = RW \/ \E t \in Topics : c = Batch(t)
  BY DEF Classes
<1>5. \A s \in Series :
        Gone(s) = out[s] + emitted[s] + (IF vuDone THEN dropped[s] ELSE 0)
  BY <1>1 DEF Gone
<1>6. ExactlyOnce
  <2>1. \A s \in SeriesOf(Dial) : seen[Dial] = Buffered[s] + Gone(s)
    BY <1>1, <1>2, <1>3, SeriesFacts DEF IInv, TypeOK, Books, Gone
  <2>2. \A s \in SeriesOf(RW) : seen[RW] = Buffered[s] + Gone(s)
    BY <1>1, <1>2, <1>3, SeriesFacts DEF IInv, TypeOK, Books, Gone
  <2>3. \A t \in Topics : \A s \in SeriesOf(Batch(t)) :
          seen[Batch(t)] = Buffered[s] + Gone(s)
    BY <1>1, <1>2, <1>3, SeriesFacts DEF IInv, TypeOK, Books, Gone
  <2>4. \A c \in Classes : \A s \in SeriesOf(c) : seen[c] = Buffered[s] + Gone(s)
    BY <1>4, <2>1, <2>2, <2>3
  <2>5. \A c \in Classes : \A s \in SeriesOf(c) : s \in Series /\ Buffered[s] \in Int
    <3>1. \A s \in SeriesOf(Dial) : s \in Series /\ Buffered[s] \in Int
      BY <1>2, <1>3, SeriesFacts DEF IInv, TypeOK
    <3>2. \A s \in SeriesOf(RW) : s \in Series /\ Buffered[s] \in Int
      BY <1>2, <1>3, SeriesFacts DEF IInv, TypeOK
    <3>3. \A t \in Topics : \A s \in SeriesOf(Batch(t)) :
            s \in Series /\ Buffered[s] \in Int
      BY <1>2, <1>3, SeriesFacts DEF IInv, TypeOK
    <3> QED
      BY <1>4, <3>1, <3>2, <3>3
  <2> QED
    BY <1>1, <1>5, <2>4, <2>5 DEF ExactlyOnce
<1>7. ReportedTogether
  BY <1>3, <1>4 DEF IInv, Agree, ReportedTogether
<1>8. CallSitesKept
  BY <1>5, SeriesFacts DEF IInv, Calls, CallSitesKept
<1> QED
  BY <1>6, <1>7, <1>8

(* IInv holds throughout. *)
LEMMA Invariance == Spec => []IInv
  BY InitIInv, NextIInv, PTL DEF Spec

-----------------------------------------------------------------------------
(* Every field keeps its type under every interleaving of hooks and flushes. *)
THEOREM CollectorTypeCorrect == Spec => []TypeOK
<1>1. IInv => TypeOK
  BY DEF IInv
<1> QED
  BY <1>1, Invariance, PTL

(* For any topics and bounds: each event counts exactly once on each of its
   series, in a field, in the flush at hand, pushed, or discarded at the VU's
   end. *)
THEOREM CollectorExact == Spec => []ExactlyOnce
  BY Invariance, IInvImplies, PTL

(* A counter never disagrees with its trends in what was emitted, although the
   drain takes them in different steps. *)
THEOREM CollectorReportedTogether == Spec => []ReportedTogether
  BY Invariance, IInvImplies, PTL

(* The call-site samples are kept until the VU context ends. *)
THEOREM CollectorCallSitesKept == Spec => []CallSitesKept
  BY Invariance, IInvImplies, PTL
=============================================================================
