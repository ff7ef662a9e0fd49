---------------------------- MODULE LedgerProofs ----------------------------
(* The collector implements the ledger: the drain, which walks field after
   field under the mutex, is one atomic taking of everything pending. *)
EXTENDS CollectorProofs

(* Once the untagged fields are drained they stay empty until the unlock. *)
Drained == pc = "batches" => dialSeconds = 0 /\ rwSeconds = 0 /\ waitSeconds = 0

(* Each hook series is one of the named ones, so a fact about all of them is
   shown name by name. *)
LEMMA SeriesCases ==
  ASSUME NEW s \in HookSeries
  PROVE  \/ s \in {DialCount, DialSeconds, RWSeconds, WaitSeconds}
         \/ \E t \in Topics : s \in {BatchCount(t), BatchSize(t), BatchBytes(t)}
  BY DEF HookSeries

(* The same in the next state. *)
LEMMA BufferedNext == Unfolded'
  BY BufferedValues, PTL

(* What is buffered is a number of units. *)
LEMMA BufferedType == TypeOK => \A s \in HookSeries : Buffered[s] \in Int
<1> SUFFICES ASSUME TypeOK, NEW s \in HookSeries PROVE Buffered[s] \in Int
  OBVIOUS
<1> QED
  BY SeriesCases, BufferedValues DEF Unfolded, TypeOK

(* A step that leaves fields, flush and history alone is a ledger stutter. *)
LEMMA SameLedger ==
  ASSUME UNCHANGED <<fields, pc, emitted, dropped, vuDone>>,
         \A s \in HookSeries : out'[s] = out[s]
  PROVE  UNCHANGED Ledger!vars
<1>1. Buffered' = Buffered /\ Draining' = Draining
  BY DEF fields, Buffered, Draining
<1> QED
  BY <1>1 DEF Ledger!vars

(* A hook outside the drain that adds a unit to each series of c is the
   ledger's event. *)
LEMMA EventOccurs ==
  ASSUME NEW c \in Classes, ~Draining,
         UNCHANGED <<flushing, emitted, dropped, vuDone>>,
         \A s \in HookSeries :
           Buffered'[s] = Buffered[s] + (IF s \in SeriesOf(c) THEN 1 ELSE 0)
  PROVE  Ledger!Next
<1>1. ~Draining'
  BY DEF Draining, flushing
<1>2. Ledger!Occur(SeriesOf(c))
  BY <1>1 DEF Ledger!Occur, Ledger!Plus, Ledger!One, flushing
<1> QED
  BY <1>2 DEF Ledger!Next

(* Each hook that counts is the event of its class; one that is filtered out
   is a stutter. *)
LEMMA HookSteps == IInv /\ Hooks => Ledger!Next \/ UNCHANGED Ledger!vars
<1> SUFFICES ASSUME IInv, Hooks PROVE Ledger!Next \/ UNCHANGED Ledger!vars
  OBVIOUS
<1>1. ASSUME NEW err \in BOOLEAN, OnBrokerConnect(err) PROVE Ledger!Next
  <2>1. ~Draining /\ UNCHANGED <<flushing, emitted, dropped, vuDone>>
    BY <1>1 DEF IInv, Phase, Draining, OnBrokerConnect, vu
  <2>2. \A s \in HookSeries :
          Buffered'[s] = Buffered[s] + (IF s \in SeriesOf(Dial) THEN 1 ELSE 0)
    BY <1>1, SeriesCases, SeriesFacts, SeriesOfClass, BufferedValues, BufferedNext, SMTT(30)
       DEF Unfolded, IInv, TypeOK, OnBrokerConnect
  <2> QED
    BY <2>1, <2>2, ClassFacts, EventOccurs
<1>2. ASSUME NEW key \in Keys, NEW err \in BOOLEAN,
             OnBrokerWrite(key, err) \/ OnBrokerRead(key, err)
      PROVE  Ledger!Next \/ UNCHANGED Ledger!vars
  <2>1. RecordRW(TRUE) \/ RecordRW(FALSE)
    BY <1>2 DEF IInv, TypeOK, Roles, OnBrokerWrite, OnBrokerRead, SkipsWrite, SkipsRead
  <2>2. CASE RecordRW(TRUE)
    BY <2>2, SameLedger DEF RecordRW, fields, flushing, vu
  <2>3. CASE RecordRW(FALSE)
    <3>1. ~Draining /\ UNCHANGED <<flushing, emitted, dropped, vuDone>>
      BY <2>3 DEF IInv, Phase, Draining, RecordRW, vu
    <3>2. \A s \in HookSeries :
            Buffered'[s] = Buffered[s] + (IF s \in SeriesOf(RW) THEN 1 ELSE 0)
      <4>1. \A s \in {DialCount, DialSeconds, RWSeconds, WaitSeconds} :
              Buffered'[s] = Buffered[s] + (IF s \in SeriesOf(RW) THEN 1 ELSE 0)
        BY <2>3, SeriesFacts, SeriesOfClass, BufferedValues, BufferedNext
           DEF Unfolded, IInv, TypeOK, RecordRW
      <4>2. ASSUME NEW u \in Topics, NEW s \in {BatchCount(u), BatchSize(u), BatchBytes(u)}
            PROVE  Buffered'[s] = Buffered[s] + (IF s \in SeriesOf(RW) THEN 1 ELSE 0)
        <5>1. s \notin SeriesOf(RW)
          BY SeriesFacts, SeriesOfClass
        <5> QED
          BY <2>3, <5>1, BufferedValues, BufferedNext DEF Unfolded, IInv, TypeOK, RecordRW
      <4> QED
        BY <4>1, <4>2, SeriesCases
    <3> QED
      BY <3>1, <3>2, ClassFacts, EventOccurs
  <2> QED
    BY <2>1, <2>2, <2>3
<1>3. ASSUME NEW t \in Topics, RecordBatch(t) PROVE Ledger!Next
  <2>1. ~Draining /\ UNCHANGED <<flushing, emitted, dropped, vuDone>>
    BY <1>3 DEF IInv, Phase, Draining, RecordBatch, vu
  <2>2. \A s \in HookSeries :
          Buffered'[s] = Buffered[s] + (IF s \in SeriesOf(Batch(t)) THEN 1 ELSE 0)
    <3>1. \A s \in {DialCount, DialSeconds, RWSeconds, WaitSeconds} :
            Buffered'[s] = Buffered[s] + (IF s \in SeriesOf(Batch(t)) THEN 1 ELSE 0)
      BY <1>3, SeriesFacts, SeriesOfClass, BufferedValues, BufferedNext
         DEF Unfolded, IInv, TypeOK, RecordBatch
    <3>2. ASSUME NEW u \in Topics, NEW s \in {BatchCount(u), BatchSize(u), BatchBytes(u)}
          PROVE  Buffered'[s] = Buffered[s] + (IF s \in SeriesOf(Batch(t)) THEN 1 ELSE 0)
      <4>1. s \in SeriesOf(Batch(t)) <=> u = t
        BY SeriesFacts, SeriesOfClass
      <4> QED
        BY <1>3, <4>1, BufferedValues, BufferedNext DEF Unfolded, IInv, TypeOK, RecordBatch
    <3> QED
      BY <3>1, <3>2, SeriesCases
  <2> QED
    BY <2>1, <2>2, ClassFacts, EventOccurs
<1> QED
  BY <1>1, <1>2, <1>3 DEF Hooks, OnProduceBatchWritten, OnFetchBatchRead

(* Locking the mutex takes everything pending. *)
LEMMA LockTakes == IInv /\ LockMu => Ledger!Take
<1> SUFFICES ASSUME IInv, LockMu PROVE Ledger!Take
  OBVIOUS
<1>1. ~Draining /\ Draining' /\ Buffered' = Buffered
      /\ UNCHANGED <<out, emitted, dropped, vuDone>>
  BY DEF LockMu, Draining, Buffered, fields, vu, history
<1>2. \A s \in HookSeries : out[s] = 0 /\ Buffered[s] \in Int
  BY BufferedType DEF IInv, Phase, LockMu
<1> QED
  BY <1>1, <1>2 DEF Ledger!Take, Ledger!None

(* Under the mutex a unit only moves from a field to the flush. *)
LEMMA DrainStutters ==
  ASSUME IInv, Draining, Draining', UNCHANGED <<emitted, dropped, vuDone>>,
         \A s \in HookSeries : (out[s] + Buffered[s])' = out[s] + Buffered[s]
  PROVE  UNCHANGED Ledger!vars
  BY DEF Ledger!vars

(* The untagged fields: the counter's delta and the buffers. *)
LEMMA UntaggedStutters == IInv /\ DrainUntagged => UNCHANGED Ledger!vars
<1> SUFFICES ASSUME IInv, DrainUntagged PROVE UNCHANGED Ledger!vars
  OBVIOUS
<1>0. Delta(dialCount, dialFlushed) = dialCount - dialFlushed
  BY SeriesFacts DEF IInv, TypeOK, Books, Agree, AgreeOut, Gone, Delta
<1>1. /\ out'[DialCount] = out[DialCount] + (dialCount - dialFlushed)
      /\ out'[DialSeconds] = out[DialSeconds] + dialSeconds
      /\ out'[RWSeconds] = out[RWSeconds] + rwSeconds
      /\ out'[WaitSeconds] = out[WaitSeconds] + waitSeconds
      /\ \A t \in Topics : UNCHANGED <<out[BatchCount(t)], out[BatchSize(t)],
                                       out[BatchBytes(t)]>>
  BY <1>0, SeriesFacts DEF IInv, TypeOK, DrainUntagged
<1>2. \A s \in Series : out[s] \in Nat
  BY DEF IInv, TypeOK
<1>3. \A s \in {DialCount, DialSeconds, RWSeconds, WaitSeconds} :
        (out[s] + Buffered[s])' = out[s] + Buffered[s]
  BY <1>1, <1>2, SeriesFacts, BufferedValues, BufferedNext
     DEF Unfolded, IInv, TypeOK, DrainUntagged
<1>4. ASSUME NEW t \in Topics
      PROVE  \A s \in {BatchCount(t), BatchSize(t), BatchBytes(t)} :
               (out[s] + Buffered[s])' = out[s] + Buffered[s]
  <2>1. UNCHANGED <<batchCount, batchFlushed, batchSize, batchBytes>>
    BY DEF DrainUntagged
  <2>2. UNCHANGED <<Buffered[BatchCount(t)], Buffered[BatchSize(t)], Buffered[BatchBytes(t)]>>
    BY <2>1, BufferedValues, BufferedNext DEF Unfolded
  <2> QED
    BY <1>1, <2>2
<1>5. \A s \in HookSeries : (out[s] + Buffered[s])' = out[s] + Buffered[s]
  BY <1>3, <1>4, SeriesCases
<1> QED
  BY <1>5, DrainStutters DEF Draining, DrainUntagged, vu, history

(* One topic's counter. *)
LEMMA CountStutters ==
  ASSUME IInv, NEW t \in Topics, DrainBatchCount(t)
  PROVE  UNCHANGED Ledger!vars
<1>0. Delta(batchCount[t], batchFlushed[t]) = batchCount[t] - batchFlushed[t]
  BY SeriesFacts DEF IInv, TypeOK, Books, Agree, AgreeOut, Gone, Delta, DrainBatchCount
<1>1. /\ UNCHANGED <<out[DialCount], out[DialSeconds], out[RWSeconds], out[WaitSeconds]>>
      /\ \A u \in Topics :
           /\ UNCHANGED <<out[BatchSize(u)], out[BatchBytes(u)]>>
           /\ out'[BatchCount(u)] = IF u = t
                THEN out[BatchCount(u)] + (batchCount[t] - batchFlushed[t])
                ELSE out[BatchCount(u)]
  BY <1>0, SeriesFacts DEF IInv, TypeOK, DrainBatchCount
<1>2. \A s \in {DialCount, DialSeconds, RWSeconds, WaitSeconds} :
        (out[s] + Buffered[s])' = out[s] + Buffered[s]
  BY <1>1, BufferedValues, BufferedNext DEF Unfolded, DrainBatchCount
<1>3. ASSUME NEW u \in Topics
      PROVE  \A s \in {BatchCount(u), BatchSize(u), BatchBytes(u)} :
               (out[s] + Buffered[s])' = out[s] + Buffered[s]
  <2>1. out[BatchCount(u)] \in Nat
    BY SeriesFacts DEF IInv, TypeOK
  <2>2. (out[BatchCount(u)] + Buffered[BatchCount(u)])'
          = out[BatchCount(u)] + Buffered[BatchCount(u)]
    BY <1>1, <2>1, BufferedValues, BufferedNext DEF Unfolded, IInv, TypeOK, DrainBatchCount
  <2> QED
    BY <1>1, <2>2, BufferedValues, BufferedNext DEF Unfolded, DrainBatchCount
<1>4. \A s \in HookSeries : (out[s] + Buffered[s])' = out[s] + Buffered[s]
  BY <1>2, <1>3, SeriesCases
<1> QED
  BY <1>4, DrainStutters DEF Draining, DrainBatchCount, vu, history

(* The trend buffers end the drain: nothing is left in any field. *)
LEMMA TrendsStutter == IInv /\ Drained /\ DrainBatchTrends => UNCHANGED Ledger!vars
<1> SUFFICES ASSUME IInv, Drained, DrainBatchTrends PROVE UNCHANGED Ledger!vars
  OBVIOUS
<1>1. \A t \in Topics :
        /\ out'[BatchCount(t)] = out[BatchCount(t)]
        /\ out'[BatchSize(t)] = out[BatchSize(t)] + batchSize[t]
        /\ out'[BatchBytes(t)] = out[BatchBytes(t)] + batchBytes[t]
  BY SeriesFacts DEF IInv, TypeOK, DrainBatchTrends
<1>2. UNCHANGED <<out[DialCount], out[DialSeconds], out[RWSeconds], out[WaitSeconds]>>
  BY SeriesFacts DEF IInv, TypeOK, DrainBatchTrends
<1>3. \A t \in Topics : batchFlushed[t] = batchCount[t]
  BY DEF IInv, AgreeOut, DrainBatchTrends
<1>4. dialCount = dialFlushed /\ dialSeconds = 0 /\ rwSeconds = 0 /\ waitSeconds = 0
  <2>1. dialSeconds = 0 /\ rwSeconds = 0 /\ waitSeconds = 0
    BY DEF Drained, DrainBatchTrends
  <2> QED
    BY <2>1, SeriesFacts DEF IInv, TypeOK, Books, Agree, AgreeOut, Gone
<1>5. \A s \in {DialCount, DialSeconds, RWSeconds, WaitSeconds} :
        Buffered'[s] = 0 /\ out'[s] = out[s] + Buffered[s]
  BY <1>2, <1>4, SeriesFacts, BufferedValues, BufferedNext
     DEF Unfolded, IInv, TypeOK, DrainBatchTrends
<1>6. \A t \in Topics : \A s \in {BatchCount(t), BatchSize(t), BatchBytes(t)} :
        Buffered'[s] = 0 /\ out'[s] = out[s] + Buffered[s]
  BY <1>1, <1>3, SeriesFacts, BufferedValues, BufferedNext
     DEF Unfolded, IInv, TypeOK, DrainBatchTrends
<1>7. \A s \in HookSeries : Buffered'[s] = 0 /\ out'[s] = out[s] + Buffered[s]
  BY <1>5, <1>6, SeriesCases
<1>8. Draining /\ ~Draining' /\ UNCHANGED <<emitted, dropped, vuDone>>
  BY DEF Draining, DrainBatchTrends, vu, history
<1> QED
  BY <1>7, <1>8 DEF Ledger!vars

(* A push reports the whole flush, or loses it once the VU context is done. *)
LEMMA PushReports == IInv /\ Push => Ledger!Report \/ Ledger!Lose
<1> SUFFICES ASSUME IInv, Push PROVE Ledger!Report \/ Ledger!Lose
  OBVIOUS
<1>1. ~Draining /\ ~Draining' /\ Buffered' = Buffered /\ vuDone' = vuDone
  BY DEF Push, Draining, Buffered, fields, vu
<1>2. \A s \in HookSeries : s \in Series /\ out'[s] = 0
  BY SeriesFacts DEF Push, Nothing
<1>3. CASE vuDone
  <2>1. emitted' = emitted /\ \A s \in Series : dropped'[s] = dropped[s] + out[s]
    BY <1>3 DEF Push, Plus
  <2>2. Ledger!Lose
    BY <1>1, <1>2, <1>3, <2>1 DEF Ledger!Lose, Ledger!Plus, Ledger!None
  <2> QED
    BY <2>2
<1>4. CASE ~vuDone
  <2>1. dropped' = dropped /\ \A s \in Series : emitted'[s] = emitted[s] + out[s]
    BY <1>4 DEF Push, Plus
  <2>2. Ledger!Report
    BY <1>1, <1>2, <1>4, <2>1 DEF Ledger!Report, Ledger!Plus, Ledger!None
  <2> QED
    BY <2>2
<1> QED
  BY <1>3, <1>4

(* No hook fills an untagged field between its drain and the unlock. *)
LEMMA DrainedKept == IInv /\ Drained /\ [Next]_vars => Drained'
<1> SUFFICES ASSUME IInv, Drained, [Next]_vars PROVE Drained'
  OBVIOUS
<1>1. CASE Hooks
  <2>1. mu = "free" /\ pc' = pc
    BY <1>1 DEF Hooks, OnBrokerConnect, OnBrokerWrite, OnBrokerRead, RecordRW,
                OnProduceBatchWritten, OnFetchBatchRead, RecordBatch, flushing
  <2> QED
    BY <2>1 DEF IInv, Phase, Draining, Drained
<1>2. CASE ~Hooks
  BY <1>2 DEF Next, Flush, FlushSteps, LockMu, DrainUntagged, DrainBatchCount,
              DrainBatchTrends, Push, StartVU, CancelVU, Drained, vars, fields, flushing
<1> QED
  BY <1>1, <1>2

(* The collector starts as the ledger does: nothing pending, nothing taken. *)
LEMMA InitLedger == Init => Ledger!Init /\ Drained
<1> SUFFICES ASSUME Init PROVE Ledger!Init /\ Drained
  OBVIOUS
<1>1. \A s \in {DialCount, DialSeconds, RWSeconds, WaitSeconds} : Buffered[s] = 0
  BY BufferedValues DEF Unfolded, Init
<1>2. \A t \in Topics : \A s \in {BatchCount(t), BatchSize(t), BatchBytes(t)} : Buffered[s] = 0
  BY BufferedValues DEF Unfolded, Init
<1>3. \A s \in HookSeries : Buffered[s] = 0 /\ out[s] = 0 /\ emitted[s] = 0 /\ dropped[s] = 0
  <2>1. \A s \in HookSeries : Buffered[s] = 0
    BY <1>1, <1>2, SeriesCases
  <2>2. HookSeries \subseteq Series
    BY SeriesFacts
  <2>3. \A s \in Series : out[s] = 0 /\ emitted[s] = 0 /\ dropped[s] = 0
    BY DEF Init, Nothing
  <2> QED BY <2>1, <2>2, <2>3
<1>4. ~Draining /\ Drained /\ vuDone = FALSE
  BY DEF Init, Draining, Drained
<1> QED
  BY <1>3, <1>4 DEF Ledger!Init, Ledger!None

(* Every step of the collector is one of the ledger or a stutter. *)
LEMMA NextLedger == IInv /\ Drained /\ [Next]_vars => [Ledger!Next]_(Ledger!vars)
<1> SUFFICES ASSUME IInv, Drained, [Next]_vars PROVE Ledger!Next \/ UNCHANGED Ledger!vars
  OBVIOUS
<1>1. CASE Hooks
  BY <1>1, HookSteps
<1>2. ASSUME NEW n \in 0..MaxCalled, Flush(n) PROVE UNCHANGED Ledger!vars
  <2>1. \A s \in HookSeries : out'[s] = out[s]
    BY <1>2, SeriesFacts DEF Flush, IInv, TypeOK
  <2>2. Draining' = Draining /\ Buffered' = Buffered /\ UNCHANGED <<emitted, dropped, vuDone>>
    BY <1>2 DEF Flush, Draining, Buffered, fields, vu
  <2> QED
    BY <2>1, <2>2 DEF Ledger!vars
<1>3. CASE FlushSteps
  BY <1>3, LockTakes, UntaggedStutters, CountStutters, TrendsStutter, PushReports
     DEF FlushSteps, Ledger!Next
<1>4. CASE StartVU
  BY <1>4, SameLedger DEF StartVU, flushing, history
<1>5. CASE CancelVU
  <2>1. Draining' = Draining /\ Buffered' = Buffered /\ UNCHANGED <<out, emitted, dropped>>
    BY <1>5 DEF CancelVU, Draining, Buffered, fields, flushing, history
  <2>2. Ledger!End
    BY <1>5, <2>1 DEF CancelVU, Ledger!End
  <2> QED
    BY <2>2 DEF Ledger!Next
<1>6. CASE UNCHANGED vars
  BY <1>6, SameLedger DEF vars, flushing, vu, history
<1> QED
  BY <1>1, <1>2, <1>3, <1>4, <1>5, <1>6 DEF Next

(* For any topics: whatever the hooks do while a flush walks the fields, k6
   sees a collector whose flush takes everything pending in one step, and
   reports it as a whole or, after the VU's end, loses it as a whole. *)
THEOREM CollectorImplementsLedger == Spec => ImplementsLedger
<1>1. Init => IInv /\ Drained /\ Ledger!Init
  BY InitIInv, InitLedger
<1>2. IInv /\ Drained /\ [Next]_vars
        => (IInv /\ Drained)' /\ [Ledger!Next]_(Ledger!vars)
  BY NextIInv, DrainedKept, NextLedger
<1> QED
  BY <1>1, <1>2, PTL DEF Spec, ImplementsLedger, Ledger!Spec
=============================================================================
