---------------------------- MODULE WriterProofs ----------------------------
(* The writer's accounting, proved for any records, topics and settings. *)
EXTENDS Writer, FiniteSetTheorems, TLAPS

(* Records outside the call at hand, by how they ended. *)
Acked(t) == {r \in Records \ batch : status[r] = "ok" /\ ProduceTopic(r) = t}
Lost     == {r \in Records \ batch : status[r] = "failed"}

(* Before the writer is opened nothing has happened. *)
Fresh ==
  pc = "unopened" =>
    /\ batch = {}
    /\ \A r \in Records :
         status[r] = "new" /\ tries[r] = 0 /\ wire[r] = 0 /\ written[r] = 0

(* Where retries are limited, a record that has no result has not used them up. *)
Retries ==
  maxAttempts # Unset =>
    \A r \in Records : status[r] \in {"new", "buffered", "sent"} => tries[r] <= maxAttempts

(* Full acks mean an idempotent producer, and that one copy at most. *)
Idempotence ==
  /\ acks = -1 => idempotent
  /\ idempotent => \A r \in Records : written[r] <= 1

(* Only a running call has records without result, and a failed record is in
   it or in a call that threw. *)
Settled ==
  /\ pc # "producing" => batch = {}
  /\ \A r \in Records :
       /\ Unsettled(r) => r \in batch
       /\ r \in batch => status[r] # "new"
       /\ status[r] = "failed" => r \in batch \cup threw

(* An answer, and with acks a result, comes only after the write. *)
AckedIsWritten ==
  \A r \in Records :
    /\ answered[r] => written[r] > 0
    /\ acks # 0 /\ status[r] = "ok" => written[r] > 0

(* The counters are those of the finished calls, up to the end of the VU. *)
Counts ==
  /\ \A t \in Topics \cup {NoTopic} :
       /\ counted[t] <= Cardinality(Acked(t))
       /\ ~vuDone => counted[t] = Cardinality(Acked(t))
  /\ ~vuDone => errors = Cardinality(Lost)

IInv == /\ TypeOK /\ Fresh /\ Retries /\ Idempotence /\ Settled
        /\ AckedIsWritten /\ Counts

-----------------------------------------------------------------------------
(* Before anything is produced every set of records is empty. *)
LEMMA InitIInv == Init => IInv
<1> SUFFICES ASSUME Init PROVE IInv
  OBVIOUS
<1>1. TypeOK
  <2>1. /\ pc \in {"unopened", "idle", "producing", "flushing", "closing", "closed"}
        /\ vuState \in BOOLEAN /\ vuDone \in BOOLEAN
        /\ defaultTopic \in Topics \cup {NoTopic}
        /\ idempotent \in BOOLEAN /\ batch \subseteq Records /\ threw \subseteq Records
        /\ answered \in [Records -> BOOLEAN]
    BY Zenon DEF Init
  <2>2. acks \in {-1, 0, 1} /\ errors \in Nat
    BY DEF Init
  <2>3. /\ maxAttempts = Unset
        /\ tries \in [Records -> Nat]
        /\ wire \in [Records -> Nat] /\ written \in [Records -> Nat]
        /\ counted \in [Topics \cup {NoTopic} -> Nat]
    BY AttemptsAssumption DEF Init
  <2>4. status \in [Records -> {"new", "buffered", "sent", "ok", "failed"}]
    BY DEF Init
  <2> QED
    BY <2>1, <2>2, <2>3, <2>4 DEF TypeOK
<1>2. Fresh /\ Retries /\ Idempotence /\ Settled /\ AckedIsWritten
  BY AttemptsAssumption
     DEF Init, Fresh, Retries, Idempotence, Settled, AckedIsWritten, Unsettled
<1>3. Counts
  <2>1. \A t : Acked(t) = {} /\ Lost = {}
    BY DEF Init, Acked, Lost
  <2> QED
    BY <2>1, FS_EmptySet DEF Init, Counts
<1> QED
  BY <1>1, <1>2, <1>3 DEF IInv

(* The records of a finished call join those of earlier ones: their numbers
   add up. *)
LEMMA DisjointUnion ==
  ASSUME NEW S, NEW T, IsFiniteSet(S), IsFiniteSet(T), S \cap T = {}
  PROVE  /\ Cardinality(S \cup T) = Cardinality(S) + Cardinality(T)
         /\ Cardinality(S) \in Nat /\ Cardinality(T) \in Nat
<1>1. Cardinality(S) \in Nat /\ Cardinality(T) \in Nat
  BY FS_CardinalityType
<1>2. Cardinality(S \cup T) = Cardinality(S) + Cardinality(T) - Cardinality(S \cap T)
  BY FS_Union
<1>3. Cardinality(S \cap T) = 0
  BY FS_EmptySet
<1> QED
  BY <1>1, <1>2, <1>3

(* A step that leaves the finished records and the counters alone keeps the
   counts; the VU may only end. *)
LEMMA CountsKept ==
  ASSUME Counts, UNCHANGED <<counted, errors>>, vuDone => vuDone',
         \A t : Acked(t)' = Acked(t), Lost' = Lost
  PROVE  Counts'
  BY DEF Counts

(* A change of one record of the call at hand leaves the finished ones alone. *)
LEMMA OthersKept ==
  ASSUME NEW r \in batch, NEW s, TypeOK, UNCHANGED <<batch, defaultTopic>>,
         status' = [status EXCEPT ![r] = s]
  PROVE  /\ \A t : Acked(t)' = Acked(t)
         /\ Lost' = Lost
<1>1. \A q \in Records \ batch : status'[q] = status[q]
  BY DEF TypeOK
<1>2. \A q : ProduceTopic(q)' = ProduceTopic(q)
  BY DEF ProduceTopic
<1> QED
  BY <1>1, <1>2 DEF Acked, Lost

(* Opening: acksFromInt keeps acks in range, and weaker acks alone switch the
   idempotent producer off. *)
LEMMA StepOpen ==
  ASSUME IInv, NEW n \in AckSettings, NEW topic \in DefaultTopics,
         NEW attempts \in AttemptSettings, Open(n, topic, attempts)
  PROVE  IInv'
<1>8. maxAttempts' = Unset \/ maxAttempts' \in Nat
  BY AttemptsAssumption DEF Open, ValidAttempts
<1>9. \A r \in Records : tries'[r] = 0
  BY DEF IInv, Fresh, Open
<1>1. TypeOK'
  <2>1. maxAttempts' # Unset => \A r \in Records : tries'[r] <= maxAttempts' + 1
    BY <1>8, <1>9
  <2> QED
    BY <1>8, <2>1, TopicAssumption DEF IInv, TypeOK, Open, ValidAcks, vu, network, history
<1>10. Retries'
  BY <1>8, <1>9 DEF Retries
<1>2. (Fresh /\ Settled)'
  BY DEF IInv, Fresh, Settled, Unsettled, Open, vu, network, history
<1>3. Idempotence'
  <2>1. acks' = -1 => idempotent'
    BY DEF Open, DisablesIdempotence
  <2>2. \A r \in Records : written'[r] <= 1
    BY DEF IInv, Fresh, Open, network
  <2> QED
    BY <2>1, <2>2 DEF Idempotence
<1>7. AckedIsWritten'
  BY DEF IInv, Fresh, AckedIsWritten, Open, network
<1>4. \A t : Acked(t)' = Acked(t)
  BY DEF IInv, Fresh, Acked, Open
<1>5. Lost' = Lost
  BY DEF Lost, Open
<1>6. Counts'
  BY <1>4, <1>5, CountsKept DEF IInv, Open, vu, history
<1> QED
  BY <1>1, <1>2, <1>3, <1>6, <1>7, <1>10 DEF IInv

(* A call starts with records that have no result yet. *)
LEMMA StepProduce ==
  ASSUME IInv, NEW rs \in SUBSET Records, Produce(rs)
  PROVE  IInv'
<1>1. TypeOK'
  BY DEF IInv, TypeOK, Produce, vu, network, history
<1>2. (Fresh /\ Idempotence)'
  BY DEF IInv, Fresh, Idempotence, Produce, network
<1>3. Retries' /\ AckedIsWritten'
  BY DEF IInv, TypeOK, Retries, AckedIsWritten, Produce, network
<1>4. Settled'
  BY DEF IInv, TypeOK, Settled, Unsettled, Produce, history
<1>5. \A t : Acked(t)' = Acked(t)
  BY DEF IInv, TypeOK, Settled, Acked, Produce, ProduceTopic
<1>6. Lost' = Lost
  BY DEF IInv, TypeOK, Settled, Lost, Produce
<1>7. Counts'
  BY <1>5, <1>6, CountsKept DEF IInv, Produce, vu, history
<1> QED
  BY <1>1, <1>2, <1>3, <1>4, <1>7 DEF IInv

(* The records of the call join the finished ones, and exactly they are added
   to the counters. *)
LEMMA StepFinish == IInv /\ Finish => IInv'
<1> SUFFICES ASSUME IInv, Finish PROVE IInv'
  OBVIOUS
<1>1. batch' = {} /\ status' = status /\ defaultTopic' = defaultTopic
  BY DEF Finish, client
<1>2. \A r \in batch : status[r] = "ok" \/ status[r] = "failed"
  BY DEF IInv, TypeOK, Settled, Finish, AllResolved, Unsettled
<1>3. IsFiniteSet(batch) /\ batch \subseteq Records
  BY RecordsAssumption, FS_Subset DEF IInv, TypeOK
<1>4. ASSUME NEW t
      PROVE  /\ Cardinality(Acked(t)') =
                  Cardinality(Acked(t)) + Cardinality({r \in Succeeded : CountTopic(r) = t})
             /\ Cardinality({r \in Succeeded : CountTopic(r) = t}) \in Nat
             /\ Cardinality(Acked(t)) \in Nat
  <2> DEFINE N == {r \in Succeeded : CountTopic(r) = t}
  <2>1. Acked(t)' = Acked(t) \cup N /\ Acked(t) \cap N = {}
    BY <1>1, <1>3 DEF Acked, Succeeded, CountTopic, ProduceTopic
  <2>2. IsFiniteSet(Acked(t)) /\ IsFiniteSet(N)
    <3>1. Acked(t) \subseteq Records /\ N \subseteq Records
      BY <1>3 DEF Acked, Succeeded
    <3> QED
      BY <3>1, RecordsAssumption, FS_Subset
  <2> QED
    BY <2>1, <2>2, DisjointUnion
<1>5. /\ Cardinality(Lost') = Cardinality(Lost) + Cardinality(Failed)
      /\ Cardinality(Failed) \in Nat /\ Cardinality(Lost) \in Nat
  <2>1. Lost' = Lost \cup Failed /\ Lost \cap Failed = {}
    BY <1>1, <1>2, <1>3 DEF Lost, Failed, Succeeded
  <2>2. IsFiniteSet(Lost) /\ IsFiniteSet(Failed)
    <3>1. Lost \subseteq Records /\ Failed \subseteq Records
      BY <1>3 DEF Lost, Failed
    <3> QED
      BY <3>1, RecordsAssumption, FS_Subset
  <2> QED
    BY <2>1, <2>2, DisjointUnion
<1>6. Counts'
  <2>1. CASE vuDone
    <3>1. counted' = counted /\ vuDone'
      BY <2>1 DEF Finish, vu
    <3>2. ASSUME NEW t \in Topics \cup {NoTopic}
          PROVE  counted[t] <= Cardinality(Acked(t)')
      <4>1. counted[t] \in Nat /\ counted[t] <= Cardinality(Acked(t))
        BY DEF IInv, TypeOK, Counts
      <4> DEFINE n == Cardinality({r \in Succeeded : CountTopic(r) = t})
      <4>2. /\ Cardinality(Acked(t)') = Cardinality(Acked(t)) + n
            /\ n \in Nat /\ Cardinality(Acked(t)) \in Nat
        BY <1>4
      <4> HIDE DEF n
      <4> QED
        BY <4>1, <4>2
    <3> QED
      BY <3>1, <3>2 DEF Counts
  <2>2. CASE ~vuDone
    BY <1>4, <1>5, <2>2 DEF IInv, TypeOK, Counts, Finish, vu
  <2> QED
    BY <2>1, <2>2
<1>7. TypeOK'
  <2>1. counted' \in [Topics \cup {NoTopic} -> Nat]
    <3> DEFINE n(t) == Cardinality({r \in Succeeded : CountTopic(r) = t})
    <3>1. counted \in [Topics \cup {NoTopic} -> Nat]
      BY DEF IInv, TypeOK
    <3>2. \A t : n(t) \in Nat
      BY <1>4
    <3>3. counted' = IF vuDone THEN counted
                     ELSE [t \in Topics \cup {NoTopic} |-> counted[t] + n(t)]
      BY <3>1 DEF Finish
    <3> HIDE DEF n
    <3> QED
      BY <3>1, <3>2, <3>3
  <2>2. errors' \in Nat
    BY <1>5 DEF IInv, TypeOK, Finish
  <2> QED
    BY <2>1, <2>2 DEF IInv, TypeOK, Finish, vu, client, network
<1>8. (Fresh /\ Retries /\ Idempotence /\ AckedIsWritten)'
  BY DEF IInv, Fresh, Retries, Idempotence, AckedIsWritten, Finish, client, network
<1>9. Settled'
  BY <1>1, <1>2 DEF IInv, TypeOK, Settled, Unsettled, Finish, AllResolved, Failed, Succeeded
<1> QED
  BY <1>6, <1>7, <1>8, <1>9 DEF IInv

(* Closing and the VU's life change no record: what is left unsettled when the
   client closes is nothing. *)
LEMMA StepRest ==
  IInv /\ (Close \/ FlushClient \/ CloseClient \/ StartVU \/ CancelVU) => IInv'
<1> SUFFICES ASSUME IInv, Close \/ FlushClient \/ CloseClient \/ StartVU \/ CancelVU
             PROVE  IInv'
  OBVIOUS
<1>1. status' = status
  <2>1. CASE CloseClient
    <3>1. \A r \in Records : ~Unsettled(r)
      BY <2>1 DEF IInv, Settled, CloseClient
    <3> QED
      BY <2>1, <3>1 DEF CloseClient, IInv, TypeOK
  <2> QED
    BY <2>1 DEF Close, FlushClient, StartVU, CancelVU, client
<1>2. /\ UNCHANGED <<batch, acks, defaultTopic, idempotent, maxAttempts, tries, wire, written, answered,
                     counted, errors, threw>>
      /\ pc' = pc \/ (pc \notin {"unopened", "producing"}
                      /\ pc' \in {"flushing", "closing", "closed"})
      /\ vuDone => vuDone'
  BY DEF Close, FlushClient, CloseClient, StartVU, CancelVU, client, network, history, vu
<1>3. TypeOK'
  <2>1. vuState' \in BOOLEAN /\ vuDone' \in BOOLEAN
    BY DEF IInv, TypeOK, Close, FlushClient, CloseClient, StartVU, CancelVU, vu
  <2> QED
    BY <1>1, <1>2, <2>1 DEF IInv, TypeOK
<1>4. (Fresh /\ Retries /\ Idempotence /\ AckedIsWritten)'
  BY <1>1, <1>2 DEF IInv, Fresh, Retries, Idempotence, AckedIsWritten
<1>5. Settled'
  BY <1>1, <1>2 DEF IInv, Settled, Unsettled
<1>6. Counts'
  BY <1>1, <1>2, CountsKept DEF IInv, Acked, Lost, ProduceTopic
<1> QED
  BY <1>3, <1>4, <1>5, <1>6 DEF IInv

(* The client's steps move one record of the call at hand: to "ok" only after
   an answer, or without acks; back to "buffered" only with a retry left. *)
LEMMA StepClient ==
  ASSUME IInv, NEW r \in Records,
         Send(r) \/ Acknowledge(r) \/ GiveUpAttempt(r) \/ FailCancelled(r) \/ UnknownTopic(r)
  PROVE  IInv'
<1>1. PICK s \in {"buffered", "sent", "ok", "failed"} : status' = [status EXCEPT ![r] = s]
  BY DEF Send, Acknowledge, GiveUpAttempt, FailCancelled, UnknownTopic
<1>2. r \in batch /\ Unsettled(r)
  BY DEF IInv, Settled, Unsettled, Send, Acknowledge, GiveUpAttempt, FailCancelled, UnknownTopic
<1>3. UNCHANGED <<pc, vu, batch, acks, defaultTopic, idempotent, maxAttempts, written, answered,
                  history>>
  BY DEF Send, Acknowledge, GiveUpAttempt, FailCancelled, UnknownTopic, network
<1>4. /\ tries' \in [Records -> Nat]
      /\ maxAttempts # Unset => \A q \in Records : tries'[q] <= maxAttempts + 1
      /\ wire' \in [Records -> Nat]
      /\ Retries'
  <2>1. CASE Send(r)
    BY <1>3, <2>1 DEF IInv, TypeOK, Retries, Send
  <2>2. CASE GiveUpAttempt(r)
    <3>1. CASE maxAttempts = Unset
      BY <1>3, <2>2, <3>1 DEF IInv, TypeOK, Retries, GiveUpAttempt, network
    <3>2. CASE maxAttempts # Unset
      <4>1. tries[r] <= maxAttempts /\ maxAttempts \in Nat
        BY <1>2, <3>2 DEF IInv, TypeOK, Retries, Unsettled
      <4>2. tries' = [tries EXCEPT ![r] = tries[r] + 1] /\ wire' = wire
        BY <2>2, <3>2 DEF GiveUpAttempt, network
      <4>3. status'[r] \in {"new", "buffered", "sent"} => tries[r] < maxAttempts
        BY <2>2, <3>2 DEF IInv, TypeOK, GiveUpAttempt, MayRetry
      <4>4. \A q \in Records \ {r} : status'[q] = status[q]
        BY <2>2 DEF IInv, TypeOK, GiveUpAttempt
      <4> QED
        BY <1>3, <3>2, <4>1, <4>2, <4>3, <4>4 DEF IInv, TypeOK, Retries
    <3> QED
      BY <3>1, <3>2
  <2>3. CASE Acknowledge(r) \/ FailCancelled(r) \/ UnknownTopic(r)
    BY <1>3, <2>3 DEF IInv, TypeOK, Retries, Acknowledge, FailCancelled, UnknownTopic, network
  <2> QED
    BY <2>1, <2>2, <2>3
<1>5. TypeOK'
  <2>1. status' \in [Records -> {"new", "buffered", "sent", "ok", "failed"}]
    BY <1>1 DEF IInv, TypeOK
  <2> QED
    BY <1>3, <1>4, <2>1 DEF IInv, TypeOK, vu, history
<1>6. Fresh' /\ Idempotence'
  BY <1>2, <1>3 DEF IInv, Fresh, Idempotence
<1>7. Settled'
  BY <1>1, <1>2, <1>3 DEF IInv, TypeOK, Settled, Unsettled, history
<1>8. AckedIsWritten'
  <2>1. ASSUME acks # 0, s = "ok" PROVE answered[r] \/ status[r] = "ok"
    BY <1>1, <2>1 DEF IInv, TypeOK, Send, Acknowledge, GiveUpAttempt, FailCancelled, UnknownTopic
  <2> QED
    BY <1>1, <1>3, <2>1 DEF IInv, TypeOK, AckedIsWritten
<1>9. Counts'
  BY <1>1, <1>2, <1>3, OthersKept, CountsKept DEF IInv, vu, history
<1> QED
  BY <1>4, <1>5, <1>6, <1>7, <1>8, <1>9 DEF IInv

(* The broker writes what an idempotent producer sends once, and answers only
   after the write. *)
LEMMA StepBroker ==
  ASSUME IInv, NEW r \in Records, BrokerWrite(r) \/ RequestLost(r)
  PROVE  IInv'
<1>1. UNCHANGED <<pc, vu, batch, acks, defaultTopic, idempotent, maxAttempts, status, tries,
                  history>>
  BY DEF BrokerWrite, RequestLost, client
<1>2. /\ wire' \in [Records -> Nat]
      /\ written' \in [Records -> Nat]
      /\ \A q \in Records : written'[q] >= written[q]
  BY DEF IInv, TypeOK, BrokerWrite, RequestLost
<1>3. answered' \in [Records -> BOOLEAN]
  BY DEF IInv, TypeOK, BrokerWrite, RequestLost
<1>4. TypeOK'
  BY <1>1, <1>2, <1>3 DEF IInv, TypeOK, vu, history
<1>5. pc # "unopened"
  BY DEF IInv, Fresh, BrokerWrite, RequestLost
<1>6. Fresh' /\ Retries' /\ Settled'
  BY <1>1, <1>5 DEF IInv, Fresh, Retries, Settled, Unsettled, history
<1>7. Idempotence'
  <2>1. ASSUME idempotent PROVE \A q \in Records : written'[q] <= 1
    BY <2>1 DEF IInv, TypeOK, Idempotence, BrokerWrite, RequestLost
  <2> QED
    BY <1>1, <2>1 DEF IInv, Idempotence
<1>8. AckedIsWritten'
  <2>1. \A q \in Records : answered'[q] => written'[q] > 0
    BY DEF IInv, TypeOK, AckedIsWritten, BrokerWrite, RequestLost
  <2>2. \A q \in Records : written[q] > 0 => written'[q] > 0
    BY <1>2 DEF IInv, TypeOK
  <2> QED
    BY <1>1, <2>1, <2>2 DEF IInv, AckedIsWritten
<1>9. Counts'
  BY <1>1, CountsKept DEF IInv, Acked, Lost, ProduceTopic, vu, history
<1> QED
  BY <1>4, <1>6, <1>7, <1>8, <1>9 DEF IInv

(* Every step of the writer, its client and the broker keeps the invariant. *)
LEMMA NextIInv == IInv /\ [Next]_vars => IInv'
<1> SUFFICES ASSUME IInv, [Next]_vars PROVE IInv'
  OBVIOUS
<1>1. CASE Next
  BY <1>1, StepOpen, StepProduce, StepFinish, StepRest, StepClient, StepBroker
     DEF Next, CallStep, ClientStep
<1>2. CASE UNCHANGED vars
  <2>1. UNCHANGED <<pc, vuState, vuDone, acks, defaultTopic, idempotent, maxAttempts, batch, status, tries,
                    wire, written, answered, counted, errors, threw>>
    BY <1>2 DEF vars, vu, client, network, history
  <2>2. (TypeOK /\ Fresh /\ Retries /\ Idempotence /\ Settled /\ AckedIsWritten)'
    BY <2>1 DEF IInv, TypeOK, Fresh, Retries, Idempotence, Settled, Unsettled, AckedIsWritten
  <2>3. Counts'
    BY <2>1, CountsKept DEF IInv, Acked, Lost, ProduceTopic
  <2> QED
    BY <2>2, <2>3 DEF IInv
<1> QED
  BY <1>1, <1>2

(* The invariant holds throughout. *)
LEMMA Invariance == Spec => []IInv
  BY InitIInv, NextIInv, PTL DEF Spec

-----------------------------------------------------------------------------
(* The writer's state has its types: in particular no record fails more than
   maxAttempts + 1 attempts where maxAttempts is set (producer.go:111). *)
THEOREM WriterTypeOK == Spec => []TypeOK
<1>1. IInv => TypeOK
  BY DEF IInv
<1> QED
  BY <1>1, Invariance, PTL

(* With acks from all replicas no message is in its topic's log twice, however
   often it is retried and however late an attempt arrives. *)
THEOREM WriterNoDuplicates == Spec => []NoDuplicates
<1>1. IInv => NoDuplicates
  BY DEF IInv, Idempotence, NoDuplicates
<1> QED
  BY <1>1, Invariance, PTL

(* produce returns with a result for every record, and throws if one failed. *)
THEOREM WriterSettledOnReturn == Spec => []SettledOnReturn
<1>1. IInv => SettledOnReturn
  BY DEF IInv, Settled, SettledOnReturn
<1> QED
  BY <1>1, Invariance, PTL

(* With acks, what a topic's message count shows is in that topic's log. *)
THEOREM WriterCountedIsWritten == Spec => []CountedIsWritten
<1>1. IInv => CountedIsWritten
  <2> SUFFICES ASSUME IInv, acks # 0, NEW t \in Topics
               PROVE  counted[t] <=
                        Cardinality({r \in Records : ProduceTopic(r) = t /\ written[r] > 0})
    BY DEF CountedIsWritten
  <2> DEFINE W == {r \in Records : ProduceTopic(r) = t /\ written[r] > 0}
  <2>1. Acked(t) \subseteq W
    BY DEF IInv, AckedIsWritten, Acked
  <2>2. IsFiniteSet(W) /\ IsFiniteSet(Acked(t))
    <3>1. W \subseteq Records /\ Acked(t) \subseteq Records
      BY DEF Acked
    <3> QED
      BY <3>1, RecordsAssumption, FS_Subset
  <2>3. counted[t] \in Nat /\ counted[t] <= Cardinality(Acked(t))
    BY DEF IInv, TypeOK, Counts
  <2>4. Cardinality(Acked(t)) <= Cardinality(W)
    BY <2>1, <2>2, FS_Subset
  <2>5. Cardinality(Acked(t)) \in Nat /\ Cardinality(W) \in Nat
    BY <2>2, FS_CardinalityType
  <2> HIDE DEF W
  <2> QED
    BY <2>3, <2>4, <2>5 DEF W
<1> QED
  BY <1>1, Invariance, PTL

(* While the VU runs, each record of a finished call is counted once, as a
   message of its topic or as an error. *)
THEOREM WriterAllCounted == Spec => []AllCounted
<1>1. IInv => AllCounted
  <2> SUFFICES ASSUME IInv, ~vuDone, pc = "idle"
               PROVE  /\ errors = Cardinality({r \in Records : status[r] = "failed"})
                      /\ \A t \in Topics : counted[t] =
                           Cardinality({r \in Records : status[r] = "ok" /\ ProduceTopic(r) = t})
    BY DEF AllCounted
  <2>1. batch = {}
    BY DEF IInv, Settled
  <2>2. Lost = {r \in Records : status[r] = "failed"}
    BY <2>1 DEF Lost
  <2>3. \A t : Acked(t) = {r \in Records : status[r] = "ok" /\ ProduceTopic(r) = t}
    BY <2>1 DEF Acked
  <2>4. errors = Cardinality(Lost) /\ \A t \in Topics : counted[t] = Cardinality(Acked(t))
    BY DEF IInv, Counts
  <2> QED
    BY <2>2, <2>3, <2>4
<1> QED
  BY <1>1, Invariance, PTL
=============================================================================
