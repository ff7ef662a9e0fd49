------------------------------- MODULE Writer -------------------------------
(***************************************************************************)
(* Writer (src/pkg/kafka/producer.go): open, produce and close of one       *)
(* writer, over the franz-go producer and a broker modelled from how the    *)
(* code uses them.  A request may be lost, its answer may be lost or late,  *)
(* and the client retries, up to maxAttempts times or, when that is unset,  *)
(* without end, so an attempt it has given up on can still be written.      *)
(***************************************************************************)
EXTENDS Integers, FiniteSets

CONSTANTS Records,       \* the messages the script produces, each once
          Topics,
          NoTopic,       \* the empty topic string
          TopicOf,       \* ProduceMessage.topic of each record
          DefaultTopics, \* WriterConfig.topic values a script may configure
          AckSettings,   \* requiredAcks values a script may configure
          AttemptSettings, \* maxAttempts values a script may configure, Unset among them
          Unset,         \* maxAttempts left out: the client retries without limit
          MaxCopies      \* bound: requests of a record on their way, copies in the log

ASSUME TopicAssumption ==
  /\ NoTopic \notin Topics
  /\ TopicOf \in [Records -> Topics \cup {NoTopic}]
  /\ DefaultTopics \subseteq Topics \cup {NoTopic}
ASSUME AttemptsAssumption ==
  /\ AckSettings \subseteq Int
  /\ AttemptSettings \subseteq Int \cup {Unset} /\ Unset \notin Int
  /\ MaxCopies \in Nat
  /\ \A n \in AttemptSettings \ {Unset} : n < MaxCopies \* limited retries never meet the bound
ASSUME RecordsAssumption == IsFiniteSet(Records)

VARIABLES
  pc,            \* where the VU goroutine is
  vuState,       \* vu.State() # nil: the script is past its init context
  vuDone,        \* the VU context has ended
  acks,          \* requiredAcks of the client
  defaultTopic,  \* Writer.defaultTopic
  idempotent,    \* the client's idempotent producer is on
  maxAttempts,   \* kgo.RecordRetries of the client, or Unset
  batch,         \* records of the produce call at hand
  status,        \* per record, at the client
  tries,         \* per record: failed attempts, counted where they are limited
  wire,          \* per record: requests on their way to the broker
  written,       \* per record: copies in the topic's log
  answered,      \* per record: the broker's answer is on its way back
  counted,       \* history: kafka_writer_message_count, per topic
  errors,        \* history: kafka_writer_error_count
  threw          \* history: records of calls that returned an error

client  == <<acks, defaultTopic, idempotent, maxAttempts, status, tries>>
network == <<wire, written, answered>>
history == <<counted, errors, threw>>
vu      == <<vuState, vuDone>>
vars    == <<pc, vu, batch, client, network, history>>

TypeOK ==
  /\ pc \in {"unopened", "idle", "producing", "flushing", "closing", "closed"}
  /\ vuState \in BOOLEAN /\ vuDone \in BOOLEAN
  /\ acks \in {-1, 0, 1}
  /\ defaultTopic \in Topics \cup {NoTopic}
  /\ idempotent \in BOOLEAN
  /\ batch \subseteq Records
  /\ status \in [Records -> {"new", "buffered", "sent", "ok", "failed"}]
  /\ maxAttempts = Unset \/ maxAttempts \in Nat
  /\ tries \in [Records -> Nat]
  /\ maxAttempts # Unset => \A r \in Records : tries[r] <= maxAttempts + 1
  /\ wire \in [Records -> Nat] /\ written \in [Records -> Nat]
  /\ answered \in [Records -> BOOLEAN]
  /\ counted \in [Topics \cup {NoTopic} -> Nat]
  /\ errors \in Nat
  /\ threw \subseteq Records

Init ==
  /\ pc = "unopened" /\ vuState = FALSE /\ vuDone = FALSE
  /\ acks = -1 /\ idempotent = TRUE /\ defaultTopic = NoTopic /\ maxAttempts = Unset
  /\ batch = {}
  /\ status = [r \in Records |-> "new"]
  /\ tries = [r \in Records |-> 0]
  /\ wire = [r \in Records |-> 0]
  /\ written = [r \in Records |-> 0]
  /\ answered = [r \in Records |-> FALSE]
  /\ counted = [t \in Topics \cup {NoTopic} |-> 0]
  /\ errors = 0 /\ threw = {}

-----------------------------------------------------------------------------
(* Faulty variant: every number is passed on. *)
AnyAcks(n) == TRUE

(* acksFromInt rejects any other value: the writer is not opened. *)
ValidAcks(n) == n \in {-1, 0, 1}

(* Faulty variant: setting requiredAcks at all switches idempotence off. *)
AlwaysDisables(n) == TRUE

(* Fewer acks than all are incompatible with the idempotent producer. *)
DisablesIdempotence(n) == n # -1

(* A negative maxAttempts is refused; 0 is a limit, unset is none. *)
ValidAttempts(n) == n # Unset => n >= 0

(* openWriter and writerOptions, with requiredAcks set; leaving it unset is
   the same as -1.  RecordRetries is passed on only if maxAttempts is set. *)
Open(n, topic, attempts) ==
  /\ pc = "unopened"
  /\ ValidAcks(n) /\ ValidAttempts(attempts)
  /\ maxAttempts' = attempts
  /\ acks' = n
  /\ defaultTopic' = topic
  /\ idempotent' = ~DisablesIdempotence(n)
  /\ pc' = "idle"
  /\ UNCHANGED <<vu, batch, status, tries, network, history>>

(* A record without a topic goes to the writer's default one. *)
ProduceTopic(r) == IF TopicOf[r] = NoTopic THEN defaultTopic ELSE TopicOf[r]

(* produce throws in the init context and on a closed writer; else it hands the
   marshalled records to ProduceSync; the client refuses at
   once a record that has no topic at all. *)
Produce(rs) ==
  /\ vuState
  /\ pc = "idle"
  /\ \A r \in rs : status[r] = "new"
  /\ batch' = rs
  /\ status' = [r \in Records |->
                  IF r \notin rs THEN status[r]
                  ELSE IF ProduceTopic(r) = NoTopic THEN "failed" ELSE "buffered"]
  /\ pc' = "producing"
  /\ UNCHANGED <<vu, acks, defaultTopic, idempotent, maxAttempts, tries, network, history>>

Unsettled(r) == status[r] \in {"buffered", "sent"}

(* Faulty variants: return at the first failure; return on success only. *)
FirstFailure  == (\A r \in batch : ~Unsettled(r)) \/ \E r \in batch : status[r] = "failed"

(* ProduceSync returns when every record has a result. *)
AllResolved == \A r \in batch : ~Unsettled(r)

(* Faulty variant: the whole batch counts as written. *)
WholeBatch == batch

Succeeded == {r \in batch : status[r] = "ok"}
Failed    == batch \ Succeeded

(* Faulty variant: no default topic for the tag. *)
RecordTopic(r) == TopicOf[r]

(* The topic a successful record is counted under. *)
CountTopic(r) == IF TopicOf[r] = NoTopic THEN defaultTopic ELSE TopicOf[r]

(* The result loop of produce: per-topic counts, errors, then flushProduce
   (dropped when the VU context has ended) and the first error. *)
Finish ==
  /\ pc = "producing"
  /\ AllResolved
  /\ counted' = IF vuDone THEN counted
                ELSE [t \in DOMAIN counted |->
                        counted[t] + Cardinality({r \in Succeeded : CountTopic(r) = t})]
  /\ errors' = IF vuDone THEN errors ELSE errors + Cardinality(Failed)
  /\ threw' = IF Failed # {} THEN threw \cup batch ELSE threw
  /\ batch' = {}
  /\ pc' = "idle"
  /\ UNCHANGED <<vu, client, network>>

(* close: Flush waits for buffered records or the end of the VU context,
   then flushClose, then the client's Close, which fails what is left. *)
Close ==
  /\ pc = "idle"
  /\ pc' = "flushing"
  /\ UNCHANGED <<vu, batch, client, network, history>>

FlushClient ==
  /\ pc = "flushing"
  /\ vuDone \/ \A r \in Records : ~Unsettled(r)
  /\ pc' = "closing"
  /\ UNCHANGED <<vu, batch, client, network, history>>

CloseClient ==
  /\ pc = "closing"
  /\ status' = [r \in Records |-> IF Unsettled(r) THEN "failed" ELSE status[r]]
  /\ pc' = "closed"
  /\ UNCHANGED <<vu, batch, acks, defaultTopic, idempotent, maxAttempts, tries, network, history>>

-----------------------------------------------------------------------------
(* The franz-go producer. *)

(* A request is sent; without acks the client takes the record for written. *)
Send(r) ==
  /\ status[r] = "buffered" /\ wire[r] < MaxCopies
  /\ wire' = [wire EXCEPT ![r] = @ + 1]
  /\ status' = [status EXCEPT ![r] = IF acks = 0 THEN "ok" ELSE "sent"]
  /\ UNCHANGED <<pc, vu, acks, defaultTopic, idempotent, maxAttempts, batch, tries, written,
                 answered, history>>

Acknowledge(r) ==
  /\ status[r] = "sent" /\ answered[r]
  /\ status' = [status EXCEPT ![r] = "ok"]
  /\ UNCHANGED <<pc, vu, acks, defaultTopic, idempotent, maxAttempts, batch, tries, network, history>>

(* RecordRetries: without it the client never stops trying, for the code sets
   no delivery timeout either. *)
MayRetry(r) == maxAttempts = Unset \/ tries[r] < maxAttempts

(* An attempt fails: no connection, no answer in time, a retriable error. *)
GiveUpAttempt(r) ==
  /\ Unsettled(r)
  /\ status' = [status EXCEPT ![r] = IF MayRetry(r) THEN "buffered" ELSE "failed"]
  /\ tries' = [tries EXCEPT ![r] = IF maxAttempts = Unset THEN @ ELSE @ + 1]
  /\ UNCHANGED <<pc, vu, acks, defaultTopic, idempotent, maxAttempts, batch, network, history>>

(* The cluster does not know the topic: UnknownTopicRetries, maxAttempts or the
   client's own default, ends the record whatever RecordRetries says. *)
UnknownTopic(r) ==
  /\ status[r] = "buffered" /\ wire[r] = 0 /\ written[r] = 0
  /\ status' = [status EXCEPT ![r] = "failed"]
  /\ UNCHANGED <<pc, vu, acks, defaultTopic, idempotent, maxAttempts, batch, tries, network, history>>

(* The end of the VU context fails what has no result yet. *)
FailCancelled(r) ==
  /\ vuDone /\ Unsettled(r)
  /\ status' = [status EXCEPT ![r] = "failed"]
  /\ UNCHANGED <<pc, vu, acks, defaultTopic, idempotent, maxAttempts, batch, tries, network, history>>

(* The broker: it writes a request, recognising a duplicate only of an
   idempotent producer; or the request never arrives. *)
BrokerWrite(r) ==
  /\ wire[r] > 0 /\ written[r] < MaxCopies
  /\ wire' = [wire EXCEPT ![r] = @ - 1]
  /\ written' = [written EXCEPT ![r] = IF idempotent /\ @ > 0 THEN @ ELSE @ + 1]
  /\ answered' = [answered EXCEPT ![r] = acks # 0]
  /\ UNCHANGED <<pc, vu, batch, client, history>>

RequestLost(r) ==
  /\ wire[r] > 0
  /\ wire' = [wire EXCEPT ![r] = @ - 1]
  /\ UNCHANGED <<pc, vu, batch, client, written, answered, history>>

StartVU ==
  /\ ~vuState
  /\ vuState' = TRUE
  /\ UNCHANGED <<pc, vuDone, batch, client, network, history>>

CancelVU ==
  /\ vuState /\ ~vuDone /\ pc # "closed"
  /\ vuDone' = TRUE
  /\ UNCHANGED <<pc, vuState, batch, client, network, history>>

ClientStep == \E r \in Records : Send(r) \/ Acknowledge(r) \/ GiveUpAttempt(r) \/ FailCancelled(r)
CallStep == Finish \/ FlushClient \/ CloseClient

Next ==
  \/ \E n \in AckSettings, topic \in DefaultTopics, attempts \in AttemptSettings :
       Open(n, topic, attempts)
  \/ \E rs \in SUBSET Records : Produce(rs)
  \/ CallStep
  \/ Close
  \/ ClientStep
  \/ \E r \in Records : BrokerWrite(r) \/ RequestLost(r) \/ UnknownTopic(r)
  \/ StartVU \/ CancelVU

(* The VU goroutine and the client's goroutines and timers run, and the client
   notices the end of the context its records were produced with; the broker
   owes nothing. *)
Spec ==
  /\ Init /\ [][Next]_vars
  /\ WF_vars(CallStep) /\ WF_vars(ClientStep)
  /\ WF_vars(\E r \in Records : FailCancelled(r))

-----------------------------------------------------------------------------
(* Properties. *)

(* What produce counts as written is in the log of the very topic it is
   counted under, lost answers and retries notwithstanding; only a producer
   without acks takes the network's word for it (producer.go: "Count only
   records that actually succeeded"). *)
CountedIsWritten ==
  acks # 0 => \A t \in Topics : counted[t] <=
    Cardinality({r \in Records : ProduceTopic(r) = t /\ written[r] > 0})

(* With acks from all replicas a retry never duplicates a message, although
   an attempt the client gave up on may arrive later (producer.go: the
   idempotent producer is switched off exactly for weaker acks). *)
NoDuplicates == acks = -1 => \A r \in Records : written[r] <= 1

(* produce throws whenever a record failed, and returns only when every record
   of the call has its result: a script that catches the error may produce
   again without racing the old batch (producer.go: ProduceSync, FirstErr). *)
SettledOnReturn ==
  pc # "producing" =>
    /\ \A r \in Records : ~Unsettled(r)
    /\ \A r \in Records : status[r] = "failed" => r \in threw

(* While the VU runs, every record of a finished call is in exactly one of
   message_count and error_count (producer.go: the result loop). *)
AllCounted ==
  ~vuDone /\ pc = "idle" =>
    /\ errors = Cardinality({r \in Records : status[r] = "failed"})
    /\ \A t \in Topics : counted[t] =
         Cardinality({r \in Records : status[r] = "ok" /\ ProduceTopic(r) = t})

(* With maxAttempts set, produce and close return even if no broker ever
   answers.  Left unset the retries have no limit and no timeout, so that with
   silent brokers only the end of the VU ends the call (producer.go:111). *)
CallsReturn ==
  (pc \in {"producing", "flushing"} /\ (maxAttempts # Unset \/ vuDone))
    ~> (pc \in {"idle", "closed"})
=============================================================================
