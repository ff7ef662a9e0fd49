# Specifications of xk6-kafka

TLA+ models of the k6 extension in `src/pkg/kafka`: what its writers, readers,
schema registry clients and admin connections do when the goroutines of the
Kafka client, deadlines, stopped VUs, lost answers and other VUs get in between,
what values become on their way through serialize and deserialize, and what the
constructors make of a configuration. TLC checks small instances; TLAPS proves
every safety property of the passing runs for every value of the constants.

## The system

A k6 script runs in many VUs, each on one goroutine. It constructs the objects
of the extension in its init context and calls them afterwards. Every object
belongs to one VU; VUs meet only at the Kafka cluster and the Schema Registry.

| Component | State | Operations | Interacts with |
|---|---|---|---|
| metrics collector (`metrics.go`) | counters, last-flushed values and trend buffers under a mutex | franz-go hooks; `flush`, `drainHooks` | hooks run on goroutines of the client, flushes on the VU's |
| reader (`consumer.go`) | the franz-go consumer, its polled and committed offsets | `openReader`, `consume`, `close` | collector; group coordinator; VU context and `maxWait` |
| writer (`producer.go`) | the franz-go producer, buffered records | `openWriter`, `produce`, `close` | collector; brokers; VU context |
| schema registry client (`schema_registry.go`) | response cache | constructor, `getSchema`, `createSchema`, `getSubjectName` | HTTP registry shared by all VUs; the script holds the returned objects |
| serdes (`schema_registry.go`, `producer.go`) | parsed-Avro cache | `serialize`, `deserialize`, the byte conversion of `produce` | values come from scripts, from other producers, and from what was deserialised before |
| connection (`connection.go`, `admin.go`) | the client, or nil after close | constructor with ping, `createTopic`, `deleteTopic`, `listTopics`, `close` | cluster shared by all VUs |
| module bindings, options, SASL, TLS, JKS (`module.go`, `config.go`, `constants.go`, `client.go`, `sasl.go`, `tlsconfig.go`, `jks.go`) | registered metrics; the key material the script keeps | import, the four constructors, `LoadJKS` | the constructors turn a configuration into client options |

What is hard to get right, and what makes each component correct:

* **Collector.** A drain walks several fields while hooks write them, and
  counters are reported as deltas. Correct: every event reaches each of its
  series exactly once, its counter and trends together, and a flush ends.
* **Reader.** A call polls in rounds while autocommit, the deadline, the end of
  the VU and rebalances go on; a call that throws has already polled. Correct: a
  commit never passes a message nobody saw, a message goes to two members only
  after an unclean handover, a stopped VU is told so, consume returns.
* **Writer.** Requests and answers get lost, attempts that were given up arrive
  late, some records of a call fail, and without `maxAttempts` nothing limits the
  retries. Correct: what is counted is written, retries do not duplicate with
  full acks, the call returns with everything settled.
* **Registry client.** "latest" moves while it is cached, answers arrive late,
  scripts edit returned objects, subjects are joined from names. Correct: entries
  are what the registry said, the wire format keeps a stale schema from misreading
  a message, a record's subject holds that record.
* **Serdes.** Numbers cross int64, float64 and float32, unions are normalised
  by their first branch, payloads are told from envelopes by two facts about
  their bytes. Correct: a value that is relayed stays what it was, what was
  written can be read.
* **Options.** Settings are checked in one function and needed in another, and
  material from several key stores is put together by scripts. Correct: loaded
  identities work, credentials do not go out in the clear, settings take effect.
* **Connection.** VUs race for topics, requests are repeated after lost
  answers, layouts come from unchecked numbers. Correct: topics have the layout
  asked for, success means this call made the topic, lists are complete.

`PROJECT.json` lists the hazards with their source lines and the properties that
would notice each of them.

## Modules

| Module | Models | Checked by |
|---|---|---|
| `MetricsLedger` | abstract: events wait, are taken as a whole, and are reported or lost | implemented by `Collector` |
| `Collector` | `metricsCollector` with its mutex | `MCCollector`, `CollectorProofs`, `LedgerProofs` |
| `GroupClient` | external: one partition, the group coordinator and kgo's offset bookkeeping | through `Reader` |
| `Reader` | `openReader`, `consume` and `close` of group and direct readers, EXTENDS `GroupClient` | `MCReader`, `ReaderProofs` |
| `Writer` | `openWriter`, `produce` and `close` over a lossy network | `MCWriter`, `WriterProofs` |
| `Registry` | one client: subject names, `getSchema` with its cache, `createSchema`, the ids of the wire format; other VUs are its environment | `MCRegistry`, `RegistryProofs` |
| `Serdes` | a value on its way through `serialize`, a topic and `deserialize`, relayed | `MCSerdes`, `SerdesProofs` |
| `Clients` | one module instance: import, `LoadJKS`, the constructors and their option builders | `MCClients`, `ClientsProofs` |
| `Admin` | `Connection`: constructor and topic administration | `MCAdmin`, `AdminProofs` |
| `...Proofs` | invariants, lemmas and theorems about the module in the name; `LedgerProofs` EXTENDS `CollectorProofs` | `tlapm` |

Definitions whose comment begins "Faulty variant" are not part of any
specification: each is what a plausible mistake would make of the definition
after it, and the property listed for it in `PROJECT.json` fails when it is used.

### How state and actions correspond to the code

**Collector.** Variables carry the names of the struct's fields. A hook is one
step, enabled when the mutex is free (its body is one critical section).
`flush` is a sequence of steps: call-site samples (`Flush`), `LockMu`,
`DrainUntagged`, `DrainBatchCount` once per map entry in any order,
`DrainBatchTrends` with the deferred unlock, and `Push`, which drops the samples
when the VU context is done. A trend buffer is the number of values it holds.
`seen`, `called`, `emitted` and `dropped` are history.

**Reader.** The loop of `consume` is split where others can get in: `Poll`
(PollRecords returns), `AfterPoll` (the checks of context and errors in the
code's order), `Decide` (the tail), `Return` (flush and result). `Close`,
`CommitOnClose` and `CloseClient` are the three parts of `close`. `Open` joins a
group; `OpenDirect` starts at an offset, outside any group, with offset -1 for
the end. Offsets stand for messages. The locals of a call are one record,
`call`; `counted` is what the collector reported for it, and `hooks` the number
of hook events it holds, as its ledger allows. `GroupClient` follows kgo: PollRecords marks the previous
poll's records for autocommit (`head`), CommitUncommittedOffsets commits
everything polled (`dirty`), leaving the group commits `head`.

**Writer.** `Produce` marshals and calls ProduceSync, `Finish` is the loop over
its results, the flush and the first error. `maxAttempts` is a number or `Unset`.
With a number the producer resends that often and then fails the record; unset,
`writerOptions` passes no RecordRetries and there is no delivery timeout, so
`MayRetry` never ends and only an answer, an unknown topic (`UnknownTopic`, which
kgo limits on its own) or the end of the VU (`FailCancelled`) gives the record a
result. The broker recognises a repeated record only of an idempotent producer.

**Registry.** The client belongs to one VU, so it is sequential; what others do
to it are `OtherCreates` and `OtherProduces`. A request is sent, answered and
received in three steps, and can fail at any of them, also after the registry
acted. Scripts register under the name that `GetSubjectName` gives. A string is the
sequence of its parts with the separators among them, so the joins are the code's
and may collide as they do: a record `value` outside any namespace has, under
TopicRecordNameStrategy, the subject of the topic itself. `Writes` and `Reads` are
the pairs of strategy and text that VUs register and that the client asks for.
`alias` records whether the script's object is the cached
one, which `copySchema` prevents. Standalone clients never wait for a registry.

**Serdes.** A Go value is a pair of its kind and content, as the JavaScript
runtime exports it: a safe integer is an int64, other numbers are float64.
`Normalize` and `NormalizePrimitive` are `normalizeAvroValue` and
`normalizeAvroPrimitive`, `CoerceBytes` and `ToBytes` the byte conversions,
`Enveloped` and `StripWireFormat` are `checkAndStripWireFormat`. Numbers are
scaled so that every boundary is there in its real order: float32 is exact to 4,
int32 ends at 7, float64 is exact to 16, int64 ends at 63, whose nearest float64
is 64. A number with a fraction is one of three: 0 stands for one that float32
holds (0.5), 1 for one it does not (0.1), 2 for what `Narrow`, float32(), makes of
the latter (0.10000000149). A byte is 0 to 2, an id one digit. What Avro and JSON make of a value is
opaque: a body stands for what decoding it gives. The recursions of the code over
a value (`normalizeAvroValue`, the export of objects, the JSON encoder) are
operators named `...By` that take the recursive call as a parameter and are
applied once per level: scripts write values that nest once, and bytes inside an
array or a map become an array when a script copies them, so a value nests twice
at most. The items of an Avro schema are primitive or unions of primitives, and a
reference stands at the top. `overflow` is the result of
int64() for a float64 out of range, which Go leaves to the build: either end of
the range.

**Clients.** `LoadJKS` keeps what it returned in `jks`; a constructor takes any
configuration of its set, whose TLS material is combined from `jks` in any way,
and leaves its arguments and the resulting options in `last`. Certificates and
keys are identities; a pair is valid when they agree. `Sizes`, `Durations` and
`BalancerLists` are what scripts may set. `Size` is the guard and the int32()
conversion, which wraps at `MaxInt32`; `UncheckedSize` is what it would be without
the guard. `Mapped` is the loop that drops the balancers kgo has no counterpart
for. A url is absent, http or https: Kafka clients encrypt if their section is
enabled, the registry client if its url says https (`RegistryTLS`), whatever
section it has; a section is validated all the same. Whether kgo.NewClient accepts
sizes and intervals that contradict each other is its own affair and left out.

**Admin.** `CreateTopic`, `DeleteTopic` and `ListTopics` do the local checks and
send; `Handle...` is the broker, `AnswerLost` the repetition by kgo, `Receive`
the evaluation of the answer. Layouts are computed as in the code, with
conversions that wrap.

## Runs

| Run | Question | Instance |
|---|---|---|
| `collector` | can hooks and a flush lose, double or split an event; does the collector implement the ledger | two topics, per class of events the bounds of `MCCollector`, either role |
| `reader_group` | handover by close, failure, death and eviction with autocommit at any time | 2 members, 2 records, limit 2, each member evicted at most once |
| `reader_call` | one reader, in a group or direct, against deadline, cancellation, fetch errors, hooks; liveness | 1 member, 3 records (one more than the largest limit), every kind of error, offsets -1, 0, 1 |
| `writer` | losses, late arrivals, retries, partial failure, close | 2 records (own and default topic), requiredAcks -1, 0, 1 and the invalid 2; maxAttempts 0, 1 and unset; up to 2 copies of a record under way or written |
| `registry` | caching against subjects that others evolve, naming strategies; calls end | 3 texts (two of one record, and a record of its name outside the namespace, called like the element), registered under all three strategies; 2 versions, caching on and off |
| `serdes` | is a value kept, however it is written, read and relayed | numbers on both sides of every boundary, fractions float32 holds and does not, text and bytes that begin like an envelope, all schema types, nested and in unions; ids 0, in range and out of it; 2 relays |
| `clients` | does every combination of settings give the client it asks for | up to 2 of the material of three key stores, all constants, sizes up to the ones that wrap to a negative and to another positive one, negative and zero durations, url schemes, before and after init |
| `admin` | two VUs on one topic: layouts around the limits, lost answers, requests sent again | one VU tries layouts unset, at the limit, beyond it and wrapping to -1, and lists of 1 and 2 assignments; one lost answer per call; MaxInt32 scaled to 3, MaxInt16 to 1 |

Four runs must fail; each shows where the code does something else than a
document of the repository says (`findings` in `PROJECT.json`):

* `reader_close_flush`: close flushes its metrics before it commits and leaves,
  so the events of the final rebalance are lost.
* `reader_close_commit`: the commit of close uses the VU's context, so a reader
  closed after the VU was stopped commits nothing, and the error is ignored.
* `serdes_long`: the largest Avro long, read from another producer and
  serialised again, becomes the smallest one where int64() of 2^63 gives that.
* `serdes_union`: a number for the union null, string, int is normalised as a
  string, that is not at all, and the encoder refuses it.

The models also show, without contradicting a document: a fetch error that wraps
a context error on a live context makes `consume` return a short batch as if it
were full (`consumer.go:287`); with the default configuration `produce` to silent
brokers blocks until the VU ends, there being neither a limit nor a timeout
(`producer.go:111`); a TLS section of the registry client is silently idle if the
url is http (`schema_registry.go:124-135`); a record `value` without a namespace
shares the topic's subject under TopicRecordNameStrategy
(`schema_registry.go:375,387`); bytes that do not begin like an envelope are
decoded with a schema that has an id, unverified, and text or bytes that do begin
like one are refused or shortened (`schema_registry.go:759`); a null for Avro bytes
is written as empty bytes.

One more departure from `openspec/specs/avro-serdes/spec.md:87-88,100-103`, that
what is decoded is what was encoded, is visible in `AvroKept`'s exceptions rather
than in a run of its own: 0.1 written through `float`, or through the union null,
float, double, whose `double` branch would hold it, comes back as 0.10000000149
(`schema_registry.go:614-616`, `590-595`). `AvroKept` says that nothing else is
lost: a later branch of a union never narrows. `EnvelopeNeverMisread` speaks only
of enveloped messages, `PlainKept` and `WrittenIsReadable` of all others.

**Bounds.** Handover needs two members; losing or repeating a record needs one,
and splitting a batch between polls two. A duplicate needs one retry, and a
second copy. A stale cache needs two versions; a collision of names three texts. Wrapping needs values on both sides of a limit up to
the one that wraps to -1 (7 for a limit of 3). A relayed value is new after the
first relay; the second shows that it stays. Mixing identities needs the material
of two loads. Bounds are constants: `MaxSeen`, `MaxCalled`, `MaxLog`,
`MaxEvicted`, `MaxHooks`, `MaxCopies`, `MaxVersions`, `MaxRetries`, `MaxHops`,
`MaxLoads`; scaled widths are `MaxInt32`, `MaxInt16`, `MaxInt64`, `Float32`,
`Float64`, `MaxByte`, `MaxId`. `reader_group` uses the symmetry of its
members, with safety properties only.

**Deadlock** is checked for the collector. The other runs end where every object
is closed or a bound is reached, so their configurations switch the check off.

**Fairness.** Only the program's own goroutines and timers are fair: a VU that is
in a call keeps running, `maxWait`, `pingTimeout` and `http.Client.Timeout`
fire, and kgo's goroutines take their steps: an admin request is given up after
kgo's default number of retries, a produced record after `maxAttempts` if that is
set, and otherwise only when the client notices that the context it was produced
with has ended. `CallsReturn` of the writer has these two premises. Brokers,
registries, networks and coordinators owe nothing.

## Proofs

The theorems hold for every value of the constants. Each module of proofs
defines an inductive invariant, shows that `Init` implies it and that each
action preserves it (one lemma per action or group of them), and concludes
`Spec => []Inv` by temporal logic. TLC checked every inductive invariant on the
instance of the module's run before it was proved.

| Module | Theorems | Assumptions on the constants |
|---|---|---|
| `CollectorProofs` | `TypeOK`, `ExactlyOnce`, `ReportedTogether`, `CallSitesKept` | `Untagged` is no topic; bounds are naturals |
| `LedgerProofs` | `Spec => ImplementsLedger` | the same |
| `ReaderProofs` | `TypeOK`, `NoSilentLoss`, `ExclusiveDelivery`, `DirectGapless`, `StoppedVUIsCancelled`, `CountsMatchDelivery`, `OnlyLateHooksUnreported` | types of arguments, offsets and errors; `NoMember` is no member |
| `WriterProofs` | `TypeOK`, `NoDuplicates`, `SettledOnReturn`, `CountedIsWritten`, `AllCounted` | a script produces finitely many records |
| `RegistryProofs` | `TypeOK`, `CacheFaithful`, `EnvelopeNeverMisread`, `FreshWithoutCaching`, `RecordAsNamed`, and the action property `CachePinned` | a registry gives an id to one text only; a record's full name is a name, or a namespace, a dot and a name |
| `AdminProofs` | `TypeOK`, `LayoutAsConfigured`, `SuccessIsOwn`, `ListNeverTruncated` | finitely many topics; layouts are any integers and any list of assignments |
| `ClientsProofs` | `LoadedIdentityUsable`, `TLSAsConfigured`, `SettingsHonoured` | a key store keeps with a private key the chain that certifies it; sizes and durations are any integers, balancers any list of strings |
| `SerdesProofs` | `AvroKept`, `JsonObjectsKept`, `PlainKept`, `WrittenIsReadable` | numbers within float32's range, longs within int64; text is valid UTF-8; Avro schemas of the modelled form, any number of union branches |

Why the properties hold, and what has to be added to make them inductive:

* **Collector.** `ExactlyOnce` balances an event over buffer, flush, emitted and
  dropped units, `ReportedTogether` speaks of what was emitted; a step of the
  drain changes one series and not the others of its class. `Phase` says the
  mutex is held exactly while a drain runs; `Books` that a trend buffer holds the
  rest of its counter, so each series balances on its own; `Agree` that the
  series of one class are equal among the emitted and the dropped units;
  `AgreeOut` that they are in the flush at hand too, except that between a
  topic's counter and the trend buffers the counter is ahead, and is then fully
  flushed. This is where the mutex is needed: no hook runs in that interval.
  `Calls` and `LiveKeeps` balance the samples of call sites.
* **Collector implements the ledger.** `pending` is what the fields hold (nothing
  while a drain is on its way), `taken` what the flush will push. A hook that
  counts is `Occur`; `LockMu` is the taking; the steps of the drain move units that
  the ledger has already taken, so they stutter; `Push` is the report or the loss. It needs `IInv`, and `Drained`: the
  untagged fields stay empty until the unlock.
* **Reader.** `NoSilentLoss` speaks of the committed offset only, but any member
  may commit later. `OwnerInv` therefore orders the offsets of the owner's client
  (`head <= dirty <= pos`, `committed <= pos`) and accounts for all below `pos`.
  `TakenInv` says what a member took is below `dirty` while it owns the
  partition and below `committed` after a clean handover, which makes the next
  member start behind it: `Disjoint`, and so `ExclusiveDelivery`. `LifeInv` ties
  ownership to an open client, `CallInv` and `HookInv` carry the verdict of a
  call and the flush of close through their steps, and `CountInv` says that
  without evictions each message is polled once, so that the number of records
  of a batch is the size of a set. `DirectInv` is `DirectGapless` with the
  position never before its start.
* **Writer.** `Idempotence` (full acks mean an idempotent producer) gives
  `NoDuplicates`. `Settled` says that only records of the running call lack a
  result; `AckedIsWritten` that an answer follows its write; `Counts` that the
  counters are the cardinalities of the records of finished calls, by outcome and
  topic. A finished call adds the cardinality of a set disjoint from what was
  counted before.
* **Registry client.** An answer that is under way must be right when it comes
  (`CallInv`), which holds because versions are only appended; only a missing
  entry is asked for (`CacheInv`), so that a late answer overwrites nothing
  (`CachePinned`); no object of the script is the cached one (`ObjectInv`, from
  `copySchema`). `EnvelopeNeverMisread` then rests on ids: an object keeps id and
  text together, so equal ids mean equal texts. `ObjectInv` also says that every
  object was registered under a name that some strategy gives to its text, and
  `NameTellsRecord` that such a name, if it is not the topic's subject, is the join
  of one record's name only: the two joins differ in their dash (`Prefixed`). That
  is `RecordAsNamed`; the case it leaves out is the collision.
* **Connection.** The layout of a topic is computed before the request is sent;
  `Sound` carries it through the call and `LayoutInv` through the cluster. The
  content is in `RequestAsConfigured`: a count that passes the check does not wrap
  (`WrapFits`), and as many assignments as partitions, all of them distinct and
  in range, name every partition once (`Onto`, a pigeonhole). `AnswerInv` keeps
  an answer true while it is under way, whatever other VUs do to the topic, and
  `SetToSeqLists` makes a metadata answer complete.
* **Clients.** What a constructor does depends on where its material came from:
  `LoadInv` says every loaded object is what `jksToPEM` makes of some readable
  store. `LoadedPairs` shows that certificate and key of such an object are a
  pair, so no validation refuses it. `SettingsInv` is `SettingsHonoured`
  with what ties the hooks to the import: nothing is constructed before it.
  `SizeFits` is arithmetic: within the guard int32() is the identity, so the guard
  is what keeps a size from wrapping. The
  four constructors are gone through one by one (`WriterHonours`, `ReaderHonours`,
  `OthersHonour`). That a group has a balancer, and only eager ones, whatever list
  a script gives, rests on `Ranked`: the kept indexes of a list have the ranks 1
  to their number, a pigeonhole.
* **Serdes.** What a script got depends on every call before it, and a relayed
  value may have become another Go type while it looks the same to the script. So
  `ValueOK` does not equate `value` and `origin` but says they are `Alike`, each
  in its container's sense (what a script sees of it for Avro and JSON, the bytes for text and
  bytes), and `MessageOK` that the message is the encoding of such a value, or
  another producer's. Serialising, reading, holding and copying each preserve
  this: `RoundOnce` and `Exported` show that a number is rounded to a float64 once
  and for all, `ItemCopied` and `ValueCopied` that copying changes nothing the
  script sees, `PrimitiveLooks`, `ItemKept` and `AvroValueKept` that whatever branch
  normalisation and encoder choose, the value looks the same, `Unwrapped` that an
  envelope is stripped only where one was put. The exceptions of `AvroKept` are
  stated of `origin`; `Kept` restates them of what a script sees, so that they
  carry over to each relayed value, and `PremiseKept` leads from one to the other.
  `SelectInSeq` takes the first branch; its existence is a least-element argument
  (`Least`, from the well-foundedness of the naturals), not an induction.

Only model-checked:

* liveness (`FlushEnds`, `ConsumeReturns`, `CloseReleases`, and `CallsReturn` of the
  writer and of the connection, `CallsEnd`): fairness is out of the prover's reach;
* the scaled widths of `Serdes` (`Float32` to `MaxId`) are definitions, not
  parameters: its theorems hold for any numbers, text, bytes, containers and
  number of relays at these widths. How deep values nest is fixed as said above;
  for any depth the proof would be an induction over values, which the prover
  cannot do.

The properties of the four runs that must fail are false, and no theorem states
them.

## Not modelled

* `lag` and the fields of a message (`decodeRecord`): they read state and change
  none. The config entries of a topic are copied through.
* How JavaScript objects become Go structs: the runtime's.
* The inside of franz-go, the Avro, JSON and key store libraries: modelled from
  how the code uses them and marked external. The schema cache inside the Avro
  library, shared by the process, is left out.
* How long things take, sizes of messages and texts of errors; of a duration in a
  configuration only its sign.
* A request that an admin call gave up on and that the broker handles after the
  call has thrown.
* Build files, examples and tests: no program logic.

## Plan

1. Core: `Collector` and its ledger with proofs; `Reader`, `Writer`, `Registry`
   and `Admin` with their runs. Done.
2. `Serdes`, `Clients`, subject names, direct readers, evictions and the reader's
   message counts. Done.
3. Proofs of every safety property, and that `Collector` implements
   `MetricsLedger`. Done; `Serdes` was rewritten for it without RECURSIVE
   operators, `Clients` without `SelectSeq`.
4. Left: liveness, which needs a prover for fairness, and values of any depth.
