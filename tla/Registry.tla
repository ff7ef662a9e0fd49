------------------------------ MODULE Registry ------------------------------
(***************************************************************************)
(* SchemaRegistry (src/pkg/kafka/schema_registry.go): constructor, subject  *)
(* names, getSchema with its response cache, createSchema, and what the     *)
(* serialize / deserialize pair does with the schema objects.  Each VU has  *)
(* an object of its own, used by one goroutine; the other VUs share only    *)
(* the registry and the topic with it, so they are environment steps.  A    *)
(* request, the registry's answer and its arrival are three steps: answers  *)
(* may be out of date when they are stored.                                 *)
(*                                                                          *)
(* A schema text is a model value; its registry id is unique to it.  The    *)
(* script holds one schema object at a time and may edit it: `alias' says   *)
(* whether that object is the very one a cache entry points to.             *)
(***************************************************************************)
EXTENDS Integers, Sequences, SequencesExt

CONSTANTS Schemas,     \* schema texts
          IdOf,        \* the id the registry gives to a text
          NameOf,      \* <<name>> or <<namespace, ".", name>> of its record, or <<>>
          Writes,      \* subjectNameStrategy and text that scripts register with
          Reads,       \* and those they fetch with
          MaxVersions, \* bound: versions of a subject
          NoSchema     \* no text

ASSUME IdAssumption ==
  /\ IdOf \in [Schemas -> Nat \ {0}]
  /\ \A s, t \in Schemas : IdOf[s] = IdOf[t] => s = t
ASSUME TextAssumption == NoSchema \notin Schemas /\ MaxVersions \in Nat
ASSUME NameAssumption ==
  /\ NameOf \in [Schemas -> Seq(STRING)]
  /\ \A s \in Schemas : Len(NameOf[s]) \in {0, 1, 3}
  /\ \A s \in Schemas : Len(NameOf[s]) = 3 => NameOf[s][2] = "."
ASSUME UseAssumption == Writes \subseteq STRING \X Schemas /\ Reads \subseteq Writes

VARIABLES
  registry,    \* per subject: the texts of its versions 1, 2, ...
  mode,        \* "none", "standalone" or "registry"
  caching,     \* enableCaching
  schemaCache, \* request key to schema object
  pc,          \* "idle", "connecting", "asked" or "answered"
  request,     \* the request it waits for
  answer,      \* what the registry answered
  held,        \* the script's schema object
  alias,       \* the key whose cache entry is that object, or none
  message,     \* a message on the topic, produced by any of the VUs
  since        \* history, without cache: the newest version when it was asked for

client == <<mode, caching, schemaCache>>
call   == <<pc, request, answer>>
script == <<held, alias>>
vars   == <<registry, client, call, script, message, since>>

-----------------------------------------------------------------------------
(* getSubjectName, for one topic and element.  A string is the sequence of its
   parts, separators included, so that joins of different parts may be equal;
   no part of an Avro name is a dash.  <<>> is an error. *)
TopicSubject == <<"topic", "-", "value">>

(* Faulty variant: the name without its namespace. *)
RecordName(s) == IF NameOf[s] = <<>> THEN <<>> ELSE <<Last(NameOf[s])>>

(* recordFullName: only a named Avro schema has one. *)
RecordFullName(s) == NameOf[s]

GetSubjectName(strategy, s) ==
  CASE strategy \in {"", "TopicNameStrategy"} -> TopicSubject
    [] strategy = "RecordNameStrategy" -> RecordFullName(s)
    [] strategy = "TopicRecordNameStrategy" /\ RecordFullName(s) # <<>> ->
         <<"topic", "-">> \o RecordFullName(s)
    [] OTHER -> <<>>

Named(pairs) == {GetSubjectName(p[1], p[2]) : p \in pairs} \ {<<>>}
Subjects == Named(Writes)

-----------------------------------------------------------------------------
Versions  == 1 .. MaxVersions
Keys      == Named(Reads) \X (Versions \cup {0})    \* 0 stands for latest
Ids       == {IdOf[s] : s \in Schemas}
NoKey     == <<<<>>, 0>>
NoObject  == [subject |-> <<>>, version |-> 0, id |-> 0, schema |-> NoSchema]
NoMessage == [id |-> 0, schema |-> NoSchema]
NoRequest == [op |-> "none", key |-> NoKey, schema |-> NoSchema]
Objects   == [subject : Subjects, version : Versions \cup {0},
              id : {0} \cup Ids, schema : Schemas] \cup {NoObject}

(* The types of the state (schema_registry.go: SchemaRegistry, Schema). *)
TypeOK ==
  /\ registry \in [Subjects -> BoundedSeq(Schemas, MaxVersions)]
  /\ mode \in {"none", "standalone", "registry"} /\ caching \in BOOLEAN
  /\ schemaCache \in [Keys -> Objects]
  /\ pc \in {"idle", "connecting", "asked", "answered"}
  /\ request \in [op : {"get", "create"}, key : Subjects \X (Versions \cup {0}), schema : Schemas \cup {NoSchema}]
                   \cup {NoRequest}
  /\ answer \in Objects /\ held \in Objects
  /\ alias \in Keys \cup {NoKey}
  /\ message \in [id : {0} \cup Ids, schema : Schemas] \cup {NoMessage}
  /\ since \in Versions \cup {0}

Init ==
  /\ registry = [s \in Subjects |-> <<>>]
  /\ mode = "none" /\ caching = FALSE
  /\ schemaCache = [k \in Keys |-> NoObject]
  /\ pc = "idle" /\ request = NoRequest /\ answer = NoObject
  /\ held = NoObject /\ alias = NoKey
  /\ message = NoMessage /\ since = 0

-----------------------------------------------------------------------------
(* NewSchemaRegistry: standalone, or a client that must reach the registry. *)
Standalone ==
  /\ mode = "none" /\ pc = "idle"
  /\ mode' = "standalone"
  /\ UNCHANGED <<registry, caching, schemaCache, call, script, message, since>>

Connect(enableCaching) ==
  /\ mode = "none" /\ pc = "idle"
  /\ pc' = "connecting" /\ caching' = enableCaching
  /\ UNCHANGED <<registry, mode, schemaCache, request, answer, script, message, since>>

Connected(ok) ==
  /\ pc = "connecting"
  /\ pc' = "idle" /\ mode' = IF ok THEN "registry" ELSE "none"
  /\ UNCHANGED <<registry, caching, schemaCache, request, answer, script, message, since>>

(* A call can be made. *)
HasRegistry == pc = "idle" /\ mode = "registry"

(* Faulty variant: the client always caches. *)
AlwaysCaches == TRUE

(* enableCaching is the client's; the field of a schema object is ignored. *)
Caches == caching

(* Faulty variant: the cached object itself is handed out. *)
ShareSchema(key) == key

(* copySchema: the script's object is never the cached one. *)
CopySchema(key) == NoKey

(* A version above zero is asked for; anything else is the latest. *)
SchemaCacheKey(subject, version) == <<subject, IF version > 0 THEN version ELSE 0>>

Newest(subject, version) == IF version = 0 /\ ~caching THEN Len(registry[subject]) ELSE 0

(* Faulty variant: the latest version is looked up again. *)
HitNumbered(key) == Caches /\ key[2] # 0 /\ schemaCache[key] # NoObject

CacheHit(key) == Caches /\ schemaCache[key] # NoObject

(* A cache hit answers at once. *)
GetCached(subject, version) ==
  LET key == SchemaCacheKey(subject, version) IN
  /\ HasRegistry /\ CacheHit(key)
  /\ held' = schemaCache[key] /\ alias' = CopySchema(key)
  /\ since' = Newest(subject, version)
  /\ UNCHANGED <<registry, client, call, message>>

GetSchema(subject, version) ==
  /\ HasRegistry /\ ~CacheHit(SchemaCacheKey(subject, version))
  /\ request' = [op |-> "get", key |-> <<subject, version>>, schema |-> NoSchema]
  /\ pc' = "asked"
  /\ since' = Newest(subject, version)
  /\ UNCHANGED <<registry, client, answer, script, message>>

CreateSchema(subject, schema) ==
  /\ HasRegistry
  /\ request' = [op |-> "create", key |-> <<subject, 0>>, schema |-> schema]
  /\ pc' = "asked"
  /\ since' = 0
  /\ UNCHANGED <<registry, client, answer, script, message>>

EndCall == pc' = "idle" /\ request' = NoRequest /\ answer' = NoObject

(* The answer arrives: getSchema stores it when caching is on and returns a
   copy; createSchema returns its own object and leaves the cache alone. *)
Receive ==
  LET key == SchemaCacheKey(request.key[1], request.key[2])
      stores == request.op = "get" /\ Caches
  IN
  /\ pc = "answered"
  /\ schemaCache' = IF stores THEN [schemaCache EXCEPT ![key] = answer] ELSE schemaCache
  /\ held' = answer
  /\ alias' = IF stores THEN CopySchema(key) ELSE NoKey
  /\ EndCall
  /\ UNCHANGED <<registry, mode, caching, message, since>>

(* Faulty variant: an http.Client without Timeout waits for an answer. *)
OnceAnswered == pc = "answered"

(* The Timeout of the http.Client runs until the body is read. *)
MayEnd == pc \in {"asked", "answered"}

(* Timeout, a stopped VU, a status other than 200, an undecodable body: the
   call throws and nothing is stored. *)
Fail ==
  /\ MayEnd
  /\ EndCall
  /\ since' = 0
  /\ UNCHANGED <<registry, client, script, message>>

(* serialize with an Avro or JSON schema: the envelope carries the object's
   id, if it has one; the payload depends on the text.  (Payloads that only
   look like an envelope are in Serdes.) *)
WithWireFormat(object) == [id |-> object.id, schema |-> object.schema]

Serialize ==
  /\ pc = "idle" /\ held # NoObject
  /\ message' = WithWireFormat(held)
  /\ UNCHANGED <<registry, client, call, script, since>>

(* Faulty variant: the envelope is stripped, its id not compared. *)
AcceptsAnyId(m, object) == TRUE

(* checkAndStripWireFormat: an object without id never looks at the envelope,
   and bytes that do not look like one pass as they are.  Deserializing
   changes no state that this module keeps. *)
WireFormatAccepts(m, object) == object.id = 0 \/ m.id = 0 \/ m.id = object.id

-----------------------------------------------------------------------------
(* The script edits its object: it drops the id, to encode without envelope. *)
EditHeld ==
  /\ pc = "idle" /\ held # NoObject /\ held.id # 0
  /\ held' = [held EXCEPT !.id = 0]
  /\ schemaCache' = IF alias = NoKey THEN schemaCache
                    ELSE [schemaCache EXCEPT ![alias].id = 0]
  /\ UNCHANGED <<registry, mode, caching, call, alias, message, since>>

(* The registry.  A new text becomes the subject's next version, a known one
   keeps its version. *)
Register(subject, schema) ==
  IF Contains(registry[subject], schema) THEN registry
  ELSE [registry EXCEPT ![subject] = Append(@, schema)]

VersionIn(texts, schema) == CHOOSE v \in DOMAIN texts : texts[v] = schema

Object(subject, version, schema) ==
  [subject |-> subject, version |-> version, id |-> IdOf[schema], schema |-> schema]

AnswerGet ==
  LET subject == request.key[1]
      version == IF request.key[2] = 0 THEN Len(registry[subject]) ELSE request.key[2]
  IN
  /\ pc = "asked" /\ request.op = "get"
  /\ version \in 1 .. Len(registry[subject])
  /\ answer' = Object(subject, version, registry[subject][version])
  /\ pc' = "answered"
  /\ UNCHANGED <<registry, client, request, script, message, since>>

(* Faulty variant: createSchema makes a version up. *)
GuessedVersion(reports, version) == IF reports THEN version ELSE version + 1

(* createSchema reports 0, for unknown, when the answer has no version. *)
ReportedVersion(reports, version) == IF reports THEN version ELSE 0

AnswerCreate(reports) ==
  LET subject == request.key[1] IN
  /\ pc = "asked" /\ request.op = "create"
  /\ registry' = Register(subject, request.schema)
  /\ Len(registry'[subject]) \in Versions
  /\ answer' = Object(subject,
                      ReportedVersion(reports, VersionIn(registry'[subject], request.schema)),
                      request.schema)
  /\ pc' = "answered"
  /\ UNCHANGED <<client, request, script, message, since>>

(* Another VU registers a text, or produces with one that is registered. *)
OtherCreates(subject, schema) ==
  /\ registry' = Register(subject, schema) /\ registry' # registry
  /\ Len(registry'[subject]) \in Versions
  /\ UNCHANGED <<client, call, script, message, since>>

OtherProduces(schema) ==
  /\ \E s \in Subjects : Contains(registry[s], schema)
  /\ message' = WithWireFormat([id |-> IdOf[schema], schema |-> schema])
  /\ UNCHANGED <<registry, client, call, script, since>>

(* Scripts register a text under the name that a strategy gives for it. *)
Next ==
  \/ Standalone
  \/ \E enableCaching \in BOOLEAN : Connect(enableCaching)
  \/ \E ok \in BOOLEAN : Connected(ok)
  \/ \E s \in Named(Reads), v \in Versions \cup {0} : GetCached(s, v) \/ GetSchema(s, v)
  \/ \E w \in Writes :
       LET subject == GetSubjectName(w[1], w[2]) IN
       subject # <<>> /\ (CreateSchema(subject, w[2]) \/ OtherCreates(subject, w[2]))
  \/ Receive \/ Fail
  \/ Serialize \/ EditHeld
  \/ AnswerGet
  \/ \E reports \in BOOLEAN : AnswerCreate(reports)
  \/ \E schema \in Schemas : OtherProduces(schema)

(* http.Client.Timeout ends every wait. *)
Spec == /\ Init /\ [][Next]_vars
        /\ WF_vars(Receive \/ Fail) /\ WF_vars(\E ok \in BOOLEAN : Connected(ok))

-----------------------------------------------------------------------------
(* Properties. *)

(* A cache entry is for ever exactly what the registry said for its key, or
   said once if the key is "latest": late answers, failures, other VUs'
   registrations and scripts editing the objects they were given never leave
   a wrong entry (schema_registry.go: getSchema, copySchema). *)
CacheFaithful ==
  \A k \in Keys :
    LET e == schemaCache[k] IN
    e # NoObject =>
      /\ e.subject = k[1]
      /\ k[2] # 0 => e.version = k[2]
      /\ e.version \in 1 .. Len(registry[k[1]])
      /\ e.schema = registry[k[1]][e.version]
      /\ e.id = IdOf[e.schema]

(* An enveloped message is never decoded, by an object that has an id, with
   another text than the one it was written with, however stale the reader's
   cached "latest" is (schema_registry.go: checkAndStripWireFormat). *)
EnvelopeNeverMisread ==
  message.id # 0 /\ held.id # 0 /\ WireFormatAccepts(message, held) =>
    held.schema = message.schema

(* Without caching, getSchema for the latest version never hands out one that
   was out of date when it was called, although other VUs register versions
   and calls fail in between (schema_registry.go: getSchema). *)
FreshWithoutCaching == pc = "idle" /\ ~caching => held.version >= since

(* A script that uses the subject a record strategy names for its record holds
   a schema of that record, from the cache or late as it may be, whatever texts
   other VUs registered and under whichever strategies: names that differ only
   in the namespace stay apart, and so do the two record strategies.  The joins
   collide in one case, which is left out: a record called "value" outside any
   namespace has the topic's own subject under TopicRecordNameStrategy, where
   texts of any record are (schema_registry.go: getSubjectName). *)
RecordAsNamed ==
  \A strategy \in {"RecordNameStrategy", "TopicRecordNameStrategy"}, s \in Schemas :
    /\ held # NoObject
    /\ held.subject = GetSubjectName(strategy, s)
    /\ held.subject # TopicSubject
    => NameOf[held.schema] = NameOf[s]

(* With caching on, a key once answered is answered the same way for the rest
   of the test, whatever the script does with the objects it was handed
   (schema_registry.go: getSchema, copySchema). *)
CachePinned ==
  [][\A k \in Keys : schemaCache[k] # NoObject => schemaCache'[k] = schemaCache[k]]_vars

(* Every call that waits for the registry ends, the constructor included,
   whether or not the registry answers (schema_registry.go: the Timeout of the
   http.Client that NewSchemaRegistry builds). *)
CallsEnd == pc # "idle" ~> pc = "idle"
=============================================================================
