--------------------------- MODULE RegistryProofs ---------------------------
(* The schema registry client's promises, proved for any texts, strategies and
   number of versions. *)
EXTENDS Registry, SequenceTheorems, TLAPS

(* e is what a registry with these versions says for the key. *)
Faithful(versions, k, e) ==
  /\ e.subject = k[1]
  /\ k[2] # 0 => e.version = k[2]
  /\ e.version \in 1 .. Len(versions[k[1]])
  /\ e.schema = versions[k[1]][e.version]
  /\ e.id = IdOf[e.schema]

(* A text is registered under a name that a strategy gives for it. *)
Assigned == {<<GetSubjectName(w[1], w[2]), w[2]>> : w \in Writes}

RegistryInv ==
  \A s \in Subjects : \A i \in 1 .. Len(registry[s]) : <<s, registry[s][i]>> \in Assigned

(* A call waits only at a registry, and for what it asked. *)
CallInv ==
  /\ pc \in {"asked", "answered"} <=> request # NoRequest
  /\ pc \in {"asked", "answered"} => mode = "registry"
  /\ pc = "connecting" => mode = "none"
  /\ pc = "answered" <=> answer # NoObject
  /\ request.op = "get" => request.key \in Keys
  /\ request.op = "create" => request.schema \in Schemas /\ <<request.key[1], request.schema>> \in Assigned
  /\ pc = "answered" /\ request.op = "get" => Faithful(registry, request.key, answer)
  /\ answer # NoObject => /\ answer.id = IdOf[answer.schema]
                          /\ <<answer.subject, answer.schema>> \in Assigned

(* Only a missing entry is asked for. *)
CacheInv ==
  /\ CacheFaithful
  /\ pc # "idle" /\ request.op = "get" /\ caching => schemaCache[request.key] = NoObject

(* Ids and texts go together, in what the script holds and what it reads. *)
ObjectInv ==
  /\ alias = NoKey
  /\ held # NoObject /\ held.id # 0 => held.id = IdOf[held.schema]
  /\ held # NoObject => <<held.subject, held.schema>> \in Assigned
  /\ message # NoMessage /\ message.id # 0 => message.id = IdOf[message.schema]

(* Without cache, an answer is not older than its call. *)
FreshInv ==
  /\ mode # "registry" => since = 0
  /\ ~caching /\ pc = "asked" /\ since # 0 =>
       request.op = "get" /\ request.key[2] = 0 /\ since <= Len(registry[request.key[1]])
  /\ ~caching /\ pc = "answered" => answer.version >= since
  /\ FreshWithoutCaching

IInv == TypeOK /\ RegistryInv /\ CallInv /\ CacheInv /\ ObjectInv /\ FreshInv

-----------------------------------------------------------------------------
(* Names, keys and objects. *)

(* The topic put before a name: the rest stays, two places further on. *)
LEMMA Prefixed ==
  ASSUME NEW S, NEW x \in S, NEW y \in S, NEW q \in Seq(S)
  PROVE  /\ Len(<<x, y>> \o q) = 2 + Len(q)
         /\ (<<x, y>> \o q)[2] = y
         /\ \A i \in 1 .. Len(q) : (<<x, y>> \o q)[i + 2] = q[i]
<1>1. <<x, y>> \in Seq(S) /\ Len(<<x, y>>) = 2 /\ <<x, y>>[2] = y
  OBVIOUS
<1> QED BY <1>1, ConcatProperties

(* A record's full name has no dash, so that the two record strategies give one
   name only to texts of one record.  The subject of the topic is not of this
   form only as long as no record is called like the element. *)
LEMMA NameTellsRecord ==
  ASSUME NEW st1, NEW st2, NEW s1 \in Schemas, NEW s2 \in Schemas,
         GetSubjectName(st1, s1) = GetSubjectName(st2, s2),
         GetSubjectName(st1, s1) # <<>>, GetSubjectName(st1, s1) # TopicSubject
  PROVE  NameOf[s1] = NameOf[s2]
<1> DEFINE Parts == STRING \cup {"topic", "-"}
           Long(s) == <<"topic", "-">> \o NameOf[s]
<1>6. "topic" \in Parts /\ "-" \in Parts /\ STRING \subseteq Parts
  OBVIOUS
<1> HIDE DEF Parts
<1>7. \A s \in Schemas : NameOf[s] \in Seq(STRING)
  BY NameAssumption, Zenon
<1>8. \A S, T : S \subseteq T => Seq(S) \subseteq Seq(T)
  OBVIOUS
<1>9. \A s \in Schemas : NameOf[s] \in Seq(Parts)
  BY <1>6, <1>7, <1>8
<1>1. \A s \in Schemas : /\ NameOf[s] \in Seq(Parts) /\ Len(NameOf[s]) \in {0, 1, 3}
                         /\ Len(NameOf[s]) = 3 => NameOf[s][2] = "."
  <2>1. \A s \in Schemas : Len(NameOf[s]) \in {0, 1, 3}
    BY NameAssumption, Zenon
  <2>2. \A s \in Schemas : Len(NameOf[s]) = 3 => NameOf[s][2] = "."
    BY NameAssumption, Zenon
  <2> QED BY <1>9, <2>1, <2>2
<1>2. \A s \in Schemas : /\ Len(Long(s)) = 2 + Len(NameOf[s])
                         /\ Long(s)[2] = "-"
                         /\ \A i \in 1 .. Len(NameOf[s]) : Long(s)[i + 2] = NameOf[s][i]
  <2> TAKE s \in Schemas
  <2>1. "topic" \in Parts /\ "-" \in Parts /\ NameOf[s] \in Seq(Parts)
    BY <1>1, <1>6
  <2> QED BY ONLY <2>1, Prefixed DEF Long
<1>3. \A st, s : \/ GetSubjectName(st, s) = TopicSubject
                 \/ GetSubjectName(st, s) = NameOf[s]
                 \/ GetSubjectName(st, s) = Long(s) /\ NameOf[s] # <<>>
                 \/ GetSubjectName(st, s) = <<>>
  BY DEF GetSubjectName, RecordFullName
<1> HIDE DEF Long
<1>4. \A s, t \in Schemas : Long(s) = Long(t) => NameOf[s] = NameOf[t]
  <2> SUFFICES ASSUME NEW s \in Schemas, NEW t \in Schemas, Long(s) = Long(t)
               PROVE  NameOf[s] = NameOf[t]
    OBVIOUS
  <2>1. Len(NameOf[s]) = Len(NameOf[t])
    BY <1>1, <1>2
  <2>2. ASSUME NEW i \in 1 .. Len(NameOf[s]) PROVE NameOf[s][i] = NameOf[t][i]
    <3>1. Long(s)[i + 2] = NameOf[s][i] /\ Long(t)[i + 2] = NameOf[t][i]
      BY <1>2, <2>1, <2>2
    <3> QED BY <3>1
  <2> QED BY <1>1, <2>1, <2>2, SeqEqual
<1>5. \A s, t \in Schemas : NameOf[s] # <<>> => Long(s) # NameOf[t]
  <2> SUFFICES ASSUME NEW s \in Schemas, NEW t \in Schemas, NameOf[s] # <<>>, Long(s) = NameOf[t]
               PROVE  FALSE
    OBVIOUS
  <2>1. Len(NameOf[s]) \in {1, 3}
    BY <1>1, EmptySeq
  <2>2. Len(NameOf[t]) = 3
    BY <1>1, <1>2, <2>1
  <2>3. NameOf[t][2] = "." /\ NameOf[t][2] = "-"
    BY <1>1, <1>2, <2>2
  <2> QED BY <2>3
<1> QED BY <1>3, <1>4, <1>5

(* What scripts fetch they could also register, and no subject is an error. *)
LEMMA ReadNames ==
  /\ Named(Reads) \subseteq Subjects
  /\ <<>> \notin Subjects
  /\ \A w \in Writes : /\ w[2] \in Schemas
                       /\ <<GetSubjectName(w[1], w[2]), w[2]>> \in Assigned
                       /\ GetSubjectName(w[1], w[2]) # <<>> => GetSubjectName(w[1], w[2]) \in Subjects
BY UseAssumption DEF Named, Subjects, Assigned

(* A version asked for by its number is its own cache key, 0 the latest's. *)
LEMMA KeyIsRequest ==
  \A s, v : v \in Versions \cup {0} => SchemaCacheKey(s, v) = <<s, v>>
BY TextAssumption DEF SchemaCacheKey, Versions

(* The bounded sequences are the sequences up to that length. *)
LEMMA BoundedSeqs ==
  ASSUME NEW S, NEW n \in Nat
  PROVE  BoundedSeq(S, n) = {q \in Seq(S) : Len(q) <= n}
<1>1. \A q \in BoundedSeq(S, n) : q \in Seq(S) /\ Len(q) <= n
  BY DEF BoundedSeq, SeqOf
<1>2. \A q \in Seq(S) : Len(q) <= n => q \in [1 .. Len(q) -> S] /\ Len(q) \in 0 .. n
  OBVIOUS
<1>3. \A q \in Seq(S) : Len(q) <= n => q \in BoundedSeq(S, n)
  BY <1>2 DEF BoundedSeq, SeqOf
<1> QED BY <1>1, <1>3

(* Objects and requests of the types are told from the missing ones by their
   text and their operation. *)
LEMMA RealObjects ==
  /\ NoObject \in Objects
  /\ NoObject.id = 0 /\ NoObject.version = 0 /\ NoRequest.op = "none"
  /\ \A o \in Objects : o # NoObject =>
       o \in [subject : Subjects, version : Versions \cup {0}, id : {0} \cup Ids, schema : Schemas]
  /\ \A s \in Subjects, v \in Versions \cup {0}, t \in Schemas :
       /\ Object(s, v, t) \in Objects
       /\ Object(s, v, t) # NoObject
       /\ Object(s, v, t).id = IdOf[t]
       /\ Object(s, v, t).version = v
       /\ Object(s, v, t).subject = s
       /\ Object(s, v, t).schema = t
BY TextAssumption DEF NoObject, NoRequest, Objects, Object, Ids

-----------------------------------------------------------------------------
(* The registry only grows. *)

Grown(old, new) ==
  \A s \in Subjects : /\ Len(old[s]) <= Len(new[s])
                      /\ \A i \in 1 .. Len(old[s]) : new[s][i] = old[s][i]

(* A registration keeps every version, adds the text if it is new, and names
   stay those that a strategy gives. *)
LEMMA RegisterGrows ==
  ASSUME TypeOK, RegistryInv, NEW subject \in Subjects, NEW schema \in Schemas,
         <<subject, schema>> \in Assigned,
         registry' = Register(subject, schema), Len(registry'[subject]) \in Versions
  PROVE  /\ registry' \in [Subjects -> BoundedSeq(Schemas, MaxVersions)]
         /\ Grown(registry, registry')
         /\ RegistryInv'
         /\ VersionIn(registry'[subject], schema) \in 1 .. Len(registry'[subject])
         /\ registry'[subject][VersionIn(registry'[subject], schema)] = schema
<1> DEFINE old == registry[subject]
           new == registry'[subject]
<1>1. registry \in [Subjects -> BoundedSeq(Schemas, MaxVersions)]
  BY DEF TypeOK
<1>2. \A s \in Subjects : registry[s] \in Seq(Schemas) /\ Len(registry[s]) <= MaxVersions
  BY <1>1, BoundedSeqs, TextAssumption
<1>3. old \in Seq(Schemas) /\ Len(old) \in Nat
  BY <1>2
<1>4. CASE Contains(old, schema)
  <2>1. registry' = registry
    BY <1>4 DEF Register
  <2>2. Grown(registry, registry') /\ RegistryInv'
    BY <2>1 DEF Grown, RegistryInv
  <2>3. \E v \in 1 .. Len(new) : new[v] = schema
    BY <1>4, <2>1 DEF Contains
  <2>4. DOMAIN new = 1 .. Len(new)
    BY <1>3, <2>1
  <2>5. \E v \in DOMAIN new : new[v] = schema
    BY <2>3, <2>4
  <2>6. VersionIn(new, schema) \in DOMAIN new /\ new[VersionIn(new, schema)] = schema
    BY <2>5 DEF VersionIn
  <2> QED BY <1>1, <2>1, <2>2, <2>4, <2>6
<1>5. CASE ~Contains(old, schema)
  <2>1. registry' = [registry EXCEPT ![subject] = Append(old, schema)]
    BY <1>5 DEF Register
  <2>2. /\ new = Append(old, schema)
        /\ \A s \in Subjects : s # subject => registry'[s] = registry[s]
    BY <1>1, <2>1
  <2>3. /\ new \in Seq(Schemas) /\ Len(new) = Len(old) + 1
        /\ \A i \in 1 .. Len(old) : new[i] = old[i]
        /\ new[Len(old) + 1] = schema
    BY <1>3, <2>2, AppendProperties
  <2>4. new \in BoundedSeq(Schemas, MaxVersions)
    BY <2>3, BoundedSeqs, TextAssumption DEF Versions
  <2>5. registry' \in [Subjects -> BoundedSeq(Schemas, MaxVersions)]
    BY <1>1, <2>1, <2>2, <2>4
  <2> HIDE DEF old, new
  <2>6. Grown(registry, registry')
    <3> SUFFICES ASSUME NEW s \in Subjects
                 PROVE  /\ Len(registry[s]) <= Len(registry'[s])
                        /\ \A i \in 1 .. Len(registry[s]) : registry'[s][i] = registry[s][i]
      BY DEF Grown
    <3>1. CASE s = subject
      BY <1>3, <2>3, <3>1 DEF old, new
    <3>2. CASE s # subject
      <4>1. registry'[s] = registry[s] /\ Len(registry[s]) \in Nat
        BY <1>2, <2>2, <3>2
      <4> QED BY <4>1
    <3> QED BY <3>1, <3>2
  <2>7. RegistryInv'
    <3> SUFFICES ASSUME NEW s \in Subjects, NEW i \in 1 .. Len(registry'[s])
                 PROVE  <<s, registry'[s][i]>> \in Assigned
      BY DEF RegistryInv
    <3>1. CASE s = subject /\ i = Len(old) + 1
      BY <2>3, <3>1 DEF new
    <3>2. CASE s = subject /\ i # Len(old) + 1
      <4>1. i \in 1 .. Len(old)
        BY <1>3, <2>3, <3>2 DEF new
      <4> QED BY <2>3, <3>2, <4>1 DEF RegistryInv, old, new
    <3>3. CASE s # subject
      BY <2>2, <3>3 DEF RegistryInv
    <3> QED BY <3>1, <3>2, <3>3
  <2>8. DOMAIN new = 1 .. Len(new) /\ Len(new) \in 1 .. Len(new)
    BY <1>3, <2>3
  <2>9. VersionIn(new, schema) \in DOMAIN new /\ new[VersionIn(new, schema)] = schema
    BY <1>3, <2>3, <2>8 DEF VersionIn
  <2> QED BY <2>5, <2>6, <2>7, <2>8, <2>9 DEF new
<1> QED BY <1>4, <1>5

(* What the registry once said for a key it says for ever. *)
LEMMA FaithfulKept ==
  ASSUME NEW old, NEW new, Grown(old, new), \A s \in Subjects : Len(old[s]) \in Nat /\ Len(new[s]) \in Nat,
         NEW k, k[1] \in Subjects, NEW e, Faithful(old, k, e)
  PROVE  Faithful(new, k, e)
BY DEF Faithful, Grown

(* The lengths and texts of the versions. *)
LEMMA VersionTexts ==
  ASSUME TypeOK
  PROVE  \A s \in Subjects : /\ Len(registry[s]) \in 0 .. MaxVersions
                             /\ \A i \in 1 .. Len(registry[s]) : registry[s][i] \in Schemas
<1>1. \A s \in Subjects : registry[s] \in Seq(Schemas) /\ Len(registry[s]) <= MaxVersions
  BY BoundedSeqs, TextAssumption DEF TypeOK
<1> QED BY <1>1

-----------------------------------------------------------------------------
(* The types. *)

(* Init satisfies the invariant. *)
LEMMA InitInv == Init => IInv
<1> SUFFICES ASSUME Init PROVE IInv
  OBVIOUS
<1>1. \A s \in Subjects : registry[s] = <<>> /\ Len(registry[s]) = 0
  BY DEF Init
<1>2. <<>> \in BoundedSeq(Schemas, MaxVersions)
  <2>1. <<>> \in Seq(Schemas) /\ Len(<<>>) = 0
    BY EmptySeq
  <2>2. 0 <= MaxVersions
    BY TextAssumption
  <2>3. <<>> \in {q \in Seq(Schemas) : Len(q) <= MaxVersions}
    BY <2>1, <2>2
  <2> QED BY <2>3, BoundedSeqs, TextAssumption
<1>3. TypeOK
  BY <1>2, RealObjects DEF Init, TypeOK
<1>4. RegistryInv /\ CallInv /\ ObjectInv
  BY <1>1, RealObjects DEF Init, RegistryInv, CallInv, ObjectInv
<1>5. CacheInv
  BY DEF Init, CacheInv, CacheFaithful
<1>6. FreshInv
  BY RealObjects DEF Init, FreshInv, FreshWithoutCaching
<1> QED BY <1>3, <1>4, <1>5, <1>6 DEF IInv

(* Every step keeps the types: the requests, answers, entries and objects are
   built from subjects, versions and texts of the registry. *)
LEMMA TypeStep ==
  ASSUME IInv, [Next]_vars
  PROVE  TypeOK'
<1> USE DEF IInv
<1>1. CASE Standalone
  BY <1>1 DEF Standalone, TypeOK, call, script
<1>2. ASSUME NEW b \in BOOLEAN, Connect(b) PROVE TypeOK'
  BY <1>2 DEF Connect, TypeOK, script
<1>3. ASSUME NEW b \in BOOLEAN, Connected(b) PROVE TypeOK'
  BY <1>3 DEF Connected, TypeOK, script
<1>4. ASSUME NEW s \in Named(Reads), NEW v \in Versions \cup {0}, GetCached(s, v) \/ GetSchema(s, v)
      PROVE  TypeOK'
  <2>1. s \in Subjects /\ <<s, v>> \in Keys /\ SchemaCacheKey(s, v) = <<s, v>>
    BY ReadNames, KeyIsRequest DEF Keys
  <2>2. Newest(s, v) \in Versions \cup {0}
    BY <2>1, VersionTexts, TextAssumption DEF Newest, Versions
  <2>3. CASE GetCached(s, v)
    BY <2>1, <2>2, <2>3 DEF GetCached, CopySchema, TypeOK, client, call
  <2>4. CASE GetSchema(s, v)
    BY <2>1, <2>2, <2>4 DEF GetSchema, TypeOK, client, script
  <2> QED BY <1>4, <2>3, <2>4
<1>5. ASSUME NEW w \in Writes, GetSubjectName(w[1], w[2]) # <<>>,
             CreateSchema(GetSubjectName(w[1], w[2]), w[2])
      PROVE  TypeOK'
  BY <1>5, ReadNames DEF CreateSchema, TypeOK, client, script
<1>6. ASSUME NEW w \in Writes, GetSubjectName(w[1], w[2]) # <<>>,
             OtherCreates(GetSubjectName(w[1], w[2]), w[2])
      PROVE  TypeOK'
  <2>1. registry' \in [Subjects -> BoundedSeq(Schemas, MaxVersions)]
    BY <1>6, ReadNames, RegisterGrows DEF OtherCreates
  <2> QED BY <1>6, <2>1 DEF OtherCreates, TypeOK, client, call, script
<1>7. CASE Receive
  <2>1. request.op = "get" => SchemaCacheKey(request.key[1], request.key[2]) \in Keys
    BY <1>7, KeyIsRequest DEF CallInv, Keys
  <2>2. schemaCache' \in [Keys -> Objects]
    BY <1>7, <2>1 DEF Receive, TypeOK
  <2> QED BY <1>7, <2>2, RealObjects DEF Receive, EndCall, CopySchema, TypeOK
<1>8. CASE Fail
  BY <1>8, RealObjects DEF Fail, EndCall, TypeOK, client, script
<1>9. CASE Serialize
  <2>1. message' \in [id : {0} \cup Ids, schema : Schemas]
    BY <1>9, RealObjects DEF Serialize, WithWireFormat, TypeOK
  <2> QED BY <1>9, <2>1 DEF Serialize, TypeOK, client, call, script
<1>10. CASE EditHeld
  <2>1. held' \in Objects
    BY <1>10, RealObjects DEF EditHeld, TypeOK, Objects
  <2> QED BY <1>10, <2>1 DEF EditHeld, ObjectInv, TypeOK, call
<1>11. CASE AnswerGet
  <2>1. answer' \in Objects
    <3> DEFINE s == request.key[1]
               v == IF request.key[2] = 0 THEN Len(registry[s]) ELSE request.key[2]
    <3>1. s \in Subjects /\ v \in 1 .. Len(registry[s]) /\ answer' = Object(s, v, registry[s][v])
      BY <1>11, ReadNames DEF AnswerGet, CallInv, Keys
    <3>2. v \in Versions /\ registry[s][v] \in Schemas
      BY <3>1, VersionTexts, TextAssumption DEF Versions
    <3> HIDE DEF s, v
    <3> QED BY <3>1, <3>2, RealObjects
  <2> QED BY <1>11, <2>1 DEF AnswerGet, TypeOK, client, script
<1>12. ASSUME NEW b \in BOOLEAN, AnswerCreate(b) PROVE TypeOK'
  <2> DEFINE s == request.key[1]
             v == VersionIn(registry'[s], request.schema)
  <2>1. s \in Subjects /\ request.schema \in Schemas /\ <<s, request.schema>> \in Assigned
    BY <1>12 DEF AnswerCreate, CallInv, TypeOK, NoRequest
  <2>2. registry' \in [Subjects -> BoundedSeq(Schemas, MaxVersions)] /\ v \in 1 .. Len(registry'[s])
    BY <1>12, <2>1, RegisterGrows DEF AnswerCreate
  <2>3. Len(registry'[s]) \in Versions /\ answer' = Object(s, ReportedVersion(b, v), request.schema)
    BY <1>12 DEF AnswerCreate
  <2> HIDE DEF s, v
  <2>4. ReportedVersion(b, v) \in Versions \cup {0}
    BY <2>2, <2>3, TextAssumption DEF ReportedVersion, Versions
  <2>5. answer' \in Objects
    BY <2>1, <2>3, <2>4, RealObjects
  <2> QED BY <1>12, <2>2, <2>5 DEF AnswerCreate, TypeOK, client, script
<1>13. ASSUME NEW t \in Schemas, OtherProduces(t) PROVE TypeOK'
  <2>1. message' \in [id : {0} \cup Ids, schema : Schemas]
    BY <1>13 DEF OtherProduces, WithWireFormat, Ids
  <2> QED BY <1>13, <2>1 DEF OtherProduces, TypeOK, client, call, script
<1>14. CASE UNCHANGED vars
  BY <1>14 DEF vars, client, call, script, TypeOK
<1> QED BY <1>1, <1>2, <1>3, <1>4, <1>5, <1>6, <1>7, <1>8, <1>9, <1>10, <1>11, <1>12, <1>13, <1>14 DEF Next

-----------------------------------------------------------------------------
(* The other parts, action by action. *)

(* CacheFaithful says of every entry that it is what the registry says. *)
LEMMA CacheEntries ==
  CacheFaithful <=> \A k \in Keys : schemaCache[k] # NoObject => Faithful(registry, k, schemaCache[k])
BY DEF CacheFaithful, Faithful

(* The constructor's steps touch neither the cache nor an object. *)
LEMMA ConstructorKeeps ==
  ASSUME IInv, TypeOK',
         Standalone \/ \E b \in BOOLEAN : Connect(b) \/ Connected(b)
  PROVE  IInv'
<1> USE DEF IInv
<1>1. UNCHANGED <<registry, schemaCache, request, answer, held, alias, message, since>>
  BY DEF Standalone, Connect, Connected, call, script
<1>2. RegistryInv'
  BY <1>1 DEF RegistryInv
<1>3. mode = "none" /\ since = 0 /\ pc \in {"idle", "connecting"} /\ pc' \in {"idle", "connecting"}
  BY DEF Standalone, Connect, Connected, CallInv, FreshInv, call
<1>4. CallInv'
  BY <1>1, <1>3 DEF CallInv, Standalone, Connect, Connected, call
<1>5. CacheInv'
  BY <1>1, <1>3, RealObjects DEF CacheInv, CacheFaithful, CallInv
<1>6. ObjectInv'
  BY <1>1 DEF ObjectInv
<1>7. FreshInv'
  <2>1. held.version \in Nat
    BY RealObjects, TextAssumption DEF TypeOK, Versions
  <2> QED BY <1>1, <1>3, <2>1 DEF FreshInv, FreshWithoutCaching
<1> QED BY <1>2, <1>4, <1>5, <1>6, <1>7

(* getSchema and createSchema ask, or hand out a copy of a cache entry. *)
LEMMA AskKeeps ==
  ASSUME IInv, TypeOK',
         \/ \E s \in Named(Reads), v \in Versions \cup {0} : GetCached(s, v) \/ GetSchema(s, v)
         \/ \E w \in Writes :
              GetSubjectName(w[1], w[2]) # <<>> /\ CreateSchema(GetSubjectName(w[1], w[2]), w[2])
  PROVE  IInv'
<1> USE DEF IInv
<1>1. ASSUME NEW s \in Named(Reads), NEW v \in Versions \cup {0}, GetCached(s, v)
      PROVE  IInv'
  <2>1. <<s, v>> \in Keys /\ SchemaCacheKey(s, v) = <<s, v>>
    BY KeyIsRequest DEF Keys
  <2>2. /\ pc = "idle" /\ mode = "registry" /\ caching
        /\ schemaCache[<<s, v>>] # NoObject /\ held' = schemaCache[<<s, v>>] /\ alias' = NoKey
        /\ UNCHANGED <<registry, mode, caching, schemaCache, pc, request, answer, message>>
    BY <1>1, <2>1 DEF GetCached, HasRegistry, CacheHit, Caches, CopySchema, client, call
  <2>3. RegistryInv' /\ CallInv'
    BY <2>2 DEF RegistryInv, CallInv
  <2>4. CacheInv'
    BY <2>2 DEF CacheInv, CacheFaithful
  <2>5. ObjectInv'
    <3>1. s \in Subjects /\ Faithful(registry, <<s, v>>, held')
      BY <2>1, <2>2, CacheEntries, ReadNames DEF CacheInv
    <3>2. <<held'.subject, held'.schema>> \in Assigned /\ held'.id = IdOf[held'.schema]
      BY <3>1 DEF Faithful, RegistryInv
    <3> QED BY <2>2, <3>2 DEF ObjectInv
  <2>6. FreshInv'
    BY <2>2 DEF FreshInv, FreshWithoutCaching
  <2> QED BY <2>3, <2>4, <2>5, <2>6
<1>2. ASSUME NEW s \in Named(Reads), NEW v \in Versions \cup {0}, GetSchema(s, v)
      PROVE  IInv'
  <2>1. <<s, v>> \in Keys /\ SchemaCacheKey(s, v) = <<s, v>> /\ s \in Subjects
    BY KeyIsRequest, ReadNames DEF Keys
  <2>2. /\ pc = "idle" /\ mode = "registry" /\ pc' = "asked"
        /\ request' = [op |-> "get", key |-> <<s, v>>, schema |-> NoSchema]
        /\ caching => schemaCache[<<s, v>>] = NoObject
        /\ since' = Newest(s, v)
        /\ UNCHANGED <<registry, mode, caching, schemaCache, answer, held, alias, message>>
    BY <1>2, <2>1 DEF GetSchema, HasRegistry, CacheHit, Caches, client, script
  <2>3. request' # NoRequest /\ request'.op = "get" /\ request'.key = <<s, v>>
    BY <2>2 DEF NoRequest
  <2>4. RegistryInv' /\ ObjectInv'
    BY <2>2 DEF RegistryInv, ObjectInv
  <2>5. CallInv'
    BY <2>1, <2>2, <2>3 DEF CallInv
  <2>6. CacheInv'
    BY <2>2, <2>3 DEF CacheInv, CacheFaithful
  <2>7. FreshInv'
    BY <2>1, <2>2, <2>3, VersionTexts, TextAssumption DEF FreshInv, FreshWithoutCaching, Newest
  <2> QED BY <2>4, <2>5, <2>6, <2>7
<1>3. ASSUME NEW w \in Writes, GetSubjectName(w[1], w[2]) # <<>>,
             CreateSchema(GetSubjectName(w[1], w[2]), w[2])
      PROVE  IInv'
  <2> DEFINE s == GetSubjectName(w[1], w[2])
             t == w[2]
  <2>1. /\ pc = "idle" /\ mode = "registry" /\ pc' = "asked" /\ since' = 0
        /\ request' = [op |-> "create", key |-> <<s, 0>>, schema |-> t]
        /\ UNCHANGED <<registry, mode, caching, schemaCache, answer, held, alias, message>>
    BY <1>3 DEF CreateSchema, HasRegistry, client, script
  <2>2. <<s, t>> \in Assigned /\ t \in Schemas
    BY ReadNames
  <2> HIDE DEF s, t
  <2>3. /\ request' # NoRequest /\ request'.op = "create" /\ request'.key = <<s, 0>>
        /\ request'.schema = t
    BY <2>1 DEF NoRequest
  <2>4. RegistryInv' /\ ObjectInv'
    BY <2>1 DEF RegistryInv, ObjectInv
  <2>5. CallInv'
    BY <2>1, <2>2, <2>3 DEF CallInv
  <2>6. CacheInv' /\ FreshInv'
    BY <2>1, <2>3 DEF CacheInv, CacheFaithful, FreshInv, FreshWithoutCaching
  <2> QED BY <2>4, <2>5, <2>6
<1> QED BY <1>1, <1>2, <1>3

(* An answer is stored and handed out, or the call fails. *)
LEMMA EndKeeps ==
  ASSUME IInv, TypeOK', Receive \/ Fail
  PROVE  IInv'
<1> USE DEF IInv
<1>1. /\ pc \in {"asked", "answered"} /\ mode = "registry" /\ pc' = "idle"
      /\ request' = NoRequest /\ answer' = NoObject
      /\ UNCHANGED <<registry, mode, caching, message>>
  BY DEF Receive, Fail, MayEnd, EndCall, client, CallInv
<1>2. RegistryInv' /\ CallInv'
  BY <1>1, RealObjects DEF RegistryInv, CallInv
<1>3. CASE Fail
  <2>1. UNCHANGED <<schemaCache, held, alias>> /\ since' = 0
    BY <1>3 DEF Fail, client, script
  <2>2. CacheInv' /\ ObjectInv'
    BY <1>1, <2>1 DEF CacheInv, CacheFaithful, ObjectInv
  <2>3. held.version \in Nat
    BY RealObjects, TextAssumption, SMTT(30) DEF TypeOK, Versions
  <2>4. FreshInv'
    BY <1>1, <2>1, <2>3 DEF FreshInv, FreshWithoutCaching
  <2> QED BY <1>2, <2>2, <2>4
<1>4. CASE Receive
  <2>1. pc = "answered" /\ held' = answer /\ alias' = NoKey /\ since' = since
    BY <1>4 DEF Receive, CopySchema
  <2>2. \A k \in Keys : schemaCache'[k] # schemaCache[k] =>
          request.op = "get" /\ k = request.key /\ schemaCache'[k] = answer
    <3>1. request.op = "get" => SchemaCacheKey(request.key[1], request.key[2]) = request.key /\ request.key \in Keys
      BY KeyIsRequest DEF CallInv, Keys
    <3> QED BY <1>4, <3>1 DEF Receive, TypeOK
  <2>3. CacheFaithful'
    <3>1. \A k \in Keys : schemaCache'[k] # NoObject => Faithful(registry', k, schemaCache'[k])
      BY <1>1, <2>1, <2>2, CacheEntries DEF CallInv, CacheInv
    <3> QED BY <3>1 DEF CacheFaithful, Faithful
  <2>4. CacheInv' /\ ObjectInv'
    BY <1>1, <2>1, <2>3 DEF CacheInv, ObjectInv, CallInv
  <2>5. FreshInv'
    BY <1>1, <2>1 DEF FreshInv, FreshWithoutCaching
  <2> QED BY <1>2, <2>4, <2>5
<1> QED BY <1>3, <1>4

(* The script's own steps, and a message of another VU. *)
LEMMA ScriptKeeps ==
  ASSUME IInv, TypeOK', Serialize \/ EditHeld \/ \E t \in Schemas : OtherProduces(t)
  PROVE  IInv'
<1> USE DEF IInv
<1>1. UNCHANGED <<registry, mode, caching, schemaCache, pc, request, answer, alias, since>>
  BY DEF Serialize, EditHeld, OtherProduces, ObjectInv, client, call, script
<1>2. RegistryInv' /\ CallInv' /\ CacheInv'
  BY <1>1 DEF RegistryInv, CallInv, CacheInv, CacheFaithful
<1>3. CASE Serialize
  <2>1. held' = held /\ held # NoObject /\ message' = [id |-> held.id, schema |-> held.schema]
    BY <1>3 DEF Serialize, WithWireFormat, script
  <2>2. ObjectInv' /\ FreshInv'
    BY <1>1, <2>1 DEF ObjectInv, FreshInv, FreshWithoutCaching
  <2> QED BY <1>2, <2>2
<1>4. CASE EditHeld
  <2>1. /\ message' = message /\ held # NoObject /\ held' = [held EXCEPT !.id = 0]
    BY <1>4 DEF EditHeld
  <2>2. held'.id = 0 /\ held'.version = held.version
    BY <2>1, RealObjects DEF TypeOK
  <2>3. ObjectInv' /\ FreshInv'
    BY <1>1, <2>1, <2>2 DEF ObjectInv, FreshInv, FreshWithoutCaching
  <2> QED BY <1>2, <2>3
<1>5. ASSUME NEW t \in Schemas, OtherProduces(t) PROVE IInv'
  <2>1. held' = held /\ message'.id = IdOf[t] /\ message'.schema = t
    BY <1>5 DEF OtherProduces, WithWireFormat, script
  <2>2. ObjectInv' /\ FreshInv'
    BY <1>1, <2>1 DEF ObjectInv, FreshInv, FreshWithoutCaching
  <2> QED BY <1>2, <2>2
<1> QED BY <1>3, <1>4, <1>5

(* The registry answers, or grows for another VU. *)
LEMMA RegistryKeeps ==
  ASSUME IInv, TypeOK',
         \/ AnswerGet
         \/ \E b \in BOOLEAN : AnswerCreate(b)
         \/ \E w \in Writes :
              GetSubjectName(w[1], w[2]) # <<>> /\ OtherCreates(GetSubjectName(w[1], w[2]), w[2])
  PROVE  IInv'
<1> USE DEF IInv
<1>1. UNCHANGED <<mode, caching, schemaCache, request, held, alias, message, since>>
  BY DEF AnswerGet, AnswerCreate, OtherCreates, client, call, script
<1>2. ObjectInv'
  BY <1>1 DEF ObjectInv
<1>3. CASE AnswerGet
  <2> DEFINE s == request.key[1]
             v == IF request.key[2] = 0 THEN Len(registry[s]) ELSE request.key[2]
  <2>1. /\ pc = "asked" /\ request.op = "get" /\ pc' = "answered" /\ registry' = registry
        /\ v \in 1 .. Len(registry[s]) /\ answer' = Object(s, v, registry[s][v])
    BY <1>3 DEF AnswerGet
  <2>2. s \in Subjects /\ v \in Versions /\ registry[s][v] \in Schemas /\ Len(registry[s]) \in Nat
    BY <2>1, ReadNames, VersionTexts, TextAssumption DEF CallInv, Keys, Versions
  <2>3. request.key[2] # 0 => v = request.key[2]
    OBVIOUS
  <2>4. request.key[2] = 0 => v = Len(registry[s])
    OBVIOUS
  <2> HIDE DEF v
  <2>5. /\ answer' # NoObject /\ answer'.version = v
        /\ answer'.id = IdOf[answer'.schema] /\ Faithful(registry, request.key, answer')
    BY <2>1, <2>2, <2>3, RealObjects DEF Faithful
  <2>9. <<answer'.subject, answer'.schema>> \in Assigned
    BY <2>1, <2>2, RealObjects DEF RegistryInv
  <2>6. RegistryInv' /\ CacheInv'
    BY <1>1, <2>1 DEF RegistryInv, CacheInv, CacheFaithful
  <2>7. CallInv'
    BY <1>1, <2>1, <2>5, <2>9 DEF CallInv
  <2>8. FreshInv'
    BY <1>1, <2>1, <2>2, <2>4, <2>5, TextAssumption DEF FreshInv, FreshWithoutCaching, Versions
  <2> QED BY <1>2, <2>6, <2>7, <2>8
<1>4. ASSUME Grown(registry, registry'),
             \A s \in Subjects : Len(registry[s]) \in Nat /\ Len(registry'[s]) \in Nat
      PROVE  CacheFaithful'
  <2>1. \A k \in Keys : k[1] \in Subjects
    BY ReadNames DEF Keys
  <2>2. \A k \in Keys : schemaCache[k] # NoObject => Faithful(registry', k, schemaCache[k])
    BY <1>4, <2>1, CacheEntries, FaithfulKept DEF CacheInv
  <2> QED BY <1>1, <2>2 DEF CacheFaithful, Faithful
<1>5. \A s \in Subjects : Len(registry[s]) \in Nat /\ Len(registry'[s]) \in Nat
  <2>1. \A s \in Subjects : Len(registry[s]) \in 0 .. MaxVersions
    BY VersionTexts
  <2>2. \A s \in Subjects : Len(registry'[s]) \in Nat
    <3>1. \A s \in Subjects : registry'[s] \in BoundedSeq(Schemas, MaxVersions)
      BY DEF TypeOK
    <3> QED BY <3>1, BoundedSeqs, TextAssumption
  <2> QED BY <2>1, <2>2
<1>6. ASSUME NEW b \in BOOLEAN, AnswerCreate(b) PROVE IInv'
  <2> DEFINE s == request.key[1]
             v == ReportedVersion(b, VersionIn(registry'[s], request.schema))
  <2>1. /\ pc = "asked" /\ request.op = "create" /\ pc' = "answered"
        /\ s \in Subjects /\ request.schema \in Schemas /\ <<s, request.schema>> \in Assigned
    BY <1>6 DEF AnswerCreate, CallInv, TypeOK, NoRequest
  <2>2. /\ Grown(registry, registry') /\ RegistryInv'
        /\ VersionIn(registry'[s], request.schema) \in 1 .. Len(registry'[s])
    BY <1>6, <2>1, RegisterGrows DEF AnswerCreate
  <2>3. Len(registry'[s]) \in Versions /\ answer' = Object(s, v, request.schema)
    BY <1>6 DEF AnswerCreate
  <2>4. v \in Versions \cup {0}
    BY <2>2, <2>3, TextAssumption DEF ReportedVersion, Versions
  <2> HIDE DEF v
  <2>5. /\ answer' # NoObject /\ answer'.version = v /\ answer'.id = IdOf[answer'.schema]
        /\ <<answer'.subject, answer'.schema>> \in Assigned
    BY <2>1, <2>3, <2>4, RealObjects
  <2>6. CallInv'
    BY <1>1, <2>1, <2>5 DEF CallInv
  <2>7. CacheInv'
    BY <1>1, <1>4, <1>5, <2>1, <2>2 DEF CacheInv
  <2>8. FreshInv'
    BY <1>1, <2>1, <2>4, <2>5, TextAssumption DEF FreshInv, FreshWithoutCaching, Versions
  <2> QED BY <1>2, <2>2, <2>6, <2>7, <2>8
<1>7. ASSUME NEW w \in Writes, GetSubjectName(w[1], w[2]) # <<>>,
             OtherCreates(GetSubjectName(w[1], w[2]), w[2])
      PROVE  IInv'
  <2>1. Grown(registry, registry') /\ RegistryInv'
    BY <1>7, ReadNames, RegisterGrows DEF OtherCreates
  <2>2. pc' = pc /\ answer' = answer
    BY <1>7 DEF OtherCreates, call
  <2>3. CacheInv'
    BY <1>1, <1>4, <1>5, <2>1, <2>2 DEF CacheInv
  <2>4. pc = "answered" /\ request.op = "get" => Faithful(registry', request.key, answer)
    <3>1. request.op = "get" => request.key[1] \in Subjects
      BY ReadNames DEF CallInv, Keys
    <3> QED BY <1>5, <2>1, <3>1, FaithfulKept DEF CallInv
  <2>5. CallInv'
    BY <1>1, <2>2, <2>4 DEF CallInv
  <2>6. FreshInv'
    <3>1. request.op = "get" => request.key[1] \in Subjects
      BY ReadNames DEF CallInv, Keys
    <3>2. request.op = "get" => Len(registry[request.key[1]]) <= Len(registry'[request.key[1]])
      BY <2>1, <3>1 DEF Grown
    <3>3. since \in Nat
      BY TextAssumption DEF TypeOK, Versions
    <3> QED BY <1>1, <1>5, <2>2, <3>1, <3>2, <3>3 DEF FreshInv, FreshWithoutCaching
  <2> QED BY <1>2, <2>1, <2>3, <2>5, <2>6
<1> QED BY <1>3, <1>6, <1>7

(* Every step keeps the invariant. *)
LEMMA NextInv ==
  ASSUME IInv, [Next]_vars
  PROVE  IInv'
<1>1. TypeOK'
  BY TypeStep
<1>2. CASE UNCHANGED vars
  BY <1>2 DEF vars, client, call, script, IInv, TypeOK, RegistryInv, CallInv, CacheInv, CacheFaithful,
              ObjectInv, FreshInv, FreshWithoutCaching
<1>3. CASE Next
  BY <1>1, <1>3, ConstructorKeeps, AskKeeps, EndKeeps, ScriptKeeps, RegistryKeeps DEF Next
<1> QED BY <1>2, <1>3

(* The invariant holds in every reachable state. *)
LEMMA Invariance == Spec => []IInv
<1>1. IInv /\ [Next]_vars => IInv'
  BY NextInv
<1> QED BY InitInv, <1>1, PTL DEF Spec

-----------------------------------------------------------------------------
(* The theorems. *)

(* The schema objects, keys and messages keep their types, and no subject has
   more than MaxVersions versions (schema_registry.go: SchemaRegistry). *)
THEOREM RegistryTypeCorrect == Spec => []TypeOK
<1>1. IInv => TypeOK
  BY DEF IInv
<1> QED BY Invariance, <1>1, PTL

(* Whatever late answers, failures, registrations of other VUs and edits of
   handed-out objects happen, a cache entry is what the registry says for its
   key (schema_registry.go: getSchema, copySchema). *)
THEOREM RegistryCacheFaithful == Spec => []CacheFaithful
<1>1. IInv => CacheFaithful
  BY DEF IInv, CacheInv
<1> QED BY Invariance, <1>1, PTL

(* An object that has an id decodes no enveloped message of another text, for
   any assignment of different ids to texts (schema_registry.go:
   checkAndStripWireFormat). *)
THEOREM RegistryEnvelopeNeverMisread == Spec => []EnvelopeNeverMisread
<1>1. ASSUME IInv PROVE EnvelopeNeverMisread
  <2> SUFFICES ASSUME message.id # 0, held.id # 0, WireFormatAccepts(message, held)
               PROVE  held.schema = message.schema
    BY DEF EnvelopeNeverMisread
  <2>1. held # NoObject /\ message # NoMessage
    BY RealObjects DEF NoMessage
  <2>2. held.schema \in Schemas /\ message.schema \in Schemas
    BY <1>1, <2>1, RealObjects DEF IInv, TypeOK
  <2>3. held.id = IdOf[held.schema] /\ message.id = IdOf[message.schema]
    BY <1>1, <2>1 DEF IInv, ObjectInv
  <2>4. held.id = message.id
    BY DEF WireFormatAccepts
  <2> QED BY <2>2, <2>3, <2>4, IdAssumption
<1> QED BY Invariance, <1>1, PTL

(* Without caching the latest version is never older than it was when getSchema
   was called (schema_registry.go: getSchema). *)
THEOREM RegistryFreshWithoutCaching == Spec => []FreshWithoutCaching
<1>1. IInv => FreshWithoutCaching
  BY DEF IInv, FreshInv
<1> QED BY Invariance, <1>1, PTL

(* For any topics, namespaces and names, what a script holds under the name of a
   record is a schema of that record, unless the joins give the topic's own
   subject (schema_registry.go: getSubjectName, recordFullName). *)
THEOREM RegistryRecordAsNamed == Spec => []RecordAsNamed
<1>1. ASSUME IInv PROVE RecordAsNamed
  <2> SUFFICES ASSUME NEW st \in {"RecordNameStrategy", "TopicRecordNameStrategy"},
                      NEW s \in Schemas, held # NoObject,
                      held.subject = GetSubjectName(st, s), held.subject # TopicSubject
               PROVE  NameOf[held.schema] = NameOf[s]
    BY DEF RecordAsNamed
  <2>1. held.subject \in Subjects /\ held.schema \in Schemas
    BY <1>1, RealObjects DEF IInv, TypeOK
  <2>2. PICK w \in Writes : w[2] = held.schema /\ GetSubjectName(w[1], w[2]) = held.subject
    BY <1>1 DEF IInv, ObjectInv, Assigned
  <2> QED BY <2>1, <2>2, NameTellsRecord, ReadNames
<1> QED BY Invariance, <1>1, PTL

(* A stored entry is never replaced or edited: only a missing one is asked for,
   and the script is handed copies (schema_registry.go: getSchema,
   copySchema). *)
THEOREM RegistryCachePinned == Spec => CachePinned
<1>1. ASSUME IInv, [Next]_vars
      PROVE  [\A k \in Keys : schemaCache[k] # NoObject => schemaCache'[k] = schemaCache[k]]_vars
  <2>1. CASE Receive
    <3>1. request.op = "get" => SchemaCacheKey(request.key[1], request.key[2]) = request.key /\ request.key \in Keys
      BY <1>1, KeyIsRequest DEF IInv, CallInv, Keys
    <3>2. schemaCache \in [Keys -> Objects]
      BY <1>1 DEF IInv, TypeOK
    <3>3. request.op = "get" /\ caching => schemaCache[request.key] = NoObject
      BY <1>1, <2>1 DEF IInv, CacheInv, Receive
    <3> QED BY <2>1, <3>1, <3>2, <3>3 DEF Receive, Caches
  <2>2. CASE EditHeld
    BY <1>1, <2>2 DEF IInv, ObjectInv, EditHeld
  <2>3. CASE ~Receive /\ ~EditHeld
    <3>1. schemaCache' = schemaCache
      BY <1>1, <2>3 DEF Next, vars, client, Standalone, Connect, Connected, GetCached, GetSchema,
                        CreateSchema, OtherCreates, Fail, Serialize, AnswerGet, AnswerCreate,
                        OtherProduces
    <3> QED BY <3>1
  <2> QED BY <2>1, <2>2, <2>3
<1> QED BY Invariance, <1>1, PTL DEF Spec, CachePinned
=============================================================================
