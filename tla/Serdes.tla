------------------------------- MODULE Serdes -------------------------------
(***************************************************************************)
(* The serialize / deserialize pair of schema_registry.go and the byte      *)
(* coercions of producer.go: a script serialises a value, produces it,      *)
(* consumes it, deserialises it and relays what it got, again and again.    *)
(*                                                                          *)
(* A Go value is a pair <<kind, content>>.  Numbers are scaled down so that *)
(* every boundary the code meets is there, in the order it has in the real  *)
(* types: float32 is exact to 4, int32 ends at 7, float64 is exact to 16,   *)
(* int64 ends at 63, whose nearest float64 is 64. A number with a fraction  *)
(* part is one of three: 0 is exact in a float32 (0.5), 1 is not (0.1), and *)
(* 2 is what a float32 makes of 1 (0.10000000149). A byte is 0 .. MaxByte,  *)
(* the last one never valid UTF-8, and an envelope is the magic byte and a  *)
(* one-digit id. Avro and JSON encodings are opaque: a body stands for the  *)
(* value that decoding it gives.                                            *)
(*                                                                          *)
(* Scripts write values that nest once; bytes in an array or a map become   *)
(* an array when they are copied, so a value nests twice at most.  What the *)
(* code does by recursion is one operator here, named ...By, that takes the *)
(* recursive call as its parameter and is applied once per level.           *)
(***************************************************************************)
EXTENDS Integers, Sequences, SequencesExt

CONSTANTS Numbers,     \* the numbers scripts write
          Longs,       \* the longs other producers write
          Texts,       \* the strings scripts write, in bytes
          Blobs,       \* the bytes scripts write
          Containers,  \* [type, schema, id] of the calls
          MaxHops      \* bound: how often a value is relayed

MinInt32 == -8
MaxInt32 == 7
MinInt64 == -64
MaxInt64 == 63
Float32  == 4      \* integers up to here are exact in a float32
Float64  == 16     \* and in a float64, so also in a JavaScript number
MaxByte  == 2
MaxId    == 2

(* The numbers are in the range of a float32; text is valid UTF-8. *)
ASSUME NumbersAssumption == /\ Numbers \subseteq -(32 * Float32) .. 32 * Float32
                            /\ Longs \subseteq MinInt64 .. MaxInt64
ASSUME BytesAssumption == /\ Texts \subseteq Seq(0 .. MaxByte - 1)
                          /\ Blobs \subseteq Seq(0 .. MaxByte)

VARIABLES
  stage,      \* "held", "written", "decoded", "refused" or "unreadable"
  value,      \* what the script holds, as Go exports it
  container,  \* the container it uses
  message,    \* the bytes on the topic
  avroCache,  \* parsed schemas
  hops,
  overflow,   \* what int64() of an out-of-range float64 gives in this build
  origin,     \* history: the value that was written first
  foreign     \* history: it was written by another producer

vars == <<stage, value, container, message, avroCache, hops, overflow, origin, foreign>>
fixed == <<container, overflow, origin, foreign>>

Nil     == <<"nil", 0>>
NoSchema == <<"none", 0>>
Wire(prefix, body) == [prefix |-> prefix, body |-> body]
NoBody  == <<"none", 0>>
Error   == <<"error", 0>>        \* no value
Failed  == Wire(<<>>, Error)     \* no message

-----------------------------------------------------------------------------
(* Numbers. *)
Abs(n) == IF n < 0 THEN -n ELSE n

(* The nearest multiple of a step; ties go to the even one. *)
Nearest(n, step) ==
  LET low  == (n \div step) * step
      over == 2 * (n - low)
  IN IF over < step \/ (over = step /\ (n \div step) % 2 = 0) THEN low ELSE low + step

(* The nearest float, with `exact' as the end of its exact integers. *)
Step(n, exact)  == CHOOSE s \in {1, 2, 4, 8, 16, 32} :
                     Abs(n) <= exact * s /\ (s = 1 \/ Abs(n) > exact * (s \div 2))
Round(n, exact) == Nearest(n, Step(n, exact))

Wrap32(n) == ((n - MinInt32) % 16) + MinInt32

(* A JavaScript number, exported: an int64 while it is a safe integer. *)
Number(n) == LET x == Round(n, Float64) IN
             IF Abs(x) <= Float64 THEN <<"int64", x>> ELSE <<"float64", x>>

(* Any number without a fraction part, and any with one. *)
Integral(v)   == v[1] \in {"int32", "int64", "float32", "float64"}
Fractional(v) == v[1] \in {"fraction", "fraction32"}

(* float32(n) of a number with a fraction part. *)
Narrow(c) == IF c = 1 THEN 2 ELSE c

(* What a script sees of a Go value it holds, and gives back if it copies it. *)
SeenBy(Inner(_), v) ==
  CASE Integral(v) -> Number(v[2])
    [] v[1] = "fraction32" -> <<"fraction", v[2]>>
    [] v[1] = "bytes" -> <<"array", [i \in DOMAIN v[2] |-> Number(v[2][i])]>>
    [] v[1] \in {"array", "map"} -> <<v[1], [i \in DOMAIN v[2] |-> Inner(v[2][i])]>>
    [] OTHER -> v
Itself(v)     == v
SeenScalar(v) == SeenBy(Itself, v)
SeenItem(v)   == SeenBy(SeenScalar, v)
Seen(v)       == SeenBy(SeenItem, v)

(* A decoded scalar becomes a JavaScript value; a decoded array or map, or
   bytes, stays the Go value that the script's object wraps. *)
Held(v) == IF v[1] \in {"array", "map", "bytes"} THEN v ELSE Seen(v)

-----------------------------------------------------------------------------
(* coerceBytes, coerceByte, toBytes. *)
CoercesByte(v) == Integral(v) /\ v[2] \in 0 .. MaxByte

CoerceBytes(v) ==
  CASE v = Nil -> <<"bytes", <<>>>>
    [] v[1] = "bytes" -> v
    [] v[1] = "array" /\ (\A i \in DOMAIN v[2] : CoercesByte(v[2][i])) ->
         <<"bytes", [i \in DOMAIN v[2] |-> v[2][i][2]]>>
    [] OTHER -> Error

(* Whatever is not text or byte-like is formatted. *)
ToBytes(v) ==
  CASE v[1] = "string" -> Wire(v[2], NoBody)
    [] v[1] # "string" /\ CoerceBytes(v) # Error -> Wire(CoerceBytes(v)[2], NoBody)
    [] OTHER -> Wire(<<>>, <<"text", v>>)

-----------------------------------------------------------------------------
(* The Confluent envelope. *)

(* Faulty variant: the id is cast without a range check. *)
TruncateId(id) == <<0, id % (MaxId + 1)>>

(* Nothing stands for the error. *)
EncodeWireFormat(id) == IF id \in 0 .. MaxId THEN <<0, id>> ELSE <<>>

WithWireFormat(id, body) ==
  IF id = 0 THEN Wire(<<>>, body)
  ELSE IF EncodeWireFormat(id) = <<>> THEN Failed
  ELSE Wire(EncodeWireFormat(id), body)

(* Bytes that begin like an envelope, whatever they are. *)
BeginsEnveloped(b) == Len(b) >= 2 /\ b[1] = 0

(* Faulty variant: the envelope is looked for whether or not an id is known. *)
LooksEnveloped(m, id) == BeginsEnveloped(m.prefix)

(* checkAndStripWireFormat; the bodies of this module have no prefix of their
   own, so bytes that only look like an envelope come from STRING and BYTES. *)
Enveloped(m, id) == id # 0 /\ BeginsEnveloped(m.prefix)

StripWireFormat(m, id) ==
  IF ~Enveloped(m, id) THEN m
  ELSE IF m.prefix[2] # id THEN Failed
  ELSE Wire(SubSeq(m.prefix, 3, Len(m.prefix)), m.body)

-----------------------------------------------------------------------------
(* Avro.  A schema is <<"int">>, <<"array", items>>, <<"map", values>>,
   <<"record", fields>>, <<"union", branches>> or <<"ref", schema>>; items,
   values and fields are primitive or a union of such, and the field of a
   record is the one that scripts write. *)
Primitives       == {"null", "boolean", "int", "long", "float", "double", "string", "bytes"}
PrimitiveSchemas == {<<type>> : type \in Primitives}
ItemSchemas      == PrimitiveSchemas \cup {"union"} \X Seq(PrimitiveSchemas)
PlainSchemas     == ItemSchemas \cup {"array", "map"} \X ItemSchemas
                      \cup {"record"} \X [{"f"} -> ItemSchemas]
AvroSchemas      == PlainSchemas \cup {"ref"} \X PlainSchemas

ASSUME ContainersAssumption ==
  \A c \in Containers : c.type = "AVRO" => c.schema \in AvroSchemas \cup {NoSchema, <<"bad">>}

(* A reference stands for the schema it names. *)
Deref(s) == IF s[1] = "ref" THEN s[2] ELSE s

(* The types an item may have. *)
ItemTypes(s) == IF s[1] = "union" THEN {s[2][i][1] : i \in DOMAIN s[2]} ELSE {s[1]}

(* coerceNumber: every number goes through a float64. *)
CoerceNumber(v) == Round(v[2], Float64)

(* int64(n) is exact, except for the one float64 that passes n <= MaxInt64
   and is above it. *)
ToLong(n) == IF n <= MaxInt64 THEN n ELSE overflow

(* Faulty variant: the range of an int is not checked. *)
AnyInt(n) == TRUE

FitsInt(n)  == n >= MinInt32 /\ n <= MaxInt32
FitsLong(n) == n >= MinInt64 /\ n <= Round(MaxInt64, Float64)

NormalizePrimitive(type, v) ==
  LET n == CoerceNumber(v) IN
  CASE type = "int" /\ Integral(v) /\ FitsInt(n) -> <<"int32", Wrap32(n)>>
    [] type = "long" /\ Integral(v) /\ FitsLong(n) -> <<"int64", ToLong(n)>>
    [] type = "float" /\ Integral(v) -> <<"float32", Round(n, Float32)>>
    [] type = "float" /\ Fractional(v) -> <<"fraction32", Narrow(v[2])>>
    [] type = "double" /\ Integral(v) -> <<"float64", n>>
    [] type = "double" /\ Fractional(v) -> <<"fraction", v[2]>>
    [] type = "bytes" /\ CoerceBytes(v) # Error -> CoerceBytes(v)
    [] OTHER -> v

(* A union is normalised for its first branch other than null; 0 is none. *)
FirstBranch(branches) == SelectInSeq(branches, LAMBDA b : b # <<"null">>)

(* The elements that reflection gives of a slice. *)
Elements(v) == IF v[1] = "bytes" THEN [i \in DOMAIN v[2] |-> Number(v[2][i])] ELSE v[2]

NormalizeBy(Inner(_, _), s, v) ==
  CASE s[1] = "record" /\ v[1] = "map" ->
         <<"map", [k \in DOMAIN v[2] |->
                     IF k \in DOMAIN s[2] THEN Inner(s[2][k], v[2][k]) ELSE v[2][k]]>>
    [] s[1] = "map" /\ v[1] = "map" ->
         <<"map", [k \in DOMAIN v[2] |-> Inner(s[2], v[2][k])]>>
    [] s[1] = "array" /\ v[1] \in {"array", "bytes"} ->
         <<"array", [i \in DOMAIN v[2] |-> Inner(s[2], Elements(v)[i])]>>
    [] s[1] = "union" /\ v # Nil /\ FirstBranch(s[2]) # 0 ->
         Inner(s[2][FirstBranch(s[2])], v)
    [] OTHER -> NormalizePrimitive(s[1], v)
NormalizeLeaf(s, v) == NormalizePrimitive(s[1], v)
NormalizeItem(s, v) == NormalizeBy(NormalizeLeaf, s, v)
Normalize(s, v)     == NormalizeBy(NormalizeItem, Deref(s), v)

(* External: the Avro types that avro.Marshal takes a Go value for. *)
TypesOf(kind) ==
  CASE kind = "nil" -> <<"null">>           [] kind = "int32" -> <<"int", "long">>
    [] kind = "int64" -> <<"long">>         [] kind \in {"float32", "fraction32"} -> <<"float", "double">>
    [] kind \in {"float64", "fraction"} -> <<"double">>
    [] kind \in {"string", "bytes"} -> <<kind>>
    [] OTHER -> <<>>

(* External: what the bytes decode to as `type'. *)
Typed(type, v) ==
  CASE type = "int" -> <<"int32", v[2]>>    [] type = "long" -> <<"int64", v[2]>>
    [] type = "double" /\ v[1] = "float32" -> <<"float64", v[2]>>
    [] type = "double" /\ v[1] = "fraction32" -> <<"fraction", v[2]>>
    [] OTHER -> v

(* External: avro.Marshal and back; a union takes the branch of the Go type. *)
MarshalItem(s, v) ==
  LET first == SelectInSeq(TypesOf(v[1]), LAMBDA t : t \in ItemTypes(s)) IN
  IF first = 0 THEN Error ELSE Typed(TypesOf(v[1])[first], v)

(* A value whose parts all encode. *)
Whole(kind, parts) == IF \E i \in DOMAIN parts : parts[i] = Error THEN Error ELSE <<kind, parts>>

MarshalPlain(s, v) ==
  CASE s[1] = "record" ->
         IF v[1] # "map" \/ ~(DOMAIN s[2] \subseteq DOMAIN v[2]) THEN Error
         ELSE Whole("map", [k \in DOMAIN s[2] |-> MarshalItem(s[2][k], v[2][k])])
    [] s[1] \in {"map", "array"} ->
         IF v[1] # s[1] THEN Error
         ELSE Whole(s[1], [i \in DOMAIN v[2] |-> MarshalItem(s[2], v[2][i])])
    [] OTHER -> MarshalItem(s, v)
Marshal(s, v) == MarshalPlain(Deref(s), v)

-----------------------------------------------------------------------------
(* JSON.  A schema is <<"json", required fields>>, or <<"bad">> if it is no
   JSON document. *)

(* External: json.Marshal and back.  Bytes turn into base64 text, <<>> here,
   a float32 into its shortest text, which is read as a float64. *)
JsonedBy(Inner(_), v) ==
  CASE Integral(v) -> <<"float64", Round(v[2], Float64)>>
    [] v[1] = "fraction32" -> <<"fraction", IF v[2] = 2 THEN 1 ELSE v[2]>>
    [] v[1] = "bytes" -> <<"string", <<>>>>
    [] v[1] \in {"array", "map"} -> <<v[1], [i \in DOMAIN v[2] |-> Inner(v[2][i])]>>
    [] OTHER -> v
JsonedScalar(v) == JsonedBy(Itself, v)
JsonedItem(v)   == JsonedBy(JsonedScalar, v)
Jsoned(v)       == JsonedBy(JsonedItem, v)

(* Faulty variant: only the schema document is looked at. *)
ValidateNothing(v, s) == s # <<"bad">>

ValidateRequired(v, s) == s # <<"bad">> /\ s[2] \subseteq DOMAIN v[2]

-----------------------------------------------------------------------------
(* serialize and deserialize: the message, or the value, or Error.  Only a
   JSON object is validated, and only an object, or null, is read back. *)
Parses(s) == s # NoSchema /\ s # <<"bad">>

Serialized(c, v) ==
  CASE c.type = "STRING" /\ v[1] = "string" -> Wire(v[2], NoBody)
    [] c.type = "BYTES" /\ CoerceBytes(v) # Error -> Wire(CoerceBytes(v)[2], NoBody)
    [] c.type = "AVRO" /\ Parses(c.schema) ->
         LET body == Marshal(c.schema, Normalize(c.schema, v)) IN
         IF body = Error THEN Failed ELSE WithWireFormat(c.id, <<"avro", body>>)
    [] c.type = "JSON" /\ c.schema # NoSchema ->
         IF v[1] = "map" /\ ~ValidateRequired(v, c.schema) THEN Failed
         ELSE WithWireFormat(c.id, <<"json", Jsoned(v)>>)
    [] OTHER -> Failed                      \* PROTOBUF, unknown, type mismatch

(* json.Unmarshal into a map: null leaves it empty. *)
ReadJSON(v, s) ==
  LET object == IF v = Nil THEN <<"map", <<>>>> ELSE v IN
  IF object[1] = "map" /\ ValidateRequired(object, s) THEN object ELSE Error

Deserialized(c, m) ==
  LET data == StripWireFormat(m, c.id) IN
  CASE data = Failed -> Error
    [] data # Failed /\ c.type = "STRING" ->
         IF MaxByte \in Range(data.prefix) THEN Error ELSE <<"string", data.prefix>>
    [] data # Failed /\ c.type = "BYTES" ->
         IF data.body = NoBody THEN <<"bytes", data.prefix>> ELSE data.body
    [] data # Failed /\ c.type = "AVRO" ->
         IF data.prefix = <<>> /\ data.body[1] = "avro" THEN data.body[2] ELSE Error
    [] data # Failed /\ c.type = "JSON" ->
         IF data.prefix = <<>> /\ data.body[1] = "json"
           THEN ReadJSON(data.body[2], c.schema) ELSE Error
    [] OTHER -> Error

(* A text that does not parse is not cached. *)
ParsedAvro(c) ==
  avroCache \cup IF c.type = "AVRO" /\ Parses(c.schema) THEN {c.schema} ELSE {}

-----------------------------------------------------------------------------
(* The script, the topic and the other producers. *)
Scalars == {Number(n) : n \in Numbers} \cup {"fraction"} \X {0, 1, 2} \cup {Nil}
             \cup {"string"} \X Texts \cup {"bytes"} \X Blobs
Objects == {[f |-> v] : v \in Scalars} \cup {<<>>}
Values  == Scalars \cup {<<"array", <<v>>>> : v \in Scalars} \cup {"map"} \X Objects

Init ==
  /\ stage = "held" /\ value \in Values /\ container \in Containers
  /\ message = Wire(<<>>, NoBody) /\ avroCache = {} /\ hops = 0
  /\ overflow \in {MinInt64, MaxInt64}
  /\ origin = value /\ foreign = FALSE

Serialize ==
  LET written == Serialized(container, value) IN
  /\ stage = "held"
  /\ stage' = IF written = Failed THEN "refused" ELSE "written"
  /\ message' = IF written = Failed THEN message ELSE written
  /\ avroCache' = ParsedAvro(container)
  /\ UNCHANGED <<value, hops, fixed>>

(* marshalRecord, for a script that hands produce the value itself; its
   consumer reads bytes. *)
ProduceRaw ==
  /\ stage = "held" /\ container.type = "BYTES" /\ container.id = 0
  /\ stage' = "written"
  /\ message' = ToBytes(value)
  /\ UNCHANGED <<value, avroCache, hops, fixed>>

(* Another producer writes a record with the same Avro schema, or an object
   that lacks what a JSON schema requires. *)
ProduceForeign(n) ==
  LET body == IF container.type = "AVRO" THEN <<"avro", <<"map", [f |-> <<"int64", n>>]>>>>
                                         ELSE <<"json", <<"map", <<>>>>>>
  IN
  /\ stage = "held" /\ hops = 0
  /\ container.schema = <<"record", [f |-> <<"long">>]>> \/ container.schema[1] = "json"
  /\ container.id \in 0 .. MaxId
  /\ stage' = "written"
  /\ message' = WithWireFormat(container.id, body)
  /\ origin' = body[2] /\ foreign' = TRUE
  /\ UNCHANGED <<value, container, avroCache, hops, overflow>>

Deserialize ==
  LET read == Deserialized(container, message) IN
  /\ stage = "written"
  /\ stage' = IF read = Error THEN "unreadable" ELSE "decoded"
  /\ value' = IF read = Error THEN value ELSE Held(read)
  /\ avroCache' = ParsedAvro(container)
  /\ UNCHANGED <<message, hops, fixed>>

(* The script passes what it got on, as it is or copied field by field. *)
Relay(copies) ==
  /\ stage = "decoded" /\ hops < MaxHops
  /\ value[1] \notin {"text", "avro", "json"}
  /\ stage' = "held" /\ hops' = hops + 1
  /\ value' = IF copies THEN Seen(value) ELSE value
  /\ UNCHANGED <<message, avroCache, fixed>>

Next ==
  \/ Serialize \/ ProduceRaw \/ Deserialize
  \/ \E n \in Longs : ProduceForeign(n)
  \/ \E copies \in BOOLEAN : Relay(copies)

Spec == Init /\ [][Next]_vars

-----------------------------------------------------------------------------
(* Properties. *)

(* The parts of what a script wrote. *)
Parts(v) == IF v[1] \in {"array", "map"} THEN {v[2][i] : i \in DOMAIN v[2]} ELSE {v}

(* The type an item is normalised for: of a union, the first but null. *)
Target(s) ==
  IF s[1] # "union" THEN {s[1]}
  ELSE {s[2][i][1] : i \in {FirstBranch(s[2])} \ {0}}

(* A schema has an item that is normalised for a type. *)
Targets(s, type) ==
  CASE Deref(s)[1] \in {"array", "map"} -> type \in Target(Deref(s)[2])
    [] Deref(s)[1] = "record" -> \E k \in DOMAIN Deref(s)[2] : type \in Target(Deref(s)[2][k])
    [] OTHER -> type \in Target(Deref(s))

(* The numbers, as a script sees them, that a float and a long hold. *)
FloatHolds(x) == /\ Integral(x) => Round(x[2], Float32) = x[2]
                 /\ Fractional(x) => Narrow(x[2]) = x[2]
LongHolds(x)  == Integral(x) => x[2] <= MaxInt64

(* openspec/specs/avro-serdes/spec.md: encoding then decoding the same data
   with the same schema returns an equivalent value.  It is the subject of a
   run that must fail: a long at the end of its range (normalizeAvroPrimitive). *)
AvroRoundTrip ==
  container.type = "AVRO" /\ stage = "decoded" => Seen(value) = Seen(origin)

(* The same, where it does hold: however often a value is relayed, wrapped or
   copied, a script is never given another value than the one first written,
   outside three cases.  They are a number that float32 does not hold (0.1, or
   an integer beyond its exact ones) for a float, 2^63 or what rounds to it for
   a long, and a null for bytes; and for a union they count only if that is its
   first branch but null, since no later branch narrows or rounds anything
   (schema_registry.go: normalizeAvroValue, normalizeAvroPrimitive). *)
AvroKept ==
  /\ Targets(container.schema, "float") => \A w \in Parts(origin) : FloatHolds(SeenItem(w))
  /\ Targets(container.schema, "long") => \A w \in Parts(origin) : LongHolds(SeenItem(w))
  /\ Targets(container.schema, "bytes") => Nil \notin Parts(origin)
  => AvroRoundTrip

(* Every JSON object a script is given, whoever wrote it, has the fields its
   schema requires, and is the one that was written: numbers survive the text,
   only bytes turn into text (schema_registry.go: validateJSONRequired). *)
JsonObjectsKept ==
  container.type = "JSON" /\ stage = "decoded" =>
    /\ value[1] = "map" /\ container.schema[2] \subseteq DOMAIN value[2]
    /\ origin[1] = "map" /\ (\A k \in DOMAIN origin[2] : origin[2][k][1] # "bytes") =>
         Seen(value) = Seen(origin)

(* Text and bytes, arrays of byte-sized numbers included, reach the consumer
   byte for byte, serialised or produced as they are and however often they are
   relayed: without a schema id always, even if they begin like an envelope,
   with one unless they do (producer.go: toBytes; schema_registry.go:
   coerceBytes, checkAndStripWireFormat). *)
Raw(v) == IF v[1] = "string" THEN v[2] ELSE CoerceBytes(v)[2]
ByteLike(v) == v[1] = "string" \/ CoerceBytes(v) # Error
Mistakable(b) == container.id # 0 /\ BeginsEnveloped(b)
PlainKept ==
  /\ container.type \in {"STRING", "BYTES"} /\ stage = "decoded"
  /\ ByteLike(origin) /\ ~Mistakable(Raw(origin))
  => ByteLike(value) /\ Raw(value) = Raw(origin)

(* What serialize wrote, deserialize reads with the same container: an id that
   does not fit the envelope is refused before anything is produced.  A JSON
   value that is no object is the exception, and text and bytes that begin like
   an envelope and are read with an id, which they were not written with. *)
WrittenIsReadable ==
  stage = "unreadable" /\ ~foreign =>
    \/ container.type = "JSON" /\ value[1] # "map"
    \/ container.type \in {"STRING", "BYTES"} /\ Mistakable(Raw(value))

(* openspec/specs/avro-serdes/spec.md: a null, a string or a number for a
   union is encoded as the union's type for it.  The subject of a run that
   must fail: a number for a union whose first type is a string. *)
Suits(type, v) ==
  \/ type = "null" /\ v = Nil
  \/ type = "string" /\ v[1] = "string"
  \/ type = "int" /\ Integral(v) /\ v[2] \in MinInt32 .. MaxInt32
UnionAccepted ==
  stage = "refused" /\ container.schema[1] = "union" =>
    ~ \E b \in Range(container.schema[2]) : Suits(b[1], value)
=============================================================================
