------------------------------ MODULE MCSerdes ------------------------------
(* Schemas and containers for TLC. *)
EXTENDS Serdes

Avro(type) == <<type>>
Branches(types) == [i \in DOMAIN types |-> Avro(types[i])]
Field(schema) == <<"record", [f |-> schema]>>

MCNumbers == {MinInt64, 0, 1, MaxInt32, MaxInt32 + 1, Float64, MaxInt64 + 1}
SmallNumbers == {0, 1}
MCLongs   == {Float64 + 1, MaxInt64}
MCTexts   == {<<>>, <<0, 1, 1>>, <<1, 0>>}
MCBlobs   == {<<>>, <<0, 0, MaxByte>>, <<1, 1>>}

Unions == {<<"union", Branches(b)>> :
             b \in {<<"null", "int", "string">>, <<"null", "string", "int">>,
                    <<"null", "long", "double">>, <<"null", "double", "long">>,
                    <<"null", "float", "double">>, <<"null">>}}
MCSchemas ==
  {Avro(t) : t \in {"int", "long", "float", "double", "string", "bytes", "bad"}}
    \cup {<<"array", Avro("int")>>, <<"map", Avro("long")>>, <<"array", Avro("bytes")>>}
    \cup {<<"ref", Field(Avro("double"))>>, Field(Avro("int")), Field(Avro("long")), Field(Avro("bytes"))}
    \cup Unions \cup {Field(u) : u \in Unions}
JsonSchemas == {<<"json", {}>>, <<"json", {"f"}>>, <<"bad">>}

Use(types, schemas, ids) == [type : types, schema : schemas, id : ids]
MCContainers ==
  Use({"STRING", "BYTES"}, {NoSchema}, {0})
    \cup Use({"STRING", "BYTES"}, {<<"json", {}>>}, {1})
    \cup Use({"AVRO"}, MCSchemas \cup {NoSchema}, {0, 1, MaxId + 1})
    \cup Use({"JSON"}, JsonSchemas \cup {NoSchema}, {0, MaxId})
    \cup Use({"PROTOBUF"}, {NoSchema}, {0})
LongContainers  == Use({"AVRO"}, {Field(Avro("long"))}, {0, 1})
UnionContainers == Use({"AVRO"}, Unions, {0})
=============================================================================
