----------------------------- MODULE MCRegistry -----------------------------
(* Two texts of one record, and a record of its name outside the namespace. *)
EXTENDS Registry

CONSTANTS s1, s2, s3
MCSchemas == {s1, s2, s3}
MCIdOf    == [s \in MCSchemas |-> CASE s = s1 -> 1 [] s = s2 -> 2 [] OTHER -> 3]
MCNameOf  == [s \in MCSchemas |-> IF s = s3 THEN <<"value">> ELSE <<"a", ".", "value">>]
MCWrites  == {<<"RecordNameStrategy", s>> : s \in MCSchemas}
               \cup {<<"", s1>>, <<"TopicRecordNameStrategy", s3>>}
MCReads   == {<<"RecordNameStrategy", s1>>}
=============================================================================
