---------------------------- MODULE SerdesProofs ----------------------------
(* What values become on their way through the serdes, proved for any numbers,
   text, bytes, containers and number of relays. *)
EXTENDS Serdes, WellFoundedInduction, TLAPS

(* The numbers of the model's floats. *)
Range32 == -(32 * Float32) .. 32 * Float32

(* The values that scripts hold.  An array of numbers as an item is what copied
   bytes become. *)
IsNumber(v) == Integral(v) /\ v[2] \in Range32
Fractions   == {<<"fraction", 0>>, <<"fraction", 1>>, <<"fraction", 2>>}
Narrowed    == {<<"fraction32", 0>>, <<"fraction32", 2>>}
IsAtom(v)   == v = Nil \/ v \in Fractions \/ v \in Narrowed \/ v[1] = "string"
IsBytes(v)  == /\ v[1] = "bytes" /\ v[2] = [i \in DOMAIN v[2] |-> v[2][i]]
               /\ \A i \in DOMAIN v[2] : v[2][i] \in 0 .. MaxByte
IsItem(v)   == \/ IsNumber(v) \/ IsAtom(v) \/ IsBytes(v)
               \/ v[1] = "array" /\ \A i \in DOMAIN v[2] : IsNumber(v[2][i])
IsValue(v)  == \/ IsItem(v)
               \/ v[1] = "array" /\ \A i \in DOMAIN v[2] : IsItem(v[2][i])
               \/ v[1] = "map" /\ DOMAIN v[2] \subseteq {"f"} /\ \A k \in DOMAIN v[2] : IsItem(v[2][k])

-----------------------------------------------------------------------------
(* Numbers. *)

(* The spacing of float64 around n. *)
LEMMA StepIs ==
  ASSUME NEW n \in Range32, NEW s \in {1, 2, 4, 8},
         Abs(n) <= 16 * s, s = 1 \/ Abs(n) > 16 * (s \div 2)
  PROVE  Step(n, Float64) = s
<1> DEFINE S(t) == Abs(n) <= 16 * t /\ (t = 1 \/ Abs(n) > 16 * (t \div 2))
<1>1. Abs(n) \in Nat
  BY DEF Abs, Range32, Float32
<1>2. \A t \in {1, 2, 4, 8, 16, 32} : S(t) => t = s
  BY <1>1
<1>3. S(s) /\ s \in {1, 2, 4, 8, 16, 32}
  OBVIOUS
<1> QED BY <1>2, <1>3 DEF Step, Float64

(* Rounding to a float64 is exact for small integers, stays in range and is
   done once and for all. *)
LEMMA RoundOnce ==
  ASSUME NEW n \in Range32
  PROVE  /\ Round(n, Float64) \in Range32
         /\ Round(Round(n, Float64), Float64) = Round(n, Float64)
         /\ Abs(n) <= Float64 => Round(n, Float64) = n
<1>1. n \in Int /\ Abs(n) \in Nat /\ Abs(n) <= 128
  BY DEF Abs, Range32, Float32
<1>2. CASE Abs(n) <= 16
  <2>1. Round(n, Float64) = n
    BY <1>1, <1>2, StepIs DEF Round, Nearest
  <2> QED BY <2>1
<1>3. CASE 16 < Abs(n) /\ Abs(n) <= 32
  <2> DEFINE x == Nearest(n, 2)
  <2>1. Round(n, Float64) = x
    BY <1>1, <1>3, StepIs DEF Round
  <2>2. x \in Range32 /\ x % 2 = 0 /\ 16 <= Abs(x) /\ Abs(x) <= 32
    BY <1>1, <1>3 DEF Nearest, Abs, Range32, Float32
  <2> HIDE DEF x
  <2>3. Nearest(x, 2) = x /\ Nearest(x, 1) = x
    BY <2>2 DEF Nearest, Range32, Float32
  <2>4. Step(x, Float64) = 1 \/ Step(x, Float64) = 2
    <3>1. Abs(x) \in Nat
      BY <2>2 DEF Abs, Range32, Float32
    <3>2. CASE Abs(x) = 16
      BY <2>2, <3>2, StepIs
    <3>3. CASE Abs(x) > 16
      BY <2>2, <3>1, <3>3, StepIs
    <3> QED BY <2>2, <3>1, <3>2, <3>3
  <2>5. Nearest(x, Step(x, Float64)) = x
    BY <2>3, <2>4
  <2>6. Round(x, Float64) = x
    BY <2>5 DEF Round
  <2> QED BY <1>1, <1>3, <2>1, <2>2, <2>6 DEF Float64
<1>4. CASE 32 < Abs(n) /\ Abs(n) <= 64
  <2> DEFINE x == Nearest(n, 4)
  <2>1. Round(n, Float64) = x
    BY <1>1, <1>4, StepIs DEF Round
  <2>2. x \in Range32 /\ x % 4 = 0 /\ 32 <= Abs(x) /\ Abs(x) <= 64
    BY <1>1, <1>4 DEF Nearest, Abs, Range32, Float32
  <2> HIDE DEF x
  <2>3. Nearest(x, 4) = x /\ Nearest(x, 2) = x
    BY <2>2 DEF Nearest, Range32, Float32
  <2>4. Step(x, Float64) = 2 \/ Step(x, Float64) = 4
    <3>1. Abs(x) \in Nat
      BY <2>2 DEF Abs, Range32, Float32
    <3>2. CASE Abs(x) = 32
      BY <2>2, <3>2, StepIs
    <3>3. CASE Abs(x) > 32
      BY <2>2, <3>1, <3>3, StepIs
    <3> QED BY <2>2, <3>1, <3>2, <3>3
  <2>5. Nearest(x, Step(x, Float64)) = x
    BY <2>3, <2>4
  <2>6. Round(x, Float64) = x
    BY <2>5 DEF Round
  <2> QED BY <1>1, <1>4, <2>1, <2>2, <2>6 DEF Float64
<1>5. CASE 64 < Abs(n) /\ Abs(n) <= 128
  <2> DEFINE x == Nearest(n, 8)
  <2>1. Round(n, Float64) = x
    BY <1>1, <1>5, StepIs DEF Round
  <2>2. x \in Range32 /\ x % 8 = 0 /\ 64 <= Abs(x) /\ Abs(x) <= 128
    BY <1>1, <1>5 DEF Nearest, Abs, Range32, Float32
  <2> HIDE DEF x
  <2>3. Nearest(x, 8) = x /\ Nearest(x, 4) = x
    BY <2>2 DEF Nearest, Range32, Float32
  <2>4. Step(x, Float64) = 4 \/ Step(x, Float64) = 8
    <3>1. Abs(x) \in Nat
      BY <2>2 DEF Abs, Range32, Float32
    <3>2. CASE Abs(x) = 64
      BY <2>2, <3>2, StepIs
    <3>3. CASE Abs(x) > 64
      BY <2>2, <3>1, <3>3, StepIs
    <3> QED BY <2>2, <3>1, <3>2, <3>3
  <2>5. Nearest(x, Step(x, Float64)) = x
    BY <2>3, <2>4
  <2>6. Round(x, Float64) = x
    BY <2>5 DEF Round
  <2> QED BY <1>1, <1>5, <2>1, <2>2, <2>6 DEF Float64
<1> QED BY <1>1, <1>2, <1>3, <1>4, <1>5

(* A number is exported as an int64 or a float64, the same one however often
   it is looked at, and a byte as itself. *)
LEMMA Exported ==
  ASSUME NEW n \in Range32
  PROVE  /\ Number(n) \in {<<"int64", Round(n, Float64)>>, <<"float64", Round(n, Float64)>>}
         /\ Integral(Number(n)) /\ Number(n)[2] = Round(n, Float64) /\ Number(n)[2] \in Range32
         /\ Number(Number(n)[2]) = Number(n) /\ Number(Round(n, Float64)) = Number(n)
         /\ n \in 0 .. MaxByte => Number(n)[2] = n
<1>1. Number(n) \in {<<"int64", Round(n, Float64)>>, <<"float64", Round(n, Float64)>>}
  BY DEF Number
<1>2. Integral(Number(n)) /\ Number(n)[2] = Round(n, Float64)
  BY <1>1 DEF Integral
<1>3. Number(Round(n, Float64)) = Number(n)
  BY RoundOnce DEF Number
<1>4. n \in 0 .. MaxByte => Abs(n) <= Float64
  BY DEF Abs, MaxByte, Float64
<1> QED BY <1>1, <1>2, <1>3, <1>4, RoundOnce

-----------------------------------------------------------------------------
(* What scripts see. *)

(* The kinds of atoms, and what a float32 is seen as. *)
LEMMA AtomKinds ==
  ASSUME NEW v, IsAtom(v)
  PROVE  /\ v[1] \in {"nil", "fraction", "fraction32", "string"}
         /\ v[1] = "fraction" => v \in Fractions /\ v[2] \in {0, 1, 2}
         /\ v[1] = "fraction32" => v \in Narrowed /\ v[2] \in {0, 2} /\ <<"fraction", v[2]>> \in Fractions
         /\ v[1] = "nil" => v = Nil
BY DEF IsAtom, Nil, Fractions, Narrowed

(* Seen and its inner levels, kind by kind. *)
LEMMA SeenForms ==
  ASSUME NEW v
  PROVE  /\ Integral(v) =>
              SeenScalar(v) = Number(v[2]) /\ SeenItem(v) = Number(v[2]) /\ Seen(v) = Number(v[2])
         /\ IsAtom(v) =>
              SeenItem(v) = Seen(v) /\ SeenItem(v) = IF v[1] = "fraction32" THEN <<"fraction", v[2]>> ELSE v
         /\ v[1] = "bytes" =>
              /\ SeenItem(v) = <<"array", [i \in DOMAIN v[2] |-> Number(v[2][i])]>>
              /\ Seen(v) = SeenItem(v)
         /\ v[1] \in {"array", "map"} =>
              /\ SeenItem(v) = <<v[1], [i \in DOMAIN v[2] |-> SeenScalar(v[2][i])]>>
              /\ Seen(v) = <<v[1], [i \in DOMAIN v[2] |-> SeenItem(v[2][i])]>>
<1>1. CASE Integral(v)
  <2>1. SeenScalar(v) = Number(v[2]) /\ SeenItem(v) = Number(v[2]) /\ Seen(v) = Number(v[2])
    BY <1>1 DEF Integral, SeenScalar, SeenItem, Seen, SeenBy
  <2>2. ~IsAtom(v) /\ v[1] \notin {"bytes", "array", "map"}
    BY <1>1 DEF Integral, IsAtom, Nil, Fractions, Narrowed
  <2> QED BY <2>1, <2>2
<1>2. CASE IsAtom(v)
  <2>1. v[1] \in {"nil", "fraction", "fraction32", "string"}
    BY <1>2, AtomKinds
  <2> QED BY <1>2, <2>1 DEF Integral, SeenItem, Seen, SeenBy
<1>3. CASE v[1] = "bytes"
  <2>1. ~Integral(v) /\ ~IsAtom(v)
    BY <1>3 DEF Integral, IsAtom, Nil, Fractions, Narrowed
  <2>2. /\ SeenItem(v) = <<"array", [i \in DOMAIN v[2] |-> Number(v[2][i])]>>
        /\ Seen(v) = <<"array", [i \in DOMAIN v[2] |-> Number(v[2][i])]>>
    BY <1>3, <2>1 DEF SeenItem, Seen, SeenBy
  <2> QED BY <1>3, <2>1, <2>2
<1>4. CASE v[1] \in {"array", "map"}
  <2>1. ~Integral(v) /\ ~IsAtom(v) /\ v[1] # "bytes" /\ v[1] # "fraction32"
    BY <1>4 DEF Integral, IsAtom, Nil, Fractions, Narrowed
  <2>2. SeenItem(v) = <<v[1], [i \in DOMAIN v[2] |-> SeenScalar(v[2][i])]>>
    BY <1>4, <2>1 DEF SeenItem, SeenBy
  <2>3. Seen(v) = <<v[1], [i \in DOMAIN v[2] |-> SeenItem(v[2][i])]>>
    BY <1>4, <2>1 DEF Seen, SeenBy
  <2> QED BY <2>1, <2>2, <2>3
<1> QED BY <1>1, <1>2, <1>3, <1>4

(* An atom is seen as one that is no float32. *)
LEMMA SeenAtom ==
  ASSUME NEW v, IsAtom(v)
  PROVE  IsAtom(SeenItem(v)) /\ SeenItem(v)[1] \in {"nil", "fraction", "string"}
<1>1. CASE v[1] = "fraction32"
  <2>1. SeenItem(v) = <<"fraction", v[2]>> /\ <<"fraction", v[2]>> \in Fractions
    BY <1>1, SeenForms, AtomKinds
  <2> QED BY <2>1 DEF IsAtom
<1>2. CASE v[1] # "fraction32"
  <2>1. SeenItem(v) = v
    BY <1>2, SeenForms
  <2> QED BY <1>2, <2>1, AtomKinds
<1> QED BY <1>1, <1>2

(* The kind of what a script sees tells the kind of what it holds. *)
LEMMA SeenKinds ==
  ASSUME NEW v, IsItem(v)
  PROVE  /\ Integral(SeenItem(v)) <=> Integral(v)
         /\ SeenItem(v)[1] = "array" <=> v[1] \in {"array", "bytes"}
         /\ SeenItem(v) = Nil <=> v = Nil
<1>1. CASE IsNumber(v)
  <2>1. SeenItem(v) = Number(v[2]) /\ v[2] \in Range32
    BY <1>1, SeenForms DEF IsNumber
  <2>2. SeenItem(v)[1] \in {"int64", "float64"}
    BY <2>1, Exported
  <2> QED BY <1>1, <2>2 DEF IsNumber, Integral, Nil
<1>2. CASE IsAtom(v)
  <2>1. SeenItem(v) = v \/ SeenItem(v)[1] = "fraction"
    BY <1>2, SeenForms
  <2>2. SeenItem(v) # v => v[1] = "fraction32"
    BY <1>2, SeenForms
  <2>3. v[1] \in {"nil", "fraction", "fraction32", "string"}
    BY <1>2, AtomKinds
  <2> QED BY <2>1, <2>2, <2>3 DEF Integral, Nil
<1>3. CASE v[1] \in {"array", "bytes"}
  <2>1. SeenItem(v)[1] = "array"
    BY <1>3, SeenForms
  <2> QED BY <1>3, <2>1 DEF Integral, Nil
<1> QED BY <1>1, <1>2, <1>3 DEF IsItem, IsBytes

(* An item that is copied is an item, and looks the same. *)
LEMMA ItemCopied ==
  ASSUME NEW v, IsItem(v)
  PROVE  IsItem(SeenItem(v)) /\ SeenItem(SeenItem(v)) = SeenItem(v)
<1>1. CASE IsNumber(v)
  <2>1. SeenItem(v) = Number(v[2]) /\ v[2] \in Range32
    BY <1>1, SeenForms DEF IsNumber
  <2>2. Integral(Number(v[2])) /\ Number(v[2])[2] \in Range32 /\ Number(Number(v[2])[2]) = Number(v[2])
    BY <2>1, Exported
  <2>3. SeenItem(Number(v[2])) = Number(Number(v[2])[2])
    BY <2>2, SeenForms
  <2> QED BY <2>1, <2>2, <2>3 DEF IsItem, IsNumber
<1>2. CASE IsAtom(v)
  <2>1. IsAtom(SeenItem(v)) /\ SeenItem(v)[1] # "fraction32"
    BY <1>2, SeenAtom
  <2> QED BY <2>1, SeenForms DEF IsItem
<1>3. ASSUME NEW f, SeenItem(v) = <<"array", f>>, f = [i \in DOMAIN f |-> f[i]],
             \A i \in DOMAIN f : \E n \in Range32 : f[i] = Number(n)
      PROVE  IsItem(SeenItem(v)) /\ SeenItem(SeenItem(v)) = SeenItem(v)
  <2>1. \A i \in DOMAIN f : Integral(f[i]) /\ f[i][2] \in Range32 /\ Number(f[i][2]) = f[i]
    BY <1>3, Exported
  <2>2. \A i \in DOMAIN f : SeenScalar(f[i]) = f[i]
    BY <2>1, SeenForms
  <2>3. SeenItem(<<"array", f>>) = <<"array", [i \in DOMAIN f |-> SeenScalar(f[i])]>>
    BY SeenForms
  <2>4. [i \in DOMAIN f |-> SeenScalar(f[i])] = f
    BY <1>3, <2>2
  <2>5. IsItem(<<"array", f>>)
    BY <2>1 DEF IsItem, IsNumber
  <2> QED BY <1>3, <2>3, <2>4, <2>5
<1>4. CASE IsBytes(v)
  <2>1. SeenItem(v) = <<"array", [i \in DOMAIN v[2] |-> Number(v[2][i])]>>
    BY <1>4, SeenForms DEF IsBytes
  <2>2. \A i \in DOMAIN v[2] : v[2][i] \in Range32
    BY <1>4 DEF IsBytes, Range32, Float32, MaxByte
  <2> QED BY <1>3, <2>1, <2>2
<1>5. CASE v[1] = "array" /\ \A i \in DOMAIN v[2] : IsNumber(v[2][i])
  <2>1. SeenItem(v) = <<"array", [i \in DOMAIN v[2] |-> SeenScalar(v[2][i])]>>
    BY <1>5, SeenForms
  <2>2. \A i \in DOMAIN v[2] : SeenScalar(v[2][i]) = Number(v[2][i][2]) /\ v[2][i][2] \in Range32
    BY <1>5, SeenForms DEF IsNumber
  <2> QED BY <1>3, <2>1, <2>2
<1> QED BY <1>1, <1>2, <1>4, <1>5 DEF IsItem

(* An item looks the same alone and in an array or a map. *)
LEMMA ItemAlone ==
  ASSUME NEW v, IsItem(v)
  PROVE  Seen(v) = SeenItem(v)
<1>1. CASE v[1] = "array" /\ \A i \in DOMAIN v[2] : IsNumber(v[2][i])
  <2>1. \A i \in DOMAIN v[2] : SeenScalar(v[2][i]) = SeenItem(v[2][i])
    BY <1>1, SeenForms DEF IsNumber
  <2>2. [i \in DOMAIN v[2] |-> SeenScalar(v[2][i])] = [i \in DOMAIN v[2] |-> SeenItem(v[2][i])]
    BY <2>1
  <2> QED BY <1>1, <2>2, SeenForms
<1>2. CASE IsNumber(v) \/ IsAtom(v) \/ IsBytes(v)
  BY <1>2, SeenForms DEF IsNumber, IsBytes
<1> QED BY <1>1, <1>2 DEF IsItem

(* A value that is copied is a value, and looks the same. *)
LEMMA ValueCopied ==
  ASSUME NEW v, IsValue(v)
  PROVE  IsValue(Seen(v)) /\ Seen(Seen(v)) = Seen(v)
<1>1. CASE IsItem(v)
  BY <1>1, ItemAlone, ItemCopied DEF IsValue
<1>2. CASE /\ v[1] \in {"array", "map"} /\ \A i \in DOMAIN v[2] : IsItem(v[2][i])
           /\ v[1] = "map" => DOMAIN v[2] \subseteq {"f"}
  <2> DEFINE f == [i \in DOMAIN v[2] |-> SeenItem(v[2][i])]
  <2>1. Seen(v) = <<v[1], f>>
    BY <1>2, SeenForms
  <2>2. DOMAIN f = DOMAIN v[2] /\ \A i \in DOMAIN f : IsItem(f[i]) /\ SeenItem(f[i]) = f[i]
    BY <1>2, ItemCopied
  <2>3. f = [i \in DOMAIN f |-> f[i]]
    OBVIOUS
  <2> HIDE DEF f
  <2>4. Seen(<<v[1], f>>) = <<v[1], [i \in DOMAIN f |-> SeenItem(f[i])]>>
    BY <1>2, SeenForms
  <2>5. [i \in DOMAIN f |-> SeenItem(f[i])] = f
    BY <2>2, <2>3
  <2>6. IsValue(<<v[1], f>>)
    BY <1>2, <2>2 DEF IsValue
  <2> QED BY <2>1, <2>4, <2>5, <2>6
<1> QED BY <1>1, <1>2 DEF IsValue

(* What a script holds of a decoded value looks like it. *)
LEMMA HeldLooks ==
  ASSUME NEW v, IsValue(v)
  PROVE  IsValue(Held(v)) /\ Seen(Held(v)) = Seen(v)
BY ValueCopied DEF Held

-----------------------------------------------------------------------------
(* Avro items. *)

(* A set of natural numbers has a least element. *)
LEMMA Least ==
  ASSUME NEW I, I \subseteq Nat, I # {}
  PROVE  Min(I) \in I
<1>1. PICK x \in I : \A y \in I : ~ (<<y, x>> \in OpToRel(<, Nat))
  BY NatLessThanWellFounded, WFMin
<1>2. \A y \in I : x <= y
  <2> TAKE y \in I
  <2>1. x \in Nat /\ y \in Nat
    OBVIOUS
  <2>2. <<y, x>> \in Nat \X Nat /\ <<y, x>>[1] = y /\ <<y, x>>[2] = x
    BY <2>1
  <2>3. ~(y < x)
    BY <1>1, <2>2 DEF OpToRel
  <2> QED BY <2>1, <2>3
<1> QED BY <1>2 DEF Min

(* The Avro types of a Go value are few. *)
LEMMA TypesFew ==
  ASSUME NEW kind
  PROVE  Len(TypesOf(kind)) \in Nat
<1>1. Len(<<"null">>) = 1 /\ Len(<<"int", "long">>) = 2 /\ Len(<<"long">>) = 1
  OBVIOUS
<1>2. Len(<<"float", "double">>) = 2 /\ Len(<<"double">>) = 1 /\ Len(<<kind>>) = 1 /\ Len(<<>>) = 0
  OBVIOUS
<1> QED BY <1>1, <1>2 DEF TypesOf

(* avro.Marshal takes an item for one of the schema's types that suit it. *)
LEMMA MarshalTakes ==
  ASSUME NEW s, NEW v, MarshalItem(s, v) # Error
  PROVE  \E i \in 1 .. Len(TypesOf(v[1])) :
           /\ TypesOf(v[1])[i] \in ItemTypes(s)
           /\ MarshalItem(s, v) = Typed(TypesOf(v[1])[i], v)
<1> DEFINE types == TypesOf(v[1])
           I     == {i \in 1 .. Len(types) : types[i] \in ItemTypes(s)}
           first == SelectInSeq(types, LAMBDA t : t \in ItemTypes(s))
<1>1. first = IF I # {} THEN Min(I) ELSE 0
  BY DEF SelectInSeq
<1>2. I \subseteq Nat
  BY TypesFew
<1>3. MarshalItem(s, v) = IF first = 0 THEN Error ELSE Typed(types[first], v)
  BY DEF MarshalItem
<1> HIDE DEF first
<1>4. first # 0
  BY <1>3
<1>5. first \in I
  BY <1>1, <1>2, <1>4, Least
<1> QED BY <1>3, <1>4, <1>5

(* Decoded as a type that suits it, an item looks the same; arrays and maps suit
   no primitive type. *)
LEMMA TypedLooks ==
  ASSUME NEW v, IsItem(v), NEW i \in 1 .. Len(TypesOf(v[1]))
  PROVE  IsItem(Typed(TypesOf(v[1])[i], v)) /\ SeenItem(Typed(TypesOf(v[1])[i], v)) = SeenItem(v)
<1> DEFINE t == TypesOf(v[1])[i]
<1>1. CASE IsNumber(v)
  <2>1. Typed(t, v) = v \/ \E kind \in {"int32", "int64", "float64"} : Typed(t, v) = <<kind, v[2]>>
    <3>1. v[1] = "int32" => t \in {"int", "long"}
      BY DEF TypesOf
    <3>2. v[1] = "int64" => t = "long"
      BY DEF TypesOf
    <3>3. v[1] = "float32" => t \in {"float", "double"}
      BY DEF TypesOf
    <3>4. v[1] = "float64" => t = "double"
      BY DEF TypesOf
    <3> HIDE DEF t
    <3> QED BY <1>1, <3>1, <3>2, <3>3, <3>4 DEF IsNumber, Integral, Typed
  <2> HIDE DEF t
  <2>2. IsNumber(Typed(t, v)) /\ Typed(t, v)[2] = v[2]
    BY <1>1, <2>1 DEF IsNumber, Integral
  <2>3. SeenItem(Typed(t, v)) = Number(v[2]) /\ SeenItem(v) = Number(v[2])
    BY <1>1, <2>2, SeenForms DEF IsNumber
  <2> QED BY <2>2, <2>3 DEF IsItem, t
<1>2. CASE IsAtom(v)
  <2>1. v[1] \in {"nil", "fraction", "fraction32", "string"}
    BY <1>2, AtomKinds
  <2>2. t \notin {"int", "long"}
    BY <2>1 DEF TypesOf
  <2> HIDE DEF t
  <2>3. Typed(t, v) = v \/ (v[1] = "fraction32" /\ Typed(t, v) = <<"fraction", v[2]>>)
    BY <2>1, <2>2 DEF Typed
  <2>4. CASE v[1] = "fraction32" /\ Typed(t, v) = <<"fraction", v[2]>>
    <3>1. SeenItem(v) = Typed(t, v)
      BY <1>2, <2>4, SeenForms
    <3> QED BY <3>1, ItemCopied DEF t
  <2>5. CASE Typed(t, v) = v
    BY <2>5 DEF t
  <2> QED BY <2>3, <2>4, <2>5
<1>3. CASE v[1] = "bytes"
  <2>1. t = "bytes"
    BY <1>3 DEF TypesOf
  <2> HIDE DEF t
  <2>2. Typed(t, v) = v
    BY <1>3, <2>1 DEF Typed
  <2> QED BY <2>2 DEF t
<1>4. CASE v[1] = "array"
  BY <1>4 DEF TypesOf
<1> QED BY <1>1, <1>2, <1>3, <1>4 DEF IsItem, IsBytes

(* What a type keeps of what a script sees: a float its exact numbers, a long
   the numbers of an int64, bytes no null. *)
Keeps(type, x) ==
  /\ type = "float" => FloatHolds(x)
  /\ type = "long" => LongHolds(x)
  /\ type = "bytes" => x # Nil

(* coerceBytes changes no byte. *)
LEMMA CoercedLooks ==
  ASSUME NEW v, IsItem(v), v # Nil, CoerceBytes(v) # Error
  PROVE  IsItem(CoerceBytes(v)) /\ SeenItem(CoerceBytes(v)) = SeenItem(v)
<1>1. CASE v[1] = "bytes"
  BY <1>1 DEF CoerceBytes
<1>2. CASE v[1] = "array" /\ \A i \in DOMAIN v[2] : CoercesByte(v[2][i])
  <2> DEFINE b == [i \in DOMAIN v[2] |-> v[2][i][2]]
  <2>1. CoerceBytes(v) = <<"bytes", b>>
    BY <1>2 DEF CoerceBytes
  <2>2. \A i \in DOMAIN v[2] : Integral(v[2][i]) /\ v[2][i][2] \in 0 .. MaxByte
    BY <1>2 DEF CoercesByte
  <2>3. IsBytes(<<"bytes", b>>)
    BY <2>2 DEF IsBytes
  <2>4. SeenItem(<<"bytes", b>>) = <<"array", [i \in DOMAIN b |-> Number(b[i])]>>
    <3> HIDE DEF b
    <3>1. <<"bytes", b>>[1] = "bytes" /\ <<"bytes", b>>[2] = b
      OBVIOUS
    <3> QED BY <3>1, SeenForms
  <2>5. SeenItem(v) = <<"array", [i \in DOMAIN v[2] |-> SeenScalar(v[2][i])]>>
    BY <1>2, SeenForms
  <2>6. [i \in DOMAIN b |-> Number(b[i])] = [i \in DOMAIN v[2] |-> SeenScalar(v[2][i])]
    BY <2>2, SeenForms
  <2> QED BY <2>1, <2>3, <2>4, <2>5, <2>6 DEF IsItem
<1>3. CASE v[1] # "bytes" /\ ~(v[1] = "array" /\ \A i \in DOMAIN v[2] : CoercesByte(v[2][i]))
  BY <1>3 DEF CoerceBytes
<1> QED BY <1>1, <1>2, <1>3

(* normalizeAvroPrimitive changes the Go type of an item and not what a script
   sees of it, where the type keeps that. *)
LEMMA PrimitiveLooks ==
  ASSUME NEW type, NEW v, IsItem(v), Keeps(type, SeenItem(v))
  PROVE  /\ IsItem(NormalizePrimitive(type, v))
         /\ SeenItem(NormalizePrimitive(type, v)) = SeenItem(v)
<1> DEFINE r == NormalizePrimitive(type, v)
           n == Round(v[2], Float64)
<1>1. ASSUME Integral(v), type \in {"int", "long", "float", "double"}, r # v
      PROVE  \E kind \in {"int32", "int64", "float32", "float64"} : r = <<kind, n>>
  <2>1. v[2] \in Range32 /\ SeenItem(v) = Number(v[2])
    BY <1>1, SeenForms DEF IsItem, IsNumber, IsAtom, IsBytes, Integral, Nil, Fractions, Narrowed
  <2>2. n \in Range32 /\ Integral(SeenItem(v)) /\ SeenItem(v)[2] = n
    BY <2>1, Exported, RoundOnce
  <2>3. CASE type = "int"
    <3>1. FitsInt(n) /\ r = <<"int32", Wrap32(n)>>
      BY <1>1, <2>3 DEF NormalizePrimitive, CoerceNumber
    <3> HIDE DEF n, r
    <3>2. Wrap32(n) = n
      BY <2>2, <3>1 DEF FitsInt, Wrap32, MinInt32, MaxInt32, Range32, Float32
    <3> QED BY <3>1, <3>2
  <2>4. CASE type = "long"
    <3>1. r = <<"int64", ToLong(n)>>
      BY <1>1, <2>4 DEF NormalizePrimitive, CoerceNumber
    <3> HIDE DEF n, r
    <3>2. ToLong(n) = n
      BY <2>2, <2>4 DEF Keeps, LongHolds, ToLong
    <3> QED BY <3>1, <3>2
  <2>5. CASE type = "float"
    <3>1. ~Fractional(v)
      BY <1>1 DEF Integral, Fractional
    <3>2. r = <<"float32", Round(n, Float32)>>
      BY <1>1, <2>5, <3>1 DEF NormalizePrimitive, CoerceNumber
    <3> HIDE DEF n, r
    <3>3. Round(n, Float32) = n
      BY <2>2, <2>5 DEF Keeps, FloatHolds
    <3> QED BY <3>2, <3>3
  <2>6. CASE type = "double"
    <3>1. ~Fractional(v)
      BY <1>1 DEF Integral, Fractional
    <3> QED BY <1>1, <2>6, <3>1 DEF NormalizePrimitive, CoerceNumber
  <2> QED BY <1>1, <2>3, <2>4, <2>5, <2>6
<1>2. CASE Integral(v) /\ type \in {"int", "long", "float", "double"} /\ r # v
  <2>1. v[2] \in Range32 /\ SeenItem(v) = Number(v[2])
    BY <1>2, SeenForms DEF IsItem, IsNumber, IsAtom, IsBytes, Integral, Nil, Fractions, Narrowed
  <2>2. PICK kind \in {"int32", "int64", "float32", "float64"} : r = <<kind, n>>
    BY <1>1, <1>2
  <2>3. n \in Range32 /\ Number(n) = Number(v[2])
    BY <2>1, RoundOnce, Exported
  <2> HIDE DEF n, r
  <2>4. IsNumber(r) /\ r[2] = n
    BY <2>2, <2>3 DEF IsNumber, Integral
  <2>5. SeenItem(r) = Number(n)
    BY <2>4, SeenForms DEF IsNumber
  <2>6. IsItem(r) /\ SeenItem(r) = SeenItem(v)
    BY <2>1, <2>3, <2>4, <2>5 DEF IsItem
  <2> QED BY <2>6 DEF r
<1>3. CASE type \in {"float", "double"} /\ Fractional(v)
  <2>1. IsAtom(v) /\ ~Integral(v)
    BY <1>3 DEF IsItem, IsNumber, IsBytes, Integral, Fractional
  <2>2. SeenItem(v) = <<"fraction", v[2]>> /\ v[2] \in {0, 1, 2}
    <3>1. CASE v[1] = "fraction"
      <4>1. SeenItem(v) = v
        BY <2>1, <3>1, SeenForms
      <4>2. v \in Fractions
        BY <2>1, <3>1, AtomKinds
      <4> QED BY <4>1, <4>2 DEF Fractions
    <3>2. CASE v[1] = "fraction32"
      BY <2>1, <3>2, SeenForms, AtomKinds
    <3> QED BY <1>3, <3>1, <3>2 DEF Fractional
  <2>3. CASE type = "float"
    <3>1. r = <<"fraction32", Narrow(v[2])>>
      BY <1>3, <2>1, <2>3 DEF NormalizePrimitive
    <3>2. FloatHolds(<<"fraction", v[2]>>)
      BY <2>2, <2>3 DEF Keeps
    <3>3. Narrow(v[2]) = v[2]
      BY <3>2 DEF FloatHolds, Fractional
    <3>4. v[2] \in {0, 2}
      BY <2>2, <3>3 DEF Narrow
    <3> HIDE DEF r
    <3>5. r = <<"fraction32", v[2]>>
      BY <3>1, <3>3
    <3>6. IsAtom(r)
      BY <3>4, <3>5 DEF IsAtom, Narrowed
    <3>7. r[1] = "fraction32" /\ r[2] = v[2]
      BY <3>5
    <3>8. SeenItem(r) = <<"fraction", v[2]>>
      BY <3>6, <3>7, SeenForms
    <3> QED BY <2>2, <3>6, <3>8 DEF IsItem, r
  <2>4. CASE type = "double"
    <3>1. r = <<"fraction", v[2]>>
      BY <1>3, <2>1, <2>4 DEF NormalizePrimitive
    <3> QED BY <2>2, <3>1, ItemCopied
  <2> QED BY <1>3, <2>3, <2>4
<1>4. CASE type = "bytes" /\ CoerceBytes(v) # Error
  <2>1. r = CoerceBytes(v)
    BY <1>4 DEF NormalizePrimitive
  <2>2. v # Nil
    BY <1>4, SeenKinds DEF Keeps
  <2> HIDE DEF r
  <2>3. IsItem(r) /\ SeenItem(r) = SeenItem(v)
    BY <1>4, <2>1, <2>2, CoercedLooks
  <2> QED BY <2>3 DEF r
<1>5. CASE r = v
  BY <1>5
<1>6. r = v \/ (type = "bytes" /\ CoerceBytes(v) # Error) \/ (type \in {"float", "double"} /\ Fractional(v))
        \/ (Integral(v) /\ type \in {"int", "long", "float", "double"})
  BY DEF NormalizePrimitive
<1> HIDE DEF r
<1>7. IsItem(r) /\ SeenItem(r) = SeenItem(v)
  BY <1>2, <1>3, <1>4, <1>5, <1>6 DEF r
<1> QED BY <1>7 DEF r

(* The types of an item's schema. *)
LEMMA SchemaTypes ==
  ASSUME NEW s \in ItemSchemas
  PROVE  \/ s[1] \in Primitives /\ ItemTypes(s) = {s[1]}
         \/ /\ s[1] = "union" /\ s[2] \in Seq(PrimitiveSchemas)
            /\ ItemTypes(s) = {s[2][i][1] : i \in DOMAIN s[2]}
<1>1. CASE s \in PrimitiveSchemas
  <2>1. s[1] \in Primitives
    BY <1>1 DEF PrimitiveSchemas
  <2>2. s[1] # "union"
    BY <2>1 DEF Primitives
  <2> QED BY <2>1, <2>2 DEF ItemTypes
<1>2. CASE s \in {"union"} \X Seq(PrimitiveSchemas)
  <2>1. s[1] = "union" /\ s[2] \in Seq(PrimitiveSchemas)
    BY <1>2
  <2> QED BY <2>1 DEF ItemTypes
<1> QED BY <1>1, <1>2 DEF ItemSchemas

(* normalizeAvroValue leaves an item alone or normalises it for the type its
   schema aims at, at whatever depth. *)
LEMMA ItemNormalized ==
  ASSUME NEW s \in ItemSchemas, NEW v, NEW r \in {NormalizeItem(s, v), NormalizeBy(NormalizeItem, s, v)}
  PROVE  r = v \/ \E t \in Target(s) : r = NormalizePrimitive(t, v)
<1>1. CASE s[1] \in Primitives /\ ItemTypes(s) = {s[1]}
  <2>1. s[1] \notin {"record", "map", "array", "union"}
    BY <1>1 DEF Primitives
  <2>2. NormalizeItem(s, v) = NormalizePrimitive(s[1], v)
    BY <2>1 DEF NormalizeItem, NormalizeBy
  <2>3. NormalizeBy(NormalizeItem, s, v) = NormalizePrimitive(s[1], v)
    BY <2>1 DEF NormalizeBy
  <2>4. Target(s) = {s[1]}
    BY <2>1 DEF Target
  <2> QED BY <2>2, <2>3, <2>4
<1>2. CASE /\ s[1] = "union" /\ s[2] \in Seq(PrimitiveSchemas)
           /\ ItemTypes(s) = {s[2][i][1] : i \in DOMAIN s[2]}
  <2> DEFINE first == FirstBranch(s[2])
             I     == {i \in 1 .. Len(s[2]) : s[2][i] # <<"null">>}
  <2>1. CASE v # Nil /\ first # 0
    <3>1. first = IF I # {} THEN Min(I) ELSE 0
      BY DEF FirstBranch, SelectInSeq
    <3>2. I \subseteq Nat
      BY <1>2
    <3>3. first \in I
      BY <2>1, <3>1, <3>2, Least
    <3>4. first \in DOMAIN s[2] /\ s[2][first] \in PrimitiveSchemas
      BY <1>2, <3>3
    <3>5. NormalizeItem(s, v) = NormalizePrimitive(s[2][first][1], v)
      BY <1>2, <2>1 DEF NormalizeItem, NormalizeBy, NormalizeLeaf
    <3>6. NormalizeBy(NormalizeItem, s, v) = NormalizeItem(s[2][first], v)
      BY <1>2, <2>1 DEF NormalizeBy
    <3> HIDE DEF first
    <3>7. s[2][first][1] \in Primitives
      BY <3>4 DEF PrimitiveSchemas
    <3>8. s[2][first][1] \notin {"record", "map", "array", "union"}
      BY <3>7 DEF Primitives
    <3>9. NormalizeItem(s[2][first], v) = NormalizePrimitive(s[2][first][1], v)
      BY <3>8 DEF NormalizeItem, NormalizeBy, NormalizeLeaf
    <3>10. r = NormalizePrimitive(s[2][first][1], v)
      BY <3>5, <3>6, <3>9
    <3>11. s[2][first][1] \in Target(s)
      BY <1>2, <2>1 DEF Target, first
    <3> QED BY <3>10, <3>11
  <2>2. CASE ~(v # Nil /\ first # 0)
    <3>1. NormalizeItem(s, v) = NormalizePrimitive("union", v)
      BY <1>2, <2>2 DEF NormalizeItem, NormalizeBy
    <3>2. NormalizeBy(NormalizeItem, s, v) = NormalizePrimitive("union", v)
      BY <1>2, <2>2 DEF NormalizeBy
    <3>3. NormalizePrimitive("union", v) = v
      BY DEF NormalizePrimitive
    <3> QED BY <3>1, <3>2, <3>3
  <2> QED BY <2>1, <2>2
<1> QED BY <1>1, <1>2, SchemaTypes

(* An item that encodes decodes to one that looks the same. *)
LEMMA ItemKept ==
  ASSUME NEW s \in ItemSchemas, NEW v, IsItem(v), \A t \in Target(s) : Keeps(t, SeenItem(v)),
         NEW r \in {NormalizeItem(s, v), NormalizeBy(NormalizeItem, s, v)}, MarshalItem(s, r) # Error
  PROVE  IsItem(MarshalItem(s, r)) /\ SeenItem(MarshalItem(s, r)) = SeenItem(v)
<1>1. IsItem(r) /\ SeenItem(r) = SeenItem(v)
  <2>1. r = v \/ \E t \in Target(s) : r = NormalizePrimitive(t, v)
    BY ItemNormalized
  <2>2. \A t \in Target(s) :
          IsItem(NormalizePrimitive(t, v)) /\ SeenItem(NormalizePrimitive(t, v)) = SeenItem(v)
    BY PrimitiveLooks
  <2> QED BY <2>1, <2>2
<1>2. PICK i \in 1 .. Len(TypesOf(r[1])) : MarshalItem(s, r) = Typed(TypesOf(r[1])[i], r)
  BY MarshalTakes
<1> QED BY <1>1, <1>2, TypedLooks

(* An array or a map that is no item has no encoding as one. *)
LEMMA OnlyItems ==
  ASSUME NEW s \in ItemSchemas, NEW v, IsValue(v),
         NEW r \in {NormalizeItem(s, v), NormalizeBy(NormalizeItem, s, v)}, MarshalItem(s, r) # Error
  PROVE  IsItem(v)
<1> SUFFICES ASSUME ~IsItem(v), v[1] \in {"array", "map"} PROVE FALSE
  BY DEF IsValue
<1>1. CoerceBytes(v) = Error
  <2>1. v # Nil /\ v[1] # "bytes"
    BY DEF Nil
  <2>2. ~(v[1] = "array" /\ \A i \in DOMAIN v[2] : CoercesByte(v[2][i]))
    <3> SUFFICES ASSUME v[1] = "array", \A i \in DOMAIN v[2] : CoercesByte(v[2][i]) PROVE FALSE
      OBVIOUS
    <3>1. \A i \in DOMAIN v[2] : IsNumber(v[2][i])
      BY DEF CoercesByte, IsNumber, Range32, Float32, MaxByte
    <3> QED BY <3>1 DEF IsItem
  <2> QED BY <2>1, <2>2 DEF CoerceBytes
<1>2. \A t : NormalizePrimitive(t, v) = v
  BY <1>1 DEF NormalizePrimitive, Integral, Fractional
<1>3. r = v
  BY <1>2, ItemNormalized
<1>4. TypesOf(v[1]) = <<>>
  BY DEF TypesOf
<1>5. PICK i \in 1 .. Len(TypesOf(v[1])) : TRUE
  BY <1>3, MarshalTakes
<1> QED BY <1>4, <1>5

-----------------------------------------------------------------------------
(* Avro values. *)

(* What a schema keeps of what a script sees. *)
Kept(s, x) == \A type \in {"float", "long", "bytes"} : Targets(s, type) => \A p \in Parts(x) : Keeps(type, p)

(* The parts of an array or a map are kept if each is. *)
LEMMA PartsKept ==
  ASSUME NEW kind \in {"array", "map"}, NEW e, NEW sc,
         \A i \in DOMAIN e : IsItem(e[i]) /\ sc[i] \in ItemSchemas,
         \A i \in DOMAIN e : \A t \in Target(sc[i]) : Keeps(t, SeenItem(e[i])),
         \A i \in DOMAIN e : MarshalItem(sc[i], NormalizeItem(sc[i], e[i])) # Error,
         kind = "map" => DOMAIN e \subseteq {"f"},
         NEW b, b = <<kind, [i \in DOMAIN e |-> MarshalItem(sc[i], NormalizeItem(sc[i], e[i]))]>>
  PROVE  IsValue(b) /\ Seen(b) = <<kind, [i \in DOMAIN e |-> SeenItem(e[i])]>>
<1> DEFINE m == [i \in DOMAIN e |-> MarshalItem(sc[i], NormalizeItem(sc[i], e[i]))]
<1>1. \A i \in DOMAIN e : LET w == MarshalItem(sc[i], NormalizeItem(sc[i], e[i])) IN
        IsItem(w) /\ SeenItem(w) = SeenItem(e[i])
  BY ItemKept
<1>2. DOMAIN m = DOMAIN e /\ \A i \in DOMAIN m : IsItem(m[i]) /\ SeenItem(m[i]) = SeenItem(e[i])
  BY <1>1
<1>3. b = <<kind, m>>
  OBVIOUS
<1> HIDE DEF m
<1>4. b[1] = kind /\ b[2] = m
  BY <1>3
<1>5. Seen(b) = <<kind, [i \in DOMAIN m |-> SeenItem(m[i])]>>
  BY <1>4, SeenForms
<1>6. [i \in DOMAIN m |-> SeenItem(m[i])] = [i \in DOMAIN e |-> SeenItem(e[i])]
  BY <1>2
<1>7. IsValue(b)
  BY <1>2, <1>4 DEF IsValue
<1> QED BY <1>5, <1>6, <1>7

(* A type is kept of every part. *)
LEMMA KeptTypes ==
  ASSUME NEW s, NEW x, Kept(s, x), NEW t, Targets(s, t), NEW p \in Parts(x)
  PROVE  Keeps(t, p)
<1>1. CASE t \in {"float", "long", "bytes"}
  BY <1>1 DEF Kept
<1>2. CASE t \notin {"float", "long", "bytes"}
  BY <1>2 DEF Keeps
<1> QED BY <1>1, <1>2

(* Only arrays, maps and records have parts. *)
LEMMA PrimitiveOnly ==
  ASSUME NEW type \in {"record", "map", "array"}, NEW v
  PROVE  NormalizePrimitive(type, v) = v
BY DEF NormalizePrimitive

(* A value for a primitive type or a union. *)
LEMMA AvroItemKept ==
  ASSUME NEW s \in ItemSchemas, NEW v, IsValue(v), Kept(s, Seen(v)),
         NEW b, b = MarshalPlain(s, NormalizeBy(NormalizeItem, s, v)), b # Error
  PROVE  IsValue(b) /\ Seen(b) = Seen(v)
<1> DEFINE r == NormalizeBy(NormalizeItem, s, v)
<1>1. s[1] \notin {"record", "map", "array", "ref"}
  BY SchemaTypes DEF Primitives
<1> HIDE DEF r
<1>2. MarshalPlain(s, r) = MarshalItem(s, r)
  BY <1>1 DEF MarshalPlain
<1>3. b = MarshalItem(s, r)
  BY <1>2 DEF r
<1>4. r \in {NormalizeItem(s, v), NormalizeBy(NormalizeItem, s, v)}
  BY DEF r
<1>5. IsItem(v)
  BY <1>3, <1>4, OnlyItems
<1>6. \A t \in Target(s) : Keeps(t, SeenItem(v))
  <2> TAKE t \in Target(s)
  <2>1. CASE SeenItem(v)[1] \in {"array", "map"}
    BY <2>1 DEF Keeps, FloatHolds, LongHolds, Integral, Fractional, Nil
  <2>2. CASE SeenItem(v)[1] \notin {"array", "map"}
    <3>1. SeenItem(v) \in Parts(Seen(v))
      BY <1>5, <2>2, ItemAlone DEF Parts
    <3>2. Targets(s, t)
      BY <1>1 DEF Targets, Deref
    <3> QED BY <3>1, <3>2, KeptTypes
  <2> QED BY <2>1, <2>2
<1>7. IsItem(b) /\ SeenItem(b) = SeenItem(v)
  BY <1>3, <1>4, <1>5, <1>6, ItemKept
<1> QED BY <1>5, <1>7, ItemAlone DEF IsValue

(* The elements of a value are items, and look as they do in it. *)
LEMMA ElementsLook ==
  ASSUME NEW v, IsValue(v), v[1] \in {"array", "map", "bytes"}
  PROVE  /\ DOMAIN Elements(v) = DOMAIN v[2]
         /\ \A i \in DOMAIN v[2] : IsItem(Elements(v)[i])
         /\ Seen(v) = <<IF v[1] = "map" THEN "map" ELSE "array",
                        [i \in DOMAIN Elements(v) |-> SeenItem(Elements(v)[i])]>>
         /\ v[1] = "map" => DOMAIN v[2] \subseteq {"f"}
<1>1. CASE v[1] = "bytes"
  <2>1. IsBytes(v)
    BY <1>1 DEF IsValue, IsItem, IsNumber, IsAtom, Integral, Nil, Fractions, Narrowed
  <2>2. Elements(v) = [i \in DOMAIN v[2] |-> Number(v[2][i])]
    BY <1>1 DEF Elements
  <2>3. \A i \in DOMAIN v[2] : v[2][i] \in Range32
    BY <2>1 DEF IsBytes, Range32, Float32, MaxByte
  <2>4. \A i \in DOMAIN v[2] : IsNumber(Number(v[2][i])) /\ SeenItem(Number(v[2][i])) = Number(v[2][i])
    <3> TAKE i \in DOMAIN v[2]
    <3>1. Integral(Number(v[2][i])) /\ Number(v[2][i])[2] \in Range32
             /\ Number(Number(v[2][i])[2]) = Number(v[2][i])
      BY <2>3, Exported
    <3>2. SeenItem(Number(v[2][i])) = Number(Number(v[2][i])[2])
      BY <3>1, SeenForms
    <3> QED BY <3>1, <3>2 DEF IsNumber
  <2>5. Seen(v) = <<"array", [i \in DOMAIN v[2] |-> Number(v[2][i])]>>
    BY <1>1, SeenForms
  <2>6. [i \in DOMAIN Elements(v) |-> SeenItem(Elements(v)[i])] = [i \in DOMAIN v[2] |-> Number(v[2][i])]
    BY <2>2, <2>4
  <2>7. \A i \in DOMAIN v[2] : IsItem(Elements(v)[i])
    BY <2>2, <2>4 DEF IsItem
  <2>8. DOMAIN Elements(v) = DOMAIN v[2]
    BY <2>2
  <2> QED BY <1>1, <2>5, <2>6, <2>7, <2>8
<1>2. CASE v[1] \in {"array", "map"}
  <2>1. Elements(v) = v[2]
    BY <1>2 DEF Elements
  <2>2. Seen(v) = <<v[1], [i \in DOMAIN v[2] |-> SeenItem(v[2][i])]>>
    BY <1>2, SeenForms
  <2>3. \A i \in DOMAIN v[2] : IsItem(v[2][i])
    <3>1. ~IsNumber(v) /\ ~IsAtom(v) /\ ~IsBytes(v)
      BY <1>2 DEF IsNumber, IsAtom, IsBytes, Integral, Nil, Fractions, Narrowed
    <3>2. \A w : IsNumber(w) => IsItem(w)
      BY DEF IsItem
    <3>3. IsItem(v) => \A i \in DOMAIN v[2] : IsNumber(v[2][i])
      BY <3>1 DEF IsItem
    <3> QED BY <3>2, <3>3 DEF IsValue
  <2>4. v[1] = "map" => DOMAIN v[2] \subseteq {"f"}
    BY DEF IsValue, IsItem, IsNumber, IsAtom, IsBytes, Integral, Nil, Fractions, Narrowed
  <2> QED BY <1>2, <2>1, <2>2, <2>3, <2>4
<1> QED BY <1>1, <1>2

(* A value for an array or a map. *)
LEMMA AvroContainerKept ==
  ASSUME NEW s \in {"array", "map"} \X ItemSchemas, NEW v, IsValue(v), Kept(s, Seen(v)),
         NEW b, b = MarshalPlain(s, NormalizeBy(NormalizeItem, s, v)), b # Error
  PROVE  IsValue(b) /\ Seen(b) = Seen(v)
<1> DEFINE r  == NormalizeBy(NormalizeItem, s, v)
           e  == Elements(v)
           sc == [i \in DOMAIN e |-> s[2]]
<1>1. s[1] \in {"array", "map"} /\ s[2] \in ItemSchemas
  OBVIOUS
<1>2. b = IF r[1] # s[1] THEN Error
          ELSE Whole(s[1], [i \in DOMAIN r[2] |-> MarshalItem(s[2], r[2][i])])
  <2> HIDE DEF r
  <2>1. MarshalPlain(s, r) = IF r[1] # s[1] THEN Error
                             ELSE Whole(s[1], [i \in DOMAIN r[2] |-> MarshalItem(s[2], r[2][i])])
    BY <1>1 DEF MarshalPlain
  <2> QED BY <2>1 DEF r
<1>3. r[1] = s[1]
  BY <1>2
<1>4. (s[1] = "map" /\ v[1] = "map") \/ (s[1] = "array" /\ v[1] \in {"array", "bytes"})
  <2> SUFFICES ASSUME ~((s[1] = "map" /\ v[1] = "map") \/ (s[1] = "array" /\ v[1] \in {"array", "bytes"}))
               PROVE FALSE
    OBVIOUS
  <2>1. r = NormalizePrimitive(s[1], v)
    BY <1>1 DEF NormalizeBy
  <2>2. r = v
    BY <1>1, <2>1, PrimitiveOnly
  <2> QED BY <1>1, <1>3, <2>2
<1>5. r = <<s[1], [i \in DOMAIN e |-> NormalizeItem(s[2], e[i])]>>
  <2>1. CASE s[1] = "map" /\ v[1] = "map"
    BY <2>1 DEF NormalizeBy, Elements
  <2>2. CASE s[1] = "array" /\ v[1] \in {"array", "bytes"}
    <3>1. DOMAIN e = DOMAIN v[2]
      BY <2>2, ElementsLook
    <3> QED BY <2>2, <3>1 DEF NormalizeBy
  <2> QED BY <1>4, <2>1, <2>2
<1> HIDE DEF r
<1>6. b = Whole(s[1], [i \in DOMAIN e |-> MarshalItem(s[2], NormalizeItem(s[2], e[i]))])
  <2>1. r[2] = [i \in DOMAIN e |-> NormalizeItem(s[2], e[i])]
    BY <1>5
  <2>2. [i \in DOMAIN r[2] |-> MarshalItem(s[2], r[2][i])]
          = [i \in DOMAIN e |-> MarshalItem(s[2], NormalizeItem(s[2], e[i]))]
    BY <2>1
  <2> QED BY <1>2, <1>3, <2>2
<1> HIDE DEF e
<1>7. \A i \in DOMAIN e : MarshalItem(s[2], NormalizeItem(s[2], e[i])) # Error
  BY <1>6 DEF Whole
<1>8. b = <<s[1], [i \in DOMAIN e |-> MarshalItem(s[2], NormalizeItem(s[2], e[i]))]>>
  BY <1>6 DEF Whole
<1>9. /\ \A i \in DOMAIN e : IsItem(e[i])
      /\ Seen(v) = <<s[1], [i \in DOMAIN e |-> SeenItem(e[i])]>>
      /\ s[1] = "map" => DOMAIN e \subseteq {"f"}
  BY <1>4, ElementsLook DEF e
<1>10. \A i \in DOMAIN e : \A t \in Target(s[2]) : Keeps(t, SeenItem(e[i]))
  <2> TAKE i \in DOMAIN e
  <2> TAKE t \in Target(s[2])
  <2>1. Seen(v)[1] = s[1] /\ DOMAIN Seen(v)[2] = DOMAIN e /\ Seen(v)[2][i] = SeenItem(e[i])
    BY <1>9
  <2>2. SeenItem(e[i]) \in Parts(Seen(v))
    BY <1>1, <2>1 DEF Parts
  <2>3. Targets(s, t)
    BY <1>1 DEF Targets, Deref
  <2> QED BY <2>2, <2>3, KeptTypes
<1>11. b = <<s[1], [i \in DOMAIN e |-> MarshalItem(sc[i], NormalizeItem(sc[i], e[i]))]>>
  BY <1>8
<1>12. \A i \in DOMAIN e : sc[i] = s[2]
  OBVIOUS
<1> HIDE DEF sc
<1>13. IsValue(b) /\ Seen(b) = <<s[1], [i \in DOMAIN e |-> SeenItem(e[i])]>>
  BY <1>1, <1>7, <1>9, <1>10, <1>11, <1>12, PartsKept
<1> QED BY <1>9, <1>13

(* A value for a record. *)
LEMMA AvroRecordKept ==
  ASSUME NEW s \in {"record"} \X [{"f"} -> ItemSchemas], NEW v, IsValue(v), Kept(s, Seen(v)),
         NEW b, b = MarshalPlain(s, NormalizeBy(NormalizeItem, s, v)), b # Error
  PROVE  IsValue(b) /\ Seen(b) = Seen(v)
<1> DEFINE r == NormalizeBy(NormalizeItem, s, v)
           e == v[2]
<1>1. s[1] = "record" /\ s[2] \in [{"f"} -> ItemSchemas]
  OBVIOUS
<1>2. b = IF r[1] # "map" \/ ~(DOMAIN s[2] \subseteq DOMAIN r[2]) THEN Error
          ELSE Whole("map", [k \in DOMAIN s[2] |-> MarshalItem(s[2][k], r[2][k])])
  <2> HIDE DEF r
  <2>1. MarshalPlain(s, r) =
          IF r[1] # "map" \/ ~(DOMAIN s[2] \subseteq DOMAIN r[2]) THEN Error
          ELSE Whole("map", [k \in DOMAIN s[2] |-> MarshalItem(s[2][k], r[2][k])])
    BY <1>1 DEF MarshalPlain
  <2> QED BY <2>1 DEF r
<1>3. r[1] = "map" /\ DOMAIN s[2] \subseteq DOMAIN r[2]
  BY <1>2
<1>4. v[1] = "map"
  <2> SUFFICES ASSUME v[1] # "map" PROVE FALSE
    OBVIOUS
  <2>1. r = NormalizePrimitive(s[1], v)
    BY <1>1 DEF NormalizeBy
  <2>2. r = v
    BY <1>1, <2>1, PrimitiveOnly
  <2> QED BY <1>3, <2>2
<1>5. Elements(v) = e
  BY <1>4 DEF Elements
<1>6. /\ \A k \in DOMAIN e : IsItem(e[k])
      /\ Seen(v) = <<"map", [k \in DOMAIN e |-> SeenItem(e[k])]>>
      /\ DOMAIN e \subseteq {"f"}
  BY <1>4, <1>5, ElementsLook
<1>7. r = <<"map", [k \in DOMAIN e |->
                      IF k \in DOMAIN s[2] THEN NormalizeItem(s[2][k], e[k]) ELSE e[k]]>>
  BY <1>1, <1>4 DEF NormalizeBy
<1> HIDE DEF r, e
<1>8. r[2] = [k \in DOMAIN e |-> IF k \in DOMAIN s[2] THEN NormalizeItem(s[2][k], e[k]) ELSE e[k]]
  BY <1>7
<1>9. DOMAIN s[2] = DOMAIN e
  BY <1>1, <1>3, <1>6, <1>8
<1>10. [k \in DOMAIN s[2] |-> MarshalItem(s[2][k], r[2][k])]
         = [k \in DOMAIN e |-> MarshalItem(s[2][k], NormalizeItem(s[2][k], e[k]))]
  BY <1>8, <1>9
<1>11. b = Whole("map", [k \in DOMAIN e |-> MarshalItem(s[2][k], NormalizeItem(s[2][k], e[k]))])
  BY <1>2, <1>3, <1>10
<1>12. \A k \in DOMAIN e : MarshalItem(s[2][k], NormalizeItem(s[2][k], e[k])) # Error
  BY <1>11 DEF Whole
<1>13. b = <<"map", [k \in DOMAIN e |-> MarshalItem(s[2][k], NormalizeItem(s[2][k], e[k]))]>>
  BY <1>11 DEF Whole
<1>14. \A k \in DOMAIN e : s[2][k] \in ItemSchemas
  BY <1>1, <1>9
<1>15. \A k \in DOMAIN e : \A t \in Target(s[2][k]) : Keeps(t, SeenItem(e[k]))
  <2> TAKE k \in DOMAIN e
  <2> TAKE t \in Target(s[2][k])
  <2>1. Seen(v)[1] = "map" /\ DOMAIN Seen(v)[2] = DOMAIN e /\ Seen(v)[2][k] = SeenItem(e[k])
    BY <1>6
  <2>2. SeenItem(e[k]) \in Parts(Seen(v))
    BY <2>1 DEF Parts
  <2>3. Targets(s, t)
    BY <1>1, <1>9 DEF Targets, Deref
  <2> QED BY <2>2, <2>3, KeptTypes
<1>16. IsValue(b) /\ Seen(b) = <<"map", [k \in DOMAIN e |-> SeenItem(e[k])]>>
  BY <1>6, <1>12, <1>13, <1>14, <1>15, PartsKept
<1> QED BY <1>6, <1>16

(* A value that encodes decodes to one that looks the same, where its schema
   keeps what it holds. *)
LEMMA AvroValueKept ==
  ASSUME NEW s \in AvroSchemas, NEW v, IsValue(v), Kept(s, Seen(v)),
         NEW b, b = Marshal(s, Normalize(s, v)), b # Error
  PROVE  IsValue(b) /\ Seen(b) = Seen(v)
<1> DEFINE p == Deref(s)
<1>1. p \in PlainSchemas /\ Deref(p) = p
  <2>1. \A q \in PlainSchemas : q[1] # "ref"
    <3>1. \A q \in ItemSchemas : q[1] # "ref"
      BY SchemaTypes DEF Primitives
    <3> QED BY <3>1 DEF PlainSchemas
  <2> QED BY <2>1 DEF AvroSchemas, Deref
<1>2. b = MarshalPlain(p, NormalizeBy(NormalizeItem, p, v))
  BY DEF Marshal, Normalize
<1>3. Kept(p, Seen(v))
  <2>1. \A t : Targets(p, t) = Targets(s, t)
    BY <1>1 DEF Targets
  <2> HIDE DEF p
  <2> QED BY <2>1 DEF Kept
<1> HIDE DEF p
<1>4. CASE p \in ItemSchemas
  BY <1>2, <1>3, <1>4, AvroItemKept
<1>5. CASE p \in {"array", "map"} \X ItemSchemas
  BY <1>2, <1>3, <1>5, AvroContainerKept
<1>6. CASE p \in {"record"} \X [{"f"} -> ItemSchemas]
  BY <1>2, <1>3, <1>6, AvroRecordKept
<1> QED BY <1>1, <1>4, <1>5, <1>6 DEF PlainSchemas

-----------------------------------------------------------------------------
(* JSON. *)

(* Jsoned and its inner levels, kind by kind. *)
LEMMA JsonedForms ==
  ASSUME NEW v
  PROVE  /\ Integral(v) => /\ JsonedScalar(v) = <<"float64", Round(v[2], Float64)>>
                            /\ JsonedItem(v) = <<"float64", Round(v[2], Float64)>>
         /\ IsAtom(v) => (v[1] # "fraction32" => JsonedItem(v) = v)
         /\ v[1] \in {"array", "map"} =>
              /\ JsonedItem(v) = <<v[1], [i \in DOMAIN v[2] |-> JsonedScalar(v[2][i])]>>
              /\ Jsoned(v) = <<v[1], [i \in DOMAIN v[2] |-> JsonedItem(v[2][i])]>>
<1>1. CASE Integral(v)
  <2>1. /\ JsonedScalar(v) = <<"float64", Round(v[2], Float64)>>
        /\ JsonedItem(v) = <<"float64", Round(v[2], Float64)>>
    BY <1>1 DEF Integral, JsonedScalar, JsonedItem, JsonedBy
  <2>2. ~IsAtom(v) /\ v[1] \notin {"array", "map"}
    BY <1>1 DEF Integral, IsAtom, Nil, Fractions, Narrowed
  <2> QED BY <2>1, <2>2
<1>2. CASE IsAtom(v)
  <2>1. v[1] \in {"nil", "fraction", "fraction32", "string"}
    BY <1>2, AtomKinds
  <2> QED BY <1>2, <2>1 DEF Integral, JsonedItem, JsonedBy
<1>3. CASE v[1] \in {"array", "map"}
  <2>1. ~Integral(v) /\ ~IsAtom(v) /\ v[1] # "bytes" /\ v[1] # "fraction32"
    BY <1>3 DEF Integral, IsAtom, Nil, Fractions, Narrowed
  <2>2. JsonedItem(v) = <<v[1], [i \in DOMAIN v[2] |-> JsonedScalar(v[2][i])]>>
    BY <1>3, <2>1 DEF JsonedItem, JsonedBy
  <2>3. Jsoned(v) = <<v[1], [i \in DOMAIN v[2] |-> JsonedItem(v[2][i])]>>
    BY <1>3, <2>1 DEF Jsoned, JsonedBy
  <2> QED BY <2>1, <2>2, <2>3
<1> QED BY <1>1, <1>2, <1>3

(* A number survives the text. *)
LEMMA JsonedNumber ==
  ASSUME NEW v, IsNumber(v), NEW w, w = <<"float64", Round(v[2], Float64)>>
  PROVE  IsNumber(w) /\ SeenScalar(w) = SeenScalar(v) /\ SeenItem(w) = SeenItem(v)
<1>1. v[2] \in Range32 /\ Integral(v)
  BY DEF IsNumber
<1>2. w[1] = "float64" /\ w[2] = Round(v[2], Float64)
  OBVIOUS
<1>3. Integral(w) /\ w[2] \in Range32 /\ Number(w[2]) = Number(v[2])
  BY <1>1, <1>2, RoundOnce, Exported DEF Integral
<1>4. SeenScalar(w) = Number(w[2]) /\ SeenItem(w) = Number(w[2])
  BY <1>3, SeenForms
<1>5. SeenScalar(v) = Number(v[2]) /\ SeenItem(v) = Number(v[2])
  BY <1>1, SeenForms
<1> QED BY <1>3, <1>4, <1>5 DEF IsNumber

(* So does every item but bytes and the fractions that only Avro makes. *)
LEMMA JsonedItemLooks ==
  ASSUME NEW v, IsItem(v), v[1] \notin {"bytes", "fraction32"}
  PROVE  /\ IsItem(JsonedItem(v)) /\ SeenItem(JsonedItem(v)) = SeenItem(v)
         /\ JsonedItem(v)[1] \notin {"bytes", "fraction32"}
<1>1. CASE IsNumber(v)
  <2>1. JsonedItem(v) = <<"float64", Round(v[2], Float64)>>
    BY <1>1, JsonedForms DEF IsNumber
  <2>2. IsNumber(JsonedItem(v)) /\ SeenItem(JsonedItem(v)) = SeenItem(v)
    BY <1>1, <2>1, JsonedNumber
  <2> QED BY <2>1, <2>2 DEF IsItem
<1>2. CASE IsAtom(v)
  <2>1. JsonedItem(v) = v
    BY <1>2, JsonedForms
  <2> QED BY <2>1
<1>3. CASE v[1] = "array" /\ \A i \in DOMAIN v[2] : IsNumber(v[2][i])
  <2> DEFINE f == [i \in DOMAIN v[2] |-> JsonedScalar(v[2][i])]
             w == <<"array", f>>
  <2>1. JsonedItem(v) = w
    BY <1>3, JsonedForms
  <2>2. \A i \in DOMAIN v[2] : JsonedScalar(v[2][i]) = <<"float64", Round(v[2][i][2], Float64)>>
    BY <1>3, JsonedForms DEF IsNumber
  <2>3. \A i \in DOMAIN v[2] : IsNumber(JsonedScalar(v[2][i]))
                               /\ SeenScalar(JsonedScalar(v[2][i])) = SeenScalar(v[2][i])
    BY <1>3, <2>2, JsonedNumber
  <2>4. DOMAIN f = DOMAIN v[2] /\ \A i \in DOMAIN f : IsNumber(f[i]) /\ SeenScalar(f[i]) = SeenScalar(v[2][i])
    BY <2>3
  <2>5. w[1] = "array" /\ w[2] = f
    OBVIOUS
  <2> HIDE DEF w, f
  <2>6. SeenItem(w) = <<"array", [i \in DOMAIN f |-> SeenScalar(f[i])]>>
    BY <2>5, SeenForms
  <2>7. [i \in DOMAIN f |-> SeenScalar(f[i])] = [i \in DOMAIN v[2] |-> SeenScalar(v[2][i])]
    BY <2>4
  <2>8. SeenItem(v) = <<"array", [i \in DOMAIN v[2] |-> SeenScalar(v[2][i])]>>
    BY <1>3, SeenForms
  <2>9. IsItem(w)
    BY <2>4, <2>5 DEF IsItem
  <2> QED BY <2>1, <2>5, <2>6, <2>7, <2>8, <2>9
<1> QED BY <1>1, <1>2, <1>3 DEF IsItem, IsBytes

(* An object that JSON can hold as it is. *)
Textual(v) == \A k \in DOMAIN v[2] : v[2][k][1] \notin {"bytes", "fraction32"}

(* Such an object survives the text. *)
LEMMA JsonedLooks ==
  ASSUME NEW v, IsValue(v), v[1] = "map", Textual(v)
  PROVE  /\ IsValue(Jsoned(v)) /\ Textual(Jsoned(v))
         /\ Seen(Jsoned(v)) = Seen(v)
<1> DEFINE f == [i \in DOMAIN v[2] |-> JsonedItem(v[2][i])]
           w == <<"map", f>>
<1>1. Jsoned(v) = w
  BY JsonedForms
<1>2. (\A i \in DOMAIN v[2] : IsItem(v[2][i])) /\ DOMAIN v[2] \subseteq {"f"}
  BY ElementsLook DEF Elements
<1>3. DOMAIN f = DOMAIN v[2] /\ \A i \in DOMAIN f : IsItem(f[i]) /\ SeenItem(f[i]) = SeenItem(v[2][i])
                                                  /\ f[i][1] \notin {"bytes", "fraction32"}
  BY <1>2, JsonedItemLooks DEF Textual
<1>4. w[1] = "map" /\ w[2] = f
  OBVIOUS
<1> HIDE DEF w, f
<1>5. Seen(w) = <<"map", [i \in DOMAIN f |-> SeenItem(f[i])]>>
  BY <1>4, SeenForms
<1>6. [i \in DOMAIN f |-> SeenItem(f[i])] = [i \in DOMAIN v[2] |-> SeenItem(v[2][i])]
  BY <1>3
<1>7. Seen(v) = <<"map", [i \in DOMAIN v[2] |-> SeenItem(v[2][i])]>>
  BY SeenForms
<1>8. IsValue(w) /\ Textual(w)
  BY <1>2, <1>3, <1>4 DEF IsValue, Textual
<1> QED BY <1>1, <1>5, <1>6, <1>7, <1>8

(* A copy of an object is such an object. *)
LEMMA CopiedTextual ==
  ASSUME NEW v, IsValue(v), v[1] = "map"
  PROVE  Seen(v)[1] = "map" /\ Textual(Seen(v))
<1> DEFINE f == [i \in DOMAIN v[2] |-> SeenItem(v[2][i])]
<1>1. Seen(v) = <<"map", f>>
  BY SeenForms
<1>2. \A i \in DOMAIN v[2] : IsItem(v[2][i])
  BY ElementsLook DEF Elements
<1>3. \A i \in DOMAIN v[2] : SeenItem(v[2][i])[1] \notin {"bytes", "fraction32"}
  <2> TAKE i \in DOMAIN v[2]
  <2> DEFINE x == v[2][i]
  <2> HIDE DEF x
  <2>1. CASE IsNumber(x)
    <3>1. SeenItem(x) = Number(x[2]) /\ x[2] \in Range32
      BY <2>1, SeenForms DEF IsNumber
    <3>2. SeenItem(x)[1] \in {"int64", "float64"}
      BY <3>1, Exported
    <3> QED BY <3>2 DEF x
  <2>2. CASE IsAtom(x)
    BY <2>2, SeenAtom DEF x
  <2>3. CASE x[1] \in {"array", "bytes"}
    <3>1. SeenItem(x)[1] = "array"
      BY <2>3, SeenForms
    <3> QED BY <3>1 DEF x
  <2>4. IsItem(x)
    BY <1>2 DEF x
  <2> QED BY <2>1, <2>2, <2>3, <2>4 DEF IsItem, IsBytes
<1>4. DOMAIN f = DOMAIN v[2] /\ \A i \in DOMAIN f : f[i][1] \notin {"bytes", "fraction32"}
  BY <1>3
<1> HIDE DEF f
<1>5. Seen(v)[1] = "map" /\ Seen(v)[2] = f
  BY <1>1
<1> QED BY <1>4, <1>5 DEF Textual

-----------------------------------------------------------------------------
(* The invariant. *)

(* A value looks like the one first written, as far as the container keeps it. *)
Alike(v) ==
  /\ container.type = "AVRO" /\ Kept(container.schema, Seen(origin)) =>
       IsValue(v) /\ Seen(v) = Seen(origin)
  /\ container.type = "JSON" /\ origin[1] = "map" /\ Textual(origin) =>
       v[1] = "map" /\ IsValue(v) /\ Textual(v) /\ Seen(v) = Seen(origin)
  /\ container.type \in {"STRING", "BYTES"} /\ ByteLike(origin) /\ ~Mistakable(Raw(origin)) =>
       ByteLike(v) /\ Raw(v) = Raw(origin)
  /\ container.type = "STRING" /\ v[1] = "string" => MaxByte \notin Range(v[2])

(* The value first written is one that scripts or other producers write. *)
OriginOK ==
  /\ container \in Containers /\ IsValue(origin)
  /\ foreign => origin[1] = "map"
  /\ origin[1] = "map" => \A k \in DOMAIN origin[2] : origin[2][k][1] # "fraction32"
  /\ ByteLike(origin) => IsBytes(<<"bytes", Raw(origin)>>)

(* What the script holds looks like it. *)
ValueOK == stage \in {"held", "decoded"} => Alike(value)

(* What the topic holds is the encoding of such a value, or of another
   producer's. *)
MessageOK ==
  stage = "written" =>
    \/ Alike(value) /\ message = Serialized(container, value) /\ message # Failed
    \/ /\ Alike(value) /\ message = ToBytes(value)
       /\ container.type = "BYTES" /\ container.id = 0
    \/ /\ foreign /\ container.id \in 0 .. MaxId
       /\ message = WithWireFormat(container.id, <<IF container.type = "AVRO" THEN "avro" ELSE "json", origin>>)

(* A JSON object that was read has the fields its schema requires. *)
ObjectOK ==
  container.type = "JSON" /\ stage = "decoded" =>
    value[1] = "map" /\ container.schema[2] \subseteq DOMAIN value[2]

SerdesInv == OriginOK /\ ValueOK /\ MessageOK /\ ObjectOK /\ WrittenIsReadable

-----------------------------------------------------------------------------
(* The first values. *)

(* The scalars that scripts write are items. *)
LEMMA ScalarItems ==
  ASSUME NEW v \in Scalars
  PROVE  /\ IsItem(v) /\ v[1] \notin {"array", "map", "fraction32"}
         /\ v[1] = "string" => v[2] \in Texts
         /\ v[1] = "bytes" => v[2] \in Blobs
<1>1. CASE v \in {Number(n) : n \in Numbers}
  <2>1. PICK n \in Numbers : v = Number(n)
    BY <1>1
  <2>2. n \in Range32
    BY NumbersAssumption DEF Range32
  <2>3. IsNumber(v)
    BY <2>1, <2>2, Exported DEF IsNumber
  <2> QED BY <2>3 DEF IsItem, IsNumber, Integral
<1>2. CASE v \in {"fraction"} \X {0, 1, 2} \/ v = Nil
  BY <1>2 DEF IsItem, IsAtom, Nil, Fractions
<1>3. CASE v \in {"string"} \X Texts
  <2>1. v[1] = "string" /\ v[2] \in Texts
    BY <1>3
  <2> QED BY <2>1 DEF IsItem, IsAtom
<1>4. CASE v \in {"bytes"} \X Blobs
  <2>1. v[1] = "bytes" /\ v[2] \in Blobs
    BY <1>4
  <2>2. v[2] \in Seq(0 .. MaxByte)
    BY <2>1, BytesAssumption
  <2>3. v[2] = [i \in DOMAIN v[2] |-> v[2][i]] /\ \A i \in DOMAIN v[2] : v[2][i] \in 0 .. MaxByte
    BY <2>2 DEF MaxByte
  <2>4. IsBytes(v)
    BY <2>1, <2>3 DEF IsBytes
  <2> QED BY <2>1, <2>4 DEF IsItem
<1> QED BY <1>1, <1>2, <1>3, <1>4 DEF Scalars

(* What scripts write is a value, its text has no invalid byte, and what is
   byte-like of it are bytes. *)
LEMMA FirstValues ==
  ASSUME NEW v \in Values
  PROVE  /\ IsValue(v)
         /\ v[1] = "string" => MaxByte \notin Range(v[2])
         /\ ByteLike(v) => IsBytes(<<"bytes", Raw(v)>>)
         /\ v[1] = "map" => \A k \in DOMAIN v[2] : v[2][k][1] # "fraction32"
<1>1. IsValue(v) /\ (v[1] = "map" => \A k \in DOMAIN v[2] : v[2][k][1] # "fraction32")
  <2>1. CASE v \in Scalars
    BY <2>1, ScalarItems DEF IsValue
  <2>2. CASE v \in {<<"array", <<w>>>> : w \in Scalars}
    <3>1. PICK w \in Scalars : v = <<"array", <<w>>>>
      BY <2>2
    <3>2. v[1] = "array" /\ v[2] = <<w>>
      BY <3>1
    <3>3. \A i \in DOMAIN <<w>> : <<w>>[i] = w
      OBVIOUS
    <3> QED BY <3>2, <3>3, ScalarItems DEF IsValue
  <2>3. CASE v \in {"map"} \X Objects
    <3>1. v[1] = "map" /\ v[2] \in Objects
      BY <2>3
    <3>2. CASE v[2] = <<>>
      <4>1. DOMAIN v[2] = {}
        BY <3>2
      <4> QED BY <3>1, <4>1 DEF IsValue
    <3>3. CASE v[2] \in {[f |-> w] : w \in Scalars}
      <4>1. PICK w \in Scalars : v[2] = [f |-> w]
        BY <3>3
      <4>2. DOMAIN v[2] = {"f"} /\ v[2]["f"] = w
        BY <4>1
      <4> QED BY <3>1, <4>2, ScalarItems DEF IsValue
    <3> QED BY <3>1, <3>2, <3>3 DEF Objects
  <2> QED BY <2>1, <2>2, <2>3 DEF Values
<1>2. v[1] \in {"string", "bytes"} => v \in Scalars
  <2>1. v \in {<<"array", <<w>>>> : w \in Scalars} => v[1] = "array"
    OBVIOUS
  <2>2. v \in {"map"} \X Objects => v[1] = "map"
    OBVIOUS
  <2> QED BY <2>1, <2>2 DEF Values
<1>3. v[1] = "string" => v[2] \in Seq(0 .. MaxByte - 1)
  BY <1>2, ScalarItems, BytesAssumption
<1>4. v[1] = "bytes" => v[2] \in Seq(0 .. MaxByte)
  BY <1>2, ScalarItems, BytesAssumption
<1>5. v[1] = "string" => MaxByte \notin Range(v[2])
  BY <1>3 DEF Range, MaxByte
<1>6. ASSUME ByteLike(v)
      PROVE  Raw(v) = [i \in DOMAIN Raw(v) |-> Raw(v)[i]] /\ \A i \in DOMAIN Raw(v) : Raw(v)[i] \in 0 .. MaxByte
  <2>1. CASE v[1] = "string"
    <3>1. Raw(v) = v[2]
      BY <2>1 DEF Raw
    <3> QED BY <1>3, <2>1, <3>1 DEF MaxByte
  <2>2. CASE v[1] # "string" /\ v = Nil
    <3>1. Raw(v) = <<>>
      BY <2>2 DEF Raw, CoerceBytes, Nil
    <3> QED BY <3>1
  <2>3. CASE v[1] # "string" /\ v[1] = "bytes"
    <3>1. Raw(v) = v[2]
      BY <2>3 DEF Raw, CoerceBytes, Nil
    <3> QED BY <1>4, <2>3, <3>1 DEF MaxByte
  <2>4. CASE v[1] # "string" /\ v # Nil /\ v[1] # "bytes"
    <3>1. v[1] = "array" /\ \A i \in DOMAIN v[2] : CoercesByte(v[2][i])
      BY <1>6, <2>4 DEF ByteLike, CoerceBytes
    <3>2. CoerceBytes(v) = <<"bytes", [i \in DOMAIN v[2] |-> v[2][i][2]]>>
      BY <2>4, <3>1 DEF CoerceBytes
    <3>3. Raw(v) = [i \in DOMAIN v[2] |-> v[2][i][2]]
      BY <2>4, <3>2 DEF Raw
    <3> QED BY <3>1, <3>3 DEF CoercesByte
  <2> QED BY <2>1, <2>2, <2>3, <2>4
<1>7. ByteLike(v) => IsBytes(<<"bytes", Raw(v)>>)
  <2> DEFINE b == Raw(v)
  <2> HIDE DEF b
  <2>1. <<"bytes", b>>[1] = "bytes" /\ <<"bytes", b>>[2] = b
    OBVIOUS
  <2>2. ByteLike(v) => b = [i \in DOMAIN b |-> b[i]] /\ \A i \in DOMAIN b : b[i] \in 0 .. MaxByte
    BY <1>6 DEF b
  <2>3. ByteLike(v) => IsBytes(<<"bytes", b>>)
    BY <2>1, <2>2 DEF IsBytes
  <2> QED BY <2>3 DEF b
<1> QED BY <1>1, <1>5, <1>7

-----------------------------------------------------------------------------
(* The envelope. *)

(* What was wrapped with an id is unwrapped with it. *)
LEMMA Unwrapped ==
  ASSUME NEW id, NEW body, NEW m, m = WithWireFormat(id, body), m # Failed
  PROVE  StripWireFormat(m, id) = Wire(<<>>, body)
<1>1. CASE id = 0
  BY <1>1 DEF WithWireFormat, StripWireFormat, Enveloped
<1>2. CASE id # 0
  <2>1. id \in 0 .. MaxId /\ m = Wire(<<0, id>>, body)
    BY <1>2 DEF WithWireFormat, EncodeWireFormat
  <2>2. m.prefix = <<0, id>> /\ m.body = body
    BY <2>1 DEF Wire
  <2>3. Len(m.prefix) = 2 /\ m.prefix[1] = 0 /\ m.prefix[2] = id
    BY <2>2
  <2>4. Enveloped(m, id)
    BY <1>2, <2>3 DEF Enveloped, BeginsEnveloped
  <2>5. SubSeq(m.prefix, 3, Len(m.prefix)) = <<>>
    <3>1. <<0, id>> \in Seq(Nat)
      BY <2>1 DEF MaxId
    <3> QED BY <2>2, <2>3, <3>1
  <2> QED BY <2>2, <2>3, <2>4, <2>5 DEF StripWireFormat
<1> QED BY <1>1, <1>2

(* So an Avro or a JSON document is read for what was written. *)
LEMMA DocumentRead ==
  ASSUME NEW c, NEW m, NEW x
  PROVE  /\ c.type = "AVRO" /\ m = WithWireFormat(c.id, <<"avro", x>>) /\ m # Failed =>
              Deserialized(c, m) = x
         /\ c.type = "JSON" /\ m = WithWireFormat(c.id, <<"json", x>>) /\ m # Failed =>
              Deserialized(c, m) = ReadJSON(x, c.schema)
<1>1. ASSUME NEW kind \in {"avro", "json"}, m = WithWireFormat(c.id, <<kind, x>>), m # Failed
      PROVE  LET data == StripWireFormat(m, c.id) IN
             data # Failed /\ data.prefix = <<>> /\ data.body[1] = kind /\ data.body[2] = x
  <2> DEFINE data == StripWireFormat(m, c.id)
  <2>1. data = Wire(<<>>, <<kind, x>>)
    BY <1>1, Unwrapped
  <2> HIDE DEF data
  <2>2. data.prefix = <<>> /\ data.body = <<kind, x>>
    BY <2>1 DEF Wire
  <2>3. data.body[1] = kind /\ data.body[2] = x
    BY <2>2
  <2>4. Failed.body[1] = "error"
    BY DEF Failed, Wire, Error
  <2>5. data # Failed
    BY <1>1, <2>3, <2>4
  <2> QED BY <2>2, <2>3, <2>5 DEF data
<1>2. ASSUME c.type = "AVRO", m = WithWireFormat(c.id, <<"avro", x>>), m # Failed
      PROVE  Deserialized(c, m) = x
  BY <1>1, <1>2 DEF Deserialized
<1>3. ASSUME c.type = "JSON", m = WithWireFormat(c.id, <<"json", x>>), m # Failed
      PROVE  Deserialized(c, m) = ReadJSON(x, c.schema)
  BY <1>1, <1>3 DEF Deserialized
<1> QED BY <1>2, <1>3

(* What serialize writes for each type. *)
LEMMA SerializedForms ==
  ASSUME NEW c, NEW v, Serialized(c, v) # Failed
  PROVE  /\ c.type \in {"STRING", "BYTES", "AVRO", "JSON"}
         /\ c.type = "STRING" => v[1] = "string" /\ Serialized(c, v) = Wire(v[2], NoBody)
         /\ c.type = "BYTES" =>
              CoerceBytes(v) # Error /\ Serialized(c, v) = Wire(CoerceBytes(v)[2], NoBody)
         /\ c.type = "AVRO" =>
              /\ Parses(c.schema) /\ Marshal(c.schema, Normalize(c.schema, v)) # Error
              /\ Serialized(c, v) =
                   WithWireFormat(c.id, <<"avro", Marshal(c.schema, Normalize(c.schema, v))>>)
         /\ c.type = "JSON" =>
              /\ v[1] = "map" => ValidateRequired(v, c.schema)
              /\ Serialized(c, v) = WithWireFormat(c.id, <<"json", Jsoned(v)>>)
BY DEF Serialized

(* A JSON object that is read is one, with the fields its schema requires. *)
LEMMA ObjectRead ==
  ASSUME NEW c, NEW m, c.type = "JSON", Deserialized(c, m) # Error
  PROVE  LET r == Deserialized(c, m) IN r[1] = "map" /\ c.schema[2] \subseteq DOMAIN r[2]
<1> DEFINE data == StripWireFormat(m, c.id)
<1>1. Deserialized(c, m) = ReadJSON(data.body[2], c.schema)
  BY DEF Deserialized
<1> HIDE DEF data
<1> QED BY <1>1 DEF ReadJSON, ValidateRequired

(* An envelope with an id that fits is never a failure. *)
LEMMA FittingId ==
  ASSUME NEW id \in 0 .. MaxId, NEW kind \in {"avro", "json"}, NEW x
  PROVE  WithWireFormat(id, <<kind, x>>) # Failed
<1> DEFINE m == WithWireFormat(id, <<kind, x>>)
<1>1. EncodeWireFormat(id) = <<0, id>>
  BY DEF EncodeWireFormat
<1>2. <<0, id>> # <<>>
  OBVIOUS
<1>3. \E prefix : m = Wire(prefix, <<kind, x>>)
  BY <1>1, <1>2 DEF WithWireFormat
<1>4. m.body = <<kind, x>>
  BY <1>3 DEF Wire
<1> HIDE DEF m
<1>5. m.body[1] = kind
  BY <1>4
<1>6. Failed.body[1] = "error"
  BY DEF Failed, Wire, Error
<1>7. m # Failed
  BY <1>5, <1>6
<1> QED BY <1>7 DEF m

-----------------------------------------------------------------------------
(* Text and bytes. *)

(* Bytes that a script copied into an array are the same bytes. *)
LEMMA CopiedBytes ==
  ASSUME NEW b, IsBytes(<<"bytes", b>>), NEW a, a[1] = "array", DOMAIN a[2] = DOMAIN b,
         \A i \in DOMAIN b : a[2][i] = Number(b[i])
  PROVE  CoerceBytes(a) = <<"bytes", b>>
<1>1. b = [i \in DOMAIN b |-> b[i]] /\ \A i \in DOMAIN b : b[i] \in 0 .. MaxByte
  BY DEF IsBytes
<1>2. \A i \in DOMAIN b : b[i] \in Range32
  BY <1>1 DEF Range32, Float32, MaxByte
<1>3. \A i \in DOMAIN b : Integral(a[2][i]) /\ a[2][i][2] = b[i]
  BY <1>1, <1>2, Exported
<1>4. \A i \in DOMAIN a[2] : CoercesByte(a[2][i])
  BY <1>1, <1>3 DEF CoercesByte
<1>5. a # Nil
  BY DEF Nil
<1>6. CoerceBytes(a) = <<"bytes", [i \in DOMAIN a[2] |-> a[2][i][2]]>>
  BY <1>4, <1>5 DEF CoerceBytes
<1>7. [i \in DOMAIN a[2] |-> a[2][i][2]] = b
  BY <1>1, <1>3
<1> QED BY <1>6, <1>7

(* Text and bytes are the same bytes when they are copied. *)
LEMMA PlainCopied ==
  ASSUME NEW v, ByteLike(v), IsBytes(<<"bytes", Raw(v)>>)
  PROVE  ByteLike(Seen(v)) /\ Raw(Seen(v)) = Raw(v)
<1>1. CASE v[1] = "string" \/ v = Nil
  <2>1. IsAtom(v) /\ v[1] # "fraction32"
    BY <1>1 DEF IsAtom, Nil
  <2>2. Seen(v) = v
    BY <2>1, SeenForms
  <2> QED BY <2>2
<1>2. ASSUME v[1] # "string", Seen(v)[1] = "array", DOMAIN Seen(v)[2] = DOMAIN Raw(v),
             \A i \in DOMAIN Raw(v) : Seen(v)[2][i] = Number(Raw(v)[i])
      PROVE  ByteLike(Seen(v)) /\ Raw(Seen(v)) = Raw(v)
  <2>1. CoerceBytes(Seen(v)) = <<"bytes", Raw(v)>>
    BY <1>2, CopiedBytes
  <2>2. CoerceBytes(Seen(v)) # Error /\ CoerceBytes(Seen(v))[2] = Raw(v)
    BY <2>1 DEF Error
  <2> QED BY <1>2, <2>2 DEF ByteLike, Raw
<1>3. CASE v[1] = "bytes"
  <2>1. Raw(v) = v[2]
    BY <1>3 DEF Raw, CoerceBytes, Nil
  <2>2. Seen(v) = <<"array", [i \in DOMAIN v[2] |-> Number(v[2][i])]>>
    BY <1>3, SeenForms
  <2> QED BY <1>2, <1>3, <2>1, <2>2
<1>4. CASE v[1] = "array" /\ \A i \in DOMAIN v[2] : CoercesByte(v[2][i])
  <2>1. CoerceBytes(v) = <<"bytes", [i \in DOMAIN v[2] |-> v[2][i][2]]>>
    BY <1>4 DEF CoerceBytes, Nil
  <2>2. Raw(v) = [i \in DOMAIN v[2] |-> v[2][i][2]]
    BY <1>4, <2>1 DEF Raw
  <2>3. \A i \in DOMAIN v[2] : SeenItem(v[2][i]) = Number(v[2][i][2])
    BY <1>4, SeenForms DEF CoercesByte
  <2>4. Seen(v) = <<"array", [i \in DOMAIN v[2] |-> SeenItem(v[2][i])]>>
    BY <1>4, SeenForms
  <2> QED BY <1>2, <1>4, <2>2, <2>3, <2>4
<1>5. v[1] = "string" \/ v = Nil \/ v[1] = "bytes"
        \/ (v[1] = "array" /\ \A i \in DOMAIN v[2] : CoercesByte(v[2][i]))
  BY DEF ByteLike, CoerceBytes
<1> QED BY <1>1, <1>3, <1>4, <1>5

(* Without an id, or if they do not begin like an envelope, the bytes of a
   message are read as they are. *)
LEMMA PlainRead ==
  ASSUME NEW c, c.type \in {"STRING", "BYTES"},
         NEW b, c.id = 0 \/ ~BeginsEnveloped(b), NEW r, r = Deserialized(c, Wire(b, NoBody)), r # Error
  PROVE  ByteLike(Held(r)) /\ Raw(Held(r)) = b
<1> DEFINE m == Wire(b, NoBody)
<1>1. m.prefix = b /\ m.body = NoBody
  BY DEF Wire
<1>2. StripWireFormat(m, c.id) = m
  BY <1>1 DEF StripWireFormat, Enveloped
<1>3. m # Failed
  BY <1>1 DEF Failed, Wire, Error, NoBody
<1>4. r = Deserialized(c, m)
  OBVIOUS
<1> HIDE DEF m
<1>5. CASE c.type = "STRING"
  <2>1. r = <<"string", b>>
    BY <1>1, <1>2, <1>3, <1>4, <1>5 DEF Deserialized
  <2>2. r[1] = "string" /\ r[2] = b
    BY <2>1
  <2>3. Seen(r) = r
    BY <2>2, SeenForms DEF IsAtom
  <2>4. Held(r) = r
    BY <2>2, <2>3 DEF Held
  <2> QED BY <2>2, <2>4 DEF ByteLike, Raw
<1>6. CASE c.type = "BYTES"
  <2>1. r = <<"bytes", b>>
    BY <1>1, <1>2, <1>3, <1>4, <1>6 DEF Deserialized
  <2>2. r[1] = "bytes" /\ r[2] = b
    BY <2>1
  <2>3. Held(r) = r
    BY <2>2 DEF Held
  <2>4. CoerceBytes(r) = r
    BY <2>2 DEF CoerceBytes, Nil
  <2> QED BY <2>2, <2>3, <2>4 DEF ByteLike, Raw
<1> QED BY <1>5, <1>6

-----------------------------------------------------------------------------
(* The steps. *)

(* What a script holds stays alike when it is copied. *)
LEMMA CopyAlike ==
  ASSUME OriginOK, NEW v, Alike(v)
  PROVE  Alike(Seen(v))
<1>1. ASSUME container.type = "AVRO", Kept(container.schema, Seen(origin))
      PROVE  IsValue(Seen(v)) /\ Seen(Seen(v)) = Seen(origin)
  <2>1. IsValue(v) /\ Seen(v) = Seen(origin)
    BY <1>1 DEF Alike
  <2> QED BY <2>1, ValueCopied
<1>2. ASSUME container.type = "JSON", origin[1] = "map", Textual(origin)
      PROVE  /\ Seen(v)[1] = "map" /\ IsValue(Seen(v)) /\ Textual(Seen(v))
             /\ Seen(Seen(v)) = Seen(origin)
  <2>1. v[1] = "map" /\ IsValue(v) /\ Seen(v) = Seen(origin)
    BY <1>2 DEF Alike
  <2> QED BY <2>1, ValueCopied, CopiedTextual
<1>3. ASSUME container.type \in {"STRING", "BYTES"}, ByteLike(origin), ~Mistakable(Raw(origin))
      PROVE  ByteLike(Seen(v)) /\ Raw(Seen(v)) = Raw(origin)
  <2>1. ByteLike(v) /\ Raw(v) = Raw(origin)
    BY <1>3 DEF Alike
  <2>2. IsBytes(<<"bytes", Raw(v)>>)
    BY <1>3, <2>1 DEF OriginOK
  <2> QED BY <2>1, <2>2, PlainCopied
<1>4. ASSUME container.type = "STRING", Seen(v)[1] = "string"
      PROVE  MaxByte \notin Range(Seen(v)[2])
  <2>1. \A n : Number(n)[1] # "string"
    BY DEF Number
  <2>2. Seen(v) = v
    BY <1>4, <2>1 DEF Seen, SeenBy
  <2> QED BY <1>4, <2>2 DEF Alike
<1> QED BY <1>1, <1>2, <1>3, <1>4 DEF Alike

(* What another producer wrote is read for what it is. *)
LEMMA ForeignRead ==
  ASSUME OriginOK, foreign, container.id \in 0 .. MaxId, container.type \in {"AVRO", "JSON"},
         message = WithWireFormat(container.id, <<IF container.type = "AVRO" THEN "avro" ELSE "json", origin>>),
         NEW r, r = Deserialized(container, message), r # Error
  PROVE  Held(r) = origin
<1>1. origin[1] = "map"
  BY DEF OriginOK
<1>2. Held(origin) = origin
  BY <1>1 DEF Held
<1>3. message # Failed
  BY FittingId
<1>4. CASE container.type = "AVRO"
  <2>1. message = WithWireFormat(container.id, <<"avro", origin>>)
    BY <1>4
  <2>2. r = origin
    BY <1>3, <1>4, <2>1, DocumentRead
  <2> QED BY <1>2, <2>2
<1>5. CASE container.type = "JSON"
  <2>1. message = WithWireFormat(container.id, <<"json", origin>>)
    BY <1>5
  <2>2. r = ReadJSON(origin, container.schema)
    BY <1>3, <1>5, <2>1, DocumentRead
  <2>3. origin # Nil
    BY <1>1 DEF Nil
  <2>4. r = origin
    BY <2>2, <2>3 DEF ReadJSON
  <2> QED BY <1>2, <2>4
<1> QED BY <1>4, <1>5

(* What a script reads is alike: Avro. *)
LEMMA AvroAlike ==
  ASSUME OriginOK, MessageOK, stage = "written", container.type = "AVRO",
         Kept(container.schema, Seen(origin)), NEW r, r = Deserialized(container, message), r # Error
  PROVE  IsValue(Held(r)) /\ Seen(Held(r)) = Seen(origin)
<1>1. CASE Alike(value) /\ message = Serialized(container, value) /\ message # Failed
  <2> DEFINE b == Marshal(container.schema, Normalize(container.schema, value))
  <2>1. Parses(container.schema) /\ b # Error /\ message = WithWireFormat(container.id, <<"avro", b>>)
    BY <1>1, SerializedForms
  <2>2. container.schema \in AvroSchemas
    BY <2>1, ContainersAssumption DEF Parses, OriginOK
  <2>3. IsValue(value) /\ Seen(value) = Seen(origin)
    BY <1>1 DEF Alike
  <2>4. IsValue(b) /\ Seen(b) = Seen(value)
    BY <2>1, <2>2, <2>3, AvroValueKept
  <2> HIDE DEF b
  <2>5. r = b
    BY <1>1, <2>1, DocumentRead
  <2> QED BY <2>3, <2>4, <2>5, HeldLooks
<1>2. CASE foreign /\ container.id \in 0 .. MaxId
           /\ message = WithWireFormat(container.id, <<IF container.type = "AVRO" THEN "avro" ELSE "json", origin>>)
  <2>1. Held(r) = origin
    BY <1>2, ForeignRead
  <2> QED BY <2>1 DEF OriginOK
<1> QED BY <1>1, <1>2 DEF MessageOK

(* JSON. *)
LEMMA JsonAlike ==
  ASSUME OriginOK, MessageOK, stage = "written", container.type = "JSON",
         origin[1] = "map", Textual(origin), NEW r, r = Deserialized(container, message), r # Error
  PROVE  Held(r)[1] = "map" /\ IsValue(Held(r)) /\ Textual(Held(r)) /\ Seen(Held(r)) = Seen(origin)
<1>1. CASE Alike(value) /\ message = Serialized(container, value) /\ message # Failed
  <2> DEFINE b == Jsoned(value)
  <2>1. message = WithWireFormat(container.id, <<"json", b>>)
    BY <1>1, SerializedForms
  <2>2. value[1] = "map" /\ IsValue(value) /\ Textual(value) /\ Seen(value) = Seen(origin)
    BY <1>1 DEF Alike
  <2>3. IsValue(b) /\ Textual(b) /\ Seen(b) = Seen(value)
    BY <2>2, JsonedLooks
  <2>4. b = <<"map", [i \in DOMAIN value[2] |-> JsonedItem(value[2][i])]>>
    BY <2>2, JsonedForms
  <2>5. b[1] = "map"
    BY <2>4
  <2> HIDE DEF b
  <2>6. b # Nil
    BY <2>5 DEF Nil
  <2>7. r = ReadJSON(b, container.schema)
    BY <1>1, <2>1, DocumentRead
  <2>8. r = b
    BY <2>6, <2>7 DEF ReadJSON
  <2>9. Held(r) = b
    BY <2>5, <2>8 DEF Held
  <2> QED BY <2>2, <2>3, <2>5, <2>9
<1>2. CASE foreign /\ container.id \in 0 .. MaxId
           /\ message = WithWireFormat(container.id, <<IF container.type = "AVRO" THEN "avro" ELSE "json", origin>>)
  <2>1. Held(r) = origin
    BY <1>2, ForeignRead
  <2> QED BY <2>1 DEF OriginOK
<1> QED BY <1>1, <1>2 DEF MessageOK

(* Text and bytes. *)
LEMMA PlainAlike ==
  ASSUME OriginOK, MessageOK, stage = "written", container.type \in {"STRING", "BYTES"},
         ByteLike(origin), ~Mistakable(Raw(origin)), NEW r, r = Deserialized(container, message), r # Error
  PROVE  ByteLike(Held(r)) /\ Raw(Held(r)) = Raw(origin)
<1>1. ~foreign
  BY DEF OriginOK, ByteLike, CoerceBytes, Nil
<1>2. Alike(value)
  BY <1>1 DEF MessageOK
<1>3. ByteLike(value) /\ Raw(value) = Raw(origin)
  BY <1>2 DEF Alike
<1>4. message = Wire(Raw(value), NoBody)
  <2>1. CASE message = Serialized(container, value) /\ message # Failed /\ container.type = "STRING"
    BY <2>1, SerializedForms DEF Raw
  <2>2. CASE message = Serialized(container, value) /\ message # Failed /\ container.type = "BYTES"
    <3>1. CoerceBytes(value) # Error /\ message = Wire(CoerceBytes(value)[2], NoBody)
      BY <2>2, SerializedForms
    <3>2. value[1] # "string"
      BY <3>1 DEF CoerceBytes, Nil
    <3> QED BY <3>1, <3>2 DEF Raw
  <2>3. CASE message = ToBytes(value)
    BY <1>3, <2>3 DEF ToBytes, ByteLike, Raw
  <2> QED BY <1>1, <2>1, <2>2, <2>3 DEF MessageOK
<1> QED BY <1>3, <1>4, PlainRead DEF Mistakable

(* Text that was read has no invalid byte. *)
LEMMA TextAlike ==
  ASSUME NEW c, c.type = "STRING", NEW m, NEW r, r = Deserialized(c, m), r # Error
  PROVE  MaxByte \notin Range(Held(r)[2])
<1> DEFINE b == StripWireFormat(m, c.id).prefix
<1>1. r = <<"string", b>> /\ MaxByte \notin Range(b)
  BY DEF Deserialized
<1> HIDE DEF b
<1>2. r[1] = "string" /\ r[2] = b
  BY <1>1
<1>3. Held(r) = r
  BY <1>2, SeenForms DEF Held, IsAtom
<1> QED BY <1>1, <1>2, <1>3

(* What serialize or produce wrote is read with the same container. *)
LEMMA Readable ==
  ASSUME MessageOK, stage = "written", ~foreign, Deserialized(container, message) = Error
  PROVE  \/ container.type = "JSON" /\ value[1] # "map"
         \/ container.type \in {"STRING", "BYTES"} /\ Mistakable(Raw(value))
<1> DEFINE r == Deserialized(container, message)
<1>1. ASSUME NEW b, message = Wire(b, NoBody), ~Mistakable(b),
             \/ container.type = "BYTES"
             \/ container.type = "STRING" /\ MaxByte \notin Range(b)
      PROVE  FALSE
  <2>1. message.prefix = b /\ message.body = NoBody
    BY <1>1 DEF Wire
  <2>2. StripWireFormat(message, container.id) = message
    BY <1>1, <2>1 DEF StripWireFormat, Enveloped, Mistakable
  <2>3. message # Failed
    BY <2>1 DEF Failed, Wire, Error, NoBody
  <2>4. r \in {<<"bytes", b>>, <<"string", b>>}
    BY <1>1, <2>1, <2>2, <2>3 DEF Deserialized
  <2> QED BY <2>4 DEF Error
<1>2. CASE Alike(value) /\ message = Serialized(container, value) /\ message # Failed
  <2>1. CASE container.type = "STRING" /\ ~Mistakable(Raw(value))
    <3>1. value[1] = "string" /\ message = Wire(value[2], NoBody)
      BY <1>2, <2>1, SerializedForms
    <3>2. MaxByte \notin Range(value[2])
      BY <1>2, <2>1, <3>1 DEF Alike
    <3>3. Raw(value) = value[2]
      BY <3>1 DEF Raw
    <3> QED BY <1>1, <2>1, <3>1, <3>2, <3>3
  <2>2. CASE container.type = "BYTES" /\ ~Mistakable(Raw(value))
    <3>1. CoerceBytes(value) # Error /\ message = Wire(CoerceBytes(value)[2], NoBody)
      BY <1>2, <2>2, SerializedForms
    <3>2. value[1] # "string"
      BY <3>1 DEF CoerceBytes, Nil
    <3>3. Raw(value) = CoerceBytes(value)[2]
      BY <3>2 DEF Raw
    <3> QED BY <1>1, <2>2, <3>1, <3>3
  <2>3. CASE container.type = "AVRO"
    <3>1. PICK b : b # Error /\ message = WithWireFormat(container.id, <<"avro", b>>)
      BY <1>2, <2>3, SerializedForms
    <3>2. r = b
      BY <1>2, <2>3, <3>1, DocumentRead
    <3> QED BY <3>1, <3>2
  <2>4. CASE container.type = "JSON" /\ value[1] = "map"
    <3> DEFINE b == Jsoned(value)
    <3>1. ValidateRequired(value, container.schema) /\ message = WithWireFormat(container.id, <<"json", b>>)
      BY <1>2, <2>4, SerializedForms
    <3>2. b = <<"map", [i \in DOMAIN value[2] |-> JsonedItem(value[2][i])]>>
      BY <2>4, JsonedForms
    <3>3. b[1] = "map" /\ DOMAIN b[2] = DOMAIN value[2]
      BY <3>2
    <3> HIDE DEF b
    <3>4. r = ReadJSON(b, container.schema)
      BY <1>2, <2>4, <3>1, DocumentRead
    <3>5. b # Nil /\ b # Error
      BY <3>3 DEF Nil, Error
    <3>6. r = b
      BY <3>1, <3>3, <3>4, <3>5 DEF ReadJSON, ValidateRequired
    <3> QED BY <3>5, <3>6
  <2> QED BY <1>2, <2>1, <2>2, <2>3, <2>4, SerializedForms
<1>3. CASE message = ToBytes(value) /\ container.type = "BYTES" /\ container.id = 0
  <2>1. CASE \E b : message = Wire(b, NoBody)
    BY <1>1, <1>3, <2>1 DEF Mistakable
  <2>2. CASE message = Wire(<<>>, <<"text", value>>)
    <3>1. message.body = <<"text", value>>
      BY <2>2 DEF Wire
    <3>2. message.body[1] = "text"
      BY <3>1
    <3>3. StripWireFormat(message, container.id) = message
      BY <1>3 DEF StripWireFormat, Enveloped
    <3>4. Failed.body[1] = "error" /\ NoBody[1] = "none" /\ Error[1] = "error"
      BY DEF Failed, Wire, Error, NoBody
    <3>5. message # Failed /\ message.body # NoBody /\ message.body # Error
      BY <3>2, <3>4
    <3>6. r = message.body
      BY <1>3, <3>3, <3>5 DEF Deserialized
    <3> QED BY <3>5, <3>6
  <2> QED BY <1>3, <2>1, <2>2 DEF ToBytes
<1> QED BY <1>2, <1>3 DEF MessageOK

(* Serialize keeps the invariant. *)
LEMMA SerializeStep ==
  ASSUME SerdesInv, Serialize
  PROVE  SerdesInv'
<1>1. UNCHANGED <<value, container, overflow, origin, foreign>> /\ stage = "held"
  BY DEF Serialize, fixed
<1>2. OriginOK'
  BY <1>1 DEF SerdesInv, OriginOK, ByteLike, Raw, IsBytes
<1>3. Alike(value)
  BY <1>1 DEF SerdesInv, ValueOK
<1>4. Alike(value)'
  BY <1>1, <1>3 DEF Alike, Mistakable
<1>5. Serialized(container, value)' = Serialized(container, value)
  BY <1>1 DEF Serialized, Normalize, NormalizeBy
<1>6. stage' \in {"refused", "written"} /\ (stage' = "written" => message' = Serialized(container, value) /\ message' # Failed)
  BY DEF Serialize
<1>7. ValueOK' /\ ObjectOK' /\ WrittenIsReadable'
  BY <1>6 DEF ValueOK, ObjectOK, WrittenIsReadable, Mistakable
<1>8. MessageOK'
  BY <1>4, <1>5, <1>6 DEF MessageOK
<1> QED BY <1>2, <1>7, <1>8 DEF SerdesInv

(* ProduceRaw keeps the invariant. *)
LEMMA ProduceRawStep ==
  ASSUME SerdesInv, ProduceRaw
  PROVE  SerdesInv'
<1>1. /\ UNCHANGED <<value, container, overflow, origin, foreign>> /\ stage = "held" /\ stage' = "written"
      /\ container.type = "BYTES" /\ container.id = 0 /\ message' = ToBytes(value)
  BY DEF ProduceRaw, fixed
<1>2. OriginOK'
  BY <1>1 DEF SerdesInv, OriginOK, ByteLike, Raw, IsBytes
<1>3. Alike(value)
  BY <1>1 DEF SerdesInv, ValueOK
<1>4. Alike(value)'
  BY <1>1, <1>3 DEF Alike, Mistakable
<1>5. ToBytes(value)' = ToBytes(value)
  BY <1>1
<1>6. MessageOK'
  BY <1>1, <1>4, <1>5 DEF MessageOK
<1>7. ValueOK' /\ ObjectOK' /\ WrittenIsReadable'
  BY <1>1 DEF ValueOK, ObjectOK, WrittenIsReadable, Mistakable
<1> QED BY <1>2, <1>6, <1>7 DEF SerdesInv

(* ProduceForeign keeps the invariant. *)
LEMMA ProduceForeignStep ==
  ASSUME SerdesInv, NEW n \in Longs, ProduceForeign(n)
  PROVE  SerdesInv'
<1> DEFINE x == IF container.type = "AVRO" THEN <<"map", [f |-> <<"int64", n>>]>> ELSE <<"map", <<>>>>
           kind == IF container.type = "AVRO" THEN "avro" ELSE "json"
           body == IF container.type = "AVRO" THEN <<"avro", <<"map", [f |-> <<"int64", n>>]>>>>
                                              ELSE <<"json", <<"map", <<>>>>>>
<1>1. /\ container' = container /\ container.id \in 0 .. MaxId /\ stage' = "written"
      /\ message' = WithWireFormat(container.id, body) /\ origin' = body[2] /\ foreign' = TRUE
  BY DEF ProduceForeign
<1>2. body = <<kind, x>> /\ body[2] = x
  OBVIOUS
<1>3. x[1] = "map" /\ IsValue(x) /\ \A k \in DOMAIN x[2] : x[2][k][1] # "fraction32"
  <2>1. CASE container.type = "AVRO"
    <3>1. n \in Range32
      BY NumbersAssumption DEF Range32, Float32, MinInt64, MaxInt64
    <3>2. <<"int64", n>>[1] = "int64" /\ <<"int64", n>>[2] = n
      OBVIOUS
    <3>3. IsItem(<<"int64", n>>)
      BY <3>1, <3>2 DEF IsItem, IsNumber, Integral
    <3>4. x[1] = "map" /\ x[2] = [f |-> <<"int64", n>>]
      BY <2>1
    <3>5. DOMAIN x[2] = {"f"} /\ x[2]["f"] = <<"int64", n>>
      BY <3>4
    <3> HIDE DEF x
    <3> QED BY <3>3, <3>4, <3>5 DEF IsValue
  <2>2. CASE container.type # "AVRO"
    <3>1. x[1] = "map" /\ x[2] = <<>>
      BY <2>2
    <3>2. DOMAIN x[2] = {}
      BY <3>1
    <3> HIDE DEF x
    <3> QED BY <3>1, <3>2 DEF IsValue
  <2> QED BY <2>1, <2>2
<1>4. origin' = x /\ message' = WithWireFormat(container.id, <<kind, x>>)
  BY <1>1, <1>2
<1> HIDE DEF x, body
<1>5. ~ByteLike(x)
  BY <1>3 DEF ByteLike, CoerceBytes, Nil
<1>6. OriginOK'
  <2>1. IsValue(origin)' = IsValue(x) /\ ByteLike(origin)' = ByteLike(x) /\ origin' = x
    BY <1>4
  <2> QED BY <1>1, <1>3, <1>4, <1>5, <2>1 DEF SerdesInv, OriginOK
<1>7. MessageOK'
  <2>1. WithWireFormat(container.id, <<kind, origin>>)' = WithWireFormat(container.id, <<kind, x>>)
    BY <1>1, <1>4
  <2> QED BY <1>1, <1>4, <2>1 DEF MessageOK
<1>8. ValueOK' /\ ObjectOK' /\ WrittenIsReadable'
  BY <1>1 DEF ValueOK, ObjectOK, WrittenIsReadable, Mistakable
<1> QED BY <1>6, <1>7, <1>8 DEF SerdesInv

(* Deserialize keeps the invariant. *)
LEMMA DeserializeStep ==
  ASSUME SerdesInv, Deserialize
  PROVE  SerdesInv'
<1> DEFINE r == Deserialized(container, message)
<1>1. /\ UNCHANGED <<container, origin, foreign>> /\ stage = "written"
      /\ stage' = (IF r = Error THEN "unreadable" ELSE "decoded")
      /\ value' = (IF r = Error THEN value ELSE Held(r))
  BY DEF Deserialize, fixed
<1>2. OriginOK /\ MessageOK
  BY DEF SerdesInv
<1>3. OriginOK'
  BY <1>1, <1>2 DEF OriginOK, ByteLike, Raw, IsBytes
<1>4. MessageOK'
  BY <1>1 DEF MessageOK
<1>5. CASE r = Error
  <2>1. ValueOK' /\ ObjectOK'
    BY <1>1, <1>5 DEF ValueOK, ObjectOK
  <2>2. WrittenIsReadable'
    BY <1>1, <1>2, <1>5, Readable DEF WrittenIsReadable, Mistakable
  <2> QED BY <1>3, <1>4, <2>1, <2>2 DEF SerdesInv
<1>6. CASE r # Error
  <2>1. stage' = "decoded" /\ value' = Held(r)
    BY <1>1, <1>6
  <2>2. ASSUME container.type = "AVRO", Kept(container.schema, Seen(origin))
        PROVE  IsValue(Held(r)) /\ Seen(Held(r)) = Seen(origin)
    BY <1>1, <1>2, <1>6, <2>2, AvroAlike
  <2>3. ASSUME container.type = "JSON", origin[1] = "map", Textual(origin)
        PROVE  Held(r)[1] = "map" /\ IsValue(Held(r)) /\ Textual(Held(r)) /\ Seen(Held(r)) = Seen(origin)
    BY <1>1, <1>2, <1>6, <2>3, JsonAlike
  <2>4. ASSUME container.type \in {"STRING", "BYTES"}, ByteLike(origin), ~Mistakable(Raw(origin))
        PROVE  ByteLike(Held(r)) /\ Raw(Held(r)) = Raw(origin)
    BY <1>1, <1>2, <1>6, <2>4, PlainAlike
  <2>5. container.type = "STRING" => MaxByte \notin Range(Held(r)[2])
    BY <1>6, TextAlike
  <2>6. Alike(Held(r))
    BY <2>2, <2>3, <2>4, <2>5 DEF Alike
  <2>7. Alike(value)'
    BY <1>1, <2>1, <2>6 DEF Alike, Mistakable
  <2>8. ObjectOK'
    <3>1. ASSUME container.type = "JSON"
          PROVE  Held(r)[1] = "map" /\ container.schema[2] \subseteq DOMAIN Held(r)[2]
      <4>1. r[1] = "map" /\ container.schema[2] \subseteq DOMAIN r[2]
        BY <1>6, <3>1, ObjectRead
      <4>2. Held(r) = r
        BY <4>1 DEF Held
      <4> QED BY <4>1, <4>2
    <3> QED BY <1>1, <2>1, <3>1 DEF ObjectOK
  <2>9. ValueOK' /\ WrittenIsReadable'
    BY <2>1, <2>7 DEF ValueOK, WrittenIsReadable
  <2> QED BY <1>3, <1>4, <2>8, <2>9 DEF SerdesInv
<1> QED BY <1>5, <1>6

(* Relay keeps the invariant. *)
LEMMA RelayStep ==
  ASSUME SerdesInv, NEW copies, Relay(copies)
  PROVE  SerdesInv'
<1>1. /\ UNCHANGED <<container, origin, foreign>> /\ stage = "decoded" /\ stage' = "held"
      /\ value' = (IF copies THEN Seen(value) ELSE value)
  BY DEF Relay, fixed
<1>2. OriginOK'
  BY <1>1 DEF SerdesInv, OriginOK, ByteLike, Raw, IsBytes
<1>3. Alike(value) /\ OriginOK
  BY <1>1 DEF SerdesInv, ValueOK
<1>4. Alike(Seen(value))
  BY <1>3, CopyAlike
<1>5. Alike(value)'
  <2>1. CASE copies
    BY <1>1, <1>4, <2>1 DEF Alike, Mistakable
  <2>2. CASE ~copies
    BY <1>1, <1>3, <2>2 DEF Alike, Mistakable
  <2> QED BY <2>1, <2>2
<1>6. ValueOK' /\ MessageOK' /\ ObjectOK' /\ WrittenIsReadable'
  BY <1>1, <1>5 DEF ValueOK, MessageOK, ObjectOK, WrittenIsReadable
<1> QED BY <1>2, <1>6 DEF SerdesInv

(* The first states have the invariant. *)
LEMMA SerdesFirst == Init => SerdesInv
<1> SUFFICES ASSUME Init PROVE SerdesInv
  OBVIOUS
<1>1. /\ stage = "held" /\ value \in Values /\ container \in Containers
      /\ origin = value /\ foreign = FALSE
  BY DEF Init
<1>2. OriginOK
  BY <1>1, FirstValues DEF OriginOK
<1>3. Alike(value)
  <2>1. IsValue(value) /\ (value[1] = "string" => MaxByte \notin Range(value[2]))
    BY <1>1, FirstValues
  <2> QED BY <1>1, <2>1 DEF Alike, Mistakable
<1>4. ValueOK /\ MessageOK /\ ObjectOK /\ WrittenIsReadable
  BY <1>1, <1>3 DEF ValueOK, MessageOK, ObjectOK, WrittenIsReadable
<1> QED BY <1>2, <1>4 DEF SerdesInv

(* Every step of the script, the topic and the other producers keeps it. *)
LEMMA SerdesStep == SerdesInv /\ [Next]_vars => SerdesInv'
<1> SUFFICES ASSUME SerdesInv, [Next]_vars PROVE SerdesInv'
  OBVIOUS
<1>1. CASE Serialize
  BY <1>1, SerializeStep
<1>2. CASE ProduceRaw
  BY <1>2, ProduceRawStep
<1>3. CASE Deserialize
  BY <1>3, DeserializeStep
<1>4. CASE \E n \in Longs : ProduceForeign(n)
  BY <1>4, ProduceForeignStep
<1>5. CASE \E copies \in BOOLEAN : Relay(copies)
  BY <1>5, RelayStep
<1>6. CASE UNCHANGED vars
  <2>1. UNCHANGED <<stage, value, container, message, overflow, origin, foreign>>
    BY <1>6 DEF vars
  <2>2. OriginOK'
    BY <2>1 DEF SerdesInv, OriginOK, ByteLike, Raw, IsBytes
  <2>3. Alike(value)' = Alike(value)
    BY <2>1 DEF Alike, Mistakable
  <2>4. Serialized(container, value)' = Serialized(container, value)
    BY <2>1 DEF Serialized, Normalize, NormalizeBy
  <2>5. ValueOK' /\ ObjectOK' /\ WrittenIsReadable'
    BY <2>1, <2>3 DEF SerdesInv, ValueOK, ObjectOK, WrittenIsReadable, Mistakable
  <2>6. MessageOK'
    BY <2>1, <2>3, <2>4 DEF SerdesInv, MessageOK
  <2> QED BY <2>2, <2>5, <2>6 DEF SerdesInv
<1> QED BY <1>1, <1>2, <1>3, <1>4, <1>5, <1>6 DEF Next

-----------------------------------------------------------------------------
(* The theorems. *)

(* The premise of AvroKept, in terms of what a script sees of the value. *)
LEMMA PremiseKept ==
  ASSUME NEW s, NEW v, IsValue(v),
         Targets(s, "float") => \A w \in Parts(v) : FloatHolds(SeenItem(w)),
         Targets(s, "long") => \A w \in Parts(v) : LongHolds(SeenItem(w)),
         Targets(s, "bytes") => Nil \notin Parts(v)
  PROVE  Kept(s, Seen(v))
<1>1. ASSUME NEW w \in Parts(v), IsItem(w), NEW type \in {"float", "long", "bytes"}, Targets(s, type)
      PROVE  Keeps(type, SeenItem(w))
  <2>1. type = "bytes" => SeenItem(w) # Nil
    BY <1>1, SeenKinds
  <2> QED BY <1>1, <2>1 DEF Keeps
<1>2. CASE v[1] \in {"array", "map"}
  <2>1. Elements(v) = v[2]
    BY <1>2 DEF Elements
  <2>2. /\ \A i \in DOMAIN v[2] : IsItem(v[2][i])
        /\ Seen(v) = <<v[1], [i \in DOMAIN v[2] |-> SeenItem(v[2][i])]>>
    BY <1>2, <2>1, ElementsLook
  <2>3. \A p \in Parts(Seen(v)) : \E i \in DOMAIN v[2] : p = SeenItem(v[2][i])
    BY <1>2, <2>2 DEF Parts
  <2>4. \A i \in DOMAIN v[2] : v[2][i] \in Parts(v)
    BY <1>2 DEF Parts
  <2> QED BY <1>1, <2>2, <2>3, <2>4 DEF Kept
<1>3. CASE v[1] = "bytes"
  <2>1. IsBytes(v)
    BY <1>3 DEF IsValue, IsItem, IsNumber, IsAtom, Integral, Nil, Fractions, Narrowed
  <2>2. Seen(v) = <<"array", [i \in DOMAIN v[2] |-> Number(v[2][i])]>>
    BY <1>3, SeenForms
  <2>3. \A p \in Parts(Seen(v)) : \E i \in DOMAIN v[2] : p = Number(v[2][i])
    BY <2>2 DEF Parts
  <2>4. ASSUME NEW n \in 0 .. MaxByte, NEW type PROVE Keeps(type, Number(n))
    <3>1. n \in Range32
      BY DEF Range32, Float32, MaxByte
    <3>2. Number(n)[2] = n /\ Integral(Number(n))
      BY <3>1, Exported
    <3>3. Round(n, Float32) = n
      <4> DEFINE S(t) == Abs(n) <= 4 * t /\ (t = 1 \/ Abs(n) > 4 * (t \div 2))
      <4>1. Abs(n) = n /\ n \in Nat /\ n <= 2
        BY DEF Abs, MaxByte
      <4>2. \A t \in {1, 2, 4, 8, 16, 32} : S(t) <=> t = 1
        BY <4>1
      <4>3. Step(n, Float32) = 1
        BY <4>2 DEF Step, Float32
      <4> QED BY <4>1, <4>3 DEF Round, Nearest
    <3>4. n <= MaxInt64
      BY DEF MaxByte, MaxInt64
    <3>5. Number(n) # Nil
      BY <3>2 DEF Integral, Nil
    <3> QED BY <3>2, <3>3, <3>4, <3>5 DEF Keeps, FloatHolds, LongHolds, Integral, Fractional
  <2>5. \A i \in DOMAIN v[2] : v[2][i] \in 0 .. MaxByte
    BY <2>1 DEF IsBytes
  <2> QED BY <2>3, <2>4, <2>5 DEF Kept
<1>4. CASE v[1] \notin {"array", "map", "bytes"}
  <2>1. IsItem(v)
    BY <1>4 DEF IsValue
  <2>2. Seen(v) = SeenItem(v) /\ Parts(v) = {v}
    BY <1>4, <2>1, ItemAlone DEF Parts
  <2>3. SeenItem(v)[1] \notin {"array", "map"}
    <3>1. SeenItem(v)[1] # "array"
      BY <1>4, <2>1, SeenKinds
    <3>2. SeenItem(v)[1] # "map"
      <4>1. CASE IsNumber(v)
        <5>1. SeenItem(v) = Number(v[2])
          BY <4>1, SeenForms DEF IsNumber
        <5> QED BY <5>1 DEF Number
      <4>2. CASE IsAtom(v)
        BY <4>2, SeenAtom
      <4> QED BY <1>4, <2>1, <4>1, <4>2 DEF IsItem, IsBytes
    <3> QED BY <3>1, <3>2
  <2>4. Parts(Seen(v)) = {SeenItem(v)}
    BY <2>2, <2>3 DEF Parts
  <2> QED BY <1>1, <2>1, <2>2, <2>4 DEF Kept
<1> QED BY <1>2, <1>3, <1>4

(* The serdes of schema_registry.go keep SerdesInv: what the topic holds is
   the encoding of a value that looks like the one first written. *)
LEMMA SerdesInvariant == Spec => []SerdesInv
BY SerdesFirst, SerdesStep, PTL DEF Spec

(* For any Avro schema of this form and any number of relays, a value that
   comes back is the one that was written, outside the three cases that
   AvroKept names (normalizeAvroValue, normalizeAvroPrimitive). *)
THEOREM SerdesAvroKept == Spec => []AvroKept
<1>1. SerdesInv => AvroKept
  <2> SUFFICES ASSUME SerdesInv, container.type = "AVRO", stage = "decoded",
                      Targets(container.schema, "float") => \A w \in Parts(origin) : FloatHolds(SeenItem(w)),
                      Targets(container.schema, "long") => \A w \in Parts(origin) : LongHolds(SeenItem(w)),
                      Targets(container.schema, "bytes") => Nil \notin Parts(origin)
               PROVE  Seen(value) = Seen(origin)
    BY DEF AvroKept, AvroRoundTrip
  <2>1. Kept(container.schema, Seen(origin))
    BY PremiseKept DEF SerdesInv, OriginOK
  <2> QED BY <2>1 DEF SerdesInv, ValueOK, Alike
<1> QED BY <1>1, SerdesInvariant, PTL

(* A JSON object that is read has its required fields and is the one that was
   written (validateJSONRequired). *)
THEOREM SerdesJsonObjectsKept == Spec => []JsonObjectsKept
<1>1. SerdesInv => JsonObjectsKept
  <2> SUFFICES ASSUME SerdesInv, container.type = "JSON", stage = "decoded"
               PROVE  /\ value[1] = "map" /\ container.schema[2] \subseteq DOMAIN value[2]
                      /\ origin[1] = "map" /\ (\A k \in DOMAIN origin[2] : origin[2][k][1] # "bytes") =>
                           Seen(value) = Seen(origin)
    BY DEF JsonObjectsKept
  <2>1. value[1] = "map" /\ container.schema[2] \subseteq DOMAIN value[2]
    BY DEF SerdesInv, ObjectOK
  <2>2. ASSUME origin[1] = "map", \A k \in DOMAIN origin[2] : origin[2][k][1] # "bytes"
        PROVE  Seen(value) = Seen(origin)
    <3>1. Textual(origin)
      BY <2>2 DEF SerdesInv, OriginOK, Textual
    <3> QED BY <2>2, <3>1 DEF SerdesInv, ValueOK, Alike
  <2> QED BY <2>1, <2>2
<1> QED BY <1>1, SerdesInvariant, PTL

(* Text and bytes pass without a schema id as they are (coerceBytes, toBytes,
   checkAndStripWireFormat). *)
THEOREM SerdesPlainKept == Spec => []PlainKept
<1>1. SerdesInv => PlainKept
  BY DEF SerdesInv, PlainKept, ValueOK, Alike
<1> QED BY <1>1, SerdesInvariant, PTL

(* What serialize wrote, deserialize reads (encodeWireFormat). *)
THEOREM SerdesWrittenIsReadable == Spec => []WrittenIsReadable
<1>1. SerdesInv => WrittenIsReadable
  BY DEF SerdesInv
<1> QED BY <1>1, SerdesInvariant, PTL
=============================================================================
