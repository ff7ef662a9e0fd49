---------------------------- MODULE AdminProofs ----------------------------
(* Topic administration, proved for any connections, topics, layouts and widths
   of the request's fields. *)
EXTENDS Admin, FiniteSetTheorems, SequenceTheorems, TLAPS

Configs == UNION {TopicConfigs[c] : c \in Conns}
Layouts == {RequestTopic(cfg) : cfg \in Configs}
Calls   == [op : {"none", "create", "delete", "list"}, topic : Topics \cup {NoName},
            want : Configs \cup {<<>>}, send : Layouts \cup {<<>>}]
Listed  == [topic : Topics \cup Internal, internal : BOOLEAN, err : BOOLEAN]
Codes   == [err : BOOLEAN, entries : Seq(Listed), seen : SUBSET Topics]

(* The state that TypeOK leaves open. *)
MoreTypes ==
  /\ call \in [Conns -> Calls]
  /\ code \in [Conns -> Codes]
  /\ layout \in [Topics -> Layouts \cup {NoLayout}]
  /\ wanted \in [Topics -> Configs \cup {<<>>}]

(* A request names a topic; a create has the layout of its configuration. *)
Sound(request) ==
  /\ request.op \in {"create", "delete"} => request.topic \in Topics
  /\ request.op = "create" =>
       request.want \in Configs /\ request.send = RequestTopic(request.want) /\ request.send.ok

(* A topic exists as the request that made it said. *)
LayoutInv ==
  \A t \in Topics :
    /\ topics[t] # "absent" =>
         wanted[t] \in Configs /\ layout[t] = RequestTopic(wanted[t]) /\ layout[t].ok
    /\ topics[t] = "absent" => layout[t] = NoLayout

(* The metadata answer lists exactly the topics it saw. *)
Complete(answer) ==
  {answer.entries[i].topic : i \in {j \in DOMAIN answer.entries :
     ~answer.entries[j].internal /\ answer.entries[j].topic # NoName}} = answer.seen

(* An answer without error is of a call that made its topic, or complete. *)
AnswerInv ==
  \A c \in Conns : pc[c] = "answered" =>
    /\ call[c].op = "create" /\ ~code[c].err => made[c]
    /\ call[c].op = "list" => Complete(code[c])

IInv == /\ TypeOK /\ MoreTypes /\ LayoutInv /\ AnswerInv /\ SuccessIsOwn /\ ListNeverTruncated
        /\ \A c \in Conns : Sound(call[c])

-----------------------------------------------------------------------------
(* Finite sets and sequences. *)

(* As many distinct values as there are places fill every place. *)
LEMMA Onto ==
  ASSUME NEW S, NEW T, IsFiniteSet(S), IsFiniteSet(T), Cardinality(S) = Cardinality(T),
         NEW f \in [S -> T], \A a, b \in S : f[a] = f[b] => a = b
  PROVE  \A t \in T : \E a \in S : f[a] = t
<1>1. f \in Injection(S, T)
  BY DEF Injection, IsInjective
<1>2. f \in Surjection(S, T)
  BY <1>1, FS_Injection
<1> QED BY <1>2 DEF Surjection

(* SetToSeq lists every element of a finite set and nothing else. *)
LEMMA SetToSeqLists ==
  ASSUME NEW S, IsFiniteSet(S)
  PROVE  /\ SetToSeq(S) \in Seq(S)
         /\ \A x \in S : \E i \in DOMAIN SetToSeq(S) : SetToSeq(S)[i] = x
<1> DEFINE n == Cardinality(S)
<1>1. n \in Nat /\ ExistsBijection(1 .. n, S)
  BY FS_CardinalityType
<1>2. \E f \in [1 .. n -> S] : IsInjective(f)
  BY <1>1 DEF ExistsBijection, Bijection, Injection
<1>3. SetToSeq(S) \in [1 .. n -> S] /\ IsInjective(SetToSeq(S))
  BY <1>2 DEF SetToSeq
<1>4. IsFiniteSet(1 .. n) /\ Cardinality(1 .. n) = n
  BY <1>1, FS_Interval
<1>5. \A x \in S : \E i \in 1 .. n : SetToSeq(S)[i] = x
  <2> DEFINE I == 1 .. n
  <2>1. Cardinality(I) = Cardinality(S) /\ IsFiniteSet(I) /\ SetToSeq(S) \in [I -> S]
    BY <1>3, <1>4
  <2>2. \A a, b \in I : SetToSeq(S)[a] = SetToSeq(S)[b] => a = b
    BY <1>3 DEF IsInjective
  <2> HIDE DEF I
  <2>3. \A x \in S : \E i \in I : SetToSeq(S)[i] = x
    BY <2>1, <2>2, Onto
  <2> QED BY <2>3 DEF I
<1> HIDE DEF n
<1>6. \A f \in [1 .. n -> S] : f \in Seq(S) /\ DOMAIN f = 1 .. n
  BY <1>1
<1> QED BY <1>3, <1>5, <1>6

-----------------------------------------------------------------------------
(* The layout of a request. *)

(* A number that fits a field is not changed by the conversion to its width. *)
LEMMA WrapFits ==
  ASSUME NEW max \in Nat, NEW n \in 1 .. max
  PROVE  Wrap(n, max) = n
<1> DEFINE a == n + max + 1
           b == 2 * (max + 1)
<1>1. a \in Nat /\ b \in Nat \ {0} /\ a < b
  OBVIOUS
<1>2. \A x \in Nat, y \in Nat \ {0} : x < y => x % y = x
  OBVIOUS
<1>3. a % b = a
  <2> HIDE DEF a, b
  <2> QED BY <1>1, <1>2
<1> QED BY <1>3 DEF Wrap

(* The counts that partitionsAndReplication sends are those of the script, 1
   where it gave none. *)
LEMMA CountsAsConfigured ==
  ASSUME NEW cfg, cfg.numPartitions \in Int, cfg.replicationFactor \in Int,
         PartitionsAndReplication(cfg).ok
  PROVE  /\ PartitionsAndReplication(cfg).kind = "counts"
         /\ PartitionsAndReplication(cfg).partitions = Defaulted(cfg.numPartitions)
         /\ PartitionsAndReplication(cfg).replication = Defaulted(cfg.replicationFactor)
<1> DEFINE p == Defaulted(cfg.numPartitions)
           r == Defaulted(cfg.replicationFactor)
<1>1. p \in Nat \ {0} /\ r \in Nat \ {0}
  BY DEF Defaulted
<1>2. p <= MaxInt32 /\ r <= MaxInt16
  <2> HIDE DEF p, r
  <2> QED BY <1>1, WidthAssumption DEF PartitionsAndReplication, p, r
<1>3. Wrap(p, MaxInt32) = p /\ Wrap(r, MaxInt16) = r
  <2> HIDE DEF p, r
  <2> QED BY <1>1, <1>2, WrapFits, WidthAssumption
<1>4. PartitionsAndReplication(cfg) =
        [ok |-> TRUE, kind |-> "counts", partitions |-> p, replication |-> r]
  <2>1. ~(p > MaxInt32 \/ r > MaxInt16)
    <3> HIDE DEF p, r
    <3> QED BY <1>1, <1>2, WidthAssumption
  <2> QED BY <1>3, <2>1 DEF PartitionsAndReplication
<1> QED BY <1>4

(* The assignments that buildReplicaAssignments accepts are sent as they are
   given, one for every partition. *)
LEMMA AssignmentsAsConfigured ==
  ASSUME NEW R, \A r \in R : r.partition \in Int,
         NEW as \in Seq(R), BuildReplicaAssignments(as).ok
  PROVE  /\ BuildReplicaAssignments(as).kind = "assigned"
         /\ DOMAIN BuildReplicaAssignments(as).out = {as[i].partition : i \in DOMAIN as}
         /\ \A i \in DOMAIN as : BuildReplicaAssignments(as).out[as[i].partition] = as[i]
<1> DEFINE n == Len(as)
           entries(p) == {i \in DOMAIN as : as[i].partition = p}
           out == [p \in 0 .. n - 1 |-> IF entries(p) = {} THEN ZeroAssignment ELSE as[Max(entries(p))]]
           at == [i \in 1 .. n |-> as[i].partition]
<1>1. n \in Nat /\ DOMAIN as = 1 .. n /\ \A i \in 1 .. n : as[i].partition \in Int
  <2>1. n \in Nat /\ DOMAIN as = 1 .. n /\ \A i \in 1 .. n : as[i] \in R
    BY LenProperties, ElementOfSeq
  <2> QED BY <2>1
<1>2. ~\E i \in DOMAIN as : Refused(as, i)
  BY DEF BuildReplicaAssignments
<1>3. BuildReplicaAssignments(as) = [ok |-> TRUE, kind |-> "assigned", out |-> out]
  BY DEF BuildReplicaAssignments
<1>4. \A i \in 1 .. n : as[i].partition \in 0 .. n - 1
  BY <1>1, <1>2 DEF Refused
<1> HIDE DEF n
<1>5. \A i, j \in 1 .. n : j < i => as[j].partition # as[i].partition
  <2> SUFFICES ASSUME NEW i \in 1 .. n, NEW j \in 1 .. n, j < i
               PROVE  as[j].partition # as[i].partition
    OBVIOUS
  <2>1. j \in 1 .. i - 1 /\ i \in DOMAIN as
    BY <1>1
  <2> QED BY <1>2, <2>1 DEF Refused
<1>6. \A i, j \in 1 .. n : as[j].partition = as[i].partition => j = i
  <2> SUFFICES ASSUME NEW i \in 1 .. n, NEW j \in 1 .. n, as[j].partition = as[i].partition, j # i
               PROVE  FALSE
    OBVIOUS
  <2>1. j < i \/ i < j
    BY <1>1
  <2> QED BY <1>5, <2>1
<1>7. \A p \in 0 .. n - 1 : \E i \in 1 .. n : as[i].partition = p
  <2>1. at \in [1 .. n -> 0 .. n - 1] /\ \A i, j \in 1 .. n : at[i] = at[j] => i = j
    BY <1>4, <1>6
  <2>2. IsFiniteSet(1 .. n) /\ Cardinality(1 .. n) = n
    BY <1>1, FS_Interval
  <2>3. IsFiniteSet(0 .. n - 1) /\ Cardinality(0 .. n - 1) = n
    <3>1. n - 1 \in Int /\ (IF 0 > n - 1 THEN 0 ELSE n - 1 - 0 + 1) = n
      BY <1>1
    <3> QED BY <3>1, FS_Interval
  <2> DEFINE I == 1 .. n
             P == 0 .. n - 1
  <2>4. IsFiniteSet(I) /\ IsFiniteSet(P) /\ Cardinality(I) = Cardinality(P)
    BY <2>2, <2>3
  <2>5. at \in [I -> P] /\ \A i, j \in I : at[i] = at[j] => i = j
    BY <2>1
  <2> HIDE DEF I, P, at
  <2>6. \A p \in P : \E i \in I : at[i] = p
    BY <2>4, <2>5, Onto
  <2> QED BY <2>6 DEF I, P, at
<1>8. \A i \in 1 .. n : out[as[i].partition] = as[i]
  <2> SUFFICES ASSUME NEW i \in 1 .. n PROVE out[as[i].partition] = as[i]
    OBVIOUS
  <2>1. entries(as[i].partition) = {i}
    BY <1>1, <1>6
  <2>2. Max({i}) = i
    BY <1>1 DEF Max
  <2> HIDE DEF entries, n
  <2> QED BY <1>4, <2>1, <2>2
<1> HIDE DEF out
<1>9. DOMAIN out = 0 .. n - 1
  BY DEF out
<1>10. 0 .. n - 1 = {as[i].partition : i \in DOMAIN as}
  <2> HIDE DEF n
  <2> QED BY <1>1, <1>4, <1>7
<1>11. /\ BuildReplicaAssignments(as).kind = "assigned"
       /\ BuildReplicaAssignments(as).out = out
  BY <1>3
<1>12. DOMAIN BuildReplicaAssignments(as).out = {as[i].partition : i \in DOMAIN as}
  BY <1>9, <1>10, <1>11
<1>13. \A i \in DOMAIN as : BuildReplicaAssignments(as).out[as[i].partition] = as[i]
  BY <1>1, <1>8, <1>11
<1> QED BY <1>11, <1>12, <1>13

(* A request that createTopic sends describes the topic that was configured. *)
LEMMA RequestAsConfigured ==
  ASSUME NEW cfg \in Configs, RequestTopic(cfg).ok
  PROVE  AsConfigured(cfg, RequestTopic(cfg))
<1>1. /\ cfg.numPartitions \in Int /\ cfg.replicationFactor \in Int
      /\ cfg.replicaAssignments \in Seq([partition : Int, replicas : STRING])
  BY ConfigAssumption DEF Configs
<1>2. CASE Len(cfg.replicaAssignments) > 0
  <2> DEFINE as == cfg.replicaAssignments
  <2>1. RequestTopic(cfg) = BuildReplicaAssignments(as)
    BY <1>2 DEF RequestTopic
  <2>2. {as[i].partition : i \in DOMAIN as} = {a.partition : a \in {as[i] : i \in DOMAIN as}}
    OBVIOUS
  <2>3. \A r \in [partition : Int, replicas : STRING] : r.partition \in Int
    OBVIOUS
  <2> DEFINE made_ == BuildReplicaAssignments(as)
  <2>4. made_.ok
    BY <2>1
  <2>5. /\ made_.kind = "assigned"
        /\ DOMAIN made_.out = {as[i].partition : i \in DOMAIN as}
        /\ \A i \in DOMAIN as : made_.out[as[i].partition] = as[i]
    BY <1>1, <2>3, <2>4, AssignmentsAsConfigured
  <2> HIDE DEF made_
  <2>6. RequestTopic(cfg) = made_
    BY <2>1 DEF made_
  <2> QED BY <1>2, <2>2, <2>5, <2>6 DEF AsConfigured
<1>3. CASE ~(Len(cfg.replicaAssignments) > 0)
  <2>1. RequestTopic(cfg) = PartitionsAndReplication(cfg)
    BY <1>3 DEF RequestTopic
  <2> QED BY <1>1, <1>3, <2>1, CountsAsConfigured DEF AsConfigured, Defaulted
<1> QED BY <1>2, <1>3

-----------------------------------------------------------------------------
(* Calls, answers and results. *)

Results == [kind : {"none", "ok", "error"}, op : {"none", "create", "delete", "list"},
            names : SUBSET (Topics \cup Internal), seen : SUBSET Topics]

(* The values that calls start and end with. *)
LEMMA Resting ==
  /\ NoCall \in Calls /\ Sound(NoCall) /\ NoCall.op = "none"
  /\ NoCode \in Codes /\ [NoCode EXCEPT !.err = TRUE] \in Codes
  /\ NoCode.err = FALSE /\ [NoCode EXCEPT !.err = TRUE].err = TRUE
  /\ NoResult \in Results /\ NoResult.kind = "none"
  /\ Failed \in Results /\ Failed.kind = "error"
  /\ \A op \in {"none", "create", "delete", "list"} :
       Ok(op) \in Results /\ Ok(op).kind = "ok" /\ Ok(op).op = op
<1>1. NoCall \in Calls /\ NoCall.op = "none" /\ Sound(NoCall)
  BY DEF NoCall, Calls, Sound
<1>2. <<>> \in Seq(Listed)
  BY EmptySeq
<1>3. NoCode \in Codes /\ NoCode.err = FALSE
  BY <1>2 DEF NoCode, Codes
<1>4. /\ [NoCode EXCEPT !.err = TRUE] \in Codes
      /\ [NoCode EXCEPT !.err = TRUE].err = TRUE
  BY <1>2 DEF NoCode, Codes
<1>5. NoResult \in Results /\ NoResult.kind = "none"
  BY DEF NoResult, Results
<1>6. Failed \in Results /\ Failed.kind = "error"
  BY DEF Failed, NoResult, Results
<1>7. \A op \in {"none", "create", "delete", "list"} :
        Ok(op) \in Results /\ Ok(op).kind = "ok" /\ Ok(op).op = op
  BY DEF Ok, NoResult, Results
<1> QED BY <1>1, <1>3, <1>4, <1>5, <1>6, <1>7

(* Init satisfies the invariant. *)
LEMMA InitInv == Init => IInv
<1> SUFFICES ASSUME Init PROVE IInv
  OBVIOUS
<1>1. TypeOK
  <2>1. \A t \in Topics : layout[t].ok = FALSE /\ topics[t] = "absent"
    BY DEF Init, NoLayout
  <2>2. \A t \in Topics : layout[t].ok = (topics[t] # "absent")
    BY <2>1
  <2>3. \A c \in Conns : call[c].op = "none" /\ call[c].topic = NoName
    BY DEF Init, NoCall
  <2>4. result \in [Conns -> Results]
    BY Resting DEF Init
  <2> QED BY <2>2, <2>3, <2>4, WidthAssumption DEF Init, TypeOK, Results
<1>2. MoreTypes
  BY Resting DEF Init, MoreTypes
<1>3. LayoutInv /\ AnswerInv
  BY DEF Init, LayoutInv, AnswerInv
<1>4. SuccessIsOwn /\ ListNeverTruncated
  BY Resting DEF Init, SuccessIsOwn, ListNeverTruncated
<1>5. \A c \in Conns : Sound(call[c])
  BY Resting DEF Init
<1> QED BY <1>1, <1>2, <1>3, <1>4, <1>5 DEF IInv

(* A call that is thrown back changes only the result. *)
LEMMA ThrowKeeps ==
  ASSUME IInv, NEW c \in Conns, Throw(c)
  PROVE  IInv'
<1> USE DEF IInv
<1>1. /\ result' = [result EXCEPT ![c] = Failed]
      /\ UNCHANGED <<client, vu, pc, call, code, retries, topics, layout, wanted, made, reachable>>
  BY DEF Throw, sessions, cluster
<1>2. TypeOK'
  BY <1>1, Resting DEF TypeOK, Results
<1>3. MoreTypes' /\ LayoutInv' /\ AnswerInv'
  BY <1>1 DEF MoreTypes, LayoutInv, AnswerInv
<1>4. SuccessIsOwn' /\ ListNeverTruncated'
  BY <1>1, Resting DEF TypeOK, SuccessIsOwn, ListNeverTruncated
<1>5. \A d \in Conns : Sound(call'[d])
  BY <1>1
<1> QED BY <1>2, <1>3, <1>4, <1>5 DEF Sound, RequestTopic

(* A call that is made begins without result and has made nothing. *)
LEMMA AskKeeps ==
  ASSUME IInv, NEW c \in Conns, NEW request \in Calls, Sound(request), Ask(c, request)
  PROVE  IInv'
<1> USE DEF IInv
<1>1. /\ call' = [call EXCEPT ![c] = request] /\ pc' = [pc EXCEPT ![c] = "asked"]
      /\ result' = [result EXCEPT ![c] = NoResult] /\ made' = [made EXCEPT ![c] = FALSE]
      /\ UNCHANGED <<client, vu, code, retries, topics, layout, wanted, reachable>>
  BY DEF Ask, sessions, cluster
<1>2. MoreTypes'
  BY <1>1 DEF MoreTypes
<1>3. TypeOK'
  BY <1>1, Resting DEF TypeOK, MoreTypes, Calls, Results
<1>4. LayoutInv'
  BY <1>1 DEF LayoutInv
<1>5. AnswerInv'
  BY <1>1 DEF AnswerInv, TypeOK, MoreTypes
<1>6. SuccessIsOwn' /\ ListNeverTruncated'
  BY <1>1, Resting DEF TypeOK, SuccessIsOwn, ListNeverTruncated
<1>7. \A d \in Conns : Sound(call'[d])
  BY <1>1 DEF MoreTypes
<1> QED BY <1>2, <1>3, <1>4, <1>5, <1>6, <1>7 DEF Sound, RequestTopic

(* createTopic, deleteTopic and listTopics ask or throw. *)
LEMMA OperationsKeep ==
  ASSUME IInv, NEW c \in Conns,
         \/ \E t \in Topics \cup {NoName} :
              (\E cfg \in TopicConfigs[c] : CreateTopic(c, t, cfg)) \/ DeleteTopic(c, t)
         \/ ListTopics(c)
  PROVE  IInv'
<1>1. ASSUME NEW t \in Topics \cup {NoName}, NEW cfg \in TopicConfigs[c], CreateTopic(c, t, cfg)
      PROVE  IInv'
  <2> DEFINE request == [op |-> "create", topic |-> t, want |-> cfg, send |-> RequestTopic(cfg)]
  <2>1. CASE RequireVU(c) /\ t # NoName /\ RequestTopic(cfg).ok
    <3>1. cfg \in Configs /\ RequestTopic(cfg) \in Layouts
      BY DEF Configs, Layouts
    <3>2. request \in Calls /\ Sound(request)
      BY <2>1, <3>1 DEF Calls, Sound
    <3>3. Ask(c, request)
      BY <1>1, <2>1 DEF CreateTopic
    <3> HIDE DEF request
    <3> QED BY <3>2, <3>3, AskKeeps
  <2>2. CASE ~(RequireVU(c) /\ t # NoName /\ RequestTopic(cfg).ok)
    BY <1>1, <2>2, ThrowKeeps DEF CreateTopic
  <2> QED BY <2>1, <2>2
<1>2. ASSUME NEW t \in Topics \cup {NoName}, DeleteTopic(c, t)
      PROVE  IInv'
  <2> DEFINE request == [NoCall EXCEPT !.op = "delete", !.topic = t]
  <2>1. CASE RequireVU(c) /\ t # NoName
    <3>1. request \in Calls /\ Sound(request)
      BY <2>1 DEF Calls, Sound, NoCall
    <3>2. Ask(c, request)
      BY <1>2, <2>1 DEF DeleteTopic
    <3> HIDE DEF request
    <3> QED BY <3>1, <3>2, AskKeeps
  <2>2. CASE ~(RequireVU(c) /\ t # NoName)
    BY <1>2, <2>2, ThrowKeeps DEF DeleteTopic
  <2> QED BY <2>1, <2>2
<1>3. CASE ListTopics(c)
  <2> DEFINE request == [NoCall EXCEPT !.op = "list"]
  <2>1. request \in Calls /\ Sound(request)
    BY DEF Calls, Sound, NoCall
  <2>2. Ask(c, request) \/ Throw(c)
    BY <1>3 DEF ListTopics
  <2> HIDE DEF request
  <2> QED BY <2>1, <2>2, AskKeeps, ThrowKeeps
<1> QED BY <1>1, <1>2, <1>3

(* A result without error is of a call that made its topic, or a full list. *)
LEMMA OutcomeSound ==
  ASSUME NEW op \in {"none", "create", "delete", "list"}, NEW answer \in Codes,
         op = "list" => Complete(answer)
  PROVE  /\ Outcome(op, answer) \in Results
         /\ Outcome(op, answer).kind = "ok" => Outcome(op, answer).op = op /\ ~answer.err
         /\ Outcome(op, answer).kind = "ok" /\ op = "list" =>
              Outcome(op, answer).names = Outcome(op, answer).seen
<1>1. CASE answer.err
  BY <1>1, Resting DEF Outcome
<1>2. CASE ~answer.err /\ op # "list"
  BY <1>2, Resting DEF Outcome
<1>3. CASE ~answer.err /\ op = "list"
  <2> DEFINE listed == TopicNames(answer.entries)
  <2>1. CASE ~listed.ok
    BY <1>3, <2>1, Resting DEF Outcome
  <2>2. CASE listed.ok
    <3>1. listed.names = answer.seen
      BY <1>3, <2>2 DEF TopicNames, Complete
    <3>2. answer.seen \in SUBSET Topics
      BY DEF Codes
    <3>3. Outcome(op, answer) = [Ok(op) EXCEPT !.names = listed.names, !.seen = answer.seen]
      BY <1>3, <2>2 DEF Outcome
    <3> HIDE DEF listed
    <3>4. Outcome(op, answer) = [kind |-> "ok", op |-> op, names |-> answer.seen, seen |-> answer.seen]
      BY <3>1, <3>3 DEF Ok, NoResult
    <3> QED BY <1>3, <3>2, <3>4 DEF Results
  <2> QED BY <2>1, <2>2
<1> QED BY <1>1, <1>2, <1>3

(* A call ends with the outcome of its answer, or fails. *)
LEMMA EndKeeps ==
  ASSUME IInv, NEW c \in Conns, Receive(c) \/ Fail(c)
  PROVE  IInv'
<1> USE DEF IInv
<1> DEFINE r == result'[c]
<1>1. /\ pc' = [pc EXCEPT ![c] = "idle"]
      /\ call' = [call EXCEPT ![c] = NoCall] /\ code' = [code EXCEPT ![c] = NoCode]
      /\ retries' = [retries EXCEPT ![c] = 0]
      /\ UNCHANGED <<client, vu, topics, layout, wanted, made, reachable>>
  BY DEF Receive, Fail, EndCall, sessions, cluster
<1>2. /\ result' = [result EXCEPT ![c] = r] /\ r \in Results
      /\ r.kind = "ok" /\ r.op = "create" => made[c]
      /\ r.kind = "ok" /\ r.op = "list" => r.names = r.seen
  <2>1. CASE Fail(c)
    <3>1. result' = [result EXCEPT ![c] = Failed]
      BY <2>1 DEF Fail
    <3>2. r = Failed
      BY <3>1 DEF TypeOK
    <3> QED BY <3>1, <3>2, Resting
  <2>2. CASE Receive(c)
    <3> DEFINE o == Outcome(call[c].op, code[c])
    <3>1. result' = [result EXCEPT ![c] = o] /\ pc[c] = "answered"
      BY <2>2 DEF Receive
    <3>2. r = o
      BY <3>1 DEF TypeOK
    <3>3. call[c].op \in {"none", "create", "delete", "list"} /\ code[c] \in Codes
      BY DEF TypeOK, MoreTypes
    <3>4. call[c].op = "list" => Complete(code[c])
      BY <3>1 DEF AnswerInv
    <3>5. call[c].op = "create" /\ ~code[c].err => made[c]
      BY <3>1 DEF AnswerInv
    <3>6. /\ o \in Results
          /\ o.kind = "ok" => o.op = call[c].op /\ ~code[c].err
          /\ o.kind = "ok" /\ call[c].op = "list" => o.names = o.seen
      BY <3>3, <3>4, OutcomeSound
    <3> HIDE DEF o, r
    <3> QED BY <3>1, <3>2, <3>5, <3>6
  <2> QED BY <2>1, <2>2
<1> HIDE DEF r
<1>3. MoreTypes'
  BY <1>1, Resting DEF MoreTypes
<1>4. TypeOK'
  <2>1. result' \in [Conns -> Results]
    BY <1>2 DEF TypeOK, Results
  <2>2. \A d \in Conns : call'[d].op \in {"none", "create", "delete", "list"}
                         /\ call'[d].topic \in Topics \cup {NoName}
    BY <1>3 DEF MoreTypes, Calls
  <2>3. pc' \in [Conns -> {"idle", "pinging", "asked", "answered"}] /\ retries' \in [Conns -> 0 .. MaxRetries]
    BY <1>1, WidthAssumption DEF TypeOK
  <2>4. \A t \in Topics : layout'[t].ok = (topics'[t] # "absent")
    BY <1>1 DEF TypeOK
  <2> QED BY <1>1, <2>1, <2>2, <2>3, <2>4 DEF TypeOK, Results
<1>5. LayoutInv'
  BY <1>1 DEF LayoutInv
<1>6. AnswerInv'
  BY <1>1 DEF AnswerInv, TypeOK, MoreTypes
<1>7. SuccessIsOwn' /\ ListNeverTruncated'
  BY <1>1, <1>2 DEF TypeOK, SuccessIsOwn, ListNeverTruncated
<1>8. \A d \in Conns : Sound(call'[d])
  BY <1>1, Resting DEF MoreTypes
<1> QED BY <1>3, <1>4, <1>5, <1>6, <1>7, <1>8 DEF Sound, RequestTopic

(* Connecting, closing, starting a VU and the network leave calls alone. *)
LEMMA SessionsKeep ==
  ASSUME IInv,
         \/ \E c \in Conns : Open(c) \/ Pinged(c) \/ PingTimeout(c) \/ Close(c) \/ StartVU(c)
         \/ ClusterDown \/ ClusterUp
         \/ UNCHANGED vars
  PROVE  IInv'
<1> USE DEF IInv
<1>1. UNCHANGED <<call, code, result, retries, topics, layout, wanted, made>>
  BY DEF Open, Pinged, PingTimeout, Close, StartVU, ClusterDown, ClusterUp, vars, calls, cluster
<1>2. /\ client' \in [Conns -> {"none", "open", "closed"}]
      /\ vu' \in [Conns -> {"init", "running"}]
      /\ reachable' \in BOOLEAN
  BY ZenonT(30) DEF TypeOK, Open, Pinged, PingTimeout, Close, StartVU, ClusterDown, ClusterUp, vars, sessions
<1>3. pc' \in [Conns -> {"idle", "pinging", "asked", "answered"}]
  BY DEF TypeOK, Open, Pinged, PingTimeout, Close, StartVU, ClusterDown, ClusterUp, vars, calls
<1>4. \A d \in Conns : pc'[d] = "answered" => pc[d] = "answered"
  BY DEF TypeOK, Open, Pinged, PingTimeout, Close, StartVU, ClusterDown, ClusterUp, vars, calls
<1>5. TypeOK'
  BY <1>1, <1>2, <1>3 DEF TypeOK
<1>6. MoreTypes' /\ LayoutInv' /\ SuccessIsOwn' /\ ListNeverTruncated'
  BY <1>1 DEF MoreTypes, LayoutInv, SuccessIsOwn, ListNeverTruncated
<1>7. AnswerInv'
  BY <1>1, <1>4 DEF AnswerInv
<1>8. \A d \in Conns : Sound(call'[d])
  BY <1>1
<1> QED BY <1>5, <1>6, <1>7, <1>8 DEF Sound, RequestTopic

(* An answer of the broker keeps the parts that are not about topics. *)
LEMMA AnswerKeeps ==
  ASSUME IInv, NEW c \in Conns, NEW answer \in Codes, Answer(c, answer), pc[c] = "asked",
         UNCHANGED <<client, vu, call, result, retries, reachable>>,
         made' \in [Conns -> BOOLEAN], \A d \in Conns : made[d] => made'[d],
         call[c].op = "create" /\ ~answer.err => made'[c],
         call[c].op = "list" => Complete(answer),
         topics' \in [Topics -> {"absent", "present", "deleting"}],
         layout' \in [Topics -> Layouts \cup {NoLayout}],
         wanted' \in [Topics -> Configs \cup {<<>>}],
         LayoutInv'
  PROVE  IInv'
<1> USE DEF IInv
<1>1. code' = [code EXCEPT ![c] = answer] /\ pc' = [pc EXCEPT ![c] = "answered"]
  BY DEF Answer
<1>2. MoreTypes'
  BY <1>1 DEF MoreTypes
<1>3. TypeOK'
  <2>1. pc' \in [Conns -> {"idle", "pinging", "asked", "answered"}]
    BY <1>1 DEF TypeOK
  <2>2. \A t \in Topics : layout'[t].ok = (topics'[t] # "absent")
    <3> TAKE t \in Topics
    <3>1. CASE topics'[t] = "absent"
      <4>1. layout'[t] = NoLayout
        BY <3>1 DEF LayoutInv
      <4>2. layout'[t].ok = FALSE
        BY <4>1 DEF NoLayout
      <4> QED BY <3>1, <4>2
    <3>2. CASE topics'[t] # "absent"
      <4>1. layout'[t].ok
        BY <3>2 DEF LayoutInv
      <4>2. RequestTopic(wanted'[t]).ok \in BOOLEAN
        BY DEF RequestTopic, BuildReplicaAssignments, PartitionsAndReplication
      <4>3. layout'[t].ok = TRUE
        BY <3>2, <4>1, <4>2 DEF LayoutInv
      <4> QED BY <3>2, <4>3
    <3> QED BY <3>1, <3>2
  <2> QED BY <2>1, <2>2 DEF TypeOK
<1>4. AnswerInv'
  <2> SUFFICES ASSUME NEW d \in Conns, pc'[d] = "answered"
               PROVE  /\ call'[d].op = "create" /\ ~code'[d].err => made'[d]
                      /\ call'[d].op = "list" => Complete(code'[d])
    BY DEF AnswerInv, Complete
  <2>1. CASE d = c
    <3>1. code'[d] = answer
      BY <1>1, <2>1 DEF MoreTypes
    <3> QED BY <2>1, <3>1
  <2>2. CASE d # c
    <3>1. code'[d] = code[d] /\ pc[d] = "answered"
      BY <1>1, <2>2 DEF MoreTypes, TypeOK
    <3> QED BY <3>1 DEF AnswerInv
  <2> QED BY <2>1, <2>2
<1>5. SuccessIsOwn' /\ ListNeverTruncated'
  BY DEF SuccessIsOwn, ListNeverTruncated
<1>6. \A d \in Conns : Sound(call'[d])
  OBVIOUS
<1> QED BY <1>2, <1>3, <1>4, <1>5, <1>6 DEF Sound, RequestTopic

(* The broker handles a request: a new topic is as the request says, and a list
   names every topic. *)
LEMMA BrokerKeeps ==
  ASSUME IInv, NEW c \in Conns,
         \/ HandleCreate(c) \/ HandleDelete(c)
         \/ \E err \in BOOLEAN, leaderless \in Topics \cup Internal \cup {NoName} :
              HandleList(c, err, leaderless)
  PROVE  IInv'
<1> USE DEF IInv
<1> DEFINE t == call[c].topic
<1>1. Sound(call[c])
  OBVIOUS
<1>2. CASE HandleCreate(c)
  <2>1. /\ pc[c] = "asked" /\ call[c].op = "create"
        /\ UNCHANGED <<client, vu, call, result, retries, reachable>>
    BY <1>2 DEF HandleCreate, sessions
  <2>2. t \in Topics /\ call[c].want \in Configs /\ call[c].send = RequestTopic(call[c].want) /\ call[c].send.ok
    BY <1>1, <2>1 DEF Sound
  <2>3. CASE topics[t] = "absent"
    <3>1. /\ topics' = [topics EXCEPT ![t] = "present"]
          /\ layout' = [layout EXCEPT ![t] = call[c].send]
          /\ wanted' = [wanted EXCEPT ![t] = call[c].want]
          /\ made' = [made EXCEPT ![c] = TRUE]
          /\ Answer(c, NoCode)
      BY <1>2, <2>3 DEF HandleCreate
    <3> HIDE DEF t
    <3>2. call[c].send \in Layouts
      BY <2>2 DEF Layouts
    <3>3. /\ topics' \in [Topics -> {"absent", "present", "deleting"}]
          /\ layout' \in [Topics -> Layouts \cup {NoLayout}]
          /\ wanted' \in [Topics -> Configs \cup {<<>>}]
          /\ made' \in [Conns -> BOOLEAN] /\ made'[c]
          /\ \A d \in Conns : made[d] => made'[d]
      BY <2>2, <3>1, <3>2 DEF TypeOK, MoreTypes
    <3>4. LayoutInv'
      <4> SUFFICES ASSUME NEW u \in Topics
                   PROVE  /\ topics'[u] # "absent" =>
                               wanted'[u] \in Configs /\ layout'[u] = RequestTopic(wanted'[u]) /\ layout'[u].ok
                          /\ topics'[u] = "absent" => layout'[u] = NoLayout
        BY DEF LayoutInv, RequestTopic
      <4>1. CASE u = t
        <5>1. topics'[u] = "present" /\ layout'[u] = call[c].send /\ wanted'[u] = call[c].want
          BY <2>2, <3>1, <4>1 DEF TypeOK, MoreTypes
        <5> QED BY <2>2, <5>1
      <4>2. CASE u # t
        <5>1. topics'[u] = topics[u] /\ layout'[u] = layout[u] /\ wanted'[u] = wanted[u]
          BY <3>1, <4>2 DEF TypeOK, MoreTypes
        <5> QED BY <5>1 DEF LayoutInv
      <4> QED BY <4>1, <4>2
    <3> QED BY <2>1, <3>1, <3>3, <3>4, Resting, AnswerKeeps
  <2>4. CASE topics[t] # "absent"
    <3>1. UNCHANGED <<topics, layout, wanted, made>> /\ Answer(c, [NoCode EXCEPT !.err = TRUE])
      BY <1>2, <2>4 DEF HandleCreate, cluster
    <3>2. LayoutInv'
      BY <3>1 DEF LayoutInv
    <3> DEFINE answer == [NoCode EXCEPT !.err = TRUE]
    <3>3. answer \in Codes /\ answer.err /\ Answer(c, answer)
      BY <3>1, Resting
    <3> HIDE DEF answer
    <3> QED BY <2>1, <3>1, <3>2, <3>3, AnswerKeeps DEF TypeOK, MoreTypes
  <2> QED BY <2>3, <2>4
<1>3. CASE HandleDelete(c)
  <2>1. /\ pc[c] = "asked" /\ call[c].op = "delete"
        /\ UNCHANGED <<client, vu, call, result, retries, layout, wanted, made, reachable>>
    BY <1>3 DEF HandleDelete, sessions
  <2>2. /\ topics' \in [Topics -> {"absent", "present", "deleting"}]
        /\ \A u \in Topics : topics'[u] = "absent" <=> topics[u] = "absent"
    BY <1>3 DEF HandleDelete, TypeOK
  <2>3. LayoutInv'
    BY <2>1, <2>2 DEF LayoutInv
  <2>4. \E answer \in Codes : Answer(c, answer)
    BY <1>3, Resting DEF HandleDelete
  <2> QED BY <2>1, <2>2, <2>3, <2>4, AnswerKeeps DEF TypeOK, MoreTypes
<1>4. ASSUME NEW err \in BOOLEAN, NEW leaderless \in Topics \cup Internal \cup {NoName},
             HandleList(c, err, leaderless)
      PROVE  IInv'
  <2> DEFINE live == {u \in Topics : topics[u] # "absent"}
             entry(u) == [topic |-> u, internal |-> u \in Internal, err |-> u = leaderless]
             S == {entry(u) : u \in live \cup Internal}
             answer == [err |-> err, entries |-> SetToSeq(S), seen |-> live]
  <2>1. /\ pc[c] = "asked" /\ call[c].op = "list" /\ Answer(c, answer)
        /\ UNCHANGED <<client, vu, call, result, retries, topics, layout, wanted, made, reachable>>
    BY <1>4 DEF HandleList, sessions, cluster
  <2>2. IsFiniteSet(live \cup Internal)
    BY NamesAssumption, FS_Subset, FS_Union
  <2>3. IsFiniteSet(S)
    <3> DEFINE U == live \cup Internal
               f == [u \in U |-> entry(u)]
    <3>1. f \in Surjection(U, S)
      BY DEF Surjection
    <3> HIDE DEF f, S, U
    <3> QED BY <2>2, <3>1, FS_Surjection DEF U
  <2>4. S \subseteq Listed
    <3>1. \A a, b : (a \in b) \in BOOLEAN /\ (a = b) \in BOOLEAN
      OBVIOUS
    <3>2. \A u \in live \cup Internal : u \in Topics \cup Internal
      OBVIOUS
    <3>3. \A x \in Topics \cup Internal, b1 \in BOOLEAN, b2 \in BOOLEAN :
            [topic |-> x, internal |-> b1, err |-> b2] \in Listed
      BY Zenon DEF Listed
    <3>4. \A u \in live \cup Internal : entry(u) \in Listed
      BY <3>1, <3>2, <3>3, Zenon
    <3> HIDE DEF entry, live
    <3> QED BY <3>4
  <2>5. /\ SetToSeq(S) \in Seq(S)
        /\ \A x \in S : \E i \in DOMAIN SetToSeq(S) : SetToSeq(S)[i] = x
    <3> HIDE DEF S
    <3> QED BY <2>3, SetToSeqLists
  <2>6. SetToSeq(S) \in Seq(Listed)
    <3>1. \A A, B : A \subseteq B => Seq(A) \subseteq Seq(B)
      OBVIOUS
    <3> HIDE DEF S
    <3> QED BY <2>4, <2>5, <3>1
  <2>7. answer \in Codes
    BY <2>6 DEF Codes
  <2>8. Complete(answer)
    <3> DEFINE q == SetToSeq(S)
               chosen == {j \in DOMAIN q : ~q[j].internal /\ q[j].topic # NoName}
    <3>1. \A i \in DOMAIN q : q[i] \in S
      <4> HIDE DEF S
      <4> QED BY <2>5
    <3>2. \A i \in chosen : q[i].topic \in live
      <4> SUFFICES ASSUME NEW i \in chosen PROVE q[i].topic \in live
        OBVIOUS
      <4>1. i \in DOMAIN q /\ ~q[i].internal
        OBVIOUS
      <4>2. PICK u \in live \cup Internal : q[i] = entry(u)
        BY <3>1, <4>1
      <4>3. entry(u).topic = u /\ entry(u).internal = (u \in Internal)
        OBVIOUS
      <4> HIDE DEF entry, q
      <4> QED BY <4>1, <4>2, <4>3
    <3>3. \A u \in live : entry(u) \in S /\ ~entry(u).internal /\ entry(u).topic = u /\ u # NoName
      BY NamesAssumption
    <3>4. \A u \in live : \E i \in chosen : q[i].topic = u
      <4> HIDE DEF S, entry
      <4> QED BY <2>5, <3>3
    <3>5. {q[i].topic : i \in chosen} = live
      <4> HIDE DEF q, chosen, live
      <4> QED BY <3>2, <3>4
    <3>6. answer.entries = q /\ answer.seen = live
      OBVIOUS
    <3> HIDE DEF q, live, answer
    <3> QED BY <3>5, <3>6 DEF Complete
  <2>9. LayoutInv'
    BY <2>1 DEF LayoutInv
  <2> HIDE DEF answer
  <2> QED BY <2>1, <2>7, <2>8, <2>9, AnswerKeeps DEF TypeOK, MoreTypes
<1> QED BY <1>2, <1>3, <1>4

(* A lost answer is asked for again; the call has still made what it made. *)
LEMMA LossKeeps ==
  ASSUME IInv, NEW c \in Conns, AnswerLost(c)
  PROVE  IInv'
<1> USE DEF IInv
<1>1. /\ pc' = [pc EXCEPT ![c] = "asked"] /\ code' = [code EXCEPT ![c] = NoCode]
      /\ retries' = [retries EXCEPT ![c] = @ + 1] /\ retries[c] < MaxRetries
      /\ UNCHANGED <<client, vu, call, result, topics, layout, wanted, made, reachable>>
  BY DEF AnswerLost, sessions, cluster
<1>2. retries' \in [Conns -> 0 .. MaxRetries]
  BY <1>1, WidthAssumption DEF TypeOK
<1>3. TypeOK'
  BY <1>1, <1>2 DEF TypeOK
<1>4. MoreTypes'
  BY <1>1, Resting DEF MoreTypes
<1>5. AnswerInv'
  BY <1>1 DEF AnswerInv, TypeOK, MoreTypes
<1>6. LayoutInv' /\ SuccessIsOwn' /\ ListNeverTruncated'
  BY <1>1 DEF LayoutInv, SuccessIsOwn, ListNeverTruncated
<1>7. \A d \in Conns : Sound(call'[d])
  BY <1>1
<1> QED BY <1>3, <1>4, <1>5, <1>6, <1>7 DEF Sound, RequestTopic

(* A deleted topic goes with its layout. *)
LEMMA PurgeKeeps ==
  ASSUME IInv, NEW t \in Topics, Purge(t)
  PROVE  IInv'
<1> USE DEF IInv
<1>1. /\ topics' = [topics EXCEPT ![t] = "absent"] /\ layout' = [layout EXCEPT ![t] = NoLayout]
      /\ wanted' = [wanted EXCEPT ![t] = <<>>]
      /\ UNCHANGED <<client, vu, pc, call, code, result, retries, made, reachable>>
  BY DEF Purge, sessions, calls
<1>2. \A u \in Topics :
        /\ u = t => topics'[u] = "absent" /\ layout'[u] = NoLayout
        /\ u # t => topics'[u] = topics[u] /\ layout'[u] = layout[u] /\ wanted'[u] = wanted[u]
  BY <1>1 DEF TypeOK, MoreTypes
<1>3. \A u \in Topics : layout'[u].ok = (topics'[u] # "absent")
  <2>1. NoLayout.ok = FALSE
    BY DEF NoLayout
  <2> TAKE u \in Topics
  <2>2. CASE u = t
    <3>1. layout'[u].ok = FALSE /\ topics'[u] = "absent"
      BY <1>2, <2>1, <2>2
    <3> QED BY <3>1
  <2>3. CASE u # t
    BY <1>2, <2>3 DEF TypeOK
  <2> QED BY <2>2, <2>3
<1>4. TypeOK'
  BY <1>1, <1>3 DEF TypeOK
<1>5. MoreTypes'
  BY <1>1 DEF MoreTypes
<1>6. LayoutInv'
  BY <1>2 DEF LayoutInv
<1>7. AnswerInv' /\ SuccessIsOwn' /\ ListNeverTruncated'
  BY <1>1 DEF AnswerInv, SuccessIsOwn, ListNeverTruncated
<1>8. \A d \in Conns : Sound(call'[d])
  BY <1>1
<1> QED BY <1>4, <1>5, <1>6, <1>7, <1>8 DEF Sound, RequestTopic

(* The invariant holds in every reachable state. *)
LEMMA Invariance == Spec => []IInv
<1>1. ASSUME IInv, [Next]_vars PROVE IInv'
  BY <1>1, OperationsKeep, EndKeeps, SessionsKeep, BrokerKeeps, LossKeeps, PurgeKeeps DEF Next
<1> QED BY InitInv, <1>1, PTL DEF Spec

-----------------------------------------------------------------------------
(* The theorems. *)

(* Connections, calls, results and topics keep their types, and a topic has a
   layout exactly while it exists (connection.go: Connection; admin.go). *)
THEOREM AdminTypeCorrect == Spec => []TypeOK
<1>1. IInv => TypeOK
  BY DEF IInv
<1> QED BY Invariance, <1>1, PTL

(* Every topic has the layout that its script configured, for any list of
   assignments, any counts and any width of the request's fields (admin.go:
   buildReplicaAssignments, partitionsAndReplication). *)
THEOREM AdminLayoutAsConfigured == Spec => []LayoutAsConfigured
<1>1. IInv => LayoutAsConfigured
  BY RequestAsConfigured DEF IInv, LayoutInv, LayoutAsConfigured
<1> QED BY Invariance, <1>1, PTL

(* createTopic succeeds only in the call that made the topic, however many VUs
   race for it and however many answers are lost (admin.go: CreateTopic,
   topicError). *)
THEOREM AdminSuccessIsOwn == Spec => []SuccessIsOwn
<1>1. IInv => SuccessIsOwn
  BY DEF IInv
<1> QED BY Invariance, <1>1, PTL

(* listTopics without error names exactly the topics that are not internal, for
   any finite set of topics (admin.go: ListTopics, topicNames). *)
THEOREM AdminListNeverTruncated == Spec => []ListNeverTruncated
<1>1. IInv => ListNeverTruncated
  BY DEF IInv
<1> QED BY Invariance, <1>1, PTL
=============================================================================
