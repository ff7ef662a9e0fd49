------------------------------- MODULE Admin -------------------------------
(***************************************************************************)
(* Connection (src/pkg/kafka/connection.go, admin.go): the eager connect,   *)
(* createTopic, deleteTopic and listTopics, for VUs that administer one     *)
(* cluster at the same time.  A request is sent, handled by the broker and  *)
(* answered in separate steps; kgo sends it again when the answer is lost,  *)
(* although the broker has acted.  Kafka deletes topics asynchronously.     *)
(*                                                                          *)
(* Topic names, replica lists and error codes are abstract; the partition   *)
(* numbers of an assignment and the int32 / int16 fields of the request are *)
(* numbers, with MaxInt32 and MaxInt16 scaled down.                         *)
(***************************************************************************)
EXTENDS Integers, Sequences, SequencesExt

CONSTANTS Conns,        \* Connection objects, one per VU
          Topics,       \* names of topics scripts create
          Internal,     \* internal topics of the cluster
          NoName,       \* the empty topic name
          TopicConfigs, \* per connection: the layouts its script asks for
          MaxInt32, MaxInt16,
          MaxRetries    \* bound: lost answers per call

ASSUME WidthAssumption == MaxInt32 \in Nat /\ MaxInt16 \in Nat /\ MaxRetries \in Nat
ASSUME NamesAssumption ==
  /\ NoName \notin Topics \cup Internal /\ Topics \cap Internal = {}
  /\ IsFiniteSet(Topics) /\ IsFiniteSet(Internal)
ASSUME ConfigAssumption ==
  \A c \in Conns : \A cfg \in TopicConfigs[c] :
    /\ cfg.numPartitions \in Int /\ cfg.replicationFactor \in Int
    /\ cfg.replicaAssignments \in Seq([partition : Int, replicas : STRING])

VARIABLES
  client,    \* per connection: "none", "open" or "closed"
  vu,        \* per connection: "init" or "running"
  pc,        \* per connection: "idle", "pinging", "asked" or "answered"
  call,      \* per connection: the running call
  code,      \* per connection: what the broker answered
  result,    \* per connection: how the last call ended
  retries,   \* per connection: answers lost in this call
  topics,    \* per topic: "absent", "present" or "deleting"
  layout,    \* per topic: the partitions the broker made
  wanted,    \* history, per topic: the configuration the script gave
  made,      \* history, per connection: its running call made the topic
  reachable  \* whether the cluster answers

sessions == <<client, vu>>
calls    == <<pc, call, code, result, retries>>
cluster  == <<topics, layout, wanted>>
vars     == <<sessions, calls, cluster, made, reachable>>

NoCall == [op |-> "none", topic |-> NoName, want |-> <<>>, send |-> <<>>]

-----------------------------------------------------------------------------
(* createTopic's two ways to describe a topic. *)

(* int32(n) and int16(n) *)
Wrap(n, max) == ((n + max + 1) % (2 * (max + 1))) - (max + 1)

(* partitionsAndReplication *)
Defaulted(n) == IF n <= 0 THEN 1 ELSE n
PartitionsAndReplication(cfg) ==
  LET partitions  == Defaulted(cfg.numPartitions)
      replication == Defaulted(cfg.replicationFactor)
  IN IF partitions > MaxInt32 \/ replication > MaxInt16
     THEN [ok |-> FALSE]
     ELSE [ok |-> TRUE, kind |-> "counts", partitions |-> Wrap(partitions, MaxInt32),
           replication |-> Wrap(replication, MaxInt16)]

(* Faulty variant: duplicate partitions pass. *)
OutOfRange(assignments, i) == assignments[i].partition \notin 0 .. Len(assignments) - 1

(* buildReplicaAssignments: entry i is refused when its partition is out of
   range or an earlier entry has it; the rest fill out by partition, the last
   one written staying. *)
Refused(assignments, i) ==
  \/ assignments[i].partition \notin 0 .. Len(assignments) - 1
  \/ \E j \in 1 .. i - 1 : assignments[j].partition = assignments[i].partition

ZeroAssignment == [partition |-> 0, replicas |-> "none"]
BuildReplicaAssignments(assignments) ==
  LET entries(p) == {i \in DOMAIN assignments : assignments[i].partition = p} IN
  IF Len(assignments) > MaxInt32 \/ \E i \in DOMAIN assignments : Refused(assignments, i)
  THEN [ok |-> FALSE]
  ELSE [ok |-> TRUE, kind |-> "assigned",
        out |-> [p \in 0 .. Len(assignments) - 1 |->
                   IF entries(p) = {} THEN ZeroAssignment ELSE assignments[Max(entries(p))]]]

(* The request's topic: assignments, if there are any, decide alone. *)
RequestTopic(cfg) ==
  IF Len(cfg.replicaAssignments) > 0
  THEN BuildReplicaAssignments(cfg.replicaAssignments)
  ELSE PartitionsAndReplication(cfg)

-----------------------------------------------------------------------------
NoLayout == [ok |-> FALSE]
TypeOK ==
  /\ client \in [Conns -> {"none", "open", "closed"}]
  /\ vu \in [Conns -> {"init", "running"}]
  /\ pc \in [Conns -> {"idle", "pinging", "asked", "answered"}]
  /\ \A c \in Conns :
       /\ call[c].op \in {"none", "create", "delete", "list"}
       /\ call[c].topic \in Topics \cup {NoName}
  /\ result \in [Conns -> [kind : {"none", "ok", "error"},
                           op : {"none", "create", "delete", "list"}, names : SUBSET (Topics \cup Internal),
                           seen : SUBSET Topics]]
  /\ retries \in [Conns -> 0 .. MaxRetries]
  /\ topics \in [Topics -> {"absent", "present", "deleting"}]
  /\ \A t \in Topics : layout[t].ok = (topics[t] # "absent")
  /\ made \in [Conns -> BOOLEAN]
  /\ reachable \in BOOLEAN

NoResult == [kind |-> "none", op |-> "none", names |-> {}, seen |-> {}]
Failed   == [NoResult EXCEPT !.kind = "error"]
Ok(op)   == [NoResult EXCEPT !.kind = "ok", !.op = op]
NoCode   == [err |-> FALSE, entries |-> <<>>, seen |-> {}]

Init ==
  /\ client = [c \in Conns |-> "none"]
  /\ vu = [c \in Conns |-> "init"]
  /\ pc = [c \in Conns |-> "idle"]
  /\ call = [c \in Conns |-> NoCall]
  /\ code = [c \in Conns |-> NoCode]
  /\ result = [c \in Conns |-> NoResult]
  /\ retries = [c \in Conns |-> 0]
  /\ topics = [t \in Topics |-> "absent"]
  /\ layout = [t \in Topics |-> NoLayout]
  /\ wanted = [t \in Topics |-> <<>>]
  /\ made = [c \in Conns |-> FALSE]
  /\ reachable = TRUE

-----------------------------------------------------------------------------
(* openConnection builds a client and pings the cluster, for at most
   pingTimeout; a failed ping closes the client. *)
Open(c) ==
  /\ pc[c] = "idle" /\ client[c] = "none"
  /\ pc' = [pc EXCEPT ![c] = "pinging"]
  /\ UNCHANGED <<sessions, call, code, result, retries, cluster, made, reachable>>

Pinged(c) ==
  /\ pc[c] = "pinging" /\ reachable
  /\ pc' = [pc EXCEPT ![c] = "idle"]
  /\ client' = [client EXCEPT ![c] = "open"]
  /\ UNCHANGED <<vu, call, code, result, retries, cluster, made, reachable>>

(* Faulty variant: the ping has no timeout. *)
NoPingTimeout(c) == pc[c] = "pinging" /\ ~reachable /\ FALSE /\ UNCHANGED vars

PingTimeout(c) ==
  /\ pc[c] = "pinging" /\ ~reachable
  /\ pc' = [pc EXCEPT ![c] = "idle"]
  /\ UNCHANGED <<sessions, call, code, result, retries, cluster, made, reachable>>

(* requireVU: the VU has a state, and the connection was not closed. *)
RequireVU(c) == vu[c] # "init" /\ client[c] = "open"

Throw(c) ==
  /\ result' = [result EXCEPT ![c] = Failed]
  /\ UNCHANGED <<sessions, pc, call, code, retries, cluster, made, reachable>>

Ask(c, request) ==
  /\ call' = [call EXCEPT ![c] = request]
  /\ pc' = [pc EXCEPT ![c] = "asked"]
  /\ result' = [result EXCEPT ![c] = NoResult]
  /\ made' = [made EXCEPT ![c] = FALSE]
  /\ UNCHANGED <<sessions, code, retries, cluster, reachable>>

(* Faulty variant: the error of the layout is ignored. *)
CreateTopicUnchecked(c, topic, cfg) ==
  /\ pc[c] = "idle" /\ client[c] # "none"
  /\ IF RequireVU(c) /\ topic # NoName
     THEN Ask(c, [op |-> "create", topic |-> topic, want |-> cfg, send |-> RequestTopic(cfg)])
     ELSE Throw(c)

CreateTopic(c, topic, cfg) ==
  /\ pc[c] = "idle" /\ client[c] # "none"
  /\ IF RequireVU(c) /\ topic # NoName /\ RequestTopic(cfg).ok
     THEN Ask(c, [op |-> "create", topic |-> topic, want |-> cfg, send |-> RequestTopic(cfg)])
     ELSE Throw(c)

DeleteTopic(c, topic) ==
  /\ pc[c] = "idle" /\ client[c] # "none"
  /\ IF RequireVU(c) /\ topic # NoName
     THEN Ask(c, [NoCall EXCEPT !.op = "delete", !.topic = topic])
     ELSE Throw(c)

ListTopics(c) ==
  /\ pc[c] = "idle" /\ client[c] # "none"
  /\ IF RequireVU(c) THEN Ask(c, [NoCall EXCEPT !.op = "list"]) ELSE Throw(c)

(* Faulty variant: an entry with an error is skipped. *)
NamesWithoutErrors(entries) ==
  [ok |-> TRUE, names |-> {entries[i].topic : i \in {j \in DOMAIN entries :
                             ~entries[j].err /\ ~entries[j].internal}}]

(* topicNames: the first entry with an error ends the call. *)
TopicNames(entries) ==
  IF \E i \in DOMAIN entries : entries[i].err
  THEN [ok |-> FALSE]
  ELSE [ok |-> TRUE, names |-> {entries[i].topic : i \in {j \in DOMAIN entries :
                                  ~entries[j].internal /\ entries[j].topic # NoName}}]

(* Faulty variant: only a failed request is an error. *)
OutcomeIgnoresCode(op, answer) == Ok(op)

(* The answer arrives.  topicError makes an error of the code that a topic, or
   the whole metadata answer, carries. *)
Outcome(op, answer) ==
  IF answer.err THEN Failed
  ELSE IF op # "list" THEN Ok(op)
  ELSE LET listed == TopicNames(answer.entries)
       IN IF listed.ok THEN [Ok(op) EXCEPT !.names = listed.names, !.seen = answer.seen]
                       ELSE Failed

EndCall(c) ==
  /\ call' = [call EXCEPT ![c] = NoCall]
  /\ code' = [code EXCEPT ![c] = NoCode]
  /\ retries' = [retries EXCEPT ![c] = 0]

Receive(c) ==
  /\ pc[c] = "answered"
  /\ pc' = [pc EXCEPT ![c] = "idle"]
  /\ result' = [result EXCEPT ![c] = Outcome(call[c].op, code[c])]
  /\ EndCall(c)
  /\ UNCHANGED <<sessions, cluster, made, reachable>>

(* RequestWith fails: the VU was stopped, or kgo gave the request up. *)
Fail(c) ==
  /\ pc[c] \in {"asked", "answered"}
  /\ pc' = [pc EXCEPT ![c] = "idle"]
  /\ result' = [result EXCEPT ![c] = Failed]
  /\ EndCall(c)
  /\ UNCHANGED <<sessions, cluster, made, reachable>>

Close(c) ==
  /\ pc[c] = "idle" /\ client[c] # "none"
  /\ client' = [client EXCEPT ![c] = "closed"]
  /\ UNCHANGED <<vu, calls, cluster, made, reachable>>

-----------------------------------------------------------------------------
(* k6 and the cluster. *)
StartVU(c) ==
  /\ vu[c] = "init" /\ pc[c] = "idle"
  /\ vu' = [vu EXCEPT ![c] = "running"]
  /\ UNCHANGED <<client, calls, cluster, made, reachable>>

ClusterDown == reachable /\ reachable' = FALSE /\ UNCHANGED <<sessions, calls, cluster, made>>
ClusterUp   == ~reachable /\ reachable' = TRUE /\ UNCHANGED <<sessions, calls, cluster, made>>

Answer(c, answer) ==
  /\ code' = [code EXCEPT ![c] = answer]
  /\ pc' = [pc EXCEPT ![c] = "answered"]

HandleCreate(c) ==
  LET t == call[c].topic IN
  /\ pc[c] = "asked" /\ reachable /\ call[c].op = "create"
  /\ IF topics[t] = "absent"
     THEN /\ topics' = [topics EXCEPT ![t] = "present"]
          /\ layout' = [layout EXCEPT ![t] = call[c].send]
          /\ wanted' = [wanted EXCEPT ![t] = call[c].want]
          /\ made' = [made EXCEPT ![c] = TRUE]
          /\ Answer(c, NoCode)
     ELSE /\ UNCHANGED <<cluster, made>>
          /\ Answer(c, [NoCode EXCEPT !.err = TRUE])
  /\ UNCHANGED <<sessions, call, result, retries, reachable>>

HandleDelete(c) ==
  LET t == call[c].topic IN
  /\ pc[c] = "asked" /\ reachable /\ call[c].op = "delete"
  /\ IF topics[t] = "present"
     THEN topics' = [topics EXCEPT ![t] = "deleting"] /\ Answer(c, NoCode)
     ELSE topics' = topics /\ Answer(c, [NoCode EXCEPT !.err = TRUE])
  /\ UNCHANGED <<sessions, call, result, retries, layout, wanted, made, reachable>>

(* Metadata names every topic; one that has no leader yet carries an error,
   and the whole answer may carry one. *)
HandleList(c, err, leaderless) ==
  LET live    == {t \in Topics : topics[t] # "absent"}
      entries == SetToSeq({[topic |-> t, internal |-> t \in Internal, err |-> t = leaderless] :
                             t \in live \cup Internal})
  IN
  /\ pc[c] = "asked" /\ reachable /\ call[c].op = "list"
  /\ Answer(c, [err |-> err, entries |-> entries, seen |-> live])
  /\ UNCHANGED <<sessions, call, result, retries, cluster, made, reachable>>

(* The answer is lost, and kgo sends the request again. *)
AnswerLost(c) ==
  /\ pc[c] = "answered" /\ retries[c] < MaxRetries
  /\ retries' = [retries EXCEPT ![c] = @ + 1]
  /\ pc' = [pc EXCEPT ![c] = "asked"]
  /\ code' = [code EXCEPT ![c] = NoCode]
  /\ UNCHANGED <<sessions, call, result, cluster, made, reachable>>

Purge(t) ==
  /\ topics[t] = "deleting"
  /\ topics' = [topics EXCEPT ![t] = "absent"]
  /\ layout' = [layout EXCEPT ![t] = NoLayout]
  /\ wanted' = [wanted EXCEPT ![t] = <<>>]
  /\ UNCHANGED <<sessions, calls, made, reachable>>

Next ==
  \/ \E c \in Conns :
       \/ Open(c) \/ Pinged(c) \/ PingTimeout(c)
       \/ \E t \in Topics \cup {NoName} :
            (\E cfg \in TopicConfigs[c] : CreateTopic(c, t, cfg)) \/ DeleteTopic(c, t)
       \/ ListTopics(c)
       \/ Receive(c) \/ Fail(c) \/ Close(c)
       \/ StartVU(c)
       \/ HandleCreate(c) \/ HandleDelete(c)
       \/ \E err \in BOOLEAN, leaderless \in Topics \cup Internal \cup {NoName} :
            HandleList(c, err, leaderless)
       \/ AnswerLost(c)
  \/ \E t \in Topics : Purge(t)
  \/ ClusterDown \/ ClusterUp

(* kgo limits the retries and the time of a request; a ping ends with its
   timeout, or with an answer. *)
Spec == /\ Init /\ [][Next]_vars
        /\ \A c \in Conns : /\ WF_vars(Receive(c) \/ Fail(c))
                            /\ WF_vars(Pinged(c) \/ PingTimeout(c))

-----------------------------------------------------------------------------
(* Properties. *)

(* What createTopic's documentation promises of a configuration: the given
   placement of every partition 0..N-1, or the two numbers, 1 when unset. *)
AsConfigured(cfg, made_) ==
  IF Len(cfg.replicaAssignments) > 0
  THEN /\ made_.kind = "assigned"
       /\ DOMAIN made_.out = {a.partition : a \in {cfg.replicaAssignments[i] :
                                i \in DOMAIN cfg.replicaAssignments}}
       /\ \A i \in DOMAIN cfg.replicaAssignments :
            made_.out[cfg.replicaAssignments[i].partition] = cfg.replicaAssignments[i]
  ELSE /\ made_.kind = "counts"
       /\ made_.partitions = (IF cfg.numPartitions > 0 THEN cfg.numPartitions ELSE 1)
       /\ made_.replication = (IF cfg.replicationFactor > 0 THEN cfg.replicationFactor ELSE 1)

(* Every topic in the cluster has the layout the script asked for, whatever
   numbers and assignments scripts pass, at the limits of the protocol's
   fields too (admin.go: buildReplicaAssignments, partitionsAndReplication). *)
LayoutAsConfigured ==
  \A t \in Topics : topics[t] # "absent" => AsConfigured(wanted[t], layout[t])

(* createTopic succeeds only in the call that made the topic: of VUs that race
   for a name at most one succeeds for each time the topic comes into being,
   and a call whose answer was lost may fail but never succeeds for another
   (admin.go: CreateTopic, topicError). *)
SuccessIsOwn ==
  \A c \in Conns : result[c].kind = "ok" /\ result[c].op = "create" => made[c]

(* A list is never silently truncated: without an error it has exactly the
   topics that are not internal (admin.go: ListTopics, topicNames). *)
ListNeverTruncated ==
  \A c \in Conns :
    result[c].kind = "ok" /\ result[c].op = "list" => result[c].names = result[c].seen

(* Every call and the constructor return, also when the cluster is never
   reached (connection.go: pingTimeout). *)
CallsReturn == \A c \in Conns : pc[c] # "idle" ~> pc[c] = "idle"
=============================================================================
