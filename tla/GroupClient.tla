---------------------------- MODULE GroupClient ----------------------------
(***************************************************************************)
(* What the reader relies on outside the repository: one partition of a     *)
(* topic, the group coordinator that gives it to one member at a time, and  *)
(* the bookkeeping of a franz-go group consumer.  Modelled from how         *)
(* consumer.go uses the client: periodic autocommit is on, PollRecords      *)
(* hands out records and, on its next call, marks the previous poll's       *)
(* records as ready to be autocommitted; CommitUncommittedOffsets commits   *)
(* every polled record at once.                                             *)
(***************************************************************************)
EXTENDS Integers, FiniteSets

CONSTANTS Members,       \* readers of the partition, one per VU
          NoMember,      \* the owner of an unassigned partition
          StartOffset,   \* "first" or "last": ConsumeResetOffset
          MaxLog,        \* bound: records in the partition
          MaxEvicted     \* bound: members the coordinator takes it from, once each

ASSUME MembersAssumption == NoMember \notin Members
ASSUME StartAssumption == StartOffset \in {"first", "last"}
ASSUME LogAssumption == MaxLog \in Nat /\ MaxEvicted \in Nat

VARIABLES
  log,         \* high watermark: the partition holds offsets 0 .. log - 1
  committed,   \* the group's committed offset, or -1
  owner,       \* the member the partition is assigned to
  pos,         \* per member: the next offset PollRecords hands out
  head,        \* per member: what autocommit may commit, or -1
  dirty,       \* per member: everything polled, or -1
  direct,      \* the readers that are in no group: Reader.group is false
  evicted,     \* history: members the coordinator took the partition from
  skipped      \* history: offsets passed over by a "last" reset

broker  == <<log, committed, owner, direct, evicted, skipped>>
offsets == <<pos, head, dirty>>

Offsets == 0 .. MaxLog

GroupTypeOK ==
  /\ log \in Offsets
  /\ committed \in {-1} \cup Offsets
  /\ owner \in Members \cup {NoMember}
  /\ pos \in [Members -> Offsets]
  /\ head \in [Members -> {-1} \cup Offsets]
  /\ dirty \in [Members -> {-1} \cup Offsets]
  /\ evicted \subseteq Members /\ direct \subseteq Members
  /\ skipped \subseteq Offsets

GroupInit ==
  /\ log = 0 /\ committed = -1 /\ owner = NoMember
  /\ pos = [m \in Members |-> 0]
  /\ head = [m \in Members |-> -1]
  /\ dirty = [m \in Members |-> -1]
  /\ direct = {} /\ evicted = {} /\ skipped = {}

(* Some producer appends a record. *)
Append1 ==
  /\ log < MaxLog
  /\ log' = log + 1
  /\ UNCHANGED <<committed, owner, direct, evicted, skipped, offsets>>

(* Faulty variant: no reset offset for a group without a commit. *)
ResumeCommitted == committed

(* Where a newly assigned member starts: the committed offset, else the
   reset offset of its configuration. *)
ResumeAt == IF committed >= 0 THEN committed
            ELSE IF StartOffset = "last" THEN log ELSE 0

Assign(m) ==
  /\ owner = NoMember /\ m \notin direct
  /\ owner' = m
  /\ pos' = [pos EXCEPT ![m] = ResumeAt]
  /\ head' = [head EXCEPT ![m] = committed]
  /\ dirty' = [dirty EXCEPT ![m] = committed]
  /\ skipped' = IF committed >= 0 THEN skipped
                ELSE skipped \cup 0 .. ResumeAt - 1
  /\ UNCHANGED <<log, committed, direct, evicted>>

(* Faulty variant: the client is forgotten without leaving the group. *)
Forget(m) == UNCHANGED <<owner, offsets>>

(* Direct consumption: the partition is read from `at', outside any group. *)
AssignDirect(m, at) ==
  /\ at \in 0 .. log
  /\ direct' = direct \cup {m}
  /\ pos' = [pos EXCEPT ![m] = at]
  /\ UNCHANGED <<log, committed, owner, evicted, skipped, head, dirty>>

(* The partition leaves the member, and its client forgets the offsets. *)
Release(m) ==
  /\ owner' = IF owner = m THEN NoMember ELSE owner
  /\ pos' = [pos EXCEPT ![m] = 0]
  /\ head' = [head EXCEPT ![m] = -1]
  /\ dirty' = [dirty EXCEPT ![m] = -1]

(* The coordinator gives up on the member (missed heartbeats, a rebalance). *)
Evict(m) ==
  /\ owner = m /\ m \notin evicted
  /\ Cardinality(evicted) < MaxEvicted
  /\ evicted' = evicted \cup {m}
  /\ Release(m)
  /\ UNCHANGED <<log, committed, direct, skipped>>

(* A commit is accepted from the current owner only, and the client sends
   one only when it is ahead of the last it sent. *)
CommitTo(m, offset) ==
  committed' = IF owner = m /\ offset > committed THEN offset ELSE committed

AutoCommit(m) ==
  /\ owner = m
  /\ head[m] > committed
  /\ CommitTo(m, head[m])
  /\ UNCHANGED <<log, owner, direct, evicted, skipped, offsets>>

(* PollRecords with n records in the answer. *)
Polled(m, n) ==
  /\ head' = [head EXCEPT ![m] = dirty[m]]
  /\ pos' = [pos EXCEPT ![m] = @ + n]
  /\ dirty' = [dirty EXCEPT ![m] = IF n > 0 THEN pos[m] + n ELSE @]
  /\ UNCHANGED broker

Available(m) == IF owner = m \/ m \in direct THEN log - pos[m] ELSE 0
=============================================================================
