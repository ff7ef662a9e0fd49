---------------------------- MODULE ReaderProofs ----------------------------
(* The reader's promises, proved for any number of members, records, calls
   and failures. *)
EXTENDS Reader, FiniteSetTheorems, TLAPS

InCall(m) == pc[m] \in {"polling", "polled", "ending", "returning"}

(* What a call's locals say of the call. *)
CallInv(m) ==
  /\ ~InCall(m) => call[m] = NoCall
  /\ call[m].got <= call[m].limit
  /\ call[m].late => vu[m] = "done"
  /\ pc[m] = "returning" /\ call[m].late =>
       \/ call[m].verdict = "cancelled"
       \/ call[m].verdict = "success" /\ call[m].got = call[m].limit

(* After close has flushed, only its own late hook events are held. *)
HookInv(m) ==
  pc[m] \in {"closing", "leaving", "closed"} /\ vu[m] = "live" => hooks[m] <= lateHooks[m]

(* A reader's life: who owns the partition has an open client and is in the
   group; nothing is taken before it opens; close commits once, at the end. *)
LifeInv(m) ==
  /\ owner = m => ClientOpen(m) /\ m \notin direct
  /\ pc[m] = "unopened" => returned[m] = {} /\ m \notin direct
  /\ closeCommit[m] # "none" => pc[m] \in {"leaving", "closed", "dead"}
  /\ pc[m] = "leaving" => m \in direct \/ closeCommit[m] # "none"

(* The offsets of the owner's client: what may be committed was polled, and
   polling is never behind the commit. *)
OwnerInv(m) ==
  owner = m => /\ head[m] <= dirty[m]
               /\ dirty[m] <= pos[m]
               /\ committed <= pos[m]
               /\ \A o \in Offsets : o < pos[m] => Accounted(o)

(* A direct reader's position only moves on from its start. *)
DirectInv(m) ==
  m \in direct /\ ClientOpen(m) =>
    /\ from[m] <= pos[m]
    /\ from[m] .. pos[m] - 1 \subseteq Taken(m) \cup discarded
    /\ \A o \in Taken(m) : o >= from[m]

(* What a member took and has not lost is below what it will commit, or
   committed by the time it no longer owns the partition. *)
TakenInv(m) ==
  m \notin direct /\ ~LeftUncommitted(m) =>
    /\ owner = m => \A o \in Taken(m) : o < dirty[m]
    /\ owner # m \/ pc[m] = "leaving" => \A o \in Taken(m) : o < committed

(* No two such members took the same message. *)
Disjoint ==
  \A m, q \in Members \ direct :
    m # q /\ ~LeftUncommitted(m) /\ ~LeftUncommitted(q) => Taken(m) \cap Taken(q) = {}

(* While nobody was evicted, a reader polls each message once. *)
CountInv(m) ==
  evicted = {} =>
    /\ ClientOpen(m) => \A o \in Taken(m) : (owner = m \/ m \in direct) /\ o < pos[m]
    /\ call[m].got = Cardinality(call[m].hand)
    /\ call[m].hand \cap returned[m] = {}
    /\ vu[m] # "done" => counted[m] = Cardinality(returned[m])

-----------------------------------------------------------------------------
(* Types. *)

(* The broker's and the client's offsets stay in the log. *)
LEMMA GroupTypeStep ==
  ASSUME GroupTypeOK,
         Append1 \/ \E m \in Members : Assign(m) \/ Evict(m) \/ AutoCommit(m)
  PROVE  GroupTypeOK'
<1>1. CASE Append1
  BY <1>1, LogAssumption DEF GroupTypeOK, Append1, Offsets, offsets
<1>2. ASSUME NEW m \in Members, Assign(m) PROVE GroupTypeOK'
  <2>1. ResumeAt \in Offsets
    BY LogAssumption DEF GroupTypeOK, ResumeAt, Offsets
  <2>2. 0 .. ResumeAt - 1 \subseteq Offsets
    BY <2>1, LogAssumption DEF Offsets
  <2>3. pos' \in [Members -> Offsets] /\ skipped' \subseteq Offsets
    BY <1>2, <2>1, <2>2 DEF GroupTypeOK, Assign
  <2>4. head' \in [Members -> {-1} \cup Offsets] /\ dirty' \in [Members -> {-1} \cup Offsets]
    BY <1>2 DEF GroupTypeOK, Assign
  <2> QED
    BY <1>2, <2>3, <2>4 DEF GroupTypeOK, Assign
<1>3. ASSUME NEW m \in Members, Evict(m) PROVE GroupTypeOK'
  BY <1>3, LogAssumption DEF GroupTypeOK, Evict, Release, Offsets
<1>4. ASSUME NEW m \in Members, AutoCommit(m) PROVE GroupTypeOK'
  BY <1>4 DEF GroupTypeOK, AutoCommit, CommitTo, offsets
<1> QED
  BY <1>1, <1>2, <1>3, <1>4

(* The records of a poll are in the log. *)
LEMMA BatchType ==
  ASSUME GroupTypeOK, NEW m \in Members, NEW n \in 0 .. MaxLog, n <= Available(m)
  PROVE  /\ pos[m] + n \in Offsets
         /\ Batch(m, n) \subseteq Offsets
<1>1. pos[m] + n \in Offsets
  BY LogAssumption DEF GroupTypeOK, Available, Offsets
<1> QED
  BY <1>1, LogAssumption DEF GroupTypeOK, Batch, Offsets

(* The updates that the steps make to the locals of a call. *)
Began(c, args, late) ==
  [c EXCEPT !.limit = args.limit, !.expectTimeout = args.expectTimeout, !.late = late]
Got(c, n, B, e) == [c EXCEPT !.got = @ + n, !.hand = @ \cup B, !.errs = e]
Judged(c, v)    == [c EXCEPT !.verdict = v]
Expired(c)      == [c EXCEPT !.expired = TRUE]

(* They keep the type of the locals. *)
LEMMA UpdateTypes ==
  ASSUME NEW c \in Calls
  PROVE  /\ \A args \in ConsumeArgs, late \in BOOLEAN : Began(c, args, late) \in Calls
         /\ \A n \in Nat, B \in SUBSET Offsets, e \in {"none", "fatal", "contextual"} :
              Got(c, n, B, e) \in Calls
         /\ \A v \in {"success", "partial", "timeout", "cancelled", "failed"} :
              Judged(c, v) \in Calls
         /\ Expired(c) \in Calls
         /\ NoCall \in Calls
<1>1. \A args \in ConsumeArgs, late \in BOOLEAN : Began(c, args, late) \in Calls
  BY ArgsAssumption DEF Began, Calls
<1>2. \A n \in Nat, B \in SUBSET Offsets, e \in {"none", "fatal", "contextual"} :
        Got(c, n, B, e) \in Calls
  <2> TAKE n \in Nat, B \in SUBSET Offsets, e \in {"none", "fatal", "contextual"}
  <2>1. c.got + n \in Nat /\ c.hand \cup B \in SUBSET Offsets
    BY DEF Calls
  <2> QED
    BY <2>1, Zenon DEF Got, Calls
<1>3. \A v \in {"success", "partial", "timeout", "cancelled", "failed"} : Judged(c, v) \in Calls
  BY DEF Judged, Calls
<1>4. Expired(c) \in Calls
  BY DEF Expired, Calls
<1>5. NoCall \in Calls
  BY DEF NoCall, Calls
<1> QED
  BY <1>1, <1>2, <1>3, <1>4, <1>5

(* Each step changes the locals of its own call in one of these ways. *)
LEMMA CallEffects ==
  ASSUME TypeOK, NEW m \in Members
  PROVE  /\ \A args \in ConsumeArgs : Consume(m, args) =>
              call' = [call EXCEPT ![m] = Began(call[m], args, vu[m] = "done")]
         /\ \A n \in 0 .. MaxLog, e \in {"none", "fatal", "contextual"} : Poll(m, n, e) =>
              call' = [call EXCEPT ![m] = Got(call[m], n, Batch(m, n), e)]
         /\ AfterPoll(m) => call' = call \/ call' = [call EXCEPT ![m] = Judged(call[m], "failed")]
         /\ Decide(m) => \E v \in {"success", "partial", "timeout", "cancelled"} :
              call' = [call EXCEPT ![m] = Judged(call[m], v)]
         /\ Deadline(m) => call' = [call EXCEPT ![m] = Expired(call[m])]
<1>1. call \in [Members -> Calls]
  BY DEF TypeOK
<1>2. ASSUME NEW args \in ConsumeArgs, Consume(m, args)
      PROVE  call' = [call EXCEPT ![m] = Began(call[m], args, vu[m] = "done")]
  BY <1>1, <1>2 DEF Consume, Began, Calls
<1>3. ASSUME NEW n \in 0 .. MaxLog, NEW e \in {"none", "fatal", "contextual"}, Poll(m, n, e)
      PROVE  call' = [call EXCEPT ![m] = Got(call[m], n, Batch(m, n), e)]
  BY <1>1, <1>3 DEF Poll, Got, Calls
<1>4. AfterPoll(m) => call' = call \/ call' = [call EXCEPT ![m] = Judged(call[m], "failed")]
  BY <1>1 DEF AfterPoll, Judged, Calls
<1>5. Decide(m) => \E v \in {"success", "partial", "timeout", "cancelled"} :
        call' = [call EXCEPT ![m] = Judged(call[m], v)]
  BY <1>1 DEF Decide, Incomplete, Judged, Calls
<1>6. Deadline(m) => call' = [call EXCEPT ![m] = Expired(call[m])]
  BY <1>1 DEF Deadline, Expired, Calls
<1> QED
  BY <1>2, <1>3, <1>4, <1>5, <1>6

(* Every step keeps the types. *)
LEMMA TypeStep == TypeOK /\ [Next]_vars => TypeOK'
<1> SUFFICES ASSUME TypeOK, [Next]_vars PROVE TypeOK'
  OBVIOUS
<1> USE DEF GoTo
<1>1. CASE Group
  BY <1>1, GroupTypeStep DEF Group, TypeOK, metrics, script
<1>2. ASSUME NEW m \in Members, Open(m) PROVE TypeOK'
  BY <1>2 DEF Open, TypeOK, Steps, GroupTypeOK, group, broker, offsets, metrics, script
<1>3. ASSUME NEW m \in Members, NEW offset \in DirectOffsets, OpenDirect(m, offset) PROVE TypeOK'
  <2>1. DirectOffset(offset) \in Offsets
    BY <1>3, LogAssumption DEF OpenDirect, AssignDirect, TypeOK, GroupTypeOK, Offsets
  <2>2. GroupTypeOK'
    BY <1>3, <2>1 DEF OpenDirect, AssignDirect, TypeOK, GroupTypeOK
  <2>3. from' \in [Members -> Offsets]
    BY <1>3, <2>1 DEF OpenDirect, DirectOffset, TypeOK
  <2> QED
    BY <1>3, <2>2, <2>3 DEF OpenDirect, TypeOK, Steps, metrics
<1>4. ASSUME NEW m \in Members, NEW args \in ConsumeArgs, Consume(m, args) PROVE TypeOK'
  <2>1. call' \in [Members -> Calls]
    <3>1. Began(call[m], args, vu[m] = "done") \in Calls
      <4>1. call[m] \in Calls
        BY DEF TypeOK
      <4> QED
        BY <4>1, UpdateTypes, Zenon
    <3>2. call' = [call EXCEPT ![m] = Began(call[m], args, vu[m] = "done")]
      BY <1>4, CallEffects
    <3> HIDE DEF Began
    <3> QED
      BY <3>1, <3>2 DEF TypeOK
  <2> QED
    BY <1>4, <2>1 DEF Consume, TypeOK, Steps, GroupTypeOK, group, broker, offsets, metrics, script
<1>5. ASSUME NEW m \in Members, NEW n \in 0 .. MaxLog, NEW e \in {"none", "fatal", "contextual"},
             Poll(m, n, e)
      PROVE  TypeOK'
  <2>1. pos[m] + n \in Offsets /\ Batch(m, n) \subseteq Offsets
    BY <1>5, BatchType DEF Poll, TypeOK
  <2>2. GroupTypeOK'
    BY <1>5, <2>1 DEF Poll, Polled, TypeOK, GroupTypeOK, broker
  <2>3. call' \in [Members -> Calls]
    <3>1. Got(call[m], n, Batch(m, n), e) \in Calls
      <4>1. call[m] \in Calls /\ n \in Nat
        BY DEF TypeOK
      <4> QED
        BY <2>1, <4>1, UpdateTypes
    <3>2. call' = [call EXCEPT ![m] = Got(call[m], n, Batch(m, n), e)]
      BY <1>5, CallEffects
    <3> QED
      BY <3>1, <3>2 DEF TypeOK
  <2> QED
    BY <1>5, <2>2, <2>3 DEF Poll, TypeOK, Steps, metrics, script
<1>6. ASSUME NEW m \in Members, AfterPoll(m) PROVE TypeOK'
  <2>1. call' \in [Members -> Calls]
    BY <1>6, CallEffects, UpdateTypes DEF TypeOK
  <2>2. pc' \in [Members -> Steps]
    BY <1>6 DEF AfterPoll, TypeOK, Steps
  <2> QED
    BY <1>6, <2>1, <2>2 DEF AfterPoll, TypeOK, GroupTypeOK, group, broker, offsets, metrics, script
<1>7. ASSUME NEW m \in Members, Decide(m) PROVE TypeOK'
  <2>1. call' \in [Members -> Calls]
    BY <1>7, CallEffects, UpdateTypes DEF TypeOK
  <2> QED
    BY <1>7, <2>1 DEF Decide, TypeOK, Steps, GroupTypeOK, group, broker, offsets, metrics, script
<1>8. NoCall \in Calls
  BY DEF NoCall, Calls
<1>9. ASSUME NEW m \in Members, Return(m) PROVE TypeOK'
  <2>1. call[m].hand \subseteq Offsets /\ call[m].got \in Nat
    BY DEF TypeOK, Calls
  <2>2. /\ hooks' \in [Members -> Nat] /\ counted' \in [Members -> Nat]
        /\ pc' \in [Members -> Steps]
    BY <1>9, <2>1 DEF Return, FlushHooks, TypeOK, Steps
  <2>3. /\ returned' \in [Members -> SUBSET Offsets] /\ discarded' \subseteq Offsets
        /\ call' \in [Members -> Calls]
    BY <1>8, <1>9, <2>1 DEF Return, TypeOK
  <2> QED
    BY <1>9, <2>2, <2>3 DEF Return, TypeOK, GroupTypeOK, group, broker, offsets
<1>10. ASSUME NEW m \in Members, Close(m) PROVE TypeOK'
  BY <1>10 DEF Close, FlushHooks, TypeOK, Steps, GroupTypeOK, group, broker, offsets, script
<1>11. ASSUME NEW m \in Members, NEW ok \in BOOLEAN, CommitOnClose(m, ok) PROVE TypeOK'
  <2>1. GroupTypeOK'
    BY <1>11 DEF CommitOnClose, CommitTo, Uncommitted, TypeOK, GroupTypeOK, offsets
  <2> QED
    BY <1>11, <2>1 DEF CommitOnClose, TypeOK, Steps, metrics
<1>12. ASSUME NEW m \in Members, CloseClient(m) PROVE TypeOK'
  <2>1. GroupTypeOK'
    BY <1>12, LogAssumption DEF CloseClient, CommitTo, Release, TypeOK, GroupTypeOK, Offsets
  <2> QED
    BY <1>12, <2>1 DEF CloseClient, TypeOK, Steps, metrics, script
<1>13. ASSUME NEW m \in Members, StartVU(m) \/ CancelVU(m) PROVE TypeOK'
  BY <1>13 DEF StartVU, CancelVU, TypeOK, GroupTypeOK, group, broker, offsets, metrics, script
<1>14. ASSUME NEW m \in Members, Deadline(m) PROVE TypeOK'
  <2>1. call' \in [Members -> Calls]
    BY <1>14, CallEffects, UpdateTypes DEF TypeOK
  <2> QED
    BY <1>14, <2>1 DEF Deadline, TypeOK, GroupTypeOK, group, broker, offsets, metrics, script
<1>15. ASSUME NEW m \in Members, Hook(m) PROVE TypeOK'
  BY <1>15 DEF Hook, TypeOK, GroupTypeOK, group, broker, offsets, script
<1>16. ASSUME NEW m \in Members, Die(m) PROVE TypeOK'
  <2>1. GroupTypeOK'
    BY <1>16, LogAssumption DEF Die, Release, TypeOK, GroupTypeOK, Offsets
  <2>2. call[m].hand \subseteq Offsets
    BY DEF TypeOK, Calls
  <2> QED
    BY <1>8, <1>16, <2>1, <2>2 DEF Die, TypeOK, Steps, metrics
<1>17. CASE UNCHANGED vars
  BY <1>17 DEF vars, TypeOK, GroupTypeOK, group, broker, offsets, metrics, script
<1> QED
  BY <1>1, <1>2, <1>3, <1>4, <1>5, <1>6, <1>7, <1>9, <1>10, <1>11, <1>12, <1>13, <1>14,
     <1>15, <1>16, <1>17 DEF Next, ReaderStep

-----------------------------------------------------------------------------
(* Calls and lives: each reader by itself. *)

(* What the updates of a call's locals change. *)
LEMMA UpdateFields ==
  ASSUME NEW c \in Calls
  PROVE  /\ \A args \in ConsumeArgs, late \in BOOLEAN :
              /\ Began(c, args, late).limit = args.limit
              /\ Began(c, args, late).late = late
              /\ Began(c, args, late).got = c.got
              /\ Began(c, args, late).hand = c.hand
              /\ Began(c, args, late).verdict = c.verdict
         /\ \A n, B, e :
              /\ Got(c, n, B, e).limit = c.limit
              /\ Got(c, n, B, e).late = c.late
              /\ Got(c, n, B, e).got = c.got + n
              /\ Got(c, n, B, e).hand = c.hand \cup B
              /\ Got(c, n, B, e).verdict = c.verdict
         /\ \A v :
              /\ Judged(c, v).limit = c.limit
              /\ Judged(c, v).late = c.late
              /\ Judged(c, v).got = c.got
              /\ Judged(c, v).hand = c.hand
              /\ Judged(c, v).verdict = v
         /\ Expired(c).limit = c.limit
         /\ Expired(c).late = c.late
         /\ Expired(c).got = c.got
         /\ Expired(c).hand = c.hand
         /\ Expired(c).verdict = c.verdict
  BY DEF Began, Got, Judged, Expired, Calls

(* The steps of a reader, its VU and its client. *)
MemberStep(m) ==
  \/ Open(m)
  \/ \E offset \in DirectOffsets : OpenDirect(m, offset)
  \/ \E args \in ConsumeArgs : Consume(m, args)
  \/ ReaderStep(m)
  \/ Close(m)
  \/ StartVU(m) \/ CancelVU(m) \/ Deadline(m) \/ Hook(m) \/ Die(m)

(* What reader m has to itself: a step of another leaves it as it is. *)
Own(m) == <<pc[m], call[m], vu[m], hooks[m], lateHooks[m], counted[m], returned[m], from[m],
            closeCommit[m]>>
Held(m) == <<pos[m], head[m], dirty[m]>>

(* A reader's step leaves the others alone, and gives the partition to nobody. *)
Alone(m) ==
  /\ \A q \in Members \ {m} : UNCHANGED Own(q) /\ UNCHANGED Held(q)
  /\ \A q \in Members \ {m} : q \in direct' <=> q \in direct
  /\ UNCHANGED <<evicted, skipped, log>>
  /\ owner' = owner \/ (owner = m /\ owner' = NoMember)
  /\ discarded \subseteq discarded'

(* So do all of them. *)
LEMMA OneMember ==
  ASSUME TypeOK, NEW m \in Members, MemberStep(m)
  PROVE  Alone(m)
<1> USE DEF GoTo, TypeOK, GroupTypeOK, Own, Held, Alone
<1>1. CASE Open(m)
  BY <1>1 DEF Open, group, broker, offsets, metrics, script
<1>2. ASSUME NEW offset \in DirectOffsets, OpenDirect(m, offset) PROVE Alone(m)
  BY <1>2 DEF OpenDirect, AssignDirect, metrics
<1>3. ASSUME NEW args \in ConsumeArgs, Consume(m, args) PROVE Alone(m)
  <2>1. call' = [call EXCEPT ![m] = Began(call[m], args, vu[m] = "done")]
    BY <1>3, CallEffects
  <2> QED
    BY <1>3, <2>1 DEF Consume, group, broker, offsets, metrics, script
<1>4. ASSUME NEW n \in 0 .. MaxLog, NEW e \in {"none", "fatal", "contextual"}, Poll(m, n, e)
      PROVE  Alone(m)
  <2>1. call' = [call EXCEPT ![m] = Got(call[m], n, Batch(m, n), e)]
    BY <1>4, CallEffects
  <2> QED
    BY <1>4, <2>1 DEF Poll, Polled, broker, metrics, script
<1>5. CASE AfterPoll(m)
  <2>1. \A q \in Members \ {m} : call'[q] = call[q]
    BY <1>5, CallEffects
  <2> QED
    BY <1>5, <2>1 DEF AfterPoll, group, broker, offsets, metrics, script
<1>6. CASE Decide(m)
  <2>1. \A q \in Members \ {m} : call'[q] = call[q]
    BY <1>6, CallEffects
  <2> QED
    BY <1>6, <2>1 DEF Decide, group, broker, offsets, metrics, script
<1>7. CASE Return(m)
  BY <1>7 DEF Return, FlushHooks, group, broker, offsets
<1>8. ASSUME NEW ok \in BOOLEAN, CommitOnClose(m, ok) PROVE Alone(m)
  BY <1>8 DEF CommitOnClose, offsets, metrics
<1>9. CASE CloseClient(m)
  BY <1>9 DEF CloseClient, Release, metrics, script
<1>10. CASE Close(m)
  BY <1>10 DEF Close, FlushHooks, group, broker, offsets, script
<1>11. CASE StartVU(m) \/ CancelVU(m)
  BY <1>11 DEF StartVU, CancelVU, group, broker, offsets, metrics, script
<1>12. CASE Deadline(m)
  <2>1. call' = [call EXCEPT ![m] = Expired(call[m])]
    BY <1>12, CallEffects
  <2> QED
    BY <1>12, <2>1 DEF Deadline, group, broker, offsets, metrics, script
<1>13. CASE Hook(m)
  BY <1>13 DEF Hook, group, broker, offsets, script
<1>14. CASE Die(m)
  BY <1>14 DEF Die, Release, metrics
<1> QED
  BY <1>1, <1>2, <1>3, <1>4, <1>5, <1>6, <1>7, <1>8, <1>9, <1>10, <1>11, <1>12, <1>13, <1>14
     DEF MemberStep, ReaderStep

(* What holds of each reader by itself. *)
SelfInv(m) == CallInv(m) /\ HookInv(m) /\ LifeInv(m)

(* It depends on the reader's own state, its kind, and whether it owns the
   partition. *)
LEMMA SelfFrame ==
  ASSUME NEW q, SelfInv(q), UNCHANGED Own(q), owner' = q => owner = q,
         q \in direct' <=> q \in direct
  PROVE  SelfInv(q)'
  BY DEF SelfInv, CallInv, InCall, HookInv, LifeInv, ClientOpen, Own

(* A step that leaves the partition and the reader's kind as they are. *)
LEMMA LifeFrame ==
  ASSUME NEW m, LifeInv(m), UNCHANGED <<owner, direct, closeCommit[m], returned[m]>>,
         \/ pc'[m] = pc[m]
         \/ pc[m] \in Steps \ {"leaving", "closed", "dead"}
            /\ pc'[m] \in Steps \ {"unopened", "leaving", "closed", "dead"}
  PROVE  LifeInv(m)'
  BY DEF LifeInv, ClientOpen, Steps

(* Its own steps keep it: got never passes limit, a VU that is done stays so,
   and the checks of consume come in an order that reports a stopped VU as
   cancelled. *)
LEMMA SelfStep ==
  ASSUME TypeOK, NEW m \in Members, SelfInv(m), MemberStep(m)
  PROVE  SelfInv(m)'
<1> USE DEF GoTo
<1>0. /\ call \in [Members -> Calls] /\ call[m] \in Calls
      /\ pc \in [Members -> Steps] /\ pc[m] \in Steps /\ m # NoMember
      /\ vu \in [Members -> {"init", "live", "done"}]
      /\ hooks \in [Members -> Nat] /\ lateHooks \in [Members -> Nat]
      /\ closeCommit \in [Members -> {"none", "ok", "failed"}]
  BY MembersAssumption DEF TypeOK
<1>1. CASE Open(m)
  BY <1>0, <1>1
     DEF Open, group, broker, metrics, script, SelfInv, CallInv, InCall, HookInv, LifeInv, ClientOpen
<1>2. ASSUME NEW offset \in DirectOffsets, OpenDirect(m, offset) PROVE SelfInv(m)'
  BY <1>0, <1>2
     DEF OpenDirect, AssignDirect, metrics, SelfInv, CallInv, InCall, HookInv, LifeInv, ClientOpen
<1>3. ASSUME NEW args \in ConsumeArgs, Consume(m, args) PROVE SelfInv(m)'
  <2>1. /\ pc[m] = "idle" /\ pc'[m] = "polling"
        /\ UNCHANGED <<vu, owner, direct, closeCommit, returned>>
    BY <1>0, <1>3 DEF Consume, group, broker, script
  <2>2. call'[m].got <= call'[m].limit /\ (call'[m].late => vu[m] = "done")
    <3>1. call[m].got = 0
      BY <2>1 DEF SelfInv, CallInv, InCall, NoCall
    <3>2. args.limit \in Nat
      BY ArgsAssumption
    <3>3. call'[m].got = call[m].got /\ call'[m].limit = args.limit
      BY <1>0, <1>3 DEF Consume, Calls
    <3>4. call'[m].late => vu[m] = "done"
      BY <1>0, <1>3 DEF Consume, Calls
    <3> QED
      BY <3>1, <3>2, <3>3, <3>4
  <2>3. CallInv(m)' /\ HookInv(m)'
    BY <2>1, <2>2 DEF CallInv, InCall, HookInv
  <2> QED
    BY <2>1, <2>3, LifeFrame DEF SelfInv, Steps
<1>4. ASSUME NEW n \in 0 .. MaxLog, NEW e \in {"none", "fatal", "contextual"}, Poll(m, n, e)
      PROVE  SelfInv(m)'
  <2>1. /\ call'[m] = Got(call[m], n, Batch(m, n), e)
        /\ pc[m] = "polling" /\ pc'[m] = "polled" /\ n <= PollMax(m)
        /\ UNCHANGED <<vu, owner, direct, closeCommit, returned>>
    <3>1. call' = [call EXCEPT ![m] = Got(call[m], n, Batch(m, n), e)]
      BY <1>4, CallEffects
    <3>2. call'[m] = Got(call[m], n, Batch(m, n), e)
      BY <1>0, <3>1
    <3> QED
      BY <1>0, <1>4, <3>2 DEF Poll, Polled, broker, script
  <2>2. call'[m].got <= call'[m].limit
    <3>1. call[m].got \in Nat /\ call[m].limit \in Nat
      BY <1>0 DEF Calls
    <3>2. call'[m].got = call[m].got + n /\ call'[m].limit = call[m].limit
      BY <1>0, <2>1, UpdateFields
    <3> QED
      BY <2>1, <3>1, <3>2 DEF PollMax
  <2>3. call'[m].late = call[m].late
    BY <1>0, <2>1, UpdateFields
  <2>4. CallInv(m)' /\ HookInv(m)'
    BY <2>1, <2>2, <2>3 DEF SelfInv, CallInv, InCall, HookInv
  <2> QED
    BY <2>1, <2>4, LifeFrame DEF SelfInv, Steps
<1>5. CASE AfterPoll(m)
  <2>1. /\ pc[m] = "polled" /\ pc'[m] \in {"returning", "ending", "polling"}
        /\ call'[m] = call[m] \/ call'[m] = Judged(call[m], "failed")
        /\ pc'[m] = "returning" => vu[m] # "done"
        /\ UNCHANGED <<vu, owner, direct, closeCommit, returned>>
    BY <1>0, <1>5, CallEffects DEF AfterPoll, Fails, ContextEnded, group, broker, script
  <2>2. /\ call'[m].got = call[m].got /\ call'[m].limit = call[m].limit
        /\ call'[m].late = call[m].late
    BY <1>0, <2>1, UpdateFields
  <2>3. CallInv(m)' /\ HookInv(m)'
    BY <2>1, <2>2 DEF SelfInv, CallInv, InCall, HookInv
  <2> QED
    BY <2>1, <2>3, LifeFrame DEF SelfInv, Steps
<1>6. CASE Decide(m)
  <2>1. /\ pc[m] = "ending" /\ pc'[m] = "returning"
        /\ UNCHANGED <<vu, owner, direct, closeCommit, returned>>
    BY <1>0, <1>6 DEF Decide, group, broker, script
  <2>2. /\ call'[m].got = call[m].got /\ call'[m].limit = call[m].limit
        /\ call'[m].late = call[m].late
    BY <1>0, <1>6, CallEffects, UpdateFields
  <2>3. call'[m].verdict = IF call[m].got < call[m].limit /\ ContextEnded(m)
                             THEN Incomplete(m) ELSE "success"
    BY <1>0, <1>6 DEF Decide, Calls
  <2>4. call[m].got \in Nat /\ call[m].limit \in Nat
    BY <1>0 DEF Calls
  <2>5. ASSUME vu[m] = "done"
        PROVE  \/ call'[m].verdict = "cancelled"
               \/ call'[m].verdict = "success" /\ call[m].got = call[m].limit
    BY <2>3, <2>4, <2>5 DEF ContextEnded, Incomplete, SelfInv, CallInv
  <2>6. CallInv(m)' /\ HookInv(m)'
    BY <2>1, <2>2, <2>5 DEF SelfInv, CallInv, InCall, HookInv
  <2> QED
    BY <2>1, <2>6, LifeFrame DEF SelfInv, Steps
<1>7. CASE Return(m)
  <2>1. /\ pc[m] = "returning" /\ pc'[m] = "idle" /\ call'[m] = NoCall
        /\ UNCHANGED <<vu, owner, direct, closeCommit>>
    BY <1>0, <1>7 DEF Return, group, broker
  <2>2. CallInv(m)' /\ HookInv(m)'
    BY <2>1 DEF CallInv, InCall, HookInv, NoCall
  <2>3. LifeInv(m)'
    BY <2>1 DEF SelfInv, LifeInv, ClientOpen
  <2> QED
    BY <2>2, <2>3 DEF SelfInv
<1>8. CASE Close(m)
  <2>1. /\ pc[m] = "idle" /\ pc'[m] = IF m \in direct THEN "leaving" ELSE "closing"
        /\ UNCHANGED <<vu, owner, direct, closeCommit, returned, call, lateHooks>>
        /\ vu[m] = "live" => hooks'[m] = 0
        /\ lateHooks[m] \in Nat
    BY <1>0, <1>8 DEF Close, FlushHooks, group, broker, script
  <2>2. CallInv(m)' /\ HookInv(m)'
    BY <2>1 DEF SelfInv, CallInv, InCall, HookInv
  <2>3. LifeInv(m)'
    BY <2>1 DEF SelfInv, LifeInv, ClientOpen
  <2> QED
    BY <2>2, <2>3 DEF SelfInv
<1>9. ASSUME NEW ok \in BOOLEAN, CommitOnClose(m, ok) PROVE SelfInv(m)'
  <2>1. /\ pc[m] = "closing" /\ pc'[m] = "leaving" /\ closeCommit'[m] # "none"
        /\ UNCHANGED <<vu, owner, direct, returned, call, hooks, lateHooks>>
    BY <1>0, <1>9 DEF CommitOnClose, metrics
  <2> QED
    BY <2>1 DEF SelfInv, CallInv, InCall, HookInv, LifeInv, ClientOpen
<1>10. CASE CloseClient(m)
  <2>1. /\ pc[m] = "leaving" /\ pc'[m] = "closed" /\ owner' # m
        /\ UNCHANGED <<vu, direct, returned, call, hooks, lateHooks, closeCommit>>
    BY <1>0, <1>10 DEF CloseClient, Release, metrics, script
  <2> QED
    BY <2>1 DEF SelfInv, CallInv, InCall, HookInv, LifeInv, ClientOpen
<1>11. CASE StartVU(m) \/ CancelVU(m)
  <2>1. /\ UNCHANGED <<pc, owner, direct, returned, call, hooks, lateHooks, closeCommit>>
        /\ vu'[m] = "done" \/ (vu[m] # "done" /\ pc[m] \in {"unopened", "idle"})
    BY <1>0, <1>11 DEF StartVU, CancelVU, group, broker, metrics, script
  <2> QED
    BY <2>1 DEF SelfInv, CallInv, InCall, HookInv, LifeInv, ClientOpen
<1>12. CASE Deadline(m)
  <2>1. /\ pc[m] \in {"polling", "polled", "ending"} /\ call'[m] = Expired(call[m])
        /\ UNCHANGED <<pc, vu, owner, direct, returned, hooks, lateHooks, closeCommit>>
    <3>1. call' = [call EXCEPT ![m] = Expired(call[m])]
      BY <1>12, CallEffects
    <3>2. /\ pc[m] \in {"polling", "polled", "ending"}
          /\ UNCHANGED <<pc, vu, owner, direct, returned, hooks, lateHooks, closeCommit>>
      BY <1>12 DEF Deadline, group, broker, metrics, script
    <3> QED BY <1>0, <3>1, <3>2
  <2>2. /\ call'[m].got = call[m].got /\ call'[m].limit = call[m].limit
        /\ call'[m].late = call[m].late
    BY <1>0, <2>1, UpdateFields
  <2> QED
    BY <2>1, <2>2 DEF SelfInv, CallInv, InCall, HookInv, LifeInv, ClientOpen
<1>13. CASE Hook(m)
  <2>1. /\ UNCHANGED <<pc, vu, owner, direct, returned, call, closeCommit>>
        /\ pc[m] # "closed" /\ hooks'[m] = hooks[m] + 1
        /\ lateHooks'[m] = IF pc[m] \in {"closing", "leaving"} THEN lateHooks[m] + 1
                                                              ELSE lateHooks[m]
        /\ hooks[m] \in Nat /\ lateHooks[m] \in Nat
    BY <1>0, <1>13 DEF Hook, ClientOpen, group, broker, script
  <2>2. HookInv(m)'
    BY <2>1 DEF SelfInv, HookInv
  <2> QED
    BY <2>1, <2>2 DEF SelfInv, CallInv, InCall, LifeInv, ClientOpen
<1>14. CASE Die(m)
  <2>1. /\ pc[m] # "unopened" /\ pc'[m] = "dead" /\ owner' # m /\ call'[m] = NoCall
        /\ UNCHANGED <<vu, direct, returned, closeCommit>>
    BY <1>0, <1>14 DEF Die, Release, ClientOpen, metrics
  <2> QED
    BY <2>1 DEF SelfInv, CallInv, InCall, HookInv, LifeInv, ClientOpen, NoCall
<1> QED
  BY <1>1, <1>2, <1>3, <1>4, <1>5, <1>6, <1>7, <1>8, <1>9, <1>10, <1>11, <1>12, <1>13, <1>14
     DEF MemberStep, ReaderStep

AllSelfInv == \A m \in Members : SelfInv(m)

(* A step of the partition changes no reader's own state. *)
LEMMA SelfNext == TypeOK /\ AllSelfInv /\ [Next]_vars => AllSelfInv'
<1> SUFFICES ASSUME TypeOK, AllSelfInv, [Next]_vars, NEW q \in Members PROVE SelfInv(q)'
  BY DEF AllSelfInv
<1>1. SelfInv(q)
  BY DEF AllSelfInv
<1>2. CASE Group
  <2>1. UNCHANGED Own(q)
    BY <1>2 DEF Group, metrics, script, Own
  <2>2. CASE owner' = q /\ owner # q
    <3>1. ClientOpen(q) /\ q \notin direct /\ direct' = direct
      BY <1>2, <2>2, MembersAssumption
         DEF Group, Append1, Assign, Evict, Release, AutoCommit, offsets
    <3> QED
      BY <1>1, <2>1, <3>1 DEF SelfInv, CallInv, InCall, HookInv, LifeInv, ClientOpen, Own
  <2>3. CASE owner' = q => owner = q
    <3>1. direct' = direct
      BY <1>2 DEF Group, Append1, Assign, Evict, AutoCommit
    <3> QED
      BY <1>1, <2>1, <2>3, <3>1, SelfFrame
  <2> QED
    BY <2>2, <2>3
<1>3. ASSUME NEW m \in Members, MemberStep(m) PROVE SelfInv(q)'
  <2>1. CASE q = m
    BY <1>1, <1>3, <2>1, SelfStep
  <2>2. CASE q # m
    <3>1. UNCHANGED Own(q) /\ (owner' = q => owner = q) /\ (q \in direct' <=> q \in direct)
      BY <1>3, <2>2, OneMember, MembersAssumption DEF Alone
    <3> QED
      BY <1>1, <3>1, SelfFrame
  <2> QED
    BY <2>1, <2>2
<1>4. CASE UNCHANGED vars
  <2>1. UNCHANGED Own(q) /\ owner' = owner /\ direct' = direct
    BY <1>4 DEF vars, group, broker, metrics, script, Own
  <2> QED
    BY <1>1, <2>1, SelfFrame
<1> QED
  BY <1>2, <1>3, <1>4 DEF Next, MemberStep

-----------------------------------------------------------------------------
(* What was taken, and what was committed. *)

(* A step that moves no offset: it may only start a client or end a VU. *)
Quiet ==
  /\ UNCHANGED <<committed, owner, direct, evicted, skipped, offsets, returned, discarded,
                 from, closeCommit, counted>>
  /\ \A q \in Members :
       /\ UNCHANGED <<call[q].hand, call[q].got>>
       /\ vu[q] = "done" => vu'[q] = "done"
       /\ pc'[q] = "dead" <=> pc[q] = "dead"
       /\ pc'[q] = "leaving" => pc[q] = "leaving" \/ q \in direct
       /\ ClientOpen(q)' => ClientOpen(q) \/ pc[q] = "unopened"

(* The steps that are not quiet. *)
Moving ==
  \E m \in Members :
    \/ /\ \/ ClientOpen(m) /\ pc[m] # "leaving" /\ Assign(m)
          \/ Evict(m) \/ AutoCommit(m)
       /\ UNCHANGED <<pc, vu, call, metrics, script>>
    \/ /\ \/ \E offset \in DirectOffsets : OpenDirect(m, offset)
          \/ \E n \in 0 .. MaxLog, e \in {"none", "fatal", "contextual"} : Poll(m, n, e)
          \/ Return(m) \/ CloseClient(m) \/ Die(m)
          \/ \E ok \in BOOLEAN : CommitOnClose(m, ok)
       /\ MemberStep(m)

(* All the others are. *)
LEMMA QuietSteps == TypeOK /\ [Next]_vars => Quiet \/ Moving
<1> SUFFICES ASSUME TypeOK, [Next]_vars, ~Moving PROVE Quiet
  OBVIOUS
<1> USE DEF GoTo, Quiet, ClientOpen
<1>0. /\ call \in [Members -> Calls] /\ pc \in [Members -> Steps]
      /\ vu \in [Members -> {"init", "live", "done"}]
      /\ \A q \in Members : call[q] \in Calls
  BY DEF TypeOK
<1>1. CASE Append1 /\ UNCHANGED <<pc, vu, call, metrics, script>>
  BY <1>1 DEF Append1, offsets, metrics, script
<1>2. ASSUME NEW m \in Members, Open(m) PROVE Quiet
  BY <1>0, <1>2 DEF Open, group, broker, offsets, metrics, script
<1>3. ASSUME NEW m \in Members, NEW args \in ConsumeArgs, Consume(m, args) PROVE Quiet
  <2>1. \A q \in Members : UNCHANGED <<call[q].hand, call[q].got>>
    BY <1>0, <1>3 DEF Consume, Calls
  <2> QED
    BY <1>0, <1>3, <2>1 DEF Consume, group, broker, offsets, metrics, script
<1>4. ASSUME NEW m \in Members, AfterPoll(m) PROVE Quiet
  <2>1. \A q \in Members : UNCHANGED <<call[q].hand, call[q].got>>
    BY <1>0, <1>4, CallEffects, UpdateFields
  <2> QED
    BY <1>0, <1>4, <2>1 DEF AfterPoll, group, broker, offsets, metrics, script
<1>5. ASSUME NEW m \in Members, Decide(m) PROVE Quiet
  <2>1. \A q \in Members : UNCHANGED <<call[q].hand, call[q].got>>
    BY <1>0, <1>5, CallEffects, UpdateFields
  <2> QED
    BY <1>0, <1>5, <2>1 DEF Decide, group, broker, offsets, metrics, script
<1>6. ASSUME NEW m \in Members, Close(m) PROVE Quiet
  BY <1>0, <1>6 DEF Close, group, broker, offsets, script
<1>7. ASSUME NEW m \in Members, StartVU(m) \/ CancelVU(m) PROVE Quiet
  BY <1>0, <1>7 DEF StartVU, CancelVU, group, broker, offsets, metrics, script
<1>8. ASSUME NEW m \in Members, Deadline(m) PROVE Quiet
  <2>1. \A q \in Members : UNCHANGED <<call[q].hand, call[q].got>>
    BY <1>0, <1>8, CallEffects, UpdateFields
  <2> QED
    BY <1>0, <1>8, <2>1 DEF Deadline, group, broker, offsets, metrics, script
<1>9. ASSUME NEW m \in Members, Hook(m) PROVE Quiet
  BY <1>0, <1>9 DEF Hook, group, broker, offsets, script
<1>10. CASE UNCHANGED vars
  BY <1>10 DEF vars, group, broker, offsets, metrics, script
<1> QED
  BY <1>1, <1>2, <1>3, <1>4, <1>5, <1>6, <1>7, <1>8, <1>9, <1>10
     DEF Next, Group, MemberStep, ReaderStep, Moving

(* The invariant of the records taken, committed and counted. *)
PartInv(m) == OwnerInv(m) /\ DirectInv(m) /\ TakenInv(m) /\ CountInv(m)
HistInv == NoSilentLoss /\ Disjoint /\ \A m \in Members : PartInv(m)

(* A quiet step keeps it. *)
LEMMA HistQuiet == AllSelfInv /\ HistInv /\ Quiet => HistInv'
<1> SUFFICES ASSUME AllSelfInv, HistInv, Quiet PROVE HistInv'
  OBVIOUS
<1>1. \A q \in Members : Taken(q)' = Taken(q)
  BY DEF Quiet, Taken
<1>2. \A o : Accounted(o)' <=> Accounted(o)
  BY <1>1 DEF Quiet, Accounted
<1>3. \A q \in Members : LeftUncommitted(q)' <=> LeftUncommitted(q)
  BY DEF Quiet, LeftUncommitted
<1>4. \A q \in Members : pc[q] = "unopened" => Taken(q) = {} /\ q \notin direct
  BY DEF AllSelfInv, SelfInv, CallInv, InCall, LifeInv, Taken, NoCall
<1>5. NoSilentLoss' /\ Disjoint'
  BY <1>1, <1>2, <1>3 DEF Quiet, HistInv, NoSilentLoss, Disjoint
<1>6. ASSUME NEW q \in Members PROVE PartInv(q)'
  <2>1. PartInv(q)
    BY DEF HistInv
  <2>2. OwnerInv(q)'
    BY <1>2, <2>1 DEF Quiet, offsets, PartInv, OwnerInv
  <2>3. DirectInv(q)'
    BY <1>1, <1>4, <2>1 DEF Quiet, offsets, PartInv, DirectInv
  <2>4. TakenInv(q)'
    BY <1>1, <1>3, <2>1 DEF Quiet, offsets, PartInv, TakenInv
  <2>5. CountInv(q)'
    BY <1>1, <1>4, <2>1 DEF Quiet, offsets, PartInv, CountInv
  <2> QED
    BY <2>2, <2>3, <2>4, <2>5 DEF PartInv
<1> QED
  BY <1>5, <1>6 DEF HistInv

(* What a moving step of m does not touch: the other readers, and the commit
   unless m is the owner. *)
Elsewhere(m) ==
  /\ \A q \in Members \ {m} :
       /\ UNCHANGED Own(q) /\ UNCHANGED Held(q)
       /\ q \in direct' <=> q \in direct
       /\ q \in evicted' <=> q \in evicted
       /\ owner' = q <=> owner = q
  /\ evicted \subseteq evicted' /\ discarded \subseteq discarded'
  /\ committed' >= committed
  /\ committed' = committed \/ (owner = m /\ committed' <= pos[m])
  /\ \A o \in Offsets : Accounted(o) => Accounted(o)'

(* Then the invariant is kept if it is for m. *)
LEMMA HistOthers ==
  ASSUME TypeOK, HistInv, NEW m \in Members, Elsewhere(m), PartInv(m)', Disjoint',
         committed' \in Int
  PROVE  HistInv'
<1>1. NoSilentLoss'
  <2> SUFFICES ASSUME NEW o \in Offsets, o < committed' PROVE Accounted(o)'
    BY DEF NoSilentLoss
  <2>1. Accounted(o)
    <3>1. CASE committed' = committed
      BY <3>1 DEF HistInv, NoSilentLoss
    <3>2. CASE owner = m /\ committed' <= pos[m]
      <4>1. o < pos[m]
        BY <3>2 DEF TypeOK, GroupTypeOK, Offsets
      <4> QED
        BY <3>2, <4>1 DEF HistInv, PartInv, OwnerInv
    <3> QED
      BY <3>1, <3>2 DEF Elsewhere
  <2> QED
    BY <2>1 DEF Elsewhere
<1>2. ASSUME NEW q \in Members \ {m} PROVE PartInv(q)'
  <2>1. PartInv(q)
    BY DEF HistInv
  <2>2. Taken(q)' = Taken(q) /\ LeftUncommitted(q)' = LeftUncommitted(q)
        /\ ClientOpen(q)' = ClientOpen(q) /\ UNCHANGED Own(q) /\ UNCHANGED Held(q)
    BY DEF Elsewhere, Own, Taken, LeftUncommitted, ClientOpen
  <2>3. OwnerInv(q)'
    BY <2>1, <2>2 DEF PartInv, OwnerInv, Elsewhere, Held
  <2>4. DirectInv(q)'
    BY <2>1, <2>2 DEF PartInv, DirectInv, Elsewhere, Own, Held
  <2>5. TakenInv(q)'
    <3>1. \A o \in Taken(q) : o \in Int
      BY DEF TypeOK, Calls, Taken, Offsets
    <3>2. \A o \in Taken(q) : o < committed => o < committed'
      BY <3>1 DEF Elsewhere, TypeOK, GroupTypeOK, Offsets
    <3> QED
      BY <2>1, <2>2, <3>2 DEF PartInv, TakenInv, Elsewhere, Own, Held
  <2>6. CountInv(q)'
    BY <2>1, <2>2 DEF PartInv, CountInv, Elsewhere, Own, Held
  <2> QED
    BY <2>3, <2>4, <2>5, <2>6 DEF PartInv
<1> QED
  BY <1>1, <1>2 DEF HistInv

(* A record stays accounted for while readers keep what they took or discard
   it, and only one that took nothing turns to direct reading. *)
LEMMA AccountedKept ==
  ASSUME skipped \subseteq skipped', discarded \subseteq discarded',
         \A q \in Members \ direct :
           \/ Taken(q) = {}
           \/ q \notin direct' /\ Taken(q) \subseteq Taken(q)' \cup discarded'
  PROVE  \A o \in Offsets : Accounted(o) => Accounted(o)'
<1> SUFFICES ASSUME NEW o \in Offsets, Accounted(o) PROVE Accounted(o)'
  OBVIOUS
<1>1. CASE o \in skipped \cup discarded
  BY <1>1 DEF Accounted
<1>2. ASSUME NEW q \in Members \ direct, o \in Taken(q) PROVE Accounted(o)'
  BY <1>2 DEF Accounted
<1> QED
  BY <1>1, <1>2 DEF Accounted

(* Where nobody takes anything new and nobody is redeemed, nothing is taken
   twice. *)
LEMMA DisjointKept ==
  ASSUME Disjoint, direct \subseteq direct',
         \A q \in Members : /\ Taken(q)' \subseteq Taken(q)
                            /\ LeftUncommitted(q) => LeftUncommitted(q)'
  PROVE  Disjoint'
<1> SUFFICES ASSUME NEW m \in Members \ direct', NEW q \in Members \ direct', m # q,
                    ~LeftUncommitted(m)', ~LeftUncommitted(q)'
             PROVE  Taken(m)' \cap Taken(q)' = {}
  BY DEF Disjoint
<1>1. Taken(m) \cap Taken(q) = {}
  BY DEF Disjoint
<1> QED
  BY <1>1

(* A step of m alone is elsewhere to the others. *)
LEMMA AloneElsewhere ==
  ASSUME NEW m \in Members, Alone(m), committed' >= committed,
         committed' = committed \/ (owner = m /\ committed' <= pos[m]),
         \A o \in Offsets : Accounted(o) => Accounted(o)'
  PROVE  Elsewhere(m)
  BY MembersAssumption DEF Alone, Elsewhere

(* A commit of m is accepted from the owner, and is of what m polled. *)
LEMMA Commits ==
  ASSUME TypeOK, NEW m \in Members, OwnerInv(m), NEW x \in {-1} \cup Offsets, CommitTo(m, x),
         owner = m => x <= pos[m]
  PROVE  /\ committed' \in Int /\ committed' >= committed
         /\ committed' = committed \/ (owner = m /\ committed' <= pos[m])
         /\ owner = m => committed' >= x /\ committed' <= pos[m]
  BY LogAssumption DEF TypeOK, GroupTypeOK, Offsets, CommitTo, OwnerInv

(* A new owner starts at the commit, or at the group's chosen start, before
   which everything counts as skipped. *)
LEMMA HistAssign ==
  ASSUME TypeOK, AllSelfInv, HistInv, NEW m \in Members, Assign(m), ClientOpen(m),
         pc[m] # "leaving", UNCHANGED <<pc, vu, call, metrics, script>>
  PROVE  HistInv'
<1>1. /\ owner = NoMember /\ owner' = m /\ m \notin direct /\ committed' = committed
      /\ UNCHANGED <<direct, evicted>> /\ m # NoMember
      /\ pos'[m] = ResumeAt /\ head'[m] = committed /\ dirty'[m] = committed
      /\ skipped' = IF committed >= 0 THEN skipped ELSE skipped \cup 0 .. ResumeAt - 1
      /\ \A q \in Members \ {m} : UNCHANGED Held(q)
  BY MembersAssumption DEF Assign, TypeOK, GroupTypeOK, Held
<1>2. UNCHANGED <<pc, vu, call, hooks, lateHooks, counted, returned, discarded, from, closeCommit>>
  BY DEF metrics, script
<1>3. \A q \in Members : /\ Taken(q)' = Taken(q)
                         /\ LeftUncommitted(q)' = LeftUncommitted(q)
                         /\ ClientOpen(q)' = ClientOpen(q)
  BY <1>1, <1>2 DEF Taken, LeftUncommitted, ClientOpen
<1>4. \A o \in Offsets : Accounted(o) => Accounted(o)'
  BY <1>1, <1>2, <1>3, AccountedKept
<1>5. committed \in Int /\ ResumeAt \in Int /\ committed <= ResumeAt
  BY LogAssumption DEF TypeOK, GroupTypeOK, Offsets, ResumeAt
<1>6. PartInv(m)
  BY DEF HistInv
<1>7. OwnerInv(m)'
  <2>1. ASSUME NEW o \in Offsets, o < ResumeAt PROVE Accounted(o)'
    <3>1. CASE committed >= 0
      BY <1>4, <2>1, <3>1 DEF ResumeAt, HistInv, NoSilentLoss
    <3>2. CASE ~(committed >= 0)
      <4>1. o \in 0 .. ResumeAt - 1
        BY <1>5, <2>1, LogAssumption DEF Offsets
      <4>2. o \in skipped'
        BY <1>1, <3>2, <4>1
      <4> QED
        BY <4>2 DEF Accounted
    <3> QED
      BY <3>1, <3>2
  <2> QED
    BY <1>1, <1>5, <2>1 DEF OwnerInv
<1>8. DirectInv(m)'
  BY <1>1 DEF DirectInv
<1>9. TakenInv(m)'
  BY <1>1, <1>2, <1>3, <1>6 DEF PartInv, TakenInv
<1>10. CountInv(m)'
  BY <1>1, <1>2, <1>3, <1>6 DEF PartInv, CountInv
<1>11. Disjoint'
  BY <1>1, <1>3, DisjointKept DEF HistInv
<1>12. Elsewhere(m)
  BY <1>1, <1>2, <1>4, <1>5, MembersAssumption DEF Elsewhere, Own
<1> QED
  BY <1>1, <1>5, <1>7, <1>8, <1>9, <1>10, <1>11, <1>12, HistOthers DEF PartInv

(* An evicted member may have left records uncommitted. *)
LEMMA HistEvict ==
  ASSUME TypeOK, AllSelfInv, HistInv, NEW m \in Members, Evict(m),
         UNCHANGED <<pc, vu, call, metrics, script>>
  PROVE  HistInv'
<1>1. /\ owner = m /\ owner' = NoMember /\ committed' = committed /\ m # NoMember
      /\ UNCHANGED <<direct, skipped>> /\ evicted' = evicted \cup {m}
      /\ \A q \in Members \ {m} : UNCHANGED Held(q)
  BY MembersAssumption DEF Evict, Release, TypeOK, GroupTypeOK, Held
<1>2. UNCHANGED <<pc, vu, call, hooks, lateHooks, counted, returned, discarded, from, closeCommit>>
  BY DEF metrics, script
<1>3. \A q \in Members : /\ Taken(q)' = Taken(q)
                         /\ LeftUncommitted(q) => LeftUncommitted(q)'
  BY <1>1, <1>2 DEF Taken, LeftUncommitted
<1>4. \A o \in Offsets : Accounted(o) => Accounted(o)'
  BY <1>1, <1>2, <1>3, AccountedKept
<1>5. committed \in Int
  BY LogAssumption DEF TypeOK, GroupTypeOK, Offsets
<1>6. m \notin direct
  BY <1>1 DEF AllSelfInv, SelfInv, LifeInv
<1>7. PartInv(m)'
  BY <1>1, <1>6 DEF PartInv, OwnerInv, DirectInv, TakenInv, LeftUncommitted, CountInv
<1>8. Disjoint'
  BY <1>1, <1>3, DisjointKept DEF HistInv
<1>9. Elsewhere(m)
  BY <1>1, <1>2, <1>4, <1>5, MembersAssumption DEF Elsewhere, Own
<1> QED
  BY <1>1, <1>5, <1>7, <1>8, <1>9, HistOthers

(* Autocommit is of what an earlier poll handed out. *)
LEMMA HistAutoCommit ==
  ASSUME TypeOK, AllSelfInv, HistInv, NEW m \in Members, AutoCommit(m),
         UNCHANGED <<pc, vu, call, metrics, script>>
  PROVE  HistInv'
<1>1. /\ owner = m /\ CommitTo(m, head[m])
      /\ UNCHANGED <<owner, direct, evicted, skipped, pos, head, dirty>>
  BY DEF AutoCommit, offsets
<1>2. UNCHANGED <<pc, vu, call, hooks, lateHooks, counted, returned, discarded, from, closeCommit>>
  BY DEF metrics, script
<1>3. \A q \in Members : /\ Taken(q)' = Taken(q)
                         /\ LeftUncommitted(q)' = LeftUncommitted(q)
                         /\ ClientOpen(q)' = ClientOpen(q)
  BY <1>1, <1>2 DEF Taken, LeftUncommitted, ClientOpen
<1>4. \A o \in Offsets : Accounted(o) => Accounted(o)'
  BY <1>1, <1>2, <1>3, AccountedKept
<1>5. PartInv(m)
  BY DEF HistInv
<1>6. /\ committed' \in Int /\ committed' >= committed
      /\ committed' <= pos[m]
  <2>1. head[m] \in {-1} \cup Offsets /\ head[m] <= pos[m]
    BY <1>1, <1>5, LogAssumption DEF TypeOK, GroupTypeOK, Offsets, PartInv, OwnerInv
  <2> QED
    BY <1>1, <1>5, <2>1, Commits DEF PartInv
<1>7. OwnerInv(m)'
  BY <1>1, <1>4, <1>5, <1>6 DEF PartInv, OwnerInv
<1>8. DirectInv(m)' /\ CountInv(m)'
  BY <1>1, <1>2, <1>3, <1>5 DEF PartInv, DirectInv, CountInv
<1>9. TakenInv(m)'
  <2>1. \A o \in Taken(m) : o < committed => o < committed'
    BY <1>6 DEF TypeOK, GroupTypeOK, Calls, Taken, Offsets
  <2> QED
    BY <1>1, <1>2, <1>3, <1>5, <2>1 DEF PartInv, TakenInv
<1>10. Disjoint'
  BY <1>1, <1>3, DisjointKept DEF HistInv
<1>11. Elsewhere(m)
  BY <1>1, <1>2, <1>4, <1>6 DEF Elsewhere, Own, Held
<1> QED
  BY <1>6, <1>7, <1>8, <1>9, <1>10, <1>11, HistOthers DEF PartInv

(* A direct reader starts empty-handed, where it was asked to. *)
LEMMA HistOpenDirect ==
  ASSUME TypeOK, AllSelfInv, HistInv, NEW m \in Members, NEW offset \in DirectOffsets,
         OpenDirect(m, offset), MemberStep(m)
  PROVE  HistInv'
<1>1. /\ pc[m] = "unopened" /\ pc'[m] = "idle" /\ direct' = direct \cup {m}
      /\ pos'[m] = DirectOffset(offset) /\ from'[m] = DirectOffset(offset)
      /\ DirectOffset(offset) \in Int
      /\ UNCHANGED <<committed, owner, evicted, skipped, head, dirty, vu, call, counted,
                     returned, discarded, closeCommit>>
  BY DEF OpenDirect, AssignDirect, DirectOffset, GoTo, TypeOK, GroupTypeOK, metrics
<1>2. Taken(m) = {} /\ owner # m
  BY <1>1 DEF AllSelfInv, SelfInv, CallInv, InCall, LifeInv, ClientOpen, NoCall, Taken
<1>3. Alone(m)
  BY OneMember
<1>4. \A q \in Members : /\ Taken(q)' = Taken(q)
                         /\ LeftUncommitted(q) => LeftUncommitted(q)'
  BY <1>1, <1>3 DEF Taken, LeftUncommitted, Alone, Own
<1>5. \A o \in Offsets : Accounted(o) => Accounted(o)'
  BY <1>1, <1>2, <1>3, <1>4, AccountedKept DEF Alone
<1>6. committed \in Int
  BY LogAssumption DEF TypeOK, GroupTypeOK, Offsets
<1>7. PartInv(m)
  BY DEF HistInv
<1>8. OwnerInv(m)' /\ TakenInv(m)'
  BY <1>1, <1>2 DEF OwnerInv, TakenInv
<1>9. DirectInv(m)'
  <2>1. from'[m] <= pos'[m] /\ from'[m] .. pos'[m] - 1 = {}
    BY <1>1
  <2> QED
    BY <1>2, <1>4, <2>1 DEF DirectInv
<1>10. CountInv(m)'
  BY <1>1, <1>2, <1>4, <1>7 DEF PartInv, CountInv
<1>11. Disjoint'
  BY <1>1, <1>4, DisjointKept DEF HistInv
<1>12. Elsewhere(m)
  BY <1>1, <1>3, <1>5, <1>6, AloneElsewhere
<1> QED
  BY <1>1, <1>6, <1>8, <1>9, <1>10, <1>11, <1>12, HistOthers DEF PartInv

(* What a poll does to the reader's offsets and its call. *)
LEMMA PollEffect ==
  ASSUME TypeOK, NEW m \in Members, NEW n \in 0 .. MaxLog,
         NEW e \in {"none", "fatal", "contextual"}, Poll(m, n, e)
  PROVE  /\ n \in Nat /\ pos[m] \in Nat /\ committed \in Int /\ dirty[m] \in Int
         /\ pos'[m] = pos[m] + n /\ head'[m] = dirty[m]
         /\ dirty'[m] = IF n > 0 THEN pos[m] + n ELSE dirty[m]
         /\ call'[m].hand = call[m].hand \cup Batch(m, n)
         /\ call'[m].got = call[m].got + n
         /\ n > 0 => owner = m \/ m \in direct
         /\ pc[m] = "polling" /\ pc'[m] = "polled"
         /\ UNCHANGED <<committed, owner, direct, evicted, skipped, vu, counted, returned,
                        discarded, from, closeCommit>>
<1>1. n \in Nat /\ pos[m] \in Nat /\ committed \in Int /\ dirty[m] \in Int
  BY LogAssumption DEF TypeOK, GroupTypeOK, Offsets
<1>2. /\ pos'[m] = pos[m] + n /\ head'[m] = dirty[m]
      /\ dirty'[m] = IF n > 0 THEN pos[m] + n ELSE dirty[m]
  BY DEF Poll, Polled, TypeOK, GroupTypeOK
<1>3. call'[m].hand = call[m].hand \cup Batch(m, n) /\ call'[m].got = call[m].got + n
  <2>1. call' = [call EXCEPT ![m] = Got(call[m], n, Batch(m, n), e)]
    BY CallEffects
  <2>2. call[m] \in Calls /\ call'[m] = Got(call[m], n, Batch(m, n), e)
    BY <2>1 DEF TypeOK
  <2> QED
    BY <2>2, UpdateFields
<1>4. n > 0 => owner = m \/ m \in direct
  BY <1>1 DEF Poll, Available
<1>5. /\ pc[m] = "polling" /\ pc'[m] = "polled"
      /\ UNCHANGED <<committed, owner, direct, evicted, skipped, vu, counted, returned,
                     discarded, from, closeCommit>>
  BY DEF Poll, Polled, GoTo, TypeOK, broker, metrics, script
<1> QED
  BY <1>1, <1>2, <1>3, <1>4, <1>5

(* Disjoint finite sets add up. *)
LEMMA DisjointUnion ==
  ASSUME NEW S, NEW T, IsFiniteSet(S), IsFiniteSet(T), S \cap T = {}
  PROVE  /\ Cardinality(S \cup T) = Cardinality(S) + Cardinality(T)
         /\ Cardinality(S) \in Nat /\ Cardinality(T) \in Nat
<1>1. Cardinality(S) \in Nat /\ Cardinality(T) \in Nat
  BY FS_CardinalityType
<1>2. Cardinality(S \cup T) = Cardinality(S) + Cardinality(T) - Cardinality(S \cap T)
  BY FS_Union
<1>3. Cardinality(S \cap T) = 0
  BY FS_EmptySet
<1> QED
  BY <1>1, <1>2, <1>3

(* What a reader took are finitely many offsets, and a poll of n is n of them. *)
LEMMA TakenFinite ==
  ASSUME TypeOK, NEW m \in Members
  PROVE  /\ call[m].hand \subseteq Offsets /\ returned[m] \subseteq Offsets
         /\ IsFiniteSet(call[m].hand) /\ IsFiniteSet(returned[m])
         /\ \A n \in Nat : IsFiniteSet(Batch(m, n)) /\ Cardinality(Batch(m, n)) = n
<1>1. call[m].hand \subseteq Offsets /\ returned[m] \subseteq Offsets
  BY DEF TypeOK, Calls
<1>2. IsFiniteSet(Offsets)
  BY LogAssumption, FS_Interval DEF Offsets
<1>3. ASSUME NEW n \in Nat PROVE IsFiniteSet(Batch(m, n)) /\ Cardinality(Batch(m, n)) = n
  <2>1. pos[m] \in Int
    BY LogAssumption DEF TypeOK, GroupTypeOK, Offsets
  <2>2. pos[m] + n - 1 \in Int
    BY <2>1
  <2>3. IsFiniteSet(pos[m] .. pos[m] + n - 1)
        /\ Cardinality(pos[m] .. pos[m] + n - 1)
             = IF pos[m] > pos[m] + n - 1 THEN 0 ELSE (pos[m] + n - 1) - pos[m] + 1
    BY <2>1, <2>2, FS_Interval
  <2> QED
    BY <2>1, <2>3 DEF Batch
<1> QED
  BY <1>1, <1>2, <1>3, FS_Subset

(* A poll hands out the next offsets: of a group member, what no other member
   in good standing took. *)
LEMMA HistPoll ==
  ASSUME TypeOK, AllSelfInv, HistInv, NEW m \in Members, NEW n \in 0 .. MaxLog,
         NEW e \in {"none", "fatal", "contextual"}, Poll(m, n, e), MemberStep(m)
  PROVE  HistInv'
<1>1. /\ n \in Nat /\ pos[m] \in Nat /\ committed \in Int /\ dirty[m] \in Int
      /\ pos'[m] = pos[m] + n /\ head'[m] = dirty[m]
      /\ dirty'[m] = IF n > 0 THEN pos[m] + n ELSE dirty[m]
      /\ call'[m].hand = call[m].hand \cup Batch(m, n)
      /\ call'[m].got = call[m].got + n
      /\ n > 0 => owner = m \/ m \in direct
      /\ pc[m] = "polling" /\ pc'[m] = "polled"
      /\ UNCHANGED <<committed, owner, direct, evicted, skipped, vu, counted, returned,
                     discarded, from, closeCommit>>
  BY PollEffect
<1>2. Alone(m)
  BY OneMember
<1>3. /\ Taken(m)' = Taken(m) \cup Batch(m, n)
      /\ LeftUncommitted(m)' = LeftUncommitted(m)
      /\ ClientOpen(m) /\ ClientOpen(m)'
  BY <1>1 DEF Taken, LeftUncommitted, ClientOpen
<1>4. \A q \in Members \ {m} : /\ Taken(q)' = Taken(q)
                               /\ LeftUncommitted(q)' = LeftUncommitted(q)
  BY <1>1, <1>2 DEF Taken, LeftUncommitted, Alone, Own
<1>5. \A o \in Offsets : Accounted(o) => Accounted(o)'
  BY <1>1, <1>3, <1>4, AccountedKept
<1>6. \A o \in Batch(m, n) : o \in Int /\ pos[m] <= o /\ o < pos[m] + n
  BY <1>1 DEF Batch
<1>7. \A q \in Members : \A o \in Taken(q) : o \in Int
  BY DEF TypeOK, Calls, Taken, Offsets
<1>8. PartInv(m)
  BY DEF HistInv
<1>9. n = 0 => Batch(m, n) = {}
  BY <1>1 DEF Batch
<1>10. OwnerInv(m)'
  <2> SUFFICES ASSUME owner = m
               PROVE  /\ dirty[m] <= dirty'[m] /\ dirty'[m] <= pos'[m] /\ committed <= pos'[m]
                      /\ \A o \in Offsets : o < pos[m] + n => Accounted(o)'
    BY <1>1 DEF OwnerInv
  <2>1. m \notin direct
    BY DEF AllSelfInv, SelfInv, LifeInv
  <2>2. dirty[m] <= dirty'[m] /\ dirty'[m] <= pos'[m] /\ committed <= pos'[m]
    BY <1>1, <1>8 DEF PartInv, OwnerInv
  <2>3. ASSUME NEW o \in Offsets, o < pos[m] + n PROVE Accounted(o)'
    <3>1. CASE o < pos[m]
      BY <1>5, <1>8, <3>1 DEF PartInv, OwnerInv
    <3>2. CASE ~(o < pos[m])
      <4>1. o \in Batch(m, n)
        BY <1>1, <2>3, <3>2, LogAssumption DEF Batch, Offsets
      <4> QED
        BY <1>1, <1>3, <2>1, <4>1 DEF Accounted
    <3> QED
      BY <3>1, <3>2
  <2> QED
    BY <2>2, <2>3
<1>11. DirectInv(m)'
  <2> SUFFICES ASSUME m \in direct
               PROVE  /\ from[m] <= pos[m] + n
                      /\ from[m] .. pos[m] + n - 1 \subseteq Taken(m)' \cup discarded
                      /\ \A o \in Taken(m)' : o >= from[m]
    BY <1>1 DEF DirectInv
  <2>1. from[m] \in Int
    BY LogAssumption DEF TypeOK, Offsets
  <2>2. /\ from[m] <= pos[m]
        /\ from[m] .. pos[m] - 1 \subseteq Taken(m) \cup discarded
        /\ \A o \in Taken(m) : o >= from[m]
    BY <1>3, <1>8 DEF PartInv, DirectInv
  <2>3. from[m] .. pos[m] + n - 1 \subseteq from[m] .. pos[m] - 1 \cup Batch(m, n)
    BY <1>1, <2>1 DEF Batch
  <2>4. \A o \in Batch(m, n) : o >= from[m]
    BY <1>1, <1>6, <2>1, <2>2
  <2> QED
    BY <1>1, <1>3, <2>1, <2>2, <2>3, <2>4
<1>12. TakenInv(m)'
  <2> SUFFICES ASSUME m \notin direct, ~LeftUncommitted(m)
               PROVE  /\ owner = m => \A o \in Taken(m)' : o < dirty'[m]
                      /\ owner # m => \A o \in Taken(m)' : o < committed
    BY <1>1, <1>3 DEF TakenInv
  <2>1. ASSUME owner = m PROVE \A o \in Taken(m)' : o < dirty'[m]
    <3>1. (\A o \in Taken(m) : o < dirty[m]) /\ dirty[m] <= pos[m]
      BY <1>8, <2>1 DEF PartInv, TakenInv, OwnerInv
    <3> QED
      BY <1>1, <1>3, <1>6, <1>7, <1>9, <3>1
  <2>2. ASSUME owner # m PROVE \A o \in Taken(m)' : o < committed
    BY <1>1, <1>3, <1>8, <1>9, <2>2 DEF PartInv, TakenInv
  <2> QED
    BY <2>1, <2>2
<1>13. Disjoint'
  <2>1. ASSUME NEW q \in Members \ direct, q # m, m \notin direct, ~LeftUncommitted(q)
        PROVE  Taken(q) \cap Batch(m, n) = {}
    <3>1. CASE n = 0
      BY <1>9, <3>1
    <3>2. CASE n > 0
      <4>1. owner = m /\ committed <= pos[m]
        BY <1>1, <1>8, <2>1, <3>2 DEF PartInv, OwnerInv
      <4>2. \A o \in Taken(q) : o < committed
        BY <2>1, <4>1 DEF HistInv, PartInv, TakenInv
      <4> QED
        BY <1>1, <1>6, <1>7, <4>1, <4>2
    <3> QED
      BY <1>1, <3>1, <3>2
  <2>2. ASSUME NEW q \in Members \ direct, q # m, m \notin direct,
               ~LeftUncommitted(q), ~LeftUncommitted(m)
        PROVE  Taken(q)' \cap Taken(m)' = {}
    <3>1. Taken(q) \cap Taken(m) = {}
      BY <2>2 DEF HistInv, Disjoint
    <3> QED
      BY <1>3, <1>4, <2>1, <2>2, <3>1
  <2>3. ASSUME NEW q \in Members \ direct, NEW r \in Members \ direct, q # r, q # m, r # m,
               ~LeftUncommitted(q), ~LeftUncommitted(r)
        PROVE  Taken(q)' \cap Taken(r)' = {}
    BY <1>4, <2>3 DEF HistInv, Disjoint
  <2> QED
    BY <1>1, <1>3, <1>4, <2>2, <2>3 DEF Disjoint
<1>14. CountInv(m)'
  <2> SUFFICES ASSUME evicted = {}
               PROVE  /\ \A o \in Taken(m)' : (owner = m \/ m \in direct) /\ o < pos[m] + n
                      /\ call[m].got + n = Cardinality(call[m].hand \cup Batch(m, n))
                      /\ (call[m].hand \cup Batch(m, n)) \cap returned[m] = {}
                      /\ vu[m] # "done" => counted[m] = Cardinality(returned[m])
    BY <1>1 DEF CountInv
  <2>1. /\ \A o \in Taken(m) : (owner = m \/ m \in direct) /\ o < pos[m]
        /\ call[m].got = Cardinality(call[m].hand)
        /\ call[m].hand \cap returned[m] = {}
        /\ vu[m] # "done" => counted[m] = Cardinality(returned[m])
    BY <1>3, <1>8 DEF PartInv, CountInv
  <2>2. Batch(m, n) \cap Taken(m) = {}
    BY <1>1, <1>6, <1>7, <2>1
  <2>3. call[m].hand \cap Batch(m, n) = {} /\ returned[m] \cap Batch(m, n) = {}
    BY <2>2 DEF Taken
  <2>4. call[m].got + n = Cardinality(call[m].hand \cup Batch(m, n))
    <3>1. /\ IsFiniteSet(call[m].hand) /\ IsFiniteSet(Batch(m, n))
          /\ Cardinality(Batch(m, n)) = n
      BY <1>1, TakenFinite
    <3> QED
      BY <2>1, <2>3, <3>1, DisjointUnion
  <2>5. \A o \in Taken(m)' : (owner = m \/ m \in direct) /\ o < pos[m] + n
    BY <1>1, <1>3, <1>6, <1>7, <1>9, <2>1
  <2> QED
    BY <2>1, <2>3, <2>4, <2>5
<1>15. Elsewhere(m)
  BY <1>1, <1>2, <1>5, AloneElsewhere
<1> QED
  BY <1>1, <1>10, <1>11, <1>12, <1>13, <1>14, <1>15, HistOthers DEF PartInv

(* A returning call hands its records over, and counts them, or discards them
   and counts nothing. *)
LEMMA HistReturn ==
  ASSUME TypeOK, AllSelfInv, HistInv, NEW m \in Members, Return(m), MemberStep(m)
  PROVE  HistInv'
<1>1. /\ UNCHANGED <<committed, owner, direct, evicted, skipped, pos, head, dirty, vu, from,
                     closeCommit>>
      /\ pc[m] = "returning" /\ pc'[m] = "idle" /\ call'[m] = NoCall
      /\ returned'[m] = IF Delivers(m) THEN returned[m] \cup call[m].hand ELSE returned[m]
      /\ discarded' = IF Delivers(m) THEN discarded ELSE discarded \cup call[m].hand
      /\ counted'[m] = IF Delivers(m) /\ vu[m] # "done" THEN counted[m] + call[m].got
                                                        ELSE counted[m]
  BY DEF Return, CountsMessages, GoTo, TypeOK, group, broker, offsets
<1>2. Alone(m)
  BY OneMember
<1>3. call'[m].hand = {} /\ call'[m].got = 0
  BY <1>1 DEF NoCall
<1>4. /\ Taken(m)' = returned'[m]
      /\ Taken(m)' \subseteq Taken(m) /\ Taken(m) \subseteq Taken(m)' \cup discarded'
      /\ LeftUncommitted(m)' = LeftUncommitted(m)
      /\ ClientOpen(m) /\ ClientOpen(m)'
  BY <1>1, <1>3 DEF Taken, LeftUncommitted, ClientOpen
<1>5. \A q \in Members \ {m} : /\ Taken(q)' = Taken(q)
                               /\ LeftUncommitted(q)' = LeftUncommitted(q)
  BY <1>1, <1>2 DEF Taken, LeftUncommitted, Alone, Own
<1>6. discarded \subseteq discarded'
  BY <1>1
<1>7. \A o \in Offsets : Accounted(o) => Accounted(o)'
  BY <1>1, <1>4, <1>5, <1>6, AccountedKept
<1>8. committed \in Int
  BY LogAssumption DEF TypeOK, GroupTypeOK, Offsets
<1>9. PartInv(m)
  BY DEF HistInv
<1>10. OwnerInv(m)'
  BY <1>1, <1>7, <1>9 DEF PartInv, OwnerInv
<1>11. DirectInv(m)'
  BY <1>1, <1>4, <1>6, <1>9 DEF PartInv, DirectInv
<1>12. TakenInv(m)'
  BY <1>1, <1>4, <1>9 DEF PartInv, TakenInv
<1>13. CountInv(m)'
  <2> SUFFICES ASSUME evicted = {}
               PROVE  /\ \A o \in Taken(m)' : (owner = m \/ m \in direct) /\ o < pos[m]
                      /\ 0 = Cardinality({})
                      /\ vu[m] # "done" => counted'[m] = Cardinality(returned'[m])
    BY <1>1, <1>3 DEF CountInv
  <2>1. /\ \A o \in Taken(m) : (owner = m \/ m \in direct) /\ o < pos[m]
        /\ call[m].got = Cardinality(call[m].hand)
        /\ call[m].hand \cap returned[m] = {}
        /\ vu[m] # "done" => counted[m] = Cardinality(returned[m])
    BY <1>4, <1>9 DEF PartInv, CountInv
  <2>2. Cardinality(returned[m] \cup call[m].hand)
          = Cardinality(returned[m]) + Cardinality(call[m].hand)
    BY <2>1, TakenFinite, DisjointUnion
  <2>3. vu[m] # "done" => counted'[m] = Cardinality(returned'[m])
    BY <1>1, <2>1, <2>2
  <2> QED
    BY <1>4, <2>1, <2>3, FS_EmptySet
<1>14. Disjoint'
  BY <1>1, <1>4, <1>5, DisjointKept DEF HistInv
<1>15. Elsewhere(m)
  BY <1>1, <1>2, <1>7, <1>8, AloneElsewhere
<1> QED
  BY <1>1, <1>8, <1>10, <1>11, <1>12, <1>13, <1>14, <1>15, HistOthers DEF PartInv

(* The explicit commit of close covers everything the member took; if it
   fails, the member has left records uncommitted. *)
LEMMA HistCommitOnClose ==
  ASSUME TypeOK, AllSelfInv, HistInv, NEW m \in Members, NEW ok \in BOOLEAN,
         CommitOnClose(m, ok), MemberStep(m)
  PROVE  HistInv'
<1>1. /\ UNCHANGED <<owner, direct, evicted, skipped, pos, head, dirty, vu, call, counted,
                     returned, discarded, from>>
      /\ pc[m] = "closing" /\ pc'[m] = "leaving"
      /\ closeCommit'[m] = IF ok THEN "ok" ELSE "failed"
      /\ IF ok THEN CommitTo(m, dirty[m]) ELSE committed' = committed
  BY DEF CommitOnClose, Uncommitted, GoTo, TypeOK, offsets, metrics
<1>2. Alone(m)
  BY OneMember
<1>3. PartInv(m)
  BY DEF HistInv
<1>4. /\ committed' \in Int /\ committed' >= committed
      /\ committed' = committed \/ (owner = m /\ committed' <= pos[m])
      /\ owner = m => committed' <= pos[m] /\ (ok => committed' >= dirty[m])
  <2>1. /\ dirty[m] \in {-1} \cup Offsets /\ (owner = m => dirty[m] <= pos[m])
        /\ (owner = m => committed <= pos[m]) /\ committed \in Int
    BY <1>3, LogAssumption DEF TypeOK, GroupTypeOK, Offsets, PartInv, OwnerInv
  <2>2. CASE ok
    BY <1>1, <1>3, <2>1, <2>2, Commits DEF PartInv
  <2>3. CASE ~ok
    BY <1>1, <2>1, <2>3
  <2> QED
    BY <2>2, <2>3
<1>5. /\ Taken(m)' = Taken(m)
      /\ LeftUncommitted(m) => LeftUncommitted(m)'
      /\ ~LeftUncommitted(m)' => ok
      /\ ClientOpen(m) /\ ClientOpen(m)'
  <2>1. closeCommit[m] = "none"
    BY <1>1 DEF AllSelfInv, SelfInv, LifeInv
  <2> QED
    BY <1>1, <2>1 DEF Taken, LeftUncommitted, ClientOpen
<1>6. \A q \in Members \ {m} : /\ Taken(q)' = Taken(q)
                               /\ LeftUncommitted(q)' = LeftUncommitted(q)
  BY <1>1, <1>2 DEF Taken, LeftUncommitted, Alone, Own
<1>7. \A o \in Offsets : Accounted(o) => Accounted(o)'
  BY <1>1, <1>5, <1>6, AccountedKept
<1>8. OwnerInv(m)'
  BY <1>1, <1>3, <1>4, <1>7 DEF PartInv, OwnerInv
<1>9. DirectInv(m)' /\ CountInv(m)'
  BY <1>1, <1>3, <1>5 DEF PartInv, DirectInv, CountInv
<1>10. TakenInv(m)'
  <2> SUFFICES ASSUME m \notin direct, ~LeftUncommitted(m)'
               PROVE  /\ owner = m => \A o \in Taken(m) : o < dirty[m]
                      /\ \A o \in Taken(m) : o < committed'
    BY <1>1, <1>5 DEF TakenInv
  <2>1. ok /\ ~LeftUncommitted(m)
    BY <1>5
  <2>2. /\ owner = m => \A o \in Taken(m) : o < dirty[m]
        /\ owner # m => \A o \in Taken(m) : o < committed
    BY <1>3, <2>1 DEF PartInv, TakenInv
  <2>3. \A o \in Taken(m) : o \in Int
    BY DEF TypeOK, Calls, Taken, Offsets
  <2>4. dirty[m] \in Int /\ committed \in Int
    BY LogAssumption DEF TypeOK, GroupTypeOK, Offsets
  <2> QED
    BY <1>4, <2>1, <2>2, <2>3, <2>4
<1>11. Disjoint'
  BY <1>1, <1>5, <1>6, DisjointKept DEF HistInv
<1>12. Elsewhere(m)
  BY <1>2, <1>4, <1>7, AloneElsewhere
<1> QED
  BY <1>4, <1>8, <1>9, <1>10, <1>11, <1>12, HistOthers DEF PartInv

(* Leaving commits once more, of what was polled, and frees the partition. *)
LEMMA HistCloseClient ==
  ASSUME TypeOK, AllSelfInv, HistInv, NEW m \in Members, CloseClient(m), MemberStep(m)
  PROVE  HistInv'
<1>1. /\ UNCHANGED <<direct, evicted, skipped, vu, call, counted, returned, discarded, from,
                     closeCommit>>
      /\ pc[m] = "leaving" /\ pc'[m] = "closed" /\ owner' # m
      /\ CommitTo(m, head[m])
  BY MembersAssumption DEF CloseClient, Release, GoTo, TypeOK, metrics, script
<1>2. Alone(m)
  BY OneMember
<1>3. PartInv(m)
  BY DEF HistInv
<1>4. /\ committed' \in Int /\ committed' >= committed
      /\ committed' = committed \/ (owner = m /\ committed' <= pos[m])
  <2>1. head[m] \in {-1} \cup Offsets /\ (owner = m => head[m] <= pos[m])
    BY <1>3, LogAssumption DEF TypeOK, GroupTypeOK, Offsets, PartInv, OwnerInv
  <2> QED
    BY <1>1, <1>3, <2>1, Commits DEF PartInv
<1>5. Taken(m)' = Taken(m) /\ LeftUncommitted(m)' = LeftUncommitted(m) /\ ~ClientOpen(m)'
  BY <1>1 DEF Taken, LeftUncommitted, ClientOpen
<1>6. \A q \in Members \ {m} : /\ Taken(q)' = Taken(q)
                               /\ LeftUncommitted(q)' = LeftUncommitted(q)
  BY <1>1, <1>2 DEF Taken, LeftUncommitted, Alone, Own
<1>7. \A o \in Offsets : Accounted(o) => Accounted(o)'
  BY <1>1, <1>5, <1>6, AccountedKept
<1>8. OwnerInv(m)' /\ DirectInv(m)'
  BY <1>1, <1>5 DEF OwnerInv, DirectInv
<1>9. CountInv(m)'
  BY <1>1, <1>3, <1>5 DEF PartInv, CountInv
<1>10. TakenInv(m)'
  <2>1. \A o \in Taken(m) : o < committed => o < committed'
    BY <1>4 DEF TypeOK, GroupTypeOK, Calls, Taken, Offsets
  <2> QED
    BY <1>1, <1>3, <1>5, <2>1 DEF PartInv, TakenInv
<1>11. Disjoint'
  BY <1>1, <1>5, <1>6, DisjointKept DEF HistInv
<1>12. Elsewhere(m)
  BY <1>2, <1>4, <1>7, AloneElsewhere
<1> QED
  BY <1>4, <1>8, <1>9, <1>10, <1>11, <1>12, HistOthers DEF PartInv

(* A process that dies drops what its call holds. *)
LEMMA HistDie ==
  ASSUME TypeOK, AllSelfInv, HistInv, NEW m \in Members, Die(m), MemberStep(m)
  PROVE  HistInv'
<1>1. /\ UNCHANGED <<committed, direct, evicted, skipped, vu, counted, returned, from,
                     closeCommit>>
      /\ pc'[m] = "dead" /\ owner' # m /\ call'[m] = NoCall
      /\ discarded' = discarded \cup call[m].hand
  BY MembersAssumption DEF Die, Release, GoTo, TypeOK, metrics
<1>2. Alone(m)
  BY OneMember
<1>3. call'[m].hand = {} /\ call'[m].got = 0
  BY <1>1 DEF NoCall
<1>4. PartInv(m)
  BY DEF HistInv
<1>5. /\ Taken(m)' \subseteq Taken(m) /\ Taken(m) \subseteq Taken(m)' \cup discarded'
      /\ LeftUncommitted(m)' /\ ~ClientOpen(m)'
  BY <1>1, <1>3 DEF Taken, LeftUncommitted, ClientOpen
<1>6. \A q \in Members \ {m} : /\ Taken(q)' = Taken(q)
                               /\ LeftUncommitted(q)' = LeftUncommitted(q)
  BY <1>1, <1>2 DEF Taken, LeftUncommitted, Alone, Own
<1>7. \A o \in Offsets : Accounted(o) => Accounted(o)'
  BY <1>1, <1>5, <1>6, AccountedKept
<1>8. committed \in Int
  BY LogAssumption DEF TypeOK, GroupTypeOK, Offsets
<1>9. OwnerInv(m)' /\ DirectInv(m)' /\ TakenInv(m)'
  BY <1>1, <1>5 DEF OwnerInv, DirectInv, TakenInv
<1>10. CountInv(m)'
  BY <1>1, <1>3, <1>4, <1>5, FS_EmptySet DEF PartInv, CountInv
<1>11. Disjoint'
  BY <1>1, <1>5, <1>6, DisjointKept DEF HistInv
<1>12. Elsewhere(m)
  BY <1>1, <1>2, <1>7, <1>8, AloneElsewhere
<1> QED
  BY <1>1, <1>8, <1>9, <1>10, <1>11, <1>12, HistOthers DEF PartInv

(* Every step keeps what was taken, committed and counted in order. *)
LEMMA HistNext == TypeOK /\ AllSelfInv /\ HistInv /\ [Next]_vars => HistInv'
<1> SUFFICES ASSUME TypeOK, AllSelfInv, HistInv, [Next]_vars PROVE HistInv'
  OBVIOUS
<1>1. CASE Quiet
  BY <1>1, HistQuiet
<1>2. CASE Moving
  BY <1>2, HistAssign, HistEvict, HistAutoCommit, HistOpenDirect, HistPoll, HistReturn,
     HistCommitOnClose, HistCloseClient, HistDie DEF Moving
<1> QED
  BY <1>1, <1>2, QuietSteps

-----------------------------------------------------------------------------
(* Initially nothing is open, taken or committed. *)
LEMMA InitInv == Init => TypeOK /\ AllSelfInv /\ HistInv
<1> SUFFICES ASSUME Init PROVE TypeOK /\ AllSelfInv /\ HistInv
  OBVIOUS
<1>0. NoCall \in Calls
  BY DEF NoCall, Calls
<1>1. TypeOK
  <2>1. GroupTypeOK
    BY LogAssumption DEF Init, GroupInit, GroupTypeOK, Offsets
  <2> QED
    BY <1>0, <2>1, LogAssumption DEF Init, TypeOK, Steps, Offsets
<1>2. \A m \in Members : /\ pc[m] = "unopened" /\ vu[m] = "init" /\ call[m] = NoCall
                         /\ returned[m] = {} /\ counted[m] = 0 /\ closeCommit[m] = "none"
                         /\ Taken(m) = {} /\ ~ClientOpen(m) /\ owner # m
  BY MembersAssumption DEF Init, GroupInit, Taken, ClientOpen, NoCall
<1>3. AllSelfInv
  BY <1>2 DEF AllSelfInv, SelfInv, CallInv, InCall, HookInv, LifeInv, Init, GroupInit, NoCall
<1>4. NoSilentLoss /\ Disjoint
  BY <1>2, LogAssumption DEF Init, GroupInit, NoSilentLoss, Disjoint, Offsets
<1>5. \A m \in Members : PartInv(m)
  <2> TAKE m \in Members
  <2>1. call[m].got = 0 /\ call[m].hand = {} /\ Cardinality({}) = 0
    BY <1>2, FS_EmptySet DEF NoCall
  <2>2. CountInv(m)
    BY <1>2, <2>1 DEF CountInv
  <2> QED
    BY <1>2, <2>2 DEF PartInv, OwnerInv, DirectInv, TakenInv
<1> QED
  BY <1>1, <1>3, <1>4, <1>5 DEF HistInv

(* The invariant of the readers and their partition. *)
LEMMA Invariance == Spec => [](TypeOK /\ AllSelfInv /\ HistInv)
<1>1. TypeOK /\ AllSelfInv /\ HistInv /\ [Next]_vars => (TypeOK /\ AllSelfInv /\ HistInv)'
  BY TypeStep, SelfNext, HistNext
<1> QED
  BY <1>1, InitInv, PTL DEF Spec

(* The types of the state: in particular no poll leaves the log. *)
THEOREM ReaderTypeCorrect == Spec => []TypeOK
  BY Invariance, PTL

(* For any number of members, evictions, deaths and failed commits: nothing
   below the committed offset was passed over in silence. *)
THEOREM ReaderNoSilentLoss == Spec => []NoSilentLoss
<1>1. HistInv => NoSilentLoss
  BY DEF HistInv
<1> QED
  BY <1>1, Invariance, PTL

(* Two group members are handed the same message only if one of them was
   evicted, died, or could not commit on close. *)
THEOREM ReaderExclusiveDelivery == Spec => []ExclusiveDelivery
<1>1. HistInv => ExclusiveDelivery
  BY DEF HistInv, Disjoint, ExclusiveDelivery, Taken
<1> QED
  BY <1>1, Invariance, PTL

(* A direct reader reads on without gaps from its start. *)
THEOREM ReaderDirectGapless == Spec => []DirectGapless
<1>1. TypeOK /\ HistInv => DirectGapless
  BY DEF TypeOK, GroupTypeOK, HistInv, PartInv, DirectInv, DirectGapless
<1> QED
  BY <1>1, Invariance, PTL

(* A VU stopped before its call gets a cancellation or the full batch. *)
THEOREM ReaderStoppedVUIsCancelled == Spec => []StoppedVUIsCancelled
<1>1. AllSelfInv => StoppedVUIsCancelled
  BY DEF AllSelfInv, SelfInv, CallInv, StoppedVUIsCancelled
<1> QED
  BY <1>1, Invariance, PTL

(* The summary counts exactly the messages handed out, up to the VU's end and
   while nobody is evicted, and no call polls past its limit. *)
THEOREM ReaderCountsMatchDelivery == Spec => []CountsMatchDelivery
<1>1. AllSelfInv /\ HistInv => CountsMatchDelivery
  BY DEF AllSelfInv, SelfInv, CallInv, HistInv, PartInv, CountInv, CountsMatchDelivery
<1> QED
  BY <1>1, Invariance, PTL

(* Only hook events after close's flush stay out of the summary. *)
THEOREM ReaderOnlyLateHooksUnreported == Spec => []OnlyLateHooksUnreported
<1>1. AllSelfInv => OnlyLateHooksUnreported
  BY DEF AllSelfInv, SelfInv, HookInv, OnlyLateHooksUnreported
<1> QED
  BY <1>1, Invariance, PTL
=============================================================================
