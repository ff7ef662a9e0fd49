------------------------------- MODULE Reader -------------------------------
(***************************************************************************)
(* Reader (src/pkg/kafka/consumer.go): consume and close of the readers of  *)
(* one partition, each driven by its own VU, on top of GroupClient: members *)
(* of one consumer group, and direct readers.                               *)
(*                                                                          *)
(* A call is split where other goroutines can get in: PollRecords returns,  *)
(* the context is looked at, the verdict is taken, the metrics are flushed  *)
(* and the call returns.  Deadline and cancellation fall between any two.   *)
(* A message is its offset; a batch is the set of offsets in hand and how   *)
(* many there are.  The collector is the MetricsLedger that Collector       *)
(* implements: hook events wait until a flush takes them all.               *)
(***************************************************************************)
EXTENDS GroupClient

CONSTANTS ConsumeArgs,   \* the [limit, expectTimeout] arguments of consume
          DirectOffsets, \* the `offset' settings of direct readers
          FetchErrors,   \* errors of a live fetch: "fatal", or "contextual"
                         \* for one that errors.Is takes for a context error
          CommitFails,   \* the explicit commit can fail on a live context
          MaxHooks       \* bound: hook events a collector holds

ASSUME ArgsAssumption == ConsumeArgs \subseteq [limit : Nat, expectTimeout : BOOLEAN]
ASSUME OffsetsAssumption == DirectOffsets \subseteq {-1} \cup Nat
ASSUME ErrorsAssumption == FetchErrors \subseteq {"fatal", "contextual"}
ASSUME HooksAssumption == MaxHooks \in Nat /\ CommitFails \in BOOLEAN

VARIABLES
  pc,          \* per member: where its VU goroutine is
  vu,          \* "init", "live" or "done": State() and Context() of the VU
  call,        \* per member: arguments and locals of the call it is in
  hooks,       \* hook events the collector holds
  counted,     \* messages the collector reported for the calls
  returned,    \* history: offsets handed to the script
  discarded,   \* history: offsets polled by a call that threw, or died
  from,        \* history: where a direct reader was asked to start
  lateHooks,   \* history: hook events after close flushed
  closeCommit  \* history: how the explicit commit of close went

metrics == <<hooks, lateHooks, counted>>
script  == <<returned, discarded, from, closeCommit>>
group   == <<broker, offsets>>
vars    == <<group, pc, vu, call, metrics, script>>

Steps == {"unopened", "idle", "polling", "polled", "ending", "returning",
          "closing", "leaving", "closed", "dead"}

(* Outside a call.  `got' and `hand' are the messages of the call, `expired'
   says that maxWait has elapsed, `errs' are the errors of the last poll,
   `late' that the VU context was done before the call began. *)
NoCall == [limit |-> 0, expectTimeout |-> FALSE, got |-> 0, hand |-> {}, expired |-> FALSE,
           errs |-> "none", verdict |-> "none", late |-> FALSE]
Calls == [limit : Nat, expectTimeout : BOOLEAN, got : Nat, hand : SUBSET Offsets,
          expired : BOOLEAN, errs : {"none", "fatal", "contextual"},
          verdict : {"none", "success", "partial", "timeout", "cancelled", "failed"},
          late : BOOLEAN]

(* The types of the state (consumer.go: Reader, Consume). *)
TypeOK ==
  /\ GroupTypeOK
  /\ pc \in [Members -> Steps]
  /\ vu \in [Members -> {"init", "live", "done"}]
  /\ call \in [Members -> Calls]
  /\ hooks \in [Members -> Nat] /\ lateHooks \in [Members -> Nat]
  /\ counted \in [Members -> Nat]
  /\ returned \in [Members -> SUBSET Offsets]
  /\ discarded \subseteq Offsets
  /\ from \in [Members -> Offsets]
  /\ closeCommit \in [Members -> {"none", "ok", "failed"}]

Init ==
  /\ GroupInit
  /\ pc = [m \in Members |-> "unopened"]
  /\ vu = [m \in Members |-> "init"]
  /\ call = [m \in Members |-> NoCall]
  /\ hooks = [m \in Members |-> 0]
  /\ lateHooks = [m \in Members |-> 0]
  /\ counted = [m \in Members |-> 0]
  /\ returned = [m \in Members |-> {}]
  /\ discarded = {}
  /\ from = [m \in Members |-> 0]
  /\ closeCommit = [m \in Members |-> "none"]

GoTo(m, step) == pc' = [pc EXCEPT ![m] = step]

(* The client exists: franz-go's goroutines may run. *)
ClientOpen(m) == pc[m] \notin {"unopened", "closed", "dead"}

(* ctx.Err() of the call's context, derived from the VU's with maxWait. *)
ContextEnded(m) == call[m].expired \/ vu[m] = "done"

-----------------------------------------------------------------------------
(* openReader with a valid configuration: the client joins the group. *)
Open(m) ==
  /\ pc[m] = "unopened"
  /\ GoTo(m, "idle")
  /\ UNCHANGED <<group, vu, call, metrics, script>>

(* Faulty variant: the zero offset is taken for one that was not given. *)
ZeroIsEnd(offset) == IF offset > 0 THEN offset ELSE log

(* directOffset: -1 is the end, anything else itself. *)
DirectOffset(offset) == IF offset = -1 THEN log ELSE offset

(* openReader without a group; an offset in the log. *)
OpenDirect(m, offset) ==
  /\ pc[m] = "unopened"
  /\ AssignDirect(m, DirectOffset(offset))
  /\ from' = [from EXCEPT ![m] = IF offset = -1 THEN log ELSE offset]
  /\ GoTo(m, "idle")
  /\ UNCHANGED <<vu, call, metrics, returned, discarded, closeCommit>>

(* consume, its three early returns taken: nothing happens in the init
   context, on a closed reader, or for a limit of zero. *)
Consume(m, args) ==
  /\ vu[m] # "init"
  /\ pc[m] = "idle"
  /\ args.limit > 0
  /\ call' = [call EXCEPT ![m].limit = args.limit, ![m].expectTimeout = args.expectTimeout,
                          ![m].late = vu[m] = "done"]
  /\ GoTo(m, "polling")
  /\ UNCHANGED <<group, vu, metrics, script>>

(* Faulty variant: every poll of a call asks for the whole batch. *)
AsksForAll(m) == call[m].limit

(* How many records one PollRecords may ask for. *)
PollMax(m) == call[m].limit - call[m].got

(* The records that the call appends to its messages. *)
Batch(m, n) == pos[m] .. pos[m] + n - 1

(* PollRecords returns n records and e: it waits for records, an error, or
   the end of its context, which it reports as a contextual error. *)
Poll(m, n, e) ==
  /\ pc[m] = "polling"
  /\ n <= PollMax(m) /\ n <= Available(m)
  /\ \/ n > 0 /\ e \in {"none"} \cup FetchErrors
     \/ n = 0 /\ e \in FetchErrors
     \/ n = 0 /\ e = "contextual" /\ ContextEnded(m)
  /\ Polled(m, n)
  /\ call' = [call EXCEPT ![m].got = @ + n, ![m].hand = @ \cup Batch(m, n), ![m].errs = e]
  /\ GoTo(m, "polled")
  /\ UNCHANGED <<vu, metrics, script>>

(* An ended context breaks the loop before errors are looked at; then a fetch
   error fails the call, or breaks if it is a contextual one. *)
Fails(m) == ~ContextEnded(m) /\ call[m].errs = "fatal"

(* Faulty variant: a contextual error is retried, ended context or not. *)
BreaksWhenFull(m) == call[m].got >= call[m].limit

Breaks(m) == ContextEnded(m) \/ call[m].errs = "contextual" \/ call[m].got >= call[m].limit

(* The rest of the loop body and the loop condition. *)
AfterPoll(m) ==
  /\ pc[m] = "polled"
  /\ \/ /\ Fails(m)
        /\ call' = [call EXCEPT ![m].verdict = "failed"]
        /\ GoTo(m, "returning")
     \/ /\ ~Fails(m) /\ Breaks(m)
        /\ GoTo(m, "ending") /\ UNCHANGED call
     \/ /\ ~Fails(m) /\ ~Breaks(m)
        /\ GoTo(m, "polling") /\ UNCHANGED call
  /\ UNCHANGED <<group, vu, metrics, script>>

(* Faulty variant: any ended context is a timeout. *)
TimedOut(m) == IF call[m].expectTimeout THEN "partial" ELSE "timeout"

(* What an incomplete batch is, once the context ended. *)
Incomplete(m) == IF vu[m] = "done" THEN "cancelled"
                 ELSE IF call[m].expectTimeout THEN "partial" ELSE "timeout"

(* The tail of consume. *)
Decide(m) ==
  /\ pc[m] = "ending"
  /\ call' = [call EXCEPT ![m].verdict =
                IF call[m].got < call[m].limit /\ ContextEnded(m)
                  THEN Incomplete(m) ELSE "success"]
  /\ GoTo(m, "returning")
  /\ UNCHANGED <<group, vu, metrics, script>>

Delivers(m) == call[m].verdict \in {"success", "partial"}

(* Faulty variant: what was polled is counted, returned or not. *)
CountsPolled(m) == TRUE

(* withMessages: message counts go out only with the messages. *)
CountsMessages(m) == Delivers(m)

(* Faulty variant: nothing is drained. *)
KeepHooks(m) == UNCHANGED hooks

(* flush drains the hook events; outside the VU context it does nothing. *)
FlushHooks(m) == hooks' = [hooks EXCEPT ![m] = IF vu[m] = "init" THEN @ ELSE 0]

(* flushConsume, and the return: messages or an exception.  A VU that is done
   drops its samples. *)
Return(m) ==
  /\ pc[m] = "returning"
  /\ FlushHooks(m)
  /\ counted' = [counted EXCEPT ![m] =
                   IF CountsMessages(m) /\ vu[m] # "done" THEN @ + call[m].got ELSE @]
  /\ returned' = [returned EXCEPT ![m] = IF Delivers(m) THEN @ \cup call[m].hand ELSE @]
  /\ discarded' = IF Delivers(m) THEN discarded ELSE discarded \cup call[m].hand
  /\ call' = [call EXCEPT ![m] = NoCall]
  /\ GoTo(m, "idle")
  /\ UNCHANGED <<group, vu, lateHooks, from, closeCommit>>

-----------------------------------------------------------------------------
(* close.  A second one finds no client and returns; only a group reader
   commits. *)
Close(m) ==
  /\ pc[m] = "idle"
  /\ FlushHooks(m)
  /\ GoTo(m, IF m \in direct THEN "leaving" ELSE "closing")
  /\ UNCHANGED <<group, vu, call, lateHooks, counted, script>>

(* Faulty variants: nothing is committed, or the high watermark. *)
CommitNothing(m) == -1
CommitWatermark(m) == log

(* CommitUncommittedOffsets: everything that was polled. *)
Uncommitted(m) == dirty[m]

(* Under the VU context and commitTimeout; its error is ignored. *)
CommitOnClose(m, ok) ==
  /\ pc[m] = "closing"
  /\ ok => vu[m] # "done"
  /\ ~ok => vu[m] = "done" \/ CommitFails
  /\ IF ok THEN CommitTo(m, Uncommitted(m)) ELSE UNCHANGED committed
  /\ closeCommit' = [closeCommit EXCEPT ![m] = IF ok THEN "ok" ELSE "failed"]
  /\ GoTo(m, "leaving")
  /\ UNCHANGED <<log, owner, direct, evicted, skipped, offsets, vu, call, metrics,
                 returned, discarded, from>>

(* client.Close: a member leaves the group; leaving runs the client's own
   last autocommit. *)
CloseClient(m) ==
  /\ pc[m] = "leaving"
  /\ CommitTo(m, head[m])
  /\ Release(m)
  /\ GoTo(m, "closed")
  /\ UNCHANGED <<log, direct, evicted, skipped, vu, call, metrics, script>>

-----------------------------------------------------------------------------
(* The environment of a call. *)

(* k6 leaves the init context between two steps of the script. *)
StartVU(m) == /\ vu[m] = "init" /\ pc[m] \in {"unopened", "idle"}
              /\ vu' = [vu EXCEPT ![m] = "live"]
              /\ UNCHANGED <<group, pc, call, metrics, script>>

CancelVU(m) == /\ vu[m] = "live" /\ pc[m] \notin {"closed", "dead"}
               /\ vu' = [vu EXCEPT ![m] = "done"]
               /\ UNCHANGED <<group, pc, call, metrics, script>>

(* maxWait elapses during a call. *)
Deadline(m) == /\ pc[m] \in {"polling", "polled", "ending"}
               /\ ~call[m].expired
               /\ call' = [call EXCEPT ![m].expired = TRUE]
               /\ UNCHANGED <<group, pc, vu, metrics, script>>

(* A hook fires on a goroutine of the client: a dial, a fetch, a rebalance. *)
Hook(m) == /\ ClientOpen(m)
           /\ hooks[m] < MaxHooks
           /\ hooks' = [hooks EXCEPT ![m] = @ + 1]
           /\ lateHooks' = [lateHooks EXCEPT ![m] =
                              IF pc[m] \in {"closing", "leaving"} THEN @ + 1 ELSE @]
           /\ UNCHANGED <<group, pc, vu, call, counted, script>>

(* The k6 process ends with the reader open: whatever it holds is gone. *)
Die(m) ==
  /\ ClientOpen(m)
  /\ GoTo(m, "dead")
  /\ Release(m)
  /\ discarded' = discarded \cup call[m].hand
  /\ call' = [call EXCEPT ![m] = NoCall]
  /\ UNCHANGED <<log, committed, direct, evicted, skipped, vu, metrics, returned,
                 from, closeCommit>>

(* The coordinator and the client's background goroutines. *)
Group ==
  /\ \/ Append1
     \/ \E m \in Members : \/ ClientOpen(m) /\ pc[m] # "leaving" /\ Assign(m)
                           \/ Evict(m)
                           \/ AutoCommit(m)
  /\ UNCHANGED <<pc, vu, call, metrics, script>>

ReaderStep(m) ==
  \/ \E n \in 0 .. MaxLog, e \in {"none", "fatal", "contextual"} : Poll(m, n, e)
  \/ AfterPoll(m) \/ Decide(m) \/ Return(m)
  \/ \E ok \in BOOLEAN : CommitOnClose(m, ok)
  \/ CloseClient(m)

Next ==
  \/ Group
  \/ \E m \in Members :
       \/ Open(m)
       \/ \E offset \in DirectOffsets : OpenDirect(m, offset)
       \/ \E args \in ConsumeArgs : Consume(m, args)
       \/ ReaderStep(m)
       \/ Close(m)
       \/ StartVU(m) \/ CancelVU(m) \/ Deadline(m) \/ Hook(m) \/ Die(m)

(* The VU goroutine keeps running once it is in a call, and timers fire.
   Nothing is assumed of brokers, fetches or the coordinator. *)
Spec == /\ Init /\ [][Next]_vars
        /\ \A m \in Members : WF_vars(ReaderStep(m)) /\ WF_vars(Deadline(m))

-----------------------------------------------------------------------------
(* Properties. *)
Taken(m) == returned[m] \cup call[m].hand

(* Committing never passes a message over in silence: whatever lies below the
   group's committed offset was handed to the script of a member, is in the
   hands of its running call, was dropped by a call that threw (or a process
   that died), or lies before the group's chosen start.  Autocommit, the
   explicit commit of close and the commit of leaving, of any member in any
   order, all keep it (consumer.go: Consume's discarded batches, Close). *)
Accounted(o) == o \in skipped \cup discarded \/ \E m \in Members \ direct : o \in Taken(m)
NoSilentLoss == \A o \in Offsets : o < committed => Accounted(o)

(* A direct reader reads on without gaps from where it was asked to start,
   over any number of calls, short batches and errors (consumer.go:
   directOffset, Consume). *)
DirectGapless ==
  \A m \in direct : ClientOpen(m) => from[m] .. pos[m] - 1 \subseteq Taken(m) \cup discarded
                                     /\ \A o \in Taken(m) : o >= from[m]

(* Two members are handed the same message only if the earlier one lost its
   assignment without a completed commit: the coordinator evicted it, its
   process died, or its close could not commit (consumer.go: Close commits
   before it leaves). *)
LeftUncommitted(m) ==
  m \in evicted \/ pc[m] = "dead" \/ closeCommit[m] = "failed"
ExclusiveDelivery ==
  \A m1, m2 \in Members \ direct :
    m1 # m2 /\ returned[m1] \cap returned[m2] # {} =>
      LeftUncommitted(m1) \/ LeftUncommitted(m2)

(* A VU that was already stopped when it called consume gets a cancellation,
   or the full batch if the records were there: never a timeout, a short batch
   or a fetch error, whatever the deadline and the fetches do meanwhile
   (consumer.go: the order of the context and error checks). *)
StoppedVUIsCancelled ==
  \A m \in Members :
    pc[m] = "returning" /\ call[m].late =>
      \/ call[m].verdict = "cancelled"
      \/ call[m].verdict = "success" /\ call[m].got = call[m].limit

(* The summary counts exactly the messages that scripts were handed, as long
   as the VU runs and no member is evicted: a call that throws away a batch
   does not count it, and one that fills its batch with several polls takes
   no record past its limit out of the client, where neither the count nor the
   script would see it (consumer.go: flush(withMessages, ...), PollRecords). *)
CountsMatchDelivery ==
  \A m \in Members :
    /\ vu[m] # "done" /\ evicted = {} => counted[m] = Cardinality(returned[m])
    /\ call[m].got <= call[m].limit

(* A hook event of a VU that runs to the end is left out of the summary by a
   closed reader only if it happened after close had flushed: everything
   earlier was drained by some consume or by close. *)
OnlyLateHooksUnreported ==
  \A m \in Members : pc[m] = "closed" /\ vu[m] = "live" => hooks[m] <= lateHooks[m]

(* consume returns: the deadline ends every wait, whatever brokers do. *)
ConsumeReturns ==
  \A m \in Members : pc[m] = "polling" ~> pc[m] \in {"idle", "dead"}

(* close ends, and the partition is free for the next member. *)
CloseReleases ==
  \A m \in Members : pc[m] = "closing" ~> pc[m] \in {"closed", "dead"} /\ owner # m

(* Claims of the repository that the code does not meet, each the subject of
   a run that must fail. *)

(* openspec/specs/metrics/spec.md: close flushes so that events after the
   final call are not lost. *)
CloseReportsEverything ==
  \A m \in Members : pc[m] = "closed" /\ vu[m] = "live" => hooks[m] = 0

(* consumer.go, Close: a later member resumes after the consumed offsets. *)
CloseCommitsConsumed ==
  \A m \in Members \ direct : pc[m] = "closed" => \A o \in returned[m] : o < committed
=============================================================================
