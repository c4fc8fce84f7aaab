----------------------------- MODULE TraceStore -----------------------------
(***************************************************************************)
(* The Agent Trace Processor (cmd/agent-trace-processor,                   *)
(* internal/agenttraceprocessor) and the ClickHouse store it fills         *)
(* (internal/collector): consumers of one group poll the topic of Trace    *)
(* records and the topic of purge commands, process a polled batch Trace   *)
(* by Trace, and commit the processed prefix of each partition.            *)
(*                                                                         *)
(* Each topic is one partition.  A record may carry a Replay attachment,   *)
(* whose ciphertext waits in staging until a consumer takes custody of it. *)
(* One Trace is purged.                                                    *)
(***************************************************************************)
EXTENDS Naturals, Sequences, FiniteSets, FiniteSetsExt

CONSTANTS Consumers,
          Log,           \* the Trace topic: [trace, rec, att] in order
          Purged,        \* the Trace that is purged
          Copies,        \* bound: deliveries of its purge command
          MaxFaults,     \* bound: failed calls, crashes and lost sessions
          Crashes, Kicks \* whether consumers crash, or lose their session

\* Of the constants; the MC modules that instantiate this one assume it.
TraceStoreAssumption ==
    /\ \A i \in 1..Len(Log) : Log[i].att \in BOOLEAN
    /\ Copies \in Nat /\ MaxFaults \in Nat /\ {Crashes, Kicks} \subseteq BOOLEAN

Topics == {"trace", "purge"}
Keys == {Log[i].trace : i \in 1..Len(Log)} \cup {Purged}
Records == {[trace |-> Log[i].trace, rec |-> Log[i].rec] : i \in 1..Len(Log)}

VARIABLES
    produced,   \* messages of each topic
    committed,  \* the group's offset of each topic: messages before it
    owner,      \* the consumer each topic is assigned to
    con,        \* FranzConsumer and the RunOnce in progress
    at,         \* the goroutine of each Trace in each RunOnce
    raw,        \* obs_trace_records_raw: records with their sequence
    refs,       \* obs_replay_payload_refs
    sum,        \* obs_trace_summaries: newest version of each Trace
    objects,    \* replay objects in the collector's custody
    staging,    \* staged ciphertexts
    stage,      \* obs_trace_purge_state of the command, 0: no tombstone
    tomb,       \* obs_trace_tombstones has the Trace
    faults

vars == <<produced, committed, owner, con, at, raw, refs, sum, objects, staging, stage, tomb, faults>>
store == <<raw, refs, sum, objects, stage, tomb>>
group == <<produced, committed, owner, staging>>

Complete == 7
Start == [pc |-> "start", seen |-> {}, stage |-> 0]
Fresh == [k \in Keys |-> Start]
Attached == {[trace |-> Log[i].trace, rec |-> Log[i].rec] : i \in {j \in 1..Len(Log) : Log[j].att}}

Init ==
    /\ produced = [p \in Topics |-> 0] /\ committed = [p \in Topics |-> 0]
    /\ owner \in [Topics -> Consumers]
    /\ con = [c \in Consumers |-> [pend |-> <<>>, ok |-> {}, bad |-> {}, pos |-> [p \in Topics |-> 0]]]
    /\ at = [c \in Consumers |-> Fresh]
    /\ raw = {} /\ refs = {} /\ objects = {} /\ staging = Attached
    /\ sum = [k \in Keys |-> [version |-> 0, recs |-> {}]]
    /\ stage = 0 /\ tomb = FALSE /\ faults = 0

-----------------------------------------------------------------------------
(* The producers. *)

Produce ==
    /\ produced["trace"] < Len(Log)
    /\ produced' = [produced EXCEPT !["trace"] = @ + 1]
    /\ UNCHANGED <<committed, owner, con, at, store, staging, faults>>

(* The outbox sender publishes the command, again if it fails afterwards,  *)
(* and then deletes what is staged for the Trace (MarkPurgePublished).     *)
PublishPurge ==
    /\ produced["purge"] < Copies
    /\ produced' = [produced EXCEPT !["purge"] = @ + 1]
    /\ UNCHANGED <<committed, owner, con, at, store, staging, faults>>
DeleteStaging ==
    /\ produced["purge"] > 0 /\ \E r \in staging : r.trace = Purged
    /\ staging' = {r \in staging : r.trace # Purged}
    /\ UNCHANGED <<produced, committed, owner, con, at, store, faults>>

-----------------------------------------------------------------------------
(* The consumer group. *)

Batch(c, p, n) == [i \in 1..n |-> [topic |-> p, off |-> con[c].pos[p] + i]]
Available(c, p) == IF owner[p] = c THEN produced[p] - con[c].pos[p] ELSE 0

(* A poll returns some of the next messages, of both topics in some order, *)
(* but only when nothing is pending.                                       *)
Poll(c, n, m, first) ==
    /\ con[c].pend = <<>> /\ n + m > 0
    /\ n <= Available(c, "trace") /\ m <= Available(c, "purge")
    /\ con' = [con EXCEPT ![c].pend = IF first = "trace" THEN Batch(c, "trace", n) \o Batch(c, "purge", m)
                                      ELSE Batch(c, "purge", m) \o Batch(c, "trace", n),
                          ![c].pos["trace"] = @ + n, ![c].pos["purge"] = @ + m]
    /\ UNCHANGED <<group, at, store, faults>>

KeyOf(m) == IF m.topic = "purge" THEN Purged ELSE Log[m.off].trace
Group(c, k) == {i \in 1..Len(con[c].pend) : KeyOf(con[c].pend[i]) = k}
(* A group is worked on in order and stops at its first failure. *)
Current(c, k) == Min(Group(c, k) \ con[c].ok)
Working(c, k, topic) ==
    /\ k \notin con[c].bad /\ Group(c, k) \ con[c].ok # {}
    /\ con[c].pend[Current(c, k)].topic = topic
Message(c, k) == con[c].pend[Current(c, k)]
Processed(c, k) ==
    /\ con' = [con EXCEPT ![c].ok = @ \cup {Current(c, k)}]
    /\ at' = [at EXCEPT ![c][k] = Start]

RoundEnds(c) ==
    /\ con[c].pend # <<>>
    /\ \A k \in Keys : k \in con[c].bad \/ Group(c, k) \subseteq con[c].ok

(* What is committed ends at the first unprocessed message of a partition. *)
Prefix(c) ==
    {i \in con[c].ok : \A j \in 1..(i - 1) :
        con[c].pend[j].topic = con[c].pend[i].topic => j \in con[c].ok}

Committed(c, p) ==
    LET offs == {con[c].pend[i].off : i \in {j \in Prefix(c) : con[c].pend[j].topic = p}}
    IN IF offs = {} THEN committed[p] ELSE Max(offs)
Remaining(c) ==
    LET rest == (1..Len(con[c].pend)) \ Prefix(c)
        ith[n \in 1..Cardinality(rest)] == CHOOSE i \in rest : Cardinality({j \in rest : j <= i}) = n
    IN [n \in 1..Cardinality(rest) |-> con[c].pend[ith[n]]]

(* What stays pending is returned again by the next poll.  A consumer that *)
(* lost a partition either cannot commit, or it has joined again and does. *)
Owns(c) == \A i \in 1..Len(con[c].pend) : owner[con[c].pend[i].topic] = c
Commit(c) ==
    /\ RoundEnds(c)
    /\ committed' = [p \in Topics |-> Committed(c, p)]
    /\ con' = [con EXCEPT ![c].pend = Remaining(c), ![c].ok = {}, ![c].bad = {}]
    /\ at' = [at EXCEPT ![c] = Fresh]
    /\ UNCHANGED <<produced, owner, staging, store, faults>>
CommitFails(c) ==
    /\ RoundEnds(c) /\ ~Owns(c)
    /\ con' = [con EXCEPT ![c].ok = {}, ![c].bad = {}]
    /\ at' = [at EXCEPT ![c] = Fresh]
    /\ UNCHANGED <<group, store, faults>>

(* A rebalance waits for the pending messages, or for the session of the   *)
(* consumer to lapse.                                                      *)
Rebalance(p, c) ==
    /\ c # owner[p] /\ con[c].pend = <<>>
    /\ IF con[owner[p]].pend = <<>> THEN UNCHANGED faults
       ELSE Kicks /\ faults < MaxFaults /\ faults' = faults + 1
    /\ owner' = [owner EXCEPT ![p] = c]
    /\ con' = [con EXCEPT ![c].pos[p] = committed[p]]
    /\ UNCHANGED <<produced, committed, staging, at, store>>
Crash(c) ==
    /\ Crashes /\ con[c].pend # <<>> /\ faults < MaxFaults /\ faults' = faults + 1
    /\ con' = [con EXCEPT ![c] = [pend |-> <<>>, ok |-> {}, bad |-> {}, pos |-> committed]]
    /\ at' = [at EXCEPT ![c] = Fresh]
    /\ UNCHANGED <<group, store>>

-----------------------------------------------------------------------------
(* A Trace message: CommitTraceChunk, call by call. *)

Item(c, k) == Log[Message(c, k).off]
Rec(c, k) == [trace |-> k, rec |-> Item(c, k).rec]
Goto(c, k, pc) == at' = [at EXCEPT ![c][k].pc = pc]
At(c, k, topic, pc) == Working(c, k, topic) /\ at[c][k].pc = pc

\* Mutant: the tombstone is not looked for.
CheckTombstoneNever(c, k) ==
    /\ At(c, k, "trace", "start")
    /\ Goto(c, k, "load")
    /\ UNCHANGED <<con, group, store, faults>>
(* A tombstoned Trace is acknowledged and not stored.                      *)
CheckTombstone(c, k) ==
    /\ At(c, k, "trace", "start")
    /\ IF k = Purged /\ tomb THEN Processed(c, k) ELSE Goto(c, k, "load") /\ UNCHANGED con
    /\ UNCHANGED <<group, store, faults>>

Existing(k) == {r.rec : r \in {x \in raw : x.trace = k}}
(* What is stored is read, and the ciphertext moved into custody.  Staging *)
(* without it is a retryable failure.                                      *)
LoadTrace(c, k) ==
    /\ At(c, k, "trace", "load")
    /\ Item(c, k).att => Rec(c, k) \in objects \cup staging
    /\ at' = [at EXCEPT ![c][k].pc = "raw", ![c][k].seen = Existing(k)]
    /\ objects' = IF Item(c, k).att THEN objects \cup {Rec(c, k)} ELSE objects
    /\ UNCHANGED <<group, con, raw, refs, sum, stage, tomb, faults>>
AttachmentUnavailable(c, k) ==
    /\ At(c, k, "trace", "load") /\ Item(c, k).att /\ Rec(c, k) \notin objects \cup staging
    /\ con' = [con EXCEPT ![c].bad = @ \cup {k}]
    /\ UNCHANGED <<group, at, store, faults>>

WriteRaw(c, k) ==
    /\ At(c, k, "trace", "raw") /\ Goto(c, k, "refs")
    /\ raw' = IF Item(c, k).rec \in at[c][k].seen THEN raw
              ELSE raw \cup {[trace |-> k, rec |-> Item(c, k).rec, seq |-> Cardinality(at[c][k].seen) + 1]}
    /\ UNCHANGED <<group, con, refs, sum, objects, stage, tomb, faults>>
WriteRefs(c, k) ==
    /\ At(c, k, "trace", "refs") /\ Goto(c, k, "sum")
    /\ refs' = IF Item(c, k).att THEN refs \cup {Rec(c, k)} ELSE refs
    /\ UNCHANGED <<group, con, raw, sum, objects, stage, tomb, faults>>
(* The offset of the message is the version; the greatest is read.         *)
WriteSummary(c, k) ==
    /\ At(c, k, "trace", "sum")
    /\ sum' = [sum EXCEPT ![k] = IF Message(c, k).off < @.version THEN @
                ELSE [version |-> Message(c, k).off, recs |-> at[c][k].seen \cup {Item(c, k).rec}]]
    /\ Processed(c, k)
    /\ UNCHANGED <<group, raw, refs, objects, stage, tomb, faults>>

-----------------------------------------------------------------------------
(* A purge command: TombstoneTrace, stage by stage. *)

(* The stage of the command is loaded; a command that has none writes the  *)
(* tombstone, and then records its first stage.                            *)
LoadPurgeState(c, k) ==
    /\ At(c, k, "purge", "start") /\ stage > 0
    /\ at' = [at EXCEPT ![c][k].pc = "purge", ![c][k].stage = stage]
    /\ UNCHANGED <<group, con, store, faults>>
EnsureTombstone(c, k) ==
    /\ At(c, k, "purge", "start") /\ stage = 0
    /\ tomb' = TRUE /\ Goto(c, k, "tombstoned")
    /\ UNCHANGED <<group, con, raw, refs, sum, objects, stage, faults>>
Tombstoned(c, k) ==
    /\ At(c, k, "purge", "tombstoned")
    /\ stage' = Max({stage, 1})
    /\ at' = [at EXCEPT ![c][k].pc = "purge", ![c][k].stage = 1]
    /\ UNCHANGED <<group, con, raw, refs, sum, objects, tomb, faults>>

Without(rows) == {r \in rows : r.trace # Purged}
(* advanceClickHousePurge: objects that references name, references, raw   *)
(* records, summaries; span analytics, the fifth, are not modelled.        *)
Advance(s) ==
    /\ objects' = IF s = 1 THEN objects \ {r \in refs : r.trace = Purged} ELSE objects
    /\ refs' = IF s = 2 THEN Without(refs) ELSE refs
    /\ raw' = IF s = 3 THEN Without(raw) ELSE raw
    /\ sum' = IF s = 4 THEN [sum EXCEPT ![Purged] = [version |-> 0, recs |-> {}]] ELSE sum

AdvancePurge(c, k) ==
    /\ At(c, k, "purge", "purge") /\ at[c][k].stage < Complete
    /\ Advance(at[c][k].stage)
    /\ at' = [at EXCEPT ![c][k].stage = @ + 1]
    /\ stage' = Max({stage, at[c][k].stage + 1})
    /\ UNCHANGED <<group, con, tomb, faults>>
(* The rows are deleted, the stage is not recorded.                        *)
AdvanceFails(c, k) ==
    /\ At(c, k, "purge", "purge") /\ at[c][k].stage < Complete
    /\ faults < MaxFaults /\ faults' = faults + 1
    /\ Advance(at[c][k].stage)
    /\ con' = [con EXCEPT ![c].bad = @ \cup {k}]
    /\ UNCHANGED <<group, at, stage, tomb>>
\* Mutant: a command that has been seen is acknowledged.
PurgeCompleteSeen(c, k) ==
    /\ At(c, k, "purge", "purge")
    /\ Processed(c, k)
    /\ UNCHANGED <<group, store, faults>>
PurgeComplete(c, k) ==
    /\ At(c, k, "purge", "purge") /\ at[c][k].stage = Complete
    /\ Processed(c, k)
    /\ UNCHANGED <<group, store, faults>>

(* Any call fails; the message is retried.                                 *)
CallFails(c, k) ==
    /\ \E p \in Topics : Working(c, k, p)
    /\ faults < MaxFaults /\ faults' = faults + 1
    /\ con' = [con EXCEPT ![c].bad = @ \cup {k}]
    /\ UNCHANGED <<group, at, store>>

-----------------------------------------------------------------------------
Process(c, k) ==
    \/ CheckTombstone(c, k) \/ LoadTrace(c, k) \/ AttachmentUnavailable(c, k)
    \/ WriteRaw(c, k) \/ WriteRefs(c, k) \/ WriteSummary(c, k)
    \/ LoadPurgeState(c, k) \/ EnsureTombstone(c, k) \/ Tombstoned(c, k)
    \/ AdvancePurge(c, k) \/ PurgeComplete(c, k)
Polls(c) == \E n \in 0..Len(Log), m \in 0..Copies, first \in Topics : Poll(c, n, m, first)
Next ==
    \/ Produce \/ PublishPurge \/ DeleteStaging
    \/ \E c \in Consumers :
          \/ Polls(c) \/ Commit(c) \/ CommitFails(c) \/ Crash(c)
          \/ \E k \in Keys : Process(c, k) \/ CallFails(c, k) \/ AdvanceFails(c, k)
          \/ \E p \in Topics : Rebalance(p, c)

Spec == Init /\ [][Next]_vars
(* Consumers poll, work and commit; outages end.                           *)
LiveSpec ==
    /\ Spec
    /\ \A c \in Consumers :
          /\ WF_vars(Polls(c)) /\ WF_vars(Commit(c))
          /\ \A k \in Keys : WF_vars(Process(c, k))

-----------------------------------------------------------------------------
(* Properties. *)

Stored(i) == \E r \in raw : r.trace = Log[i].trace /\ r.rec = Log[i].rec
Dropped(i) == Log[i].trace = Purged /\ tomb

(* Every variable has its type, and a recorded stage has its tombstone.    *)
TypeOK ==
    /\ \A p \in Topics : committed[p] <= produced[p] /\ owner[p] \in Consumers
    /\ \A c \in Consumers : con[c].ok \subseteq 1..Len(con[c].pend) /\ con[c].bad \subseteq Keys
    /\ {[trace |-> r.trace, rec |-> r.rec] : r \in raw} \cup refs \cup objects \cup staging \subseteq Records
    /\ stage \in 0..Complete /\ (stage > 0 => tomb) /\ faults <= MaxFaults

(* processor.go: Commit only after retained storage accepted the message.  *)
(* No offset passes a record that is not stored, nor a purge that is not   *)
(* complete, over failures, rebalances and stragglers.                     *)
NothingLost ==
    /\ \A i \in 1..committed["trace"] : Stored(i) \/ Dropped(i)
    /\ committed["purge"] > 0 => stage = Complete

(* loadTrace refuses a Trace whose sequence has a hole or a double: its    *)
(* messages would be retried for ever.                                     *)
SequenceContiguous ==
    \A k \in Keys :
        LET rows == {r \in raw : r.trace = k}
        IN ~(k = Purged /\ tomb) =>
            {r.seq : r \in rows} = 1..Cardinality(rows) /\ Cardinality(Existing(k)) = Cardinality(rows)

(* A query that follows a reference finds the object it names.             *)
ReferencedIsStored == \A r \in refs : ~tomb => r \in objects

(* When everything produced is committed the summary read of a Trace       *)
(* covers every record of it.                                              *)
SummaryIsFresh ==
    ~tomb /\ committed["trace"] = produced["trace"] /\ (\A c \in Consumers : con[c].pend = <<>>) =>
        \A k \in Keys : sum[k].recs = Existing(k)

(* The cutover design: the command is complete only when all physical      *)
(* deletion steps succeed.  Nothing of the Trace is left in the tables...  *)
NoRowsAfterPurge ==
    stage = Complete => sum[Purged].recs = {} /\ \A r \in raw \cup refs : r.trace # Purged
(* ... and no object.                                                      *)
(* Does not hold: see "Disagreements" in the README.                        *)
NoObjectAfterPurge ==
    stage = Complete => \A r \in objects : r.trace # Purged

(* A published purge completes.                                            *)
PurgeEnds == produced["purge"] > 0 ~> stage = Complete
(* docs/sprint/SPRINT-5-PRD.md: an invalid Trace group does not poison     *)
(* unrelated groups.  A record of another Trace is stored.                 *)
OthersStored ==
    \A i \in 1..Len(Log) :
        produced["trace"] >= i /\ Log[i].trace # Purged ~> Stored(i)

=============================================================================
