----------------------------- MODULE ChatContext -----------------------------
(***************************************************************************)
(* What a chat Run shows its model of the chat: the lane of the Member's   *)
(* messages and of the steps of all Runs so far                            *)
(* (internal/agent/postgres_context_projection.go, context_projection.go), *)
(* whose beginning a compaction replaces by a summary once it is too long  *)
(* (internal/agent/postgres_compaction.go, compaction.go).                 *)
(*                                                                         *)
(* A unit of the lane is <<turn, run, number>>, <<turn, 0, 0>> the message *)
(* itself.  Of its text only the size matters, of a summary the size and   *)
(* the units that went into it.                                            *)
(***************************************************************************)
EXTENDS Naturals, Sequences, FiniteSets

CONSTANTS MaxRuns,      \* Runs of the chat
          MaxUnits,     \* steps and steering messages of a Run
          MaxTakeovers, \* leases that are lost
          Trigger,      \* CompactionTriggerTokens
          Safe,         \* SafeInputTokens
          KeepRecent,   \* KeepRecentTokens
          Summaries     \* sizes of a summary

\* Of the constants; the MC modules that instantiate this one assume it.
ChatContextAssumption ==
    /\ {MaxRuns, MaxUnits, MaxTakeovers} \subseteq Nat
    /\ Trigger \in 1..Safe /\ KeepRecent \in 1..Trigger /\ Safe \in Nat
    /\ Summaries \subseteq Nat \ {0}

VARIABLES
    runs,         \* the Runs in the order of their creation
    newest,       \* what the newest message of the chat is
    compactions,  \* agent_context_compactions, in the order of insertion
    at,           \* two Attempts, the older one possibly a straggler
    holder,       \* the one with the lease
    takeovers

vars == <<runs, newest, compactions, at, holder, takeovers>>

NoUnit == <<0, 0, 0>>
\* of an Attempt: its Run, its log so far, the projected lane, the newest
\* compaction it has seen, and the one it proposes, or sends its request with.
NoSummary == [covers |-> {}, size |-> 0, through |-> NoUnit, suffix |-> NoUnit, pred |-> 0]
Begun(r, upto) == [pc |-> "begun", run |-> r, upto |-> upto, lane |-> {},
                   latest |-> 0, forced |-> FALSE, candidate |-> NoSummary]
NoAttempt == [Begun(0, 0) EXCEPT !.pc = "gone"]

Init ==
    /\ runs = <<>>
    /\ newest = "none"
    /\ compactions = <<>>
    /\ at = [a \in {1, 2} |-> NoAttempt]
    /\ holder = 1
    /\ takeovers = 0

Units == (1..MaxRuns) \X (0..MaxRuns) \X (0..MaxUnits)
LaneRuns == [turn : 1..MaxRuns, status : {"active", "failed", "completed"},
             log : UNION {[1..n -> {"open", "step", "steering"}] : n \in 0..MaxUnits}]
\* The covered units of a summary have a lane, before the boundary it names.
CompactionRow(c) == /\ c.covers \subseteq Units /\ {c.through, c.suffix} \subseteq Units
                    /\ c.size \in Summaries /\ c.pred \in 0..Len(compactions)

(* The rows have their types: a compaction is never of an empty range.     *)
TypeOK ==
    /\ \A r \in DOMAIN runs : runs[r] \in LaneRuns
    /\ \A i \in DOMAIN compactions : CompactionRow(compactions[i]) /\ compactions[i].covers # {}
    /\ newest \in {"none", "input", "steering", "delivered", "answer"}

Newest == Len(runs)
Active == Newest > 0 /\ runs[Newest].status = "active"
Holds(a) == a = holder /\ Active /\ at[a].run = Newest       \* CheckAuthority
Goes(a, pc) == at' = [at EXCEPT ![a].pc = pc]
Gone(a) == at' = [at EXCEPT ![a] = NoAttempt]

-----------------------------------------------------------------------------
(* The lane. *)

Before(u, v) == \/ u[1] < v[1]
                \/ u[1] = v[1] /\ u[2] < v[2]
                \/ u[1] = v[1] /\ u[2] = v[2] /\ u[3] < v[3]

(* loadChatLane: the turns through the Run's own, in each of them the Runs *)
(* in the order of creation, through the Run; of the Run the given units.  *)
Lane(r, upto) ==
    LET turn == runs[r].turn IN
    {<<t, 0, 0>> : t \in 1..turn} \union
    UNION {{<<runs[x].turn, x, i>> : i \in 1..(IF x = r THEN upto ELSE Len(runs[x].log))} :
             x \in {x \in 1..Len(runs) : runs[x].turn < turn \/ (runs[x].turn = turn /\ x <= r)}}

\* A step with its results is longer than a message.
Size(u) == IF u[2] # 0 /\ runs[u[2]].log[u[3]] # "steering" THEN 2 ELSE 1
Tokens(units) == Cardinality(units) + Cardinality({u \in units : Size(u) = 2})

Suffix(units, u) == {v \in units : ~Before(v, u)}
Through(units, u) == CHOOSE v \in units : Before(v, u) /\ \A x \in units : Before(x, u) => ~Before(v, x)

(* ApplyContextCompaction. *)
Applies(c, units) ==
    /\ {c.suffix, c.through} \subseteq units
    /\ Before(c.through, c.suffix) /\ Through(units, c.suffix) = c.through
Estimate(c, units) == IF c = NoSummary THEN Tokens(units) ELSE c.size + Tokens(Suffix(units, c.suffix))

(* SelectCompactionCut: the longest suffix within KeepRecent, at least the *)
(* last unit, and not the whole lane.                                      *)
Recent(units, u) == Tokens(Suffix(units, u)) <= KeepRecent \/ Suffix(units, u) = {u}
Cut(units) == CHOOSE u \in units : Recent(units, u) /\ \A v \in units : Before(v, u) => ~Recent(units, v)
CanCut(units) == Suffix(units, Cut(units)) # units

-----------------------------------------------------------------------------
(* Requests of the Member. *)

NewRun(turn) ==
    /\ ~Active /\ Newest < MaxRuns
    /\ runs' = Append(runs, [turn |-> turn, status |-> "active", log |-> <<>>])
    /\ newest' = "input"
    /\ holder' = 3 - holder
    /\ at' = [at EXCEPT ![3 - holder] = Begun(Newest + 1, 0)]
    /\ UNCHANGED <<compactions, takeovers>>

SendMessage == NewRun(IF Newest = 0 THEN 1 ELSE runs[Newest].turn + 1)

(* RetryConfiguredQueued: of the newest Run of the newest message.         *)
RetryRun ==
    /\ Newest > 0 /\ runs[Newest].status = "failed" /\ newest = "input"
    /\ NewRun(runs[Newest].turn)

SteerRun ==
    /\ Active /\ newest' = "steering"
    /\ UNCHANGED <<runs, compactions, at, holder, takeovers>>

(* The Run is cancelled or expires, with whatever batch it has begun.      *)
EndRun ==
    /\ Active
    /\ runs' = [runs EXCEPT ![Newest].status = "failed"]
    /\ UNCHANGED <<newest, compactions, at, holder, takeovers>>

(* The lease of an Attempt passes to another one; the older goes on, until *)
(* it stops for good somewhere.                                            *)
TakeOver ==
    /\ Active /\ takeovers < MaxTakeovers
    /\ takeovers' = takeovers + 1
    /\ holder' = 3 - holder
    /\ at' = [at EXCEPT ![3 - holder] = Begun(Newest, Len(runs[Newest].log))]
    /\ UNCHANGED <<runs, newest, compactions>>

-----------------------------------------------------------------------------
(* The log of the Run; only the holder appends to it. *)

Open(r) == runs[r].log # <<>> /\ runs[r].log[Len(runs[r].log)] = "open"
Appended(a, entry) ==
    /\ Holds(a) /\ Len(runs[Newest].log) < MaxUnits
    /\ runs' = [runs EXCEPT ![Newest].log = Append(@, entry)]
    /\ at' = [at EXCEPT ![a] = Begun(Newest, at[a].upto + 1)]
    /\ UNCHANGED <<compactions, holder, takeovers>>

(* A steering message is delivered before a decision.                      *)
DeliverSteering(a) ==
    /\ at[a].pc = "begun" /\ Active /\ ~Open(Newest) /\ newest = "steering"
    /\ Appended(a, "steering")
    /\ newest' = "delivered"

AcceptProposal(a) ==
    /\ at[a].pc = "sent"
    /\ Appended(a, "open")
    /\ UNCHANGED newest

(* All Results of the proposed batch are stored.                           *)
CompleteBatch(a) ==
    /\ at[a].pc = "begun" /\ Holds(a) /\ Open(Newest)
    /\ runs' = [runs EXCEPT ![Newest].log[Len(runs[Newest].log)] = "step"]
    /\ UNCHANGED <<newest, compactions, at, holder, takeovers>>

PublishFinal(a) ==
    /\ at[a].pc = "sent" /\ Holds(a) /\ Len(runs[Newest].log) < MaxUnits
    /\ runs' = [runs EXCEPT ![Newest].log = Append(@, "step"), ![Newest].status = "completed"]
    /\ newest' = "answer"
    /\ Gone(a)
    /\ UNCHANGED <<compactions, holder, takeovers>>

-----------------------------------------------------------------------------
(* prepareDecisionRequest. *)

(* loadChatLane; reconcileTerminalRunActions closes what ended Runs left.  *)
Project(a) ==
    LET r == at[a].run
        closed == [x \in 1..Len(runs) |->
                     IF x # r /\ runs[x].status # "active" /\ Open(x)
                     THEN [runs[x] EXCEPT !.log[Len(runs[x].log)] = "step"] ELSE runs[x]]
    IN  /\ at[a].pc = "begun"
        /\ at[a].upto > 0 => runs[r].log[at[a].upto] # "open"
        /\ runs' = closed
        /\ at' = [at EXCEPT ![a].pc = "projected", ![a].lane = Lane(r, at[a].upto)]
        /\ UNCHANGED <<newest, compactions, holder, takeovers>>

(* loadLatestContextCompaction.                                            *)
Latest(a) == IF at[a].latest = 0 THEN NoSummary ELSE compactions[at[a].latest]
LoadLatest(a) ==
    LET n == Len(compactions) IN
    /\ at[a].pc = "projected"
    /\ at' = [at EXCEPT ![a].latest = n,
                        ![a].pc = IF n = 0 \/ Applies(compactions[n], at[a].lane) THEN "loaded" ELSE "broken"]
    /\ UNCHANGED <<runs, newest, compactions, holder, takeovers>>

Due(a) == at[a].forced \/ Estimate(Latest(a), at[a].lane) > Trigger
Sends(a, c) == at' = [at EXCEPT ![a].pc = "sent", ![a].candidate = c, ![a].latest = 0]

SendUncompacted(a) ==
    /\ at[a].pc = "loaded" /\ ~Due(a)
    /\ Sends(a, Latest(a))
    /\ UNCHANGED <<runs, newest, compactions, holder, takeovers>>

(* The Provider found the request too long: once more, compacted.          *)
ProviderOverflow(a) ==
    /\ at[a].pc = "sent" /\ ~at[a].forced
    /\ at' = [at EXCEPT ![a] = [Begun(@.run, @.upto) EXCEPT !.forced = TRUE]]
    /\ UNCHANGED <<runs, newest, compactions, holder, takeovers>>

Advances(a) == LET cut == Cut(at[a].lane) IN
    /\ CanCut(at[a].lane)
    /\ at[a].latest # 0 => Before(Latest(a).suffix, cut)

(* generateContextSummary under CheckAuthority; the summary of a summary   *)
(* stands for all that one stood for.                                      *)
SummaryInput(a) ==
    LET old == Latest(a)
        raw == at[a].lane \ Suffix(at[a].lane, Cut(at[a].lane))
    IN  IF old = NoSummary THEN raw ELSE old.covers \union Suffix(raw, old.suffix)
Summarise(a, size) ==
    LET cut == Cut(at[a].lane)
        candidate == [covers |-> SummaryInput(a), size |-> size, pred |-> at[a].latest,
                      through |-> Through(at[a].lane, cut), suffix |-> cut]
        before == Estimate(Latest(a), at[a].lane)
        after == Estimate(candidate, at[a].lane)
    IN  /\ at[a].pc = "loaded" /\ Due(a) /\ Advances(a) /\ Holds(a)
        /\ at' = [at EXCEPT ![a].candidate = candidate,
                            ![a].pc = IF after <= Safe /\ after < before THEN "summarised" ELSE "exceeded"]
        /\ UNCHANGED <<runs, newest, compactions, holder, takeovers>>

(* Nothing new can be summarised.                                          *)
CannotCompact(a) ==
    /\ at[a].pc = "loaded" /\ Due(a) /\ ~Advances(a)
    /\ Goes(a, "exceeded")
    /\ UNCHANGED <<runs, newest, compactions, holder, takeovers>>

CheckAuthority(a) ==
    /\ at[a].pc = "summarised" /\ Holds(a)
    /\ Goes(a, "checked")
    /\ UNCHANGED <<runs, newest, compactions, holder, takeovers>>

(* appendContextCompaction: whoever comes second takes what is there.  The *)
(* lease is not looked at any more.                                        *)
\* Mutant: the newest compaction is not compared with the predecessor.
AppendUnlocked(a) ==
    /\ at[a].pc = "checked"
    /\ compactions' = Append(compactions, at[a].candidate)
    /\ Sends(a, at[a].candidate)
    /\ UNCHANGED <<runs, newest, holder, takeovers>>
AppendContextCompaction(a) ==
    LET n == Len(compactions)
        first == n = at[a].candidate.pred
        accepted == IF first THEN at[a].candidate ELSE compactions[n]
    IN  /\ at[a].pc = "checked"
        /\ compactions' = IF first THEN Append(compactions, accepted) ELSE compactions
        /\ IF ~Applies(accepted, at[a].lane) THEN Goes(a, "broken")
           ELSE IF Estimate(accepted, at[a].lane) > Safe THEN Goes(a, "exceeded")
           ELSE Sends(a, accepted)
        /\ UNCHANGED <<runs, newest, holder, takeovers>>

(* ErrContextBudgetExceeded and a failed projection end the Run.           *)
Fail(a) ==
    /\ at[a].pc \in {"exceeded", "broken"} /\ Holds(a)
    /\ runs' = [runs EXCEPT ![Newest].status = "failed"]
    /\ Gone(a)
    /\ UNCHANGED <<newest, compactions, holder, takeovers>>

Next ==
    \/ SendMessage
    \/ RetryRun
    \/ SteerRun
    \/ EndRun
    \/ TakeOver
    \/ \E a \in {1, 2} :
          \/ DeliverSteering(a)
          \/ AcceptProposal(a)
          \/ CompleteBatch(a)
          \/ PublishFinal(a)
          \/ Project(a)
          \/ LoadLatest(a)
          \/ SendUncompacted(a)
          \/ ProviderOverflow(a)
          \/ \E size \in Summaries : Summarise(a, size)
          \/ CannotCompact(a)
          \/ CheckAuthority(a)
          \/ AppendContextCompaction(a)
          \/ Fail(a)

Spec == Init /\ [][Next]_vars

-----------------------------------------------------------------------------
(* Every request stands for the whole lane, each unit in the summary or    *)
(* as it was and none in both; every compaction goes on where its          *)
(* predecessor ended, although an Attempt that lost its lease may still    *)
(* append one; and the chat stays legible: no compaction names a boundary  *)
(* the lane of the Run at work does not have.                              *)
NothingForgotten ==
    /\ \A a \in {1, 2} : at[a].pc = "sent" =>
          LET covers == at[a].candidate.covers
              exact == IF at[a].candidate = NoSummary THEN at[a].lane
                       ELSE Suffix(at[a].lane, at[a].candidate.suffix)
          IN  covers \intersect exact = {} /\ covers \union exact = at[a].lane
    /\ \A i \in 2..Len(compactions) :
          /\ compactions[i].pred = i - 1
          /\ Before(compactions[i - 1].suffix, compactions[i].suffix)
    /\ at[holder].pc = "broken" => ~Holds(holder)

=============================================================================
