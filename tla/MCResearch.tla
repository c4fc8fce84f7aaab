----------------------------- MODULE MCResearch -----------------------------
(* What a research Run builds on: sessions and their plans, the declaration *)
(* of a report, long results in the cache, and the context of requests,    *)
(* also of a chat.  A behaviour is of one of them.                         *)
(* The instances of ResearchSessions are of the module with its theorems.  *)
EXTENDS Naturals, Sequences

CONSTANTS ReportQuestions, ReportDecisions, ReportActions,
          ReportCards,                                       \* of ResearchReports
          ChatRuns, ChatUnits, ChatTakeovers, ChatTrigger,
          ChatSafe, ChatKeep, ChatSummaries,                   \* of ChatContext
          ResultTexts, ResultInline, ResultMaximum,
          ResultPage, ResultRefs, ResultReads,                 \* of ToolResults
          MemorySteps, StallingSteps, MemoryTakeovers, MemoryBatch,
          MemoryTrigger, MemorySafe, MemoryKeep            \* of ResearchMemory

(* Characters with their bytes and their cost in JSON; C has what B has     *)
(* with the beginning at the end.                                           *)
Char(id, bytes, cost) == [id |-> id, bytes |-> bytes, cost |-> cost]
A == <<Char(1, 1, 1), Char(2, 3, 3), Char(3, 1, 2), Char(4, 4, 4), Char(5, 2, 2), Char(6, 1, 2)>>
B == <<Char(1, 1, 1), Char(7, 2, 2)>>
C == <<Char(8, 4, 4), Char(9, 4, 4), Char(1, 1, 1), Char(2, 3, 3), Char(7, 2, 2)>>
Pages == {A, B, C}

VARIABLE scene     \* the component, and the instance of it, a behaviour is of
VARIABLES   \* of ResearchSessions
    rs_ses, rs_plans, rs_turns, rs_run, rs_questions, rs_log, rs_at
VARIABLES   \* of ResearchReports
    rr_cards, rr_log, rr_doing, rr_seen, rr_reader, rr_exhausted,
    rr_published
VARIABLES   \* of ToolResults
    tr_cache, tr_pending, tr_result, tr_aged, tr_trail, tr_reads,
    tr_hydration
VARIABLES   \* of ChatContext
    cc_runs, cc_newest, cc_compactions, cc_at, cc_holder, cc_takeovers
VARIABLES   \* of ResearchMemory
    rm_decisions, rm_steered, rm_capsules, rm_memories, rm_at, rm_holder,
    rm_takeovers, rm_status

Member == INSTANCE ResearchSessionsProofs WITH
    Sessions <- {1, 2}, MaxRuns <- 3, MaxLeases <- 1, MaxQuestions <- 1,
    MaxVersions <- 2, ses <- rs_ses, plans <- rs_plans, turns <- rs_turns,
    run <- rs_run, questions <- rs_questions, log <- rs_log, at <- rs_at

Attempts == INSTANCE ResearchSessionsProofs WITH
    Sessions <- {1}, MaxRuns <- 2, MaxLeases <- 2, MaxQuestions <- 2,
    MaxVersions <- 2, ses <- rs_ses, plans <- rs_plans, turns <- rs_turns,
    run <- rs_run, questions <- rs_questions, log <- rs_log, at <- rs_at

Reports == INSTANCE ResearchReports WITH
    Questions <- ReportQuestions, DecisionLimit <- ReportDecisions,
    ActionLimit <- ReportActions, MaxCards <- ReportCards, cards <- rr_cards, log <- rr_log,
    doing <- rr_doing, seen <- rr_seen, reader <- rr_reader,
    exhausted <- rr_exhausted, published <- rr_published

Results == INSTANCE ToolResults WITH
    Texts <- ResultTexts, InlineLimit <- ResultInline,
    MaximumValue <- ResultMaximum, PageBytes <- ResultPage,
    MaxRefs <- ResultRefs, MaxReads <- ResultReads,
    cache <- tr_cache, pending <- tr_pending, result <- tr_result, aged <- tr_aged, trail <- tr_trail,
    reads <- tr_reads, hydration <- tr_hydration

Chat == INSTANCE ChatContext WITH
    MaxRuns <- ChatRuns, MaxUnits <- ChatUnits,
    MaxTakeovers <- ChatTakeovers, Trigger <- ChatTrigger, Safe <- ChatSafe,
    KeepRecent <- ChatKeep, Summaries <- ChatSummaries, runs <- cc_runs,
    newest <- cc_newest, compactions <- cc_compactions, at <- cc_at,
    holder <- cc_holder, takeovers <- cc_takeovers

\* A Run that stalls nowhere, and a shorter one that does.
Memory(steps, stalls) == INSTANCE ResearchMemory WITH
    MaxDecisions <- steps, MaxTakeovers <- MemoryTakeovers,
    BatchMax <- MemoryBatch, Trigger <- MemoryTrigger, Safe <- MemorySafe,
    KeepRecent <- MemoryKeep, Stalls <- stalls, decisions <- rm_decisions,
    steered <- rm_steered, capsules <- rm_capsules, memories <- rm_memories,
    at <- rm_at, holder <- rm_holder, takeovers <- rm_takeovers,
    status <- rm_status

ASSUME ResearchAssumption ==
    /\ Member!ResearchSessionsAssumption /\ Attempts!ResearchSessionsAssumption
    /\ Reports!ResearchReportsAssumption
    /\ Results!ToolResultsAssumption
    /\ Chat!ChatContextAssumption
    /\ Memory(MemorySteps, FALSE)!ResearchMemoryAssumption
    /\ Memory(StallingSteps, TRUE)!ResearchMemoryAssumption

rs_vars == <<rs_ses, rs_plans, rs_turns, rs_run, rs_questions, rs_log,
             rs_at>>
rr_vars == <<rr_cards, rr_log, rr_doing, rr_seen, rr_reader, rr_exhausted,
             rr_published>>
tr_vars == <<tr_cache, tr_pending, tr_result, tr_aged, tr_trail, tr_reads,
             tr_hydration>>
cc_vars == <<cc_runs, cc_newest, cc_compactions, cc_at, cc_holder,
             cc_takeovers>>
rm_vars == <<rm_decisions, rm_steered, rm_capsules, rm_memories, rm_at,
             rm_holder, rm_takeovers, rm_status>>
vars == <<scene, rs_vars, rr_vars, tr_vars, cc_vars, rm_vars>>

Init ==
    \/ scene = "member" /\ Member!Init /\ Reports!Init /\ Results!Init /\ Chat!Init /\
          Memory(MemorySteps, FALSE)!Init
    \/ scene = "attempts" /\ Attempts!Init /\ Reports!Init /\ Results!Init /\ Chat!Init /\
          Memory(MemorySteps, FALSE)!Init
    \/ scene = "report" /\ Reports!Init /\ Member!Init /\ Results!Init /\ Chat!Init /\
          Memory(MemorySteps, FALSE)!Init
    \/ scene = "result" /\ Results!Init /\ Member!Init /\ Reports!Init /\ Chat!Init /\
          Memory(MemorySteps, FALSE)!Init
    \/ scene = "chat" /\ Chat!Init /\ Member!Init /\ Reports!Init /\ Results!Init /\
          Memory(MemorySteps, FALSE)!Init
    \/ scene = "memory" /\ Memory(MemorySteps, FALSE)!Init /\ Member!Init
          /\ Reports!Init /\ Results!Init /\ Chat!Init
    \/ scene = "stalling" /\ Memory(StallingSteps, TRUE)!Init /\ Member!Init
          /\ Reports!Init /\ Results!Init /\ Chat!Init

Next ==
    \/ scene = "member" /\ Member!Next /\ UNCHANGED <<scene, rr_vars, tr_vars, cc_vars,
          rm_vars>>
    \/ scene = "attempts" /\ Attempts!Next /\ UNCHANGED <<scene, rr_vars, tr_vars,
          cc_vars, rm_vars>>
    \/ scene = "report" /\ Reports!Next /\ UNCHANGED <<scene, rs_vars, tr_vars, cc_vars,
          rm_vars>>
    \/ scene = "result" /\ Results!Next /\ UNCHANGED <<scene, rs_vars, rr_vars, cc_vars,
          rm_vars>>
    \/ scene = "chat" /\ Chat!Next /\ UNCHANGED <<scene, rs_vars, rr_vars, tr_vars,
          rm_vars>>
    \/ scene = "memory" /\ Memory(MemorySteps, FALSE)!Next
          /\ UNCHANGED <<scene, rs_vars, rr_vars, tr_vars, cc_vars>>
    \/ scene = "stalling" /\ Memory(StallingSteps, TRUE)!Next
          /\ UNCHANGED <<scene, rs_vars, rr_vars, tr_vars, cc_vars>>

Spec == Init /\ [][Next]_vars

-----------------------------------------------------------------------------
(* A Member has one research Run at work, and a session has the status of   *)
(* its Run, where the end of the Run looks for it.                          *)
SessionFollowsRun ==
    /\ scene = "member" => Member!TypeOK /\ Member!OneRunAtWork /\ Member!SessionFollowsRun
    /\ scene = "attempts" => Attempts!TypeOK /\ Attempts!SessionFollowsRun

(* What is published is the report its declaration was accepted for.        *)
PublishedAsDeclared == scene = "report" => Reports!TypeOK /\ Reports!PublishedAsDeclared

(* Reading on from a preview yields the result, over evictions and replays. *)
FollowedIsTheResult == scene = "result" => Results!TypeOK /\ Results!FollowedIsTheResult

(* A request of a chat stands for the whole lane, whatever was summarised.  *)
NothingForgotten == scene = "chat" => Chat!TypeOK /\ Chat!NothingForgotten

(* Capsules and memories of a research Run stay what requests were built    *)
(* with, and legible.                                                       *)
MemoryHolds ==
    /\ scene = "memory" => /\ Memory(MemorySteps, FALSE)!TypeOK
                          /\ Memory(MemorySteps, FALSE)!CapsulesHold
                          /\ Memory(MemorySteps, FALSE)!ProjectionHolds
    /\ scene = "stalling" => Memory(StallingSteps, TRUE)!CapsulesHold

=============================================================================
