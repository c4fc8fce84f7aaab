-------------------------- MODULE ResearchSessions --------------------------
(***************************************************************************)
(* The Research Sessions of one Member: the planner's Run, which may pause *)
(* for answers (internal/agent/research_planning_input.go), the plan       *)
(* versions it and the Member write, revisions of the plan in further      *)
(* planning Runs, and the Run that executes an accepted version            *)
(* (internal/app/research_routes.go, research_planning_runtime.go,         *)
(* research_runtime.go).                                                   *)
(*                                                                         *)
(* A Run is known here by what a session sees of it: its rows, the newest  *)
(* lease token, and how far its log has come.  Time is whether the         *)
(* deadline of a Run has passed and whether its lease has lapsed.          *)
(***************************************************************************)
EXTENDS Naturals, FiniteSets

CONSTANTS Sessions,
          MaxRuns,        \* Runs admitted altogether
          MaxLeases,      \* leases of a Run before it is exhausted
          MaxQuestions,   \* batches of questions a planner asks
          MaxVersions     \* plan versions of a session

\* Of the constants; the MC modules that instantiate this one assume it.
ResearchSessionsAssumption ==
    {MaxRuns, MaxLeases, MaxQuestions, MaxVersions} \subseteq Nat

RunIds == 1..MaxRuns
Tokens == 1..MaxLeases

VARIABLES
    ses,        \* research_sessions
    plans,      \* the newest of research_plan_versions, 0 for none
    turns,      \* research_planning_turns: the Runs of the conversation
    run,        \* agent_runs with agent_jobs, as far as admitted
    questions,  \* research_planning_questions: the state of each batch
    log,        \* what the checkpoints of a Run accepted
    at          \* the Attempt of each token

vars == <<ses, plans, turns, run, questions, log, at>>

NoSession == [status |-> "none", planning |-> 0, accepted |-> 0, execution |-> 0, reports |-> 0]
NoRun == [kind |-> "none", of |-> "none", status |-> "none", job |-> "none",
          token |-> 0, lapsed |-> FALSE, late |-> FALSE]
EmptyLog == [asked |-> 0, done |-> 0, final |-> FALSE]

Init ==
    /\ ses = [s \in Sessions |-> NoSession]
    /\ plans = [s \in Sessions |-> 0]
    /\ turns = [s \in Sessions |-> {}]
    /\ run = [r \in RunIds |-> NoRun]
    /\ questions = [r \in RunIds |-> [q \in 1..MaxQuestions |-> "none"]]
    /\ log = [r \in RunIds |-> EmptyLog]
    /\ at = [r \in RunIds |-> [t \in Tokens |-> "none"]]

(* The rows. *)
SessionRows == [status : {"none", "planning", "awaiting_input", "awaiting_confirmation", "queued",
                          "running", "publishing", "completed", "failed", "cancelled"},
                planning : 0..MaxRuns, accepted : 0..MaxVersions, execution : 0..MaxRuns, reports : 0..1]
PlanVersions == 0..MaxVersions
PlanningTurns == SUBSET RunIds
QuestionStates == {"none", "open", "answered"}
RunRows(of) == [kind : {"none", "planning", "execution"}, of : of,
                status : {"none", "queued", "running", "completed", "failed", "cancelled"},
                job : {"none", "queued", "running", "waiting", "ended"},
                token : 0..MaxLeases, lapsed : BOOLEAN, late : BOOLEAN]

(* The tables hold rows of their types: a session has at most one report.  *)
TypeOK ==
    /\ ses \in [Sessions -> SessionRows]
    /\ plans \in [Sessions -> PlanVersions]
    /\ turns \in [Sessions -> PlanningTurns]
    /\ \A r \in RunIds : run[r] \in RunRows(IF run[r].status = "none" THEN {NoRun.of} ELSE Sessions)
    /\ questions \in [RunIds -> [1..MaxQuestions -> QuestionStates]]

-----------------------------------------------------------------------------
(* Runs. *)

Active(r) == run[r].status \in {"queued", "running"}
ActiveByUser == \E r \in RunIds : Active(r)
Free(r) == run[r].status = "none" /\ \A x \in 1..(r - 1) : run[x].status # "none"

Admitted(kind, s) == [NoRun EXCEPT !.kind = kind, !.of = s, !.status = "queued", !.job = "queued"]

(* The end of a Run takes its Job along, whatever the Job waits for.       *)
Ended(r, status) == [run[r] EXCEPT !.status = status, !.job = "ended", !.lapsed = FALSE]

(* ExpireIfOverdue, in whose transaction requests continue: the Runs that  *)
(* are overdue end, and nothing is said to their sessions.                 *)
Overdue(r) == Active(r) /\ run[r].late
Expired == [r \in RunIds |-> IF Overdue(r) THEN Ended(r, "failed") ELSE run[r]]
ActiveAfterExpiry == \E r \in RunIds : Active(r) /\ ~run[r].late

DeadlinePasses(r) ==
    /\ Active(r) /\ ~run[r].late
    /\ run' = [run EXCEPT ![r].late = TRUE]
    /\ UNCHANGED <<ses, plans, turns, questions, log, at>>

ExpireIfOverdue ==
    /\ run' = Expired /\ run' # run
    /\ UNCHANGED <<ses, plans, turns, questions, log, at>>

(* A claim: of a queued Job, or of one whose lease lapsed.                 *)
Claim(r) ==
    /\ ~run[r].late /\ run[r].token < MaxLeases
    /\ run[r].job = "queued" \/ (run[r].job = "running" /\ run[r].lapsed)
    /\ run' = [run EXCEPT ![r].status = "running", ![r].job = "running",
                          ![r].token = @ + 1, ![r].lapsed = FALSE]
    /\ at' = [at EXCEPT ![r][run[r].token + 1] = "begun"]
    /\ UNCHANGED <<ses, plans, turns, questions, log>>

LeaseLapses(r) ==
    /\ run[r].job = "running" /\ ~run[r].lapsed
    /\ run' = [run EXCEPT ![r].lapsed = TRUE]
    /\ UNCHANGED <<ses, plans, turns, questions, log, at>>

AttemptDies(r, t) ==
    /\ at[r][t] \notin {"none", "gone"}
    /\ at' = [at EXCEPT ![r][t] = "gone"]
    /\ UNCHANGED <<ses, plans, turns, run, questions, log>>

(* lockCheckpointAuthority: the Attempt holds the Run's lease.             *)
Holds(r, t) ==
    /\ run[r].status = "running" /\ run[r].job = "running"
    /\ run[r].token = t /\ ~run[r].lapsed /\ ~run[r].late

(* TerminalizeAttemptStateInTx, for an Attempt that is not tried again and *)
(* for a lease that lapsed once too often: it refuses a Run whose session  *)
(* is not where a Run at work leaves it.                                   *)
SessionAtWork(r) ==
    LET s == ses[run[r].of] IN
    \/ s.planning = r /\ s.status \in {"planning", "awaiting_input"}
    \/ s.execution = r /\ s.status \in {"queued", "running", "publishing"}

Terminalize(r) ==
    /\ run[r].status = "running" /\ run[r].job = "running"
    /\ ~run[r].lapsed \/ run[r].token = MaxLeases
    /\ SessionAtWork(r)
    /\ run' = [run EXCEPT ![r] = Ended(r, "failed")]
    /\ ses' = [ses EXCEPT ![run[r].of].status = "failed"]
    /\ UNCHANGED <<plans, turns, questions, log, at>>

(* cancelRun: the Run and, where it is still at work, its session.         *)
Cancel(r) ==
    /\ Active(r)
    /\ run' = [run EXCEPT ![r] = Ended(r, "cancelled")]
    /\ ses' = IF SessionAtWork(r) THEN [ses EXCEPT ![run[r].of].status = "cancelled"] ELSE ses
    /\ UNCHANGED <<plans, turns, questions, log, at>>

-----------------------------------------------------------------------------
(* The Member's requests. *)

(* A message in research mode.                                             *)
Create(s, r) ==
    /\ ses[s].status = "none" /\ Free(r) /\ ~ActiveAfterExpiry
    /\ run' = [Expired EXCEPT ![r] = Admitted("planning", s)]
    /\ ses' = [ses EXCEPT ![s].status = "planning", ![s].planning = r]
    /\ UNCHANGED <<plans, turns, questions, log, at>>

(* reviseResearchPlan with a new message: another planning Run continues   *)
(* the conversation.                                                       *)
Revise(s, r) ==
    /\ ses[s].status = "awaiting_confirmation" /\ Free(r) /\ ~ActiveAfterExpiry
    /\ run' = [Expired EXCEPT ![r] = Admitted("planning", s)]
    /\ turns' = [turns EXCEPT ![s] = @ \union {ses[s].planning, r}]
    /\ ses' = [ses EXCEPT ![s].status = "planning", ![s].planning = r]
    /\ UNCHANGED <<plans, questions, log, at>>

(* editResearchPlan.                                                       *)
Edit(s) ==
    /\ ses[s].status = "awaiting_confirmation" /\ plans[s] < MaxVersions
    /\ plans' = [plans EXCEPT ![s] = @ + 1]
    /\ UNCHANGED <<ses, turns, run, questions, log, at>>

(* startResearch: of any version, also one that was edited or revised      *)
(* since.  It does not expire what is overdue.                             *)
Start(s, r, version) ==
    /\ ses[s].status = "awaiting_confirmation" /\ version \in 1..plans[s]
    /\ Free(r) /\ ~ActiveByUser
    /\ run' = [run EXCEPT ![r] = Admitted("execution", s)]
    /\ ses' = [ses EXCEPT ![s].status = "queued", ![s].accepted = version, ![s].execution = r]
    /\ UNCHANGED <<plans, turns, questions, log, at>>

(* AnswerPlanningQuestionsInTx: normalizePlanningAnswers has accepted the  *)
(* answers.  A batch that cannot be answered any more changes nothing.     *)
Answer(s, q) ==
    LET r == ses[s].planning IN
    /\ ses[s].status = "awaiting_input" /\ questions[r][q] = "open"
    /\ run[r].status = "running" /\ run[r].job = "waiting" /\ ~run[r].late
    /\ questions' = [questions EXCEPT ![r][q] = "answered"]
    /\ ses' = [ses EXCEPT ![s].status = "planning"]
    /\ run' = [run EXCEPT ![r].status = "queued", ![r].job = "queued"]
    /\ UNCHANGED <<plans, turns, log, at>>

-----------------------------------------------------------------------------
(* An Attempt of the planner. *)

Planner(r, t) == run[r].kind = "planning" /\ at[r][t] = "begun" /\ Holds(r, t)
Session(r) == run[r].of
Asks(r) == log[r].asked > log[r].done      \* a proposal without its result

(* BuildDecisionRequest and the decision: questions, or a plan that passes *)
(* ValidateResearchPlanJSON.                                               *)
Decide(r, t) ==
    /\ Planner(r, t) /\ ~Asks(r) /\ ~log[r].final
    /\ ses[Session(r)].planning = r /\ ses[Session(r)].status = "planning"
    /\ \/ log' = [log EXCEPT ![r].final = TRUE]
       \/ log[r].asked < MaxQuestions /\ log' = [log EXCEPT ![r].asked = @ + 1]
    /\ UNCHANGED <<ses, plans, turns, run, questions, at>>

(* requestUserInputAction.Execute of a batch without answers: the batch is *)
(* there once, the session awaits, and the Attempt gives its lease away.   *)
(* Without a session to ask in, planning_questions_unavailable is the      *)
(* result; SessionFollowsRun says that there always is one.                *)
\* Mutant: the lease is given away before the session awaits.
AskQuietly(r, t) ==
    /\ Planner(r, t) /\ Asks(r) /\ questions[r][log[r].asked] # "answered"
    /\ ses[Session(r)].planning = r /\ ses[Session(r)].status \in {"planning", "awaiting_input"}
    /\ questions' = [questions EXCEPT ![r][log[r].asked] = "open"]
    /\ run' = [run EXCEPT ![r].job = "waiting"]
    /\ at' = [at EXCEPT ![r][t] = "gone"]
    /\ UNCHANGED <<ses, plans, turns, log>>
Ask(r, t) ==
    /\ Planner(r, t) /\ Asks(r) /\ questions[r][log[r].asked] # "answered"
    /\ IF ses[Session(r)].planning = r /\ ses[Session(r)].status \in {"planning", "awaiting_input"}
       THEN /\ questions' = [questions EXCEPT ![r][log[r].asked] = "open"]
            /\ ses' = [ses EXCEPT ![Session(r)].status = "awaiting_input"]
            /\ run' = [run EXCEPT ![r].job = "waiting"]
            /\ at' = [at EXCEPT ![r][t] = "gone"]
            /\ UNCHANGED log
       ELSE /\ log' = [log EXCEPT ![r].done = @ + 1]
            /\ UNCHANGED <<ses, run, questions, at>>
    /\ UNCHANGED <<plans, turns>>

(* The replayed Action returns the answers, and its result is stored.      *)
TakeAnswers(r, t) ==
    /\ Planner(r, t) /\ Asks(r) /\ questions[r][log[r].asked] = "answered"
    /\ log' = [log EXCEPT ![r].done = @ + 1]
    /\ UNCHANGED <<ses, plans, turns, run, questions, at>>

(* ResearchPlanningRuntime.PublishFinal.                                   *)
PublishPlan(r, t) ==
    LET s == Session(r) IN
    /\ Planner(r, t) /\ log[r].final /\ plans[s] < MaxVersions
    /\ ses[s].planning = r /\ ses[s].status = "planning"
    /\ plans' = [plans EXCEPT ![s] = @ + 1]
    /\ ses' = [ses EXCEPT ![s].status = "awaiting_confirmation"]
    /\ run' = [run EXCEPT ![r] = Ended(r, "completed")]
    /\ at' = [at EXCEPT ![r][t] = "gone"]
    /\ UNCHANGED <<turns, questions, log>>

-----------------------------------------------------------------------------
(* An Attempt of the execution. *)

Executor(r, t, pc) == run[r].kind = "execution" /\ at[r][t] = pc

(* ResearchRuntime.Load: the Run is read under its lease, and the session  *)
(* is marked in a transaction of its own, which asks for no lease.         *)
Load(r, t) ==
    /\ Executor(r, t, "begun") /\ Holds(r, t)
    /\ at' = [at EXCEPT ![r][t] = "loading"]
    /\ UNCHANGED <<ses, plans, turns, run, questions, log>>
MarkRunning(r, t) ==
    /\ Executor(r, t, "loading")
    /\ at' = [at EXCEPT ![r][t] = "loaded"]
    /\ ses' = IF ses[Session(r)].execution = r /\ ses[Session(r)].status = "queued"
              THEN [ses EXCEPT ![Session(r)].status = "running"] ELSE ses
    /\ UNCHANGED <<plans, turns, run, questions, log>>

(* ResearchRuntime.PublishFinal.                                           *)
PublishReport(r, t) ==
    LET s == Session(r) IN
    /\ Executor(r, t, "loaded") /\ Holds(r, t)
    /\ ses[s].execution = r /\ ses[s].status = "running"
    /\ ses' = [ses EXCEPT ![s].status = "completed", ![s].reports = @ + 1]
    /\ run' = [run EXCEPT ![r] = Ended(r, "completed")]
    /\ at' = [at EXCEPT ![r][t] = "gone"]
    /\ UNCHANGED <<plans, turns, questions, log>>

(* Fail of both runtimes: the Run ends in one transaction, its session is  *)
(* told in the next.                                                       *)
Fail(r, t) ==
    /\ at[r][t] \in {"begun", "loaded"} /\ Holds(r, t)
    /\ run' = [run EXCEPT ![r] = Ended(r, "failed")]
    /\ at' = [at EXCEPT ![r][t] = "failed"]
    /\ UNCHANGED <<ses, plans, turns, questions, log>>
FailSession(r, t) ==
    LET s == Session(r) IN
    /\ at[r][t] = "failed"
    /\ at' = [at EXCEPT ![r][t] = "gone"]
    /\ ses' = IF \/ ses[s].planning = r /\ ses[s].status = "planning"
                 \/ ses[s].execution = r /\ ses[s].status \in {"queued", "running", "publishing"}
              THEN [ses EXCEPT ![s].status = "failed"] ELSE ses
    /\ UNCHANGED <<plans, turns, run, questions, log>>

Next ==
    \/ ExpireIfOverdue
    \/ \E s \in Sessions :
          \/ Edit(s)
          \/ \E q \in 1..MaxQuestions : Answer(s, q)
          \/ \E r \in RunIds : \/ Create(s, r)
                               \/ Revise(s, r)
                               \/ \E version \in 1..MaxVersions : Start(s, r, version)
    \/ \E r \in RunIds :
          \/ DeadlinePasses(r)
          \/ Claim(r)
          \/ LeaseLapses(r)
          \/ Terminalize(r)
          \/ Cancel(r)
          \/ \E t \in Tokens :
                \/ AttemptDies(r, t)
                \/ Decide(r, t)
                \/ Ask(r, t)
                \/ TakeAnswers(r, t)
                \/ PublishPlan(r, t)
                \/ Load(r, t)
                \/ MarkRunning(r, t)
                \/ PublishReport(r, t)
                \/ Fail(r, t)
                \/ FailSession(r, t)

Spec == Init /\ [][Next]_vars

-----------------------------------------------------------------------------
(* A Member has one Run at work, although sessions, chats and revisions    *)
(* are admitted by different requests: the unique index no longer applies  *)
(* once FinalizeConfiguredChatOwnership has cleared the Run's user.        *)
OneRunAtWork == Cardinality({r \in RunIds : Active(r)}) <= 1

(* A Run at work finds its session where its end looks for it, and a       *)
(* planner is suspended exactly while its session shows an open batch of   *)
(* its questions: otherwise nobody could answer, publish or fail it.       *)
SessionFollowsRun ==
    \A r \in RunIds : Active(r) =>
        LET s == ses[run[r].of] IN
        IF run[r].kind = "execution"
        THEN s.execution = r /\ s.status \in {"queued", "running"}
        ELSE /\ s.planning = r /\ s.status \in {"planning", "awaiting_input"}
             /\ run[r].job = "waiting" <=> s.status = "awaiting_input"
             /\ run[r].job = "waiting" => questions[r][log[r].asked] = "open"

(* A session at work has a Run at work.  Not so: a Run that exceeds its    *)
(* deadline ends alone, and so does one whose Attempt dies inside Fail.    *)
(* Does not hold: see "Disagreements" in the README.                        *)
RunFollowsSession ==
    \A s \in Sessions :
        /\ ses[s].status \in {"planning", "awaiting_input"} => Active(ses[s].planning)
        /\ ses[s].status \in {"queued", "running"} => Active(ses[s].execution)

=============================================================================
