----------------------- MODULE ResearchSessionsProofs -----------------------
(***************************************************************************)
(* What holds of the Research Sessions of a Member for any Sessions, Runs, *)
(* leases, batches of questions and plan versions.                         *)
(***************************************************************************)
EXTENDS ResearchSessions, FiniteSetTheorems, TLAPS

AttemptStates == {"none", "begun", "loading", "loaded", "failed", "gone"}
Logs == [asked : 0..MaxQuestions, done : Nat, final : BOOLEAN]

Typed ==
    /\ ses \in [Sessions -> SessionRows]
    /\ plans \in [Sessions -> PlanVersions]
    /\ turns \in [Sessions -> PlanningTurns]
    /\ run \in [RunIds -> RunRows(Sessions \union {NoRun.of})]
    /\ questions \in [RunIds -> [1..MaxQuestions -> QuestionStates]]
    /\ log \in [RunIds -> Logs]
    /\ at \in [RunIds -> [Tokens -> AttemptStates]]

(* A Run not yet admitted has no history, one with a Job to do is at work, *)
(* and one whose Attempt failed it is not.                                 *)
RunHolds(r) ==
    /\ run[r].status = "none" => run[r] = NoRun /\ \A t \in Tokens : at[r][t] = "none"
    /\ run[r].status # "none" => run[r].of \in Sessions
    /\ run[r].job \in {"queued", "running", "waiting"} => Active(r)
    /\ \A t \in Tokens : at[r][t] = "failed" => ~Active(r)

(* A session has a planner of its own, and a report only at its end.       *)
SessionHolds(s) ==
    /\ ses[s].status # "none" =>
          /\ ses[s].planning \in RunIds
          /\ run[ses[s].planning].kind = "planning" /\ run[ses[s].planning].of = s
    /\ ses[s].reports = 1 => ses[s].status = "completed"

AtMostOne == \A r, x \in RunIds : Active(r) /\ Active(x) => r = x

(* SessionFollowsRun, of one Run.                                          *)
Follows(r) ==
    Active(r) =>
        LET s == ses[run[r].of] IN
        IF run[r].kind = "execution"
        THEN s.execution = r /\ s.status \in {"queued", "running"}
        ELSE /\ s.planning = r /\ s.status \in {"planning", "awaiting_input"}
             /\ run[r].job = "waiting" <=> s.status = "awaiting_input"
             /\ run[r].job = "waiting" => questions[r][log[r].asked] = "open"

IInv ==
    /\ Typed
    /\ \A r \in RunIds : RunHolds(r)
    /\ \A s \in Sessions : SessionHolds(s)
    /\ AtMostOne
    /\ \A r \in RunIds : Follows(r)

-----------------------------------------------------------------------------
(* What follows from the invariant. *)

LEMMA ImpliesTypeOK == IInv => TypeOK
<1> SUFFICES ASSUME IInv PROVE TypeOK
  OBVIOUS
<1>1. ASSUME NEW r \in RunIds
      PROVE  run[r] \in RunRows(IF run[r].status = "none" THEN {NoRun.of} ELSE Sessions)
  <2>1. run[r] \in RunRows(Sessions \union {NoRun.of}) /\ RunHolds(r)
    BY DEF IInv, Typed
  <2>2. run[r].of \in IF run[r].status = "none" THEN {NoRun.of} ELSE Sessions
    BY <2>1 DEF RunHolds
  <2> QED
    BY <2>1, <2>2 DEF RunRows
<1> QED
  BY <1>1 DEF IInv, Typed, TypeOK

LEMMA ImpliesOne == ResearchSessionsAssumption /\ IInv => OneRunAtWork
<1> SUFFICES ASSUME ResearchSessionsAssumption, IInv PROVE OneRunAtWork
  OBVIOUS
<1> DEFINE Work == {r \in RunIds : Active(r)}
<1>1. CASE Work = {}
  BY <1>1, FS_EmptySet DEF OneRunAtWork
<1>2. ASSUME NEW r \in Work PROVE OneRunAtWork
  <2>1. Work = {r}
    BY <1>2 DEF IInv, AtMostOne
  <2>2. Cardinality(Work) = 1
    BY <2>1, FS_Singleton
  <2> QED
    BY <2>2 DEF OneRunAtWork
<1> QED
  BY <1>1, <1>2

LEMMA ImpliesFollows == IInv => SessionFollowsRun
BY DEF IInv, Follows, SessionFollowsRun

-----------------------------------------------------------------------------
(* Rows. *)

Row(kind, of, status, job, token, lapsed, late) ==
    [kind |-> kind, of |-> of, status |-> status, job |-> job,
     token |-> token, lapsed |-> lapsed, late |-> late]

LEMMA EndedIs ==
    ASSUME NEW S, NEW row \in RunRows(S), NEW status, NEW new,
           new = [row EXCEPT !.status = status, !.job = "ended", !.lapsed = FALSE]
    PROVE  new = Row(row.kind, row.of, status, "ended", row.token, FALSE, row.late)
BY DEF RunRows, Row

(* A Run that ends keeps what it is of.                                    *)
LEMMA EndedRow ==
    ASSUME Typed, NEW r \in RunIds, NEW status \in {"failed", "cancelled", "completed"}
    PROVE  /\ Ended(r, status) \in RunRows(Sessions \union {NoRun.of})
           /\ Ended(r, status).kind = run[r].kind /\ Ended(r, status).of = run[r].of
           /\ Ended(r, status).status = status /\ Ended(r, status).job = "ended"
<1>1. run[r] \in RunRows(Sessions \union {NoRun.of})
  BY DEF Typed
<1>2. Ended(r, status) = Row(run[r].kind, run[r].of, status, "ended", run[r].token, FALSE, run[r].late)
  BY <1>1, EndedIs DEF Ended
<1> QED
  BY <1>1, <1>2 DEF RunRows, Row

LEMMA AdmittedIs ==
    ASSUME NEW S, NEW row \in RunRows(S), NEW kind, NEW s, NEW new,
           new = [row EXCEPT !.kind = kind, !.of = s, !.status = "queued", !.job = "queued"]
    PROVE  new = Row(kind, s, "queued", "queued", row.token, row.lapsed, row.late)
BY DEF RunRows, Row

LEMMA AdmittedRow ==
    ASSUME ResearchSessionsAssumption, NEW kind \in {"planning", "execution"}, NEW s \in Sessions
    PROVE  /\ Admitted(kind, s) \in RunRows(Sessions \union {NoRun.of})
           /\ Admitted(kind, s).kind = kind /\ Admitted(kind, s).of = s
           /\ Admitted(kind, s).status = "queued" /\ Admitted(kind, s).job = "queued"
<1>1. NoRun \in RunRows({"none"}) /\ NoRun.token = 0 /\ ~NoRun.lapsed /\ ~NoRun.late
  BY DEF NoRun, RunRows, ResearchSessionsAssumption
<1>2. Admitted(kind, s) = Row(kind, s, "queued", "queued", NoRun.token, NoRun.lapsed, NoRun.late)
  BY <1>1, AdmittedIs DEF Admitted
<1> QED
  BY <1>1, <1>2 DEF RunRows, Row, ResearchSessionsAssumption

LEMMA InitIInv == ResearchSessionsAssumption /\ Init => IInv
<1> SUFFICES ASSUME ResearchSessionsAssumption, Init PROVE IInv
  OBVIOUS
<1>1. Typed
  BY DEF Init, Typed, ResearchSessionsAssumption, SessionRows, NoSession, PlanVersions, PlanningTurns,
         RunRows, NoRun, QuestionStates, Logs, EmptyLog, AttemptStates
<1>2. /\ \A r \in RunIds : run[r] = NoRun /\ ~Active(r) /\ \A t \in Tokens : at[r][t] = "none"
      /\ \A s \in Sessions : ses[s].status = "none" /\ ses[s].reports = 0
  BY DEF Init, NoRun, NoSession, Active
<1>3. \A r \in RunIds : RunHolds(r)
  BY <1>2 DEF RunHolds, NoRun
<1> QED
  BY <1>1, <1>2, <1>3 DEF IInv, SessionHolds, AtMostOne, Follows


-----------------------------------------------------------------------------
(* Steps. *)

(* One Run gets another row.                                               *)
LEMMA OneRow ==
    ASSUME Typed, NEW r \in RunIds, NEW row \in RunRows(Sessions \union {NoRun.of}),
           run' = [run EXCEPT ![r] = row]
    PROVE  /\ run' \in [RunIds -> RunRows(Sessions \union {NoRun.of})]
           /\ run'[r] = row /\ \A x \in RunIds \ {r} : run'[x] = run[x]
BY DEF Typed

LEMMA OneSession ==
    ASSUME Typed, NEW s \in Sessions, NEW row \in SessionRows, ses' = [ses EXCEPT ![s] = row]
    PROVE  /\ ses' \in [Sessions -> SessionRows]
           /\ ses'[s] = row /\ \A y \in Sessions \ {s} : ses'[y] = ses[y]
BY DEF Typed

(* The rows of a session that a request writes.                            *)
LEMMA PlanningRow ==
    ASSUME NEW row \in SessionRows, NEW new, NEW r \in RunIds,
           new = [row EXCEPT !.status = "planning", !.planning = r]
    PROVE  /\ new \in SessionRows /\ new.status = "planning" /\ new.planning = r
           /\ new.reports = row.reports
<1>1. new = [status |-> "planning", planning |-> r, accepted |-> row.accepted,
             execution |-> row.execution, reports |-> row.reports]
  BY DEF SessionRows
<1> QED
  BY <1>1 DEF SessionRows, RunIds

LEMMA ExecutionRow ==
    ASSUME NEW row \in SessionRows, NEW new, NEW r \in RunIds, NEW version \in 0..MaxVersions,
           new = [row EXCEPT !.status = "queued", !.accepted = version, !.execution = r]
    PROVE  /\ new \in SessionRows /\ new.status = "queued" /\ new.execution = r
           /\ new.planning = row.planning /\ new.reports = row.reports
<1>1. new = [status |-> "queued", planning |-> row.planning, accepted |-> version,
             execution |-> r, reports |-> row.reports]
  BY DEF SessionRows
<1> QED
  BY <1>1 DEF SessionRows, RunIds

LEMMA ReportRow ==
    ASSUME NEW row \in SessionRows, NEW new, row.reports = 0,
           new = [row EXCEPT !.status = "completed", !.reports = @ + 1]
    PROVE  new \in SessionRows /\ new.status = "completed" /\ new.planning = row.planning
<1>1. new = [status |-> "completed", planning |-> row.planning, accepted |-> row.accepted,
             execution |-> row.execution, reports |-> row.reports + 1]
  BY DEF SessionRows
<1> QED
  BY <1>1 DEF SessionRows

LEMMA OneAttempt ==
    ASSUME Typed, NEW r \in RunIds, NEW t \in Tokens, NEW pc \in AttemptStates,
           at' = [at EXCEPT ![r][t] = pc]
    PROVE  /\ at' \in [RunIds -> [Tokens -> AttemptStates]] /\ at'[r][t] = pc
           /\ \A x \in RunIds, u \in Tokens : at'[x][u] = at[x][u] \/ (x = r /\ u = t)
<1>1. at \in [RunIds -> [Tokens -> AttemptStates]]
  BY DEF Typed
<1>2. at' = [at EXCEPT ![r] = [at[r] EXCEPT ![t] = pc]]
  OBVIOUS
<1>3. [at[r] EXCEPT ![t] = pc] \in [Tokens -> AttemptStates]
  BY <1>1
<1> QED
  BY <1>1, <1>2, <1>3

(* Runs keep what they are of, and sessions their planner.                 *)
LEMMA SessionsKept ==
    ASSUME IInv,
           \A x \in RunIds : run'[x].kind = run[x].kind /\ run'[x].of = run[x].of,
           \A s \in Sessions :
              ses'[s] = ses[s] \/ /\ ses'[s].planning = ses[s].planning /\ ses[s].status # "none"
                                  /\ ses'[s].reports = 1 => ses'[s].status = "completed"
    PROVE  \A s \in Sessions : SessionHolds(s)'
BY DEF IInv, SessionHolds

(* The end of a Run at work, after which nobody works.                     *)
LEMMA EndStep ==
    ASSUME IInv, NEW r \in RunIds, NEW status \in {"failed", "cancelled", "completed"},
           Active(r), run' = [run EXCEPT ![r] = Ended(r, status)],
           ses' \in [Sessions -> SessionRows],
           \A s \in Sessions :
              ses'[s] = ses[s] \/ /\ ses'[s].planning = ses[s].planning /\ ses[s].status # "none"
                                  /\ ses'[s].reports = 1 => ses'[s].status = "completed",
           plans' \in [Sessions -> PlanVersions],
           UNCHANGED <<turns, questions, log>>,
           at' \in [RunIds -> [Tokens -> AttemptStates]],
           \A x \in RunIds, t \in Tokens :
              \/ at'[x][t] = at[x][t]
              \/ at[x][t] # "none" /\ at'[x][t] = "gone"
              \/ x = r /\ at'[x][t] = "failed"
    PROVE  IInv'
<1>1. Typed /\ AtMostOne
  BY DEF IInv
<1>2. /\ Ended(r, status) \in RunRows(Sessions \union {NoRun.of})
      /\ Ended(r, status).kind = run[r].kind /\ Ended(r, status).of = run[r].of
      /\ Ended(r, status).status = status /\ Ended(r, status).job = "ended"
  BY <1>1, EndedRow
<1>3. /\ run' \in [RunIds -> RunRows(Sessions \union {NoRun.of})]
      /\ run'[r] = Ended(r, status) /\ \A x \in RunIds \ {r} : run'[x] = run[x]
  BY <1>1, <1>2, OneRow
<1>4. Typed'
  BY <1>1, <1>3 DEF Typed
<1>5. \A x \in RunIds : ~Active(x)'
  BY <1>1, <1>2, <1>3 DEF AtMostOne, Active
<1>6. ASSUME NEW x \in RunIds PROVE RunHolds(x)'
  <2>1. RunHolds(x) /\ RunHolds(r)
    BY DEF IInv
  <2>2. CASE x = r
    BY <1>2, <1>3, <1>5, <2>1, <2>2 DEF RunHolds, Active
  <2>3. CASE x # r
    <3>1. run'[x] = run[x] /\ ~Active(x)'
      BY <1>3, <1>5, <2>3
    <3> QED
      BY <2>1, <2>3, <3>1 DEF RunHolds, Active
  <2> QED
    BY <2>2, <2>3
<1>7. \A s \in Sessions : SessionHolds(s)'
  BY <1>2, <1>3, SessionsKept
<1> QED
  BY <1>4, <1>5, <1>6, <1>7 DEF IInv, AtMostOne, Follows

(* A Run is admitted for a session, and whoever was overdue has ended.     *)
LEMMA AdmitStep ==
    ASSUME ResearchSessionsAssumption, IInv, NEW r \in RunIds, NEW s \in Sessions,
           NEW kind \in {"planning", "execution"}, run[r].status = "none",
           run' \in [RunIds -> RunRows(Sessions \union {NoRun.of})],
           run'[r] = Admitted(kind, s),
           \A x \in RunIds \ {r} : /\ run'[x] = run[x] \/ (run'[x] = Ended(x, "failed") /\ Active(x))
                                   /\ ~Active(x)',
           ses' \in [Sessions -> SessionRows],
           \A y \in Sessions \ {s} : ses'[y] = ses[y],
           ses'[s].reports = ses[s].reports,
           ses[s].status \in {"none", "awaiting_confirmation"},
           \/ kind = "planning" /\ ses'[s].planning = r /\ ses'[s].status = "planning"
           \/ /\ kind = "execution" /\ ses'[s].planning = ses[s].planning /\ ses'[s].status = "queued"
              /\ ses'[s].execution = r /\ ses[s].status # "none",
           turns' \in [Sessions -> PlanningTurns],
           UNCHANGED <<plans, questions, log, at>>
    PROVE  IInv'
<1>1. Typed
  BY DEF IInv
<1>2. Typed'
  BY <1>1 DEF Typed
<1>3. /\ run'[r].kind = kind /\ run'[r].of = s
      /\ run'[r].status = "queued" /\ run'[r].job = "queued" /\ Active(r)'
  BY AdmittedRow DEF Active
<1>4. \A x \in RunIds \ {r} : /\ run'[x].kind = run[x].kind /\ run'[x].of = run[x].of
                              /\ ~Active(x)'
                              /\ run'[x] = run[x] \/ (run'[x].status = "failed" /\ run'[x].job = "ended" /\ Active(x))
  <2>1. ASSUME NEW x \in RunIds
        PROVE  /\ Ended(x, "failed").kind = run[x].kind /\ Ended(x, "failed").of = run[x].of
               /\ Ended(x, "failed").status = "failed" /\ Ended(x, "failed").job = "ended"
    BY <1>1, EndedRow
  <2> QED
    BY <2>1
<1>5. RunHolds(r) /\ run[r] = NoRun
  BY DEF IInv, RunHolds
<1>6. ASSUME NEW x \in RunIds PROVE RunHolds(x)'
  <2>1. RunHolds(x)
    BY DEF IInv
  <2>2. CASE x = r
    BY <1>3, <1>5, <2>2 DEF RunHolds
  <2>3. CASE x # r /\ run'[x] = run[x]
    BY <1>4, <2>1, <2>3 DEF RunHolds, Active
  <2>4. CASE x # r /\ run'[x].status = "failed" /\ run'[x].job = "ended" /\ Active(x)
    BY <1>4, <2>1, <2>4 DEF RunHolds, Active
  <2> QED
    BY <1>4, <2>2, <2>3, <2>4
<1>7. ASSUME NEW y \in Sessions PROVE SessionHolds(y)'
  <2>1. SessionHolds(y) /\ SessionHolds(s)
    BY DEF IInv
  <2>2. NoRun.kind = "none"
    BY DEF NoRun
  <2>3. ses[y].status # "none" => ses[y].planning # r
    BY <1>5, <2>1, <2>2 DEF SessionHolds
  <2>4. CASE y # s
    BY <1>4, <2>1, <2>3, <2>4 DEF SessionHolds
  <2>5. CASE y = s
    <3>1. ses[s].reports # 1
      BY <2>1 DEF SessionHolds
    <3> QED
      BY <1>3, <1>4, <2>1, <2>3, <2>5, <3>1 DEF SessionHolds
  <2> QED
    BY <2>4, <2>5
<1>8. \A x \in RunIds : Follows(x)'
  BY <1>3, <1>4 DEF Follows
<1> QED
  BY <1>2, <1>3, <1>4, <1>6, <1>7, <1>8 DEF IInv, AtMostOne

(* The ends of a Run: by its Attempt, its last lease, or its Member.       *)
LEMMA EndsKeep ==
    ASSUME ResearchSessionsAssumption, IInv, NEW r \in RunIds,
           \/ Terminalize(r) \/ Cancel(r)
           \/ \E t \in Tokens : PublishPlan(r, t) \/ PublishReport(r, t) \/ Fail(r, t)
    PROVE  IInv'
<1>1. Typed /\ RunHolds(r)
  BY DEF IInv
<1>2. Active(r) => run[r].of \in Sessions
  BY <1>1 DEF RunHolds, Active
<1> DEFINE s == run[r].of
<1>3. \A y \in Sessions : ses[y] \in SessionRows /\ SessionHolds(y)
  BY <1>1 DEF Typed, IInv
<1>4. CASE Terminalize(r)
  <2>1. Active(r) /\ ses[s].status # "none" /\ ses[s].reports # 1
    BY <1>2, <1>3, <1>4 DEF Terminalize, Active, SessionAtWork, SessionHolds
  <2>2. /\ ses' \in [Sessions -> SessionRows] /\ \A y \in Sessions \ {s} : ses'[y] = ses[y]
        /\ ses'[s].planning = ses[s].planning /\ ses'[s].reports = ses[s].reports
    BY <1>1, <1>2, <1>4, <2>1 DEF Terminalize, Typed, SessionRows
  <2> QED
    BY <1>1, <1>4, <2>1, <2>2, EndStep DEF Terminalize, Typed
<1>5. CASE Cancel(r)
  <2>1. Active(r) /\ (SessionAtWork(r) => ses[s].status # "none" /\ ses[s].reports # 1)
    BY <1>2, <1>3, <1>5 DEF Cancel, Active, SessionAtWork, SessionHolds
  <2>2. CASE SessionAtWork(r)
    <3>1. /\ ses' \in [Sessions -> SessionRows] /\ \A y \in Sessions \ {s} : ses'[y] = ses[y]
          /\ ses'[s].planning = ses[s].planning /\ ses'[s].reports = ses[s].reports
      BY <1>1, <1>2, <1>5, <2>1, <2>2 DEF Cancel, Typed, SessionRows
    <3> QED
      BY <1>1, <1>5, <2>1, <2>2, <3>1, EndStep DEF Cancel, Typed
  <2>3. CASE ~SessionAtWork(r)
    BY <1>1, <1>5, <2>1, <2>3, EndStep DEF Cancel, Typed
  <2> QED
    BY <2>2, <2>3
<1>6. ASSUME NEW t \in Tokens, PublishPlan(r, t) PROVE IInv'
  <2>1. Active(r) /\ ses[s].status = "planning" /\ ses[s].reports # 1 /\ at[r][t] = "begun"
    BY <1>2, <1>3, <1>6 DEF PublishPlan, Planner, Holds, Active, Session, SessionHolds
  <2>2. /\ ses' \in [Sessions -> SessionRows] /\ \A y \in Sessions \ {s} : ses'[y] = ses[y]
        /\ ses'[s].planning = ses[s].planning /\ ses'[s].reports = ses[s].reports
    BY <1>1, <1>2, <1>6, <2>1, ZenonT(60) DEF PublishPlan, Session, Typed, SessionRows
  <2>3. plans' \in [Sessions -> PlanVersions]
    BY <1>1, <1>2, <1>6, <2>1 DEF PublishPlan, Session, Typed, PlanVersions, ResearchSessionsAssumption
  <2>4. /\ at' \in [RunIds -> [Tokens -> AttemptStates]]
        /\ \A x \in RunIds, u \in Tokens : at'[x][u] = at[x][u] \/ (at[x][u] # "none" /\ at'[x][u] = "gone")
    <3>1. at' = [at EXCEPT ![r][t] = "gone"] /\ "gone" \in AttemptStates
      BY <1>6 DEF PublishPlan, AttemptStates
    <3>2. /\ at' \in [RunIds -> [Tokens -> AttemptStates]] /\ at'[r][t] = "gone"
          /\ \A x \in RunIds, u \in Tokens : at'[x][u] = at[x][u] \/ (x = r /\ u = t)
      BY <1>1, <3>1, OneAttempt
    <3> QED
      BY <2>1, <3>2
  <2>5. run' = [run EXCEPT ![r] = Ended(r, "completed")] /\ UNCHANGED <<turns, questions, log>>
    BY <1>6 DEF PublishPlan
  <2>6. ses'[s] = ses[s] \/ (ses[s].status # "none" /\ ses'[s].reports # 1)
    BY <2>1, <2>2
  <2> QED
    BY <2>1, <2>2, <2>3, <2>4, <2>5, <2>6, EndStep
<1>7. ASSUME NEW t \in Tokens, PublishReport(r, t) PROVE IInv'
  <2>1. Active(r) /\ ses[s].status = "running" /\ ses[s].reports # 1 /\ at[r][t] = "loaded"
    BY <1>2, <1>3, <1>7 DEF PublishReport, Executor, Holds, Active, Session, SessionHolds
  <2>2. ses[s].reports = 0
    BY <1>2, <1>3, <2>1 DEF SessionRows
  <2>3. /\ ses' \in [Sessions -> SessionRows] /\ \A y \in Sessions \ {s} : ses'[y] = ses[y]
        /\ ses'[s].planning = ses[s].planning /\ ses'[s].status = "completed"
    <3> DEFINE new == [ses[s] EXCEPT !.status = "completed", !.reports = @ + 1]
    <3>1. s \in Sessions /\ ses[s] \in SessionRows
      BY <1>2, <1>3, <2>1
    <3>2. new \in SessionRows /\ new.status = "completed" /\ new.planning = ses[s].planning
      BY <2>2, <3>1, ReportRow
    <3>3. ses' = [ses EXCEPT ![s] = new]
      BY <1>7 DEF PublishReport, Session
    <3> HIDE DEF new
    <3> QED
      BY <1>1, <3>1, <3>2, <3>3, OneSession
  <2>4. /\ at' \in [RunIds -> [Tokens -> AttemptStates]]
        /\ \A x \in RunIds, u \in Tokens : at'[x][u] = at[x][u] \/ (at[x][u] # "none" /\ at'[x][u] = "gone")
    <3>1. at' = [at EXCEPT ![r][t] = "gone"] /\ "gone" \in AttemptStates
      BY <1>7 DEF PublishReport, AttemptStates
    <3>2. /\ at' \in [RunIds -> [Tokens -> AttemptStates]] /\ at'[r][t] = "gone"
          /\ \A x \in RunIds, u \in Tokens : at'[x][u] = at[x][u] \/ (x = r /\ u = t)
      BY <1>1, <3>1, OneAttempt
    <3> QED
      BY <2>1, <3>2
  <2> QED
    BY <1>1, <1>7, <2>1, <2>3, <2>4, EndStep, ZenonT(60) DEF PublishReport, Typed
<1>8. ASSUME NEW t \in Tokens, Fail(r, t) PROVE IInv'
  <2>1. Active(r)
    BY <1>8 DEF Fail, Holds, Active
  <2>2. /\ at' \in [RunIds -> [Tokens -> AttemptStates]]
        /\ \A x \in RunIds, u \in Tokens : at'[x][u] = at[x][u] \/ (x = r /\ at'[x][u] = "failed")
    <3>1. at' = [at EXCEPT ![r][t] = "failed"] /\ "failed" \in AttemptStates
      BY <1>8 DEF Fail, AttemptStates
    <3>2. /\ at' \in [RunIds -> [Tokens -> AttemptStates]] /\ at'[r][t] = "failed"
          /\ \A x \in RunIds, u \in Tokens : at'[x][u] = at[x][u] \/ (x = r /\ u = t)
      BY <1>1, <3>1, OneAttempt
    <3> QED
      BY <2>1, <3>2
  <2> QED
    BY <1>1, <1>8, <2>1, <2>2, EndStep DEF Fail, Typed
<1> QED
  BY <1>4, <1>5, <1>6, <1>7, <1>8

(* Requests that admit a Run.                                              *)
LEMMA AdmitsKeep ==
    ASSUME ResearchSessionsAssumption, IInv, NEW r \in RunIds, NEW s \in Sessions,
           Create(s, r) \/ Revise(s, r) \/ \E version \in 1..MaxVersions : Start(s, r, version)
    PROVE  IInv'
<1>1. Typed /\ ses[s] \in SessionRows /\ SessionHolds(s)
  BY DEF IInv, Typed
<1>2. \A kind \in {"planning", "execution"} : Admitted(kind, s) \in RunRows(Sessions \union {NoRun.of})
  BY AdmittedRow
<1>3. Expired \in [RunIds -> RunRows(Sessions \union {NoRun.of})]
  <2>1. ASSUME NEW x \in RunIds
        PROVE  Ended(x, "failed") \in RunRows(Sessions \union {NoRun.of}) /\ run[x] \in RunRows(Sessions \union {NoRun.of})
    BY <1>1, EndedRow DEF Typed
  <2> QED
    BY <2>1 DEF Expired
<1>4. ASSUME NEW kind \in {"planning", "execution"}, run[r].status = "none", ~ActiveAfterExpiry,
             run' = [Expired EXCEPT ![r] = Admitted(kind, s)]
      PROVE  /\ run' \in [RunIds -> RunRows(Sessions \union {NoRun.of})]
             /\ run'[r] = Admitted(kind, s)
             /\ \A x \in RunIds \ {r} : /\ run'[x] = run[x] \/ (run'[x] = Ended(x, "failed") /\ Active(x))
                                        /\ ~Active(x)'
  <2>1. run' \in [RunIds -> RunRows(Sessions \union {NoRun.of})] /\ run'[r] = Admitted(kind, s)
    BY <1>2, <1>3, <1>4
  <2>2. ASSUME NEW x \in RunIds, x # r
        PROVE  /\ run'[x] = run[x] \/ (run'[x] = Ended(x, "failed") /\ Active(x))
               /\ ~Active(x)'
    <3>1. run'[x] = IF Overdue(x) THEN Ended(x, "failed") ELSE run[x]
      BY <1>3, <1>4, <2>2 DEF Expired
    <3>2. CASE Overdue(x)
      <4>1. Ended(x, "failed").status = "failed"
        BY <1>1, EndedRow
      <4> QED
        BY <3>1, <3>2, <4>1 DEF Overdue, Active
    <3>3. CASE ~Overdue(x)
      BY <1>4, <3>1, <3>3 DEF Overdue, Active, ActiveAfterExpiry
    <3> QED
      BY <3>2, <3>3
  <2> QED
    BY <2>1, <2>2
<1>5. CASE Create(s, r)
  <2>1. run[r].status = "none" /\ ~ActiveAfterExpiry /\ run' = [Expired EXCEPT ![r] = Admitted("planning", s)]
    BY <1>5 DEF Create, Free
  <2>2. /\ ses' \in [Sessions -> SessionRows] /\ \A y \in Sessions \ {s} : ses'[y] = ses[y]
        /\ ses'[s].reports = ses[s].reports /\ ses'[s].planning = r /\ ses'[s].status = "planning"
    <3> DEFINE new == [ses[s] EXCEPT !.status = "planning", !.planning = r]
    <3>1. /\ new \in SessionRows /\ new.status = "planning" /\ new.planning = r
          /\ new.reports = ses[s].reports
      BY <1>1, PlanningRow
    <3>2. ses' = [ses EXCEPT ![s] = new]
      BY <1>5 DEF Create
    <3> HIDE DEF new
    <3> QED
      BY <1>1, <3>1, <3>2, OneSession
  <2> QED
    BY <1>1, <1>4, <1>5, <2>1, <2>2, AdmitStep DEF Create, Typed
<1>6. CASE Revise(s, r)
  <2>1. run[r].status = "none" /\ ~ActiveAfterExpiry /\ run' = [Expired EXCEPT ![r] = Admitted("planning", s)]
    BY <1>6 DEF Revise, Free
  <2>2. /\ ses' \in [Sessions -> SessionRows] /\ \A y \in Sessions \ {s} : ses'[y] = ses[y]
        /\ ses'[s].reports = ses[s].reports /\ ses'[s].planning = r /\ ses'[s].status = "planning"
    <3> DEFINE new == [ses[s] EXCEPT !.status = "planning", !.planning = r]
    <3>1. /\ new \in SessionRows /\ new.status = "planning" /\ new.planning = r
          /\ new.reports = ses[s].reports
      BY <1>1, PlanningRow
    <3>2. ses' = [ses EXCEPT ![s] = new]
      BY <1>6 DEF Revise
    <3> HIDE DEF new
    <3> QED
      BY <1>1, <3>1, <3>2, OneSession
  <2>3. turns' \in [Sessions -> PlanningTurns]
    <3>1. ses[s].planning \in RunIds
      BY <1>1, <1>6 DEF Revise, SessionHolds
    <3> QED
      BY <1>1, <1>6, <3>1 DEF Revise, Typed, PlanningTurns
  <2> QED
    BY <1>1, <1>4, <1>6, <2>1, <2>2, <2>3, AdmitStep DEF Revise
<1>7. ASSUME NEW version \in 1..MaxVersions, Start(s, r, version) PROVE IInv'
  <2>1. run[r].status = "none" /\ ~ActiveByUser /\ run' = [run EXCEPT ![r] = Admitted("execution", s)]
    BY <1>7 DEF Start, Free
  <2>2. /\ ses' \in [Sessions -> SessionRows] /\ \A y \in Sessions \ {s} : ses'[y] = ses[y]
        /\ ses'[s].reports = ses[s].reports /\ ses'[s].planning = ses[s].planning
        /\ ses'[s].status = "queued" /\ ses'[s].execution = r
    <3> DEFINE new == [ses[s] EXCEPT !.status = "queued", !.accepted = version, !.execution = r]
    <3>1. /\ new \in SessionRows /\ new.status = "queued" /\ new.execution = r
          /\ new.planning = ses[s].planning /\ new.reports = ses[s].reports
      <4>1. version \in 0..MaxVersions
        BY DEF ResearchSessionsAssumption
      <4> QED
        BY <1>1, <4>1, ExecutionRow
    <3>2. ses' = [ses EXCEPT ![s] = new]
      BY <1>7 DEF Start
    <3> HIDE DEF new
    <3> QED
      BY <1>1, <3>1, <3>2, OneSession
  <2>3. /\ run' \in [RunIds -> RunRows(Sessions \union {NoRun.of})]
        /\ run'[r] = Admitted("execution", s) /\ \A x \in RunIds \ {r} : run'[x] = run[x]
    BY <1>1, <1>2, <2>1, OneRow
  <2>4. \A x \in RunIds \ {r} : ~Active(x)'
    BY <2>1, <2>3 DEF ActiveByUser, Active
  <2>5. ses[s].status = "awaiting_confirmation" /\ turns' \in [Sessions -> PlanningTurns]
    BY <1>1, <1>7 DEF Start, Typed
  <2> QED
    BY <1>7, <2>1, <2>2, <2>3, <2>4, <2>5, AdmitStep DEF Start
<1> QED
  BY <1>5, <1>6, <1>7

(* A Run at work goes on: its row keeps what it is of.                     *)
LEMMA RunStep ==
    ASSUME IInv, NEW r \in RunIds, NEW row \in RunRows(Sessions \union {NoRun.of}),
           run' = [run EXCEPT ![r] = row],
           row.kind = run[r].kind, row.of = run[r].of, run[r].status # "none", row.status # "none",
           row.job \in {"queued", "running", "waiting"} => row.status \in {"queued", "running"},
           row.status \in {"queued", "running"} => Active(r),
           at' \in [RunIds -> [Tokens -> AttemptStates]],
           \A x \in RunIds, t \in Tokens :
              at'[x][t] = at[x][t] \/ ((at[x][t] # "none" \/ x = r) /\ at'[x][t] # "failed")
    PROVE  /\ run' \in [RunIds -> RunRows(Sessions \union {NoRun.of})]
           /\ run'[r] = row /\ \A x \in RunIds \ {r} : run'[x] = run[x]
           /\ \A x \in RunIds : RunHolds(x)'
           /\ AtMostOne'
           /\ \A x \in RunIds : run'[x].kind = run[x].kind /\ run'[x].of = run[x].of
<1>1. Typed /\ AtMostOne /\ \A x \in RunIds : RunHolds(x)
  BY DEF IInv
<1>2. /\ run' \in [RunIds -> RunRows(Sessions \union {NoRun.of})]
      /\ run'[r] = row /\ \A x \in RunIds \ {r} : run'[x] = run[x]
  BY <1>1, OneRow
<1>3. \A x \in RunIds : Active(x)' => Active(x)
  BY <1>2 DEF Active
<1>4. ASSUME NEW x \in RunIds PROVE RunHolds(x)'
  <2>1. \A t \in Tokens : at'[x][t] = "failed" => ~Active(x)'
    BY <1>1, <1>3 DEF RunHolds
  <2>2. CASE x = r
    BY <1>1, <1>2, <2>1, <2>2 DEF RunHolds, Active
  <2>3. CASE x # r
    <3>1. run'[x] = run[x]
      BY <1>2, <2>3
    <3>2. run[x].status = "none" => \A t \in Tokens : at'[x][t] = "none"
      BY <1>1, <2>3 DEF RunHolds
    <3> QED
      BY <1>1, <2>1, <3>1, <3>2 DEF RunHolds, Active
  <2> QED
    BY <2>2, <2>3
<1> QED
  BY <1>1, <1>2, <1>3, <1>4 DEF AtMostOne

(* Steps of Attempts that change neither Runs nor sessions.                *)
LEMMA AttemptStep ==
    ASSUME IInv, UNCHANGED <<ses, plans, turns, run, questions, log>>,
           at' \in [RunIds -> [Tokens -> AttemptStates]],
           \A x \in RunIds, t \in Tokens :
              at'[x][t] = at[x][t] \/ (at[x][t] # "none" /\ at'[x][t] # "failed")
    PROVE  IInv'
<1>0. Typed /\ AtMostOne /\ \A x \in RunIds : Follows(x) /\ RunHolds(x)
  BY DEF IInv
<1>1. Typed' /\ AtMostOne' /\ \A x \in RunIds : Follows(x)' /\ RunHolds(x)
  <2>1. Typed'
    BY <1>0 DEF Typed
  <2>2. AtMostOne'
    BY <1>0 DEF AtMostOne, Active
  <2>3. \A x \in RunIds : Follows(x)'
    BY <1>0 DEF Follows, Active
  <2> QED
    BY <1>0, <2>1, <2>2, <2>3
<1>2. \A x \in RunIds : RunHolds(x)'
  BY <1>1 DEF RunHolds, Active
<1>3. \A s \in Sessions : SessionHolds(s)'
  BY DEF IInv, SessionHolds
<1> QED
  BY <1>1, <1>2, <1>3 DEF IInv

LEMMA LateIs ==
    ASSUME NEW S, NEW row \in RunRows(S), NEW new, NEW late \in BOOLEAN, NEW lapsed \in BOOLEAN,
           \/ new = [row EXCEPT !.late = late] /\ lapsed = row.lapsed
           \/ new = [row EXCEPT !.lapsed = lapsed] /\ late = row.late
    PROVE  new = Row(row.kind, row.of, row.status, row.job, row.token, lapsed, late)
BY DEF RunRows, Row

(* Time passes for a Run.                                                  *)
LEMMA TimeKeeps ==
    ASSUME IInv, NEW r \in RunIds, DeadlinePasses(r) \/ LeaseLapses(r)
    PROVE  IInv'
<1>1. Typed /\ RunHolds(r) /\ run[r] \in RunRows(Sessions \union {NoRun.of})
  BY DEF IInv, Typed
<1> DEFINE row == IF DeadlinePasses(r) THEN [run[r] EXCEPT !.late = TRUE]
                  ELSE [run[r] EXCEPT !.lapsed = TRUE]
<1>2. /\ run' = [run EXCEPT ![r] = row] /\ Active(r)
      /\ UNCHANGED <<ses, plans, turns, questions, log, at>>
  BY <1>1 DEF DeadlinePasses, LeaseLapses, RunHolds
<1>3. \E late, lapsed \in BOOLEAN :
         row = Row(run[r].kind, run[r].of, run[r].status, run[r].job, run[r].token, lapsed, late)
  <2>1. run[r].late \in BOOLEAN /\ run[r].lapsed \in BOOLEAN
    BY <1>1 DEF RunRows
  <2>2. CASE DeadlinePasses(r)
    <3>1. row = [run[r] EXCEPT !.late = TRUE]
      BY <2>2
    <3> HIDE DEF row
    <3>2. row = Row(run[r].kind, run[r].of, run[r].status, run[r].job, run[r].token, run[r].lapsed, TRUE)
      BY <1>1, <2>1, <3>1, LateIs
    <3> QED
      BY <2>1, <3>2
  <2>3. CASE ~DeadlinePasses(r)
    <3>1. row = [run[r] EXCEPT !.lapsed = TRUE]
      BY <2>3
    <3> HIDE DEF row
    <3>2. row = Row(run[r].kind, run[r].of, run[r].status, run[r].job, run[r].token, TRUE, run[r].late)
      BY <1>1, <2>1, <3>1, LateIs
    <3> QED
      BY <2>1, <3>2
  <2> QED
    BY <2>2, <2>3
<1> HIDE DEF row
<1>4. /\ row \in RunRows(Sessions \union {NoRun.of}) /\ row.kind = run[r].kind /\ row.of = run[r].of
      /\ row.status = run[r].status /\ row.job = run[r].job
  BY <1>1, <1>3 DEF Row, RunRows
<1>5. /\ run' \in [RunIds -> RunRows(Sessions \union {NoRun.of})]
      /\ run'[r] = row /\ \A x \in RunIds \ {r} : run'[x] = run[x]
      /\ \A x \in RunIds : RunHolds(x)'
      /\ AtMostOne'
      /\ \A x \in RunIds : run'[x].kind = run[x].kind /\ run'[x].of = run[x].of
  <2>1. at' \in [RunIds -> [Tokens -> AttemptStates]]
    BY <1>1, <1>2 DEF Typed
  <2>2. /\ run[r].status # "none" /\ row.status # "none"
        /\ row.job \in {"queued", "running", "waiting"} => row.status \in {"queued", "running"}
    BY <1>1, <1>2, <1>4 DEF Active, RunHolds
  <2>3. \A x \in RunIds, t \in Tokens : at'[x][t] = at[x][t]
    BY <1>2
  <2> QED
    BY <1>2, <1>4, <2>1, <2>2, <2>3, RunStep
<1>6. Typed'
  BY <1>1, <1>2, <1>5 DEF Typed
<1>7. \A s \in Sessions : SessionHolds(s)'
  BY <1>2, <1>5, SessionsKept
<1>8. ASSUME NEW x \in RunIds PROVE Follows(x)'
  <2>1. run'[x].status = run[x].status /\ run'[x].job = run[x].job /\ Follows(x)
    BY <1>4, <1>5 DEF IInv
  <2> QED
    BY <1>2, <1>5, <2>1 DEF Follows, Active
<1> QED
  BY <1>5, <1>6, <1>7, <1>8 DEF IInv

(* ExpireIfOverdue alone.                                                  *)
LEMMA ExpiryKeeps ==
    ASSUME IInv, ExpireIfOverdue
    PROVE  IInv'
<1>1. Typed /\ AtMostOne
  BY DEF IInv
<1>2. ASSUME NEW x \in RunIds
      PROVE  /\ Ended(x, "failed") \in RunRows(Sessions \union {NoRun.of})
             /\ Ended(x, "failed").kind = run[x].kind /\ Ended(x, "failed").of = run[x].of
             /\ Ended(x, "failed").status = "failed" /\ Ended(x, "failed").job = "ended"
  BY <1>1, EndedRow
<1>3. run' \in [RunIds -> RunRows(Sessions \union {NoRun.of})]
  BY <1>1, <1>2 DEF ExpireIfOverdue, Expired, Typed
<1>4. ASSUME NEW x \in RunIds
      PROVE  \/ run'[x] = run[x]
             \/ /\ Active(x) /\ run'[x].kind = run[x].kind /\ run'[x].of = run[x].of
                /\ run'[x].status = "failed" /\ run'[x].job = "ended"
  <2>1. run'[x] = IF Overdue(x) THEN Ended(x, "failed") ELSE run[x]
    BY DEF ExpireIfOverdue, Expired
  <2> QED
    BY <1>2, <2>1 DEF Overdue
<1>5. UNCHANGED <<ses, plans, turns, questions, log, at>>
  BY DEF ExpireIfOverdue
<1>6. Typed'
  BY <1>1, <1>3, <1>5 DEF Typed
<1>7. \A s \in Sessions : SessionHolds(s)'
  BY <1>4, <1>5, SessionsKept
<1>8. ASSUME NEW x \in RunIds PROVE RunHolds(x)' /\ Follows(x)' /\ (Active(x)' => Active(x))
  <2>1. RunHolds(x) /\ Follows(x)
    BY DEF IInv
  <2>2. CASE run'[x] = run[x]
    BY <1>5, <2>1, <2>2 DEF RunHolds, Follows, Active
  <2>3. CASE Active(x) /\ run'[x].of = run[x].of /\ run'[x].status = "failed" /\ run'[x].job = "ended"
    BY <1>5, <2>1, <2>3 DEF RunHolds, Follows, Active
  <2> QED
    BY <1>4, <2>2, <2>3
<1> QED
  BY <1>1, <1>6, <1>7, <1>8 DEF IInv, AtMostOne

LEMMA ClaimedIs ==
    ASSUME NEW S, NEW row \in RunRows(S), NEW new,
           new = [row EXCEPT !.status = "running", !.job = "running", !.token = @ + 1, !.lapsed = FALSE]
    PROVE  new = Row(row.kind, row.of, "running", "running", row.token + 1, FALSE, row.late)
BY DEF RunRows, Row

LEMMA ClaimKeeps ==
    ASSUME ResearchSessionsAssumption, IInv, NEW r \in RunIds, Claim(r)
    PROVE  IInv'
<1>1. /\ Typed /\ RunHolds(r) /\ run[r] \in RunRows(Sessions \union {NoRun.of})
      /\ run[r].token \in 0..MaxLeases /\ MaxLeases \in Nat
  BY DEF IInv, Typed, RunRows, ResearchSessionsAssumption
<1>2. Active(r) /\ run[r].job # "waiting" /\ run[r].token + 1 \in Tokens
  BY <1>1 DEF Claim, RunHolds, Tokens
<1> DEFINE row == [run[r] EXCEPT !.status = "running", !.job = "running", !.token = @ + 1, !.lapsed = FALSE]
<1>3. run' = [run EXCEPT ![r] = row]
  BY DEF Claim
<1>4. row = Row(run[r].kind, run[r].of, "running", "running", run[r].token + 1, FALSE, run[r].late)
  BY <1>1, ClaimedIs
<1> HIDE DEF row
<1>5. /\ row \in RunRows(Sessions \union {NoRun.of}) /\ row.kind = run[r].kind /\ row.of = run[r].of
      /\ row.status = "running" /\ row.job = "running"
  BY <1>1, <1>2, <1>4 DEF Row, RunRows, Tokens
<1>6. /\ at' \in [RunIds -> [Tokens -> AttemptStates]]
      /\ \A x \in RunIds, t \in Tokens : at'[x][t] = at[x][t] \/ (x = r /\ at'[x][t] = "begun")
  <2>1. PICK t \in Tokens : t = run[r].token + 1
    BY <1>2
  <2>2. at' = [at EXCEPT ![r][t] = "begun"] /\ "begun" \in AttemptStates
    BY <2>1 DEF Claim, AttemptStates
  <2>3. /\ at' \in [RunIds -> [Tokens -> AttemptStates]] /\ at'[r][t] = "begun"
        /\ \A x \in RunIds, u \in Tokens : at'[x][u] = at[x][u] \/ (x = r /\ u = t)
    BY <1>1, <2>2, OneAttempt
  <2> QED
    BY <2>3
<1>7. /\ run' \in [RunIds -> RunRows(Sessions \union {NoRun.of})]
      /\ run'[r] = row /\ \A x \in RunIds \ {r} : run'[x] = run[x]
      /\ \A x \in RunIds : RunHolds(x)'
      /\ AtMostOne'
      /\ \A x \in RunIds : run'[x].kind = run[x].kind /\ run'[x].of = run[x].of
  <2>1. run[r].status # "none" /\ row.status # "none"
    BY <1>2, <1>5 DEF Active
  <2>2. \A x \in RunIds, t \in Tokens :
           at'[x][t] = at[x][t] \/ ((at[x][t] # "none" \/ x = r) /\ at'[x][t] # "failed")
    BY <1>6
  <2> QED
    BY <1>2, <1>3, <1>5, <1>6, <2>1, <2>2, RunStep
<1>8. UNCHANGED <<ses, plans, turns, questions, log>>
  BY DEF Claim
<1>9. Typed'
  BY <1>1, <1>6, <1>7, <1>8 DEF Typed
<1>10. \A s \in Sessions : SessionHolds(s)'
  BY <1>7, <1>8, SessionsKept
<1>11. ASSUME NEW x \in RunIds PROVE Follows(x)'
  <2>1. Follows(x)
    BY DEF IInv
  <2>2. CASE x = r
    BY <1>2, <1>5, <1>7, <1>8, <2>1, <2>2 DEF Follows, Active
  <2>3. CASE x # r
    BY <1>7, <1>8, <2>1, <2>3 DEF Follows, Active
  <2> QED
    BY <2>2, <2>3
<1> QED
  BY <1>7, <1>9, <1>10, <1>11 DEF IInv

(* The session of a Run at work changes with it, or alone.                 *)
LEMMA StatusIs ==
    ASSUME NEW row \in SessionRows, NEW status \in {"planning", "awaiting_input", "running", "failed"}, NEW new,
           new = [row EXCEPT !.status = status]
    PROVE  /\ new \in SessionRows /\ new.status = status /\ new.planning = row.planning
           /\ new.execution = row.execution /\ new.reports = row.reports
BY DEF SessionRows

LEMMA OneStatus ==
    ASSUME Typed, NEW s \in Sessions, NEW status \in {"planning", "awaiting_input", "running", "failed"},
           ses' = [ses EXCEPT ![s].status = status]
    PROVE  /\ ses' \in [Sessions -> SessionRows] /\ \A y \in Sessions \ {s} : ses'[y] = ses[y]
           /\ ses'[s].status = status /\ ses'[s].planning = ses[s].planning
           /\ ses'[s].execution = ses[s].execution /\ ses'[s].reports = ses[s].reports
<1> DEFINE new == [ses[s] EXCEPT !.status = status]
<1>1. ses[s] \in SessionRows /\ ses' = [ses EXCEPT ![s] = new]
  BY DEF Typed
<1>2. /\ new \in SessionRows /\ new.status = status /\ new.planning = ses[s].planning
      /\ new.execution = ses[s].execution /\ new.reports = ses[s].reports
  BY <1>1, StatusIs
<1> HIDE DEF new
<1> QED
  BY <1>1, <1>2, OneSession

(* editResearchPlan: a session that awaits confirmation has no Run at work *)
(* in it that would look at its plans.                                     *)
LEMMA EditKeeps ==
    ASSUME ResearchSessionsAssumption, IInv, NEW s \in Sessions, Edit(s)
    PROVE  IInv'
<1>1. Typed /\ AtMostOne /\ \A x \in RunIds : RunHolds(x) /\ Follows(x)
  BY DEF IInv
<1>2. plans' \in [Sessions -> PlanVersions] /\ UNCHANGED <<ses, turns, run, questions, log, at>>
  BY <1>1 DEF Edit, Typed, PlanVersions, ResearchSessionsAssumption
<1>3. Typed'
  BY <1>1, <1>2 DEF Typed
<1>4. AtMostOne' /\ \A x \in RunIds : RunHolds(x)' /\ Follows(x)'
  BY <1>1, <1>2 DEF AtMostOne, RunHolds, Follows, Active
<1>5. \A y \in Sessions : SessionHolds(y)'
  BY <1>2 DEF IInv, SessionHolds
<1> QED
  BY <1>3, <1>4, <1>5 DEF IInv

LEMMA JobIs ==
    ASSUME NEW S, NEW row \in RunRows(S), NEW new,
           NEW status \in {"queued", "running"}, NEW job \in {"queued", "waiting"},
           \/ new = [row EXCEPT !.status = status, !.job = job]
           \/ new = [row EXCEPT !.job = job] /\ status = row.status
    PROVE  new = Row(row.kind, row.of, status, job, row.token, row.lapsed, row.late)
BY DEF RunRows, Row

(* A planner is suspended, or resumes, together with its session.          *)
LEMMA PlannerStep ==
    ASSUME IInv, NEW r \in RunIds, NEW s \in Sessions, NEW row \in RunRows(Sessions \union {NoRun.of}),
           Active(r), run' = [run EXCEPT ![r] = row],
           row.kind = "planning", run[r].kind = "planning", row.of = s, run[r].of = s,
           ses[s].planning = r, ses[s].status \in {"planning", "awaiting_input"},
           \/ row.status = "queued" /\ row.job = "queued" /\ ses' = [ses EXCEPT ![s].status = "planning"]
           \/ /\ row.status = "running" /\ row.job = "waiting"
              /\ ses' = [ses EXCEPT ![s].status = "awaiting_input"]
              /\ questions'[r][log[r].asked] = "open",
           questions' \in [RunIds -> [1..MaxQuestions -> QuestionStates]],
           at' \in [RunIds -> [Tokens -> AttemptStates]],
           \A x \in RunIds, t \in Tokens :
              at'[x][t] = at[x][t] \/ (x = r /\ at'[x][t] = "gone"),
           UNCHANGED <<plans, turns, log>>
    PROVE  IInv'
<1>1. Typed /\ AtMostOne /\ SessionHolds(s)
  BY DEF IInv
<1>2. /\ run' \in [RunIds -> RunRows(Sessions \union {NoRun.of})]
      /\ run'[r] = row /\ \A x \in RunIds \ {r} : run'[x] = run[x]
      /\ \A x \in RunIds : RunHolds(x)'
      /\ AtMostOne'
      /\ \A x \in RunIds : run'[x].kind = run[x].kind /\ run'[x].of = run[x].of
  <2>1. /\ run[r].status # "none" /\ row.status # "none" /\ row.status \in {"queued", "running"}
        /\ row.kind = run[r].kind /\ row.of = run[r].of
    BY DEF Active
  <2>2. \A x \in RunIds, t \in Tokens :
           at'[x][t] = at[x][t] \/ ((at[x][t] # "none" \/ x = r) /\ at'[x][t] # "failed")
    OBVIOUS
  <2> QED
    BY <2>1, <2>2, RunStep
<1>3. /\ ses' \in [Sessions -> SessionRows] /\ \A y \in Sessions \ {s} : ses'[y] = ses[y]
      /\ ses'[s].planning = r /\ ses'[s].reports = ses[s].reports
      /\ ses'[s].status = IF row.job = "queued" THEN "planning" ELSE "awaiting_input"
  <2>1. CASE ses' = [ses EXCEPT ![s].status = "planning"] /\ row.job = "queued"
    BY <1>1, <2>1, OneStatus
  <2>2. CASE ses' = [ses EXCEPT ![s].status = "awaiting_input"] /\ row.job = "waiting"
    BY <1>1, <2>2, OneStatus
  <2> QED
    BY <2>1, <2>2
<1>4. Typed'
  BY <1>1, <1>2, <1>3 DEF Typed
<1>5. \A y \in Sessions : SessionHolds(y)'
  <2>1. ses[s].reports # 1
    BY <1>1 DEF SessionHolds
  <2> QED
    BY <1>2, <1>3, <2>1, SessionsKept
<1>6. ASSUME NEW x \in RunIds PROVE Follows(x)'
  <2>1. CASE x # r
    BY <1>1, <1>2, <2>1 DEF AtMostOne, Active, Follows
  <2>2. CASE x = r
    <3>1. log[r].asked = log'[r].asked /\ (row.job = "waiting" => questions'[r][log'[r].asked] = "open")
      OBVIOUS
    <3> QED
      BY <1>2, <1>3, <2>2, <3>1 DEF Follows
  <2> QED
    BY <2>1, <2>2
<1> QED
  BY <1>2, <1>4, <1>5, <1>6 DEF IInv

LEMMA AnswerKeeps ==
    ASSUME IInv, NEW s \in Sessions, NEW q \in 1..MaxQuestions, Answer(s, q)
    PROVE  IInv'
<1>1. Typed /\ SessionHolds(s)
  BY DEF IInv
<1> DEFINE r == ses[s].planning
           row == [run[r] EXCEPT !.status = "queued", !.job = "queued"]
<1>2. /\ r \in RunIds /\ run[r] \in RunRows(Sessions \union {NoRun.of})
      /\ run[r].kind = "planning" /\ run[r].of = s
      /\ ses[s].status = "awaiting_input" /\ Active(r)
  BY <1>1 DEF Answer, SessionHolds, Typed, Active
<1>3. /\ run' = [run EXCEPT ![r] = row] /\ ses' = [ses EXCEPT ![s].status = "planning"]
      /\ UNCHANGED <<plans, turns, log, at>>
  BY DEF Answer
<1>4. row = Row(run[r].kind, run[r].of, "queued", "queued", run[r].token, run[r].lapsed, run[r].late)
  BY <1>2, JobIs
<1>5. questions' \in [RunIds -> [1..MaxQuestions -> QuestionStates]]
  BY <1>1, <1>2 DEF Answer, Typed, QuestionStates
<1> HIDE DEF row, r
<1>6. /\ row \in RunRows(Sessions \union {NoRun.of}) /\ row.kind = "planning" /\ row.of = s
      /\ row.status = "queued" /\ row.job = "queued"
  BY <1>2, <1>4 DEF Row, RunRows
<1>7. ses[s].planning = r /\ at' \in [RunIds -> [Tokens -> AttemptStates]] /\ at' = at
  BY <1>1, <1>3 DEF r, Typed
<1> QED
  BY <1>2, <1>3, <1>5, <1>6, <1>7, PlannerStep

LEMMA AskKeeps ==
    ASSUME IInv, NEW r \in RunIds, NEW t \in Tokens, Ask(r, t)
    PROVE  IInv'
<1> DEFINE s == run[r].of
           row == [run[r] EXCEPT !.job = "waiting"]
<1>1. Typed /\ RunHolds(r) /\ Follows(r) /\ log[r] \in Logs
  BY DEF IInv, Typed
<1>2. /\ run[r] \in RunRows(Sessions \union {NoRun.of}) /\ s \in Sessions
      /\ run[r].kind = "planning" /\ run[r].status = "running" /\ Active(r)
      /\ ses[s].planning = r /\ ses[s].status \in {"planning", "awaiting_input"}
  <2>0. Planner(r, t)
    BY DEF Ask
  <2>1. /\ run[r] \in RunRows(Sessions \union {NoRun.of})
        /\ run[r].kind = "planning" /\ run[r].status = "running" /\ Active(r)
    BY <1>1, <2>0 DEF Planner, Holds, Typed, Active
  <2>2. s \in Sessions
    BY <1>1, <2>1 DEF RunHolds
  <2>3. ses[s].planning = r /\ ses[s].status \in {"planning", "awaiting_input"}
    BY <1>1, <2>1 DEF Follows
  <2> QED
    BY <2>1, <2>2, <2>3
<1>3. /\ run' = [run EXCEPT ![r] = row] /\ ses' = [ses EXCEPT ![s].status = "awaiting_input"]
      /\ UNCHANGED <<plans, turns, log>>
      /\ questions' = [questions EXCEPT ![r][log[r].asked] = "open"]
      /\ at' = [at EXCEPT ![r][t] = "gone"]
  BY <1>2 DEF Ask, Session
<1>4. row = Row(run[r].kind, run[r].of, "running", "waiting", run[r].token, run[r].lapsed, run[r].late)
  BY <1>2, JobIs
<1>5. /\ questions' \in [RunIds -> [1..MaxQuestions -> QuestionStates]]
      /\ questions'[r][log[r].asked] = "open"
  <2>1. log[r].asked \in 1..MaxQuestions
    BY <1>1 DEF Ask, Asks, Logs
  <2> QED
    BY <1>1, <1>3, <2>1 DEF Typed, QuestionStates
<1>6. /\ at' \in [RunIds -> [Tokens -> AttemptStates]]
      /\ \A x \in RunIds, u \in Tokens : at'[x][u] = at[x][u] \/ (x = r /\ at'[x][u] = "gone")
  <2>1. at' = [at EXCEPT ![r][t] = "gone"] /\ "gone" \in AttemptStates
    BY <1>3 DEF AttemptStates
  <2>2. /\ at' \in [RunIds -> [Tokens -> AttemptStates]] /\ at'[r][t] = "gone"
        /\ \A x \in RunIds, u \in Tokens : at'[x][u] = at[x][u] \/ (x = r /\ u = t)
    BY <1>1, <2>1, OneAttempt
  <2> QED
    BY <2>2
<1> HIDE DEF row, s
<1>7. /\ row \in RunRows(Sessions \union {NoRun.of}) /\ row.kind = "planning" /\ row.of = s
      /\ row.status = "running" /\ row.job = "waiting" /\ run[r].of = s
  BY <1>2, <1>4 DEF Row, RunRows, s
<1> QED
  BY <1>2, <1>3, <1>5, <1>6, <1>7, PlannerStep

(* The log of a planner grows under its lease, when nobody is asked.       *)
LEMMA PlannerLogs ==
    ASSUME ResearchSessionsAssumption, IInv, NEW r \in RunIds, NEW t \in Tokens,
           Decide(r, t) \/ TakeAnswers(r, t)
    PROVE  IInv'
<1>1. Typed /\ AtMostOne /\ \A x \in RunIds : RunHolds(x) /\ Follows(x)
  BY DEF IInv
<1>2. /\ Active(r) /\ run[r].job = "running" /\ UNCHANGED <<ses, plans, turns, run, questions, at>>
      /\ log[r] \in Logs
  BY <1>1 DEF Decide, TakeAnswers, Planner, Holds, Active, Typed
<1>3. log' \in [RunIds -> Logs] /\ \A x \in RunIds \ {r} : log'[x] = log[x]
  <2>1. CASE log' = [log EXCEPT ![r].final = TRUE]
    BY <1>1, <2>1 DEF Typed, Logs
  <2>2. CASE log[r].asked < MaxQuestions /\ log' = [log EXCEPT ![r].asked = @ + 1]
    <3>1. log[r].asked + 1 \in 0..MaxQuestions
      BY <1>2, <2>2 DEF Logs, ResearchSessionsAssumption
    <3> QED
      BY <1>1, <2>2, <3>1 DEF Typed, Logs
  <2>3. CASE log' = [log EXCEPT ![r].done = @ + 1]
    <3>1. log[r].done + 1 \in Nat
      BY <1>2 DEF Logs
    <3> QED
      BY <1>1, <2>3, <3>1 DEF Typed, Logs
  <2> QED
    BY <2>1, <2>2, <2>3 DEF Decide, TakeAnswers
<1>4. Typed'
  BY <1>1, <1>2, <1>3 DEF Typed
<1>5. AtMostOne' /\ \A x \in RunIds : RunHolds(x)'
  BY <1>1, <1>2 DEF AtMostOne, RunHolds, Active
<1>6. \A y \in Sessions : SessionHolds(y)'
  BY <1>2 DEF IInv, SessionHolds
<1>7. ASSUME NEW x \in RunIds PROVE Follows(x)'
  <2>1. CASE x = r
    BY <1>1, <1>2, <2>1 DEF Follows, Active
  <2>2. CASE x # r
    BY <1>1, <1>2, <1>3, <2>2 DEF Follows, Active
  <2> QED
    BY <2>1, <2>2
<1> QED
  BY <1>4, <1>5, <1>6, <1>7 DEF IInv

LEMMA AttemptsKeep ==
    ASSUME IInv, NEW r \in RunIds, NEW t \in Tokens, AttemptDies(r, t) \/ Load(r, t)
    PROVE  IInv'
<1>1. Typed
  BY DEF IInv
<1>2. PICK pc \in {"gone", "loading"} : at' = [at EXCEPT ![r][t] = pc]
  BY DEF AttemptDies, Load
<1>3. at[r][t] # "none" /\ UNCHANGED <<ses, plans, turns, run, questions, log>>
  BY DEF AttemptDies, Load, Executor
<1>4. /\ at' \in [RunIds -> [Tokens -> AttemptStates]] /\ at'[r][t] = pc
      /\ \A x \in RunIds, u \in Tokens : at'[x][u] = at[x][u] \/ (x = r /\ u = t)
  <2>1. pc \in AttemptStates
    BY DEF AttemptStates
  <2> QED
    BY <1>1, <1>2, <2>1, OneAttempt
<1> QED
  BY <1>3, <1>4, AttemptStep

(* A straggler tells the session of its own Run, which is at work no more  *)
(* or goes on; whoever works in the session meanwhile is told nothing.     *)
LEMMA TellsKeep ==
    ASSUME IInv, NEW r \in RunIds, NEW t \in Tokens, MarkRunning(r, t) \/ FailSession(r, t)
    PROVE  IInv'
<1> DEFINE s == run[r].of
<1>1. Typed /\ AtMostOne /\ \A x \in RunIds : RunHolds(x) /\ Follows(x)
  BY DEF IInv
<1>2. /\ at[r][t] \in {"loading", "failed"} /\ s \in Sessions
      /\ UNCHANGED <<plans, turns, run, questions, log>>
  BY <1>1 DEF MarkRunning, FailSession, Executor, RunHolds
<1>3. PICK pc \in {"gone", "loaded"} : at' = [at EXCEPT ![r][t] = pc]
  BY DEF MarkRunning, FailSession
<1>4. /\ at' \in [RunIds -> [Tokens -> AttemptStates]] /\ at'[r][t] = pc
      /\ \A x \in RunIds, u \in Tokens : at'[x][u] = at[x][u] \/ (x = r /\ u = t)
  <2>1. pc \in AttemptStates
    BY DEF AttemptStates
  <2> QED
    BY <1>1, <1>3, <2>1, OneAttempt
<1>5. CASE ses' = ses
  BY <1>2, <1>4, <1>5, AttemptStep
<1>6. CASE /\ MarkRunning(r, t) /\ run[r].kind = "execution" /\ ses[s].execution = r /\ ses[s].status = "queued"
           /\ ses' = [ses EXCEPT ![s].status = "running"]
  <2>1. /\ ses' \in [Sessions -> SessionRows] /\ \A y \in Sessions \ {s} : ses'[y] = ses[y]
        /\ ses'[s].status = "running" /\ ses'[s].planning = ses[s].planning
        /\ ses'[s].execution = ses[s].execution /\ ses'[s].reports = ses[s].reports
    BY <1>1, <1>2, <1>6, OneStatus
  <2>2. ASSUME NEW x \in RunIds PROVE Follows(x)'
    <3>1. CASE Active(x) /\ run[x].of = s
      <4>1. run[x].kind = "execution"
        BY <1>1, <1>6, <3>1 DEF Follows
      <4> QED
        BY <1>1, <1>2, <1>6, <2>1, <3>1, <4>1 DEF Follows, Active
    <3>2. CASE ~(Active(x) /\ run[x].of = s)
      <4>1. Active(x) => run[x].of \in Sessions \ {s}
        BY <1>1, <3>2 DEF RunHolds, Active
      <4> QED
        BY <1>1, <1>2, <2>1, <4>1 DEF Follows, Active
    <3> QED
      BY <3>1, <3>2
  <2>3. SessionHolds(s)
    BY <1>2 DEF IInv
  <2>4. \A y \in Sessions : SessionHolds(y)'
    BY <1>2, <1>6, <2>1, <2>3, SessionsKept DEF SessionHolds
  <2>5. AtMostOne' /\ \A x \in RunIds : RunHolds(x)'
    <3>1. \A x \in RunIds, u \in Tokens : at'[x][u] = at[x][u] \/ (at[x][u] # "none" /\ at'[x][u] # "failed")
      BY <1>2, <1>4
    <3> QED
      BY <1>1, <1>2, <3>1 DEF AtMostOne, RunHolds, Active
  <2>6. Typed'
    BY <1>1, <1>2, <1>4, <2>1 DEF Typed
  <2> QED
    BY <2>2, <2>4, <2>5, <2>6 DEF IInv
<1>7. CASE /\ FailSession(r, t) /\ at[r][t] = "failed" /\ ses' = [ses EXCEPT ![s].status = "failed"]
           /\ \/ ses[s].planning = r /\ ses[s].status = "planning"
              \/ ses[s].execution = r /\ ses[s].status \in {"queued", "running", "publishing"}
  <2>1. /\ ses' \in [Sessions -> SessionRows] /\ \A y \in Sessions \ {s} : ses'[y] = ses[y]
        /\ ses'[s].status = "failed" /\ ses'[s].planning = ses[s].planning
        /\ ses'[s].execution = ses[s].execution /\ ses'[s].reports = ses[s].reports
    BY <1>1, <1>2, <1>7, OneStatus
  <2>2. ASSUME NEW x \in RunIds PROVE Follows(x)'
    <3>1. CASE Active(x) /\ run[x].of = s
      <4>1. x = r
        BY <1>1, <1>7, <3>1 DEF Follows
      <4> QED
        BY <1>1, <1>7, <3>1, <4>1 DEF RunHolds
    <3>2. CASE ~(Active(x) /\ run[x].of = s)
      <4>1. Active(x) => run[x].of \in Sessions \ {s}
        BY <1>1, <3>2 DEF RunHolds, Active
      <4> QED
        BY <1>1, <1>2, <2>1, <4>1 DEF Follows, Active
    <3> QED
      BY <3>1, <3>2
  <2>3. SessionHolds(s)
    BY <1>2 DEF IInv
  <2>4. \A y \in Sessions : SessionHolds(y)'
    BY <1>2, <1>7, <2>1, <2>3, SessionsKept DEF SessionHolds
  <2>5. AtMostOne' /\ \A x \in RunIds : RunHolds(x)'
    <3>1. \A x \in RunIds, u \in Tokens : at'[x][u] = at[x][u] \/ (at[x][u] # "none" /\ at'[x][u] # "failed")
      BY <1>2, <1>4
    <3> QED
      BY <1>1, <1>2, <3>1 DEF AtMostOne, RunHolds, Active
  <2>6. Typed'
    BY <1>1, <1>2, <1>4, <2>1 DEF Typed
  <2> QED
    BY <2>2, <2>4, <2>5, <2>6 DEF IInv
<1> QED
  BY <1>5, <1>6, <1>7 DEF MarkRunning, FailSession, Session, Executor

-----------------------------------------------------------------------------
LEMMA NextIInv == ResearchSessionsAssumption /\ IInv /\ [Next]_vars => IInv'
<1> SUFFICES ASSUME ResearchSessionsAssumption, IInv, [Next]_vars PROVE IInv'
  OBVIOUS
<1>1. CASE ExpireIfOverdue
  BY <1>1, ExpiryKeeps
<1>2. ASSUME NEW s \in Sessions, Edit(s) PROVE IInv'
  BY <1>2, EditKeeps
<1>3. ASSUME NEW s \in Sessions, NEW q \in 1..MaxQuestions, Answer(s, q) PROVE IInv'
  BY <1>3, AnswerKeeps
<1>4. ASSUME NEW s \in Sessions, NEW r \in RunIds,
             Create(s, r) \/ Revise(s, r) \/ \E version \in 1..MaxVersions : Start(s, r, version)
      PROVE  IInv'
  BY <1>4, AdmitsKeep
<1>5. ASSUME NEW r \in RunIds, DeadlinePasses(r) \/ LeaseLapses(r) PROVE IInv'
  BY <1>5, TimeKeeps
<1>6. ASSUME NEW r \in RunIds, Claim(r) PROVE IInv'
  BY <1>6, ClaimKeeps
<1>7. ASSUME NEW r \in RunIds, Terminalize(r) \/ Cancel(r) PROVE IInv'
  BY <1>7, EndsKeep
<1>8. ASSUME NEW r \in RunIds, NEW t \in Tokens, PublishPlan(r, t) \/ PublishReport(r, t) \/ Fail(r, t)
      PROVE  IInv'
  BY <1>8, EndsKeep
<1>9. ASSUME NEW r \in RunIds, NEW t \in Tokens, AttemptDies(r, t) \/ Load(r, t) PROVE IInv'
  BY <1>9, AttemptsKeep
<1>10. ASSUME NEW r \in RunIds, NEW t \in Tokens, Decide(r, t) \/ TakeAnswers(r, t) PROVE IInv'
  BY <1>10, PlannerLogs
<1>11. ASSUME NEW r \in RunIds, NEW t \in Tokens, Ask(r, t) PROVE IInv'
  BY <1>11, AskKeeps
<1>12. ASSUME NEW r \in RunIds, NEW t \in Tokens, MarkRunning(r, t) \/ FailSession(r, t) PROVE IInv'
  BY <1>12, TellsKeep
<1>13. CASE UNCHANGED vars
  <2>1. UNCHANGED <<ses, plans, turns, run, questions, log, at>>
    BY <1>13 DEF vars
  <2>2. at' \in [RunIds -> [Tokens -> AttemptStates]]
    BY <2>1 DEF IInv, Typed
  <2> QED
    BY <2>1, <2>2, AttemptStep
<1> QED
  BY <1>1, <1>2, <1>3, <1>4, <1>5, <1>6, <1>7, <1>8, <1>9, <1>10, <1>11, <1>12, <1>13 DEF Next

(* Every reachable state satisfies the inductive invariant.                *)
THEOREM Invariance ==
    ASSUME ResearchSessionsAssumption
    PROVE  Spec => []IInv
<1>1. Init => IInv
  BY InitIInv
<1>2. IInv /\ [Next]_vars => IInv'
  BY NextIInv
<1> QED
  BY <1>1, <1>2, PTL DEF Spec

(* The tables of research_routes.go hold rows of their types, and a        *)
(* session has at most one report.                                         *)
THEOREM TypeCorrect ==
    ASSUME ResearchSessionsAssumption
    PROVE  Spec => []TypeOK
<1>1. Spec => []IInv
  BY Invariance
<1> QED
  BY <1>1, ImpliesTypeOK, PTL

(* agent/store.go, ActiveByUser: a Member has one research Run at work,    *)
(* whichever of its requests admitted it.                                  *)
THEOREM OneAtWork ==
    ASSUME ResearchSessionsAssumption
    PROVE  Spec => []OneRunAtWork
<1>1. Spec => []IInv
  BY Invariance
<1>2. IInv => OneRunAtWork
  BY ImpliesOne
<1> QED
  BY <1>1, <1>2, PTL

(* research_planning_runtime.go, research_runtime.go: a Run at work finds  *)
(* its session where its end looks for it, and a planner is suspended      *)
(* exactly while its session shows an open batch of its questions.         *)
THEOREM SessionsFollow ==
    ASSUME ResearchSessionsAssumption
    PROVE  Spec => []SessionFollowsRun
<1>1. Spec => []IInv
  BY Invariance
<1> QED
  BY <1>1, ImpliesFollows, PTL
=============================================================================
