------------------------------- MODULE Grounding -------------------------------
(* How a Run's answer comes to cite Sources: the draft of the model is      *)
(* normalised against what the accepted Actions found, its plan is stored   *)
(* in a transaction of its own (agent/grounding.go), the draft becomes the  *)
(* Final checkpoint, and publication checks all of it again                 *)
(* (agent/grounding_publication.go).  Attempts crash or lose their lease    *)
(* between any two of these steps, a Member removes Sources or leaves.      *)
(*                                                                          *)
(* A text is a sequence of pieces: a marker is "[sou" "rce:" id "]", so a   *)
(* draft may hold broken, nested or unended markers.                        *)
EXTENDS Integers, Sequences, FiniteSets, SequencesExt

CONSTANTS Sources,     \* identities of Sources, strings
          Selected,    \* the choices of pinned Sources, subsets of Sources
          Drafts,      \* texts the model may answer
          Findings,    \* results of Actions [tool, ok, degraded, empty, found]
          MaxActs,     \* bound: accepted Actions of the Run
          MaxAttempts, \* attempts of the Job
          MarkerLimit  \* maxSourceMarkerOccurrences

GroundingAssumption ==
    /\ \A pins \in Selected : pins \subseteq Sources
    /\ \A draft \in Drafts : draft # <<>>
    /\ {MaxAttempts, MarkerLimit} \subseteq Nat \ {0} /\ MaxActs \in Nat

VARIABLES
    pins,     \* the Run's Evidence Set; selected_source_count is its size
    ready,    \* Sources still ready with their revision active
    member,   \* the asker is a Member of the Notebook
    run,      \* "running", "completed", "failed"
    lease,    \* [no, held]: the Job's attempt_no and whether its lease is good
    log,      \* results of the accepted Actions
    final,    \* the Final checkpoint, or <<>>
    plan,     \* the row of agent_run_grounding_plans, or NoPlan
    cited,    \* the rows of agent_draft_source_references, by ordinal
    work,     \* [attempt -> [pc, draft]]: the worker of each Attempt
    answer    \* [text, citations]: the Assistant Message, or NoAnswer

vars == <<pins, ready, member, run, lease, log, final, plan, cited, work, answer>>

NoPlan == [text |-> <<>>]
NoAnswer == [text |-> <<>>, citations |-> <<>>]
Idle == [pc |-> "off", draft |-> <<>>]
Attempts == 1..MaxAttempts

-----------------------------------------------------------------------------
(* normalizeSourceMarkers *)

Opens(t) == {i \in 1..(Len(t) - 1) : t[i] = "[sou" /\ t[i + 1] = "rce:"}
Lowest(S) == CHOOSE i \in S : \A j \in S : i <= j
Marker(s) == <<"[sou", "rce:", s, "]">>
Known(s, seen) == \E i \in DOMAIN seen : seen[i] = s

\* What is left of the text, t, after the markers in m were read.
RECURSIVE Scan(_, _, _)
Scan(t, m, allowed) ==
    IF Opens(t) = {} THEN [m EXCEPT !.text = @ \o t]
    ELSE LET open   == Lowest(Opens(t))
             kept   == m.text \o SubSeq(t, 1, open - 1)
             rest   == SubSeq(t, open, Len(t))
             closes == {i \in DOMAIN rest : rest[i] = "]"}
         IN  IF closes = {}
             THEN [m EXCEPT !.text = kept \o SubSeq(rest, 3, Len(rest)), !.dropped = @ + 1]
             ELSE LET close == Lowest(closes)
                      id    == rest[3]
                      good  == m.count < MarkerLimit /\ close = 4 /\ id \in allowed
                  IN  Scan(SubSeq(rest, close + 1, Len(rest)),
                           [text    |-> IF good THEN kept \o Marker(id) ELSE kept,
                            refs    |-> IF good /\ ~Known(id, m.refs) THEN Append(m.refs, id)
                                        ELSE m.refs,
                            dropped |-> IF good THEN m.dropped ELSE m.dropped + 1,
                            count   |-> m.count + 1], allowed)

Normal(t, allowed) == Scan(t, [text |-> <<>>, refs |-> <<>>, dropped |-> 0, count |-> 0], allowed)

\* parseResearchState: what the accepted Actions add up to.
Research ==
    [performed |-> log # <<>>,
     complete  |-> log # <<>> /\ \A i \in DOMAIN log :
                       log[i].ok /\ (log[i].tool = "search" => log[i].found # <<>> \/ log[i].empty),
     degraded  |-> \E i \in DOMAIN log :
                       log[i].tool = "search" /\ (~log[i].ok \/ log[i].degraded),
     found     |-> FlattenSeq([i \in DOMAIN log |-> IF log[i].ok THEN log[i].found ELSE <<>>])]
NoResearch == [performed |-> FALSE, complete |-> FALSE, degraded |-> FALSE, found |-> <<>>]
Allowed(research) == {research.found[i] : i \in DOMAIN research.found}

\* appendRetrievedSourceMarkers
WithSources(t, found) ==
    LET first == SelectSeq([i \in DOMAIN found |-> <<i, found[i]>>],
                           LAMBDA p : ~Known(p[2], SubSeq(found, 1, p[1] - 1)))
        used  == SubSeq(first, 1, IF Len(first) < MarkerLimit THEN Len(first) ELSE MarkerLimit)
    IN  t \o <<"Sources:">> \o FlattenSeq([i \in DOMAIN used |-> Marker(used[i][2])])

\* prepare: the plan of a draft.
PlanOf(draft) ==
    LET research == IF pins = {} THEN NoResearch ELSE Research
        once     == Normal(draft, Allowed(research))
        last     == IF once.refs = <<>> /\ research.found # <<>>
                    THEN Normal(WithSources(once.text, research.found), Allowed(research))
                    ELSE once
    IN  [text      |-> last.text, refs |-> last.refs,
         outcome   |-> IF pins = {} THEN "source_less"
                       ELSE IF ~research.performed THEN "source_unsearched"
                       ELSE IF last.refs = <<>> THEN "source_free" ELSE "source_cited",
         performed |-> research.performed, complete |-> research.complete,
         degraded  |-> research.degraded]

-----------------------------------------------------------------------------
Init ==
    /\ pins \in Selected /\ ready = Sources /\ member = TRUE
    /\ run = "running" /\ lease = [no |-> 0, held |-> FALSE]
    /\ log = <<>> /\ final = <<>> /\ plan = NoPlan /\ cited = <<>>
    /\ work = [a \in Attempts |-> Idle] /\ answer = NoAnswer

\* The row locks and conditions of every transaction of the worker.
Authority(a) == run = "running" /\ lease = [no |-> a, held |-> TRUE]
At(a, pc) == work[a].pc = pc
Goes(a, pc, draft) == work' = [work EXCEPT ![a] = [pc |-> pc, draft |-> draft]]
Stops(a) == Goes(a, "off", <<>>)

\* Claim and LoadCheckpointPrefix.
Claim(a) ==
    /\ run = "running" /\ ~lease.held /\ a = lease.no + 1
    /\ lease' = [no |-> a, held |-> TRUE]
    /\ Goes(a, IF final = <<>> THEN "decide" ELSE "publish", <<>>)
    /\ UNCHANGED <<pins, ready, member, run, log, final, plan, cited, answer>>

\* A proposal is accepted, executed, and its result accepted.
Act(a) ==
    /\ At(a, "decide") /\ Authority(a) /\ member /\ Len(log) < MaxActs
    /\ \E r \in Findings :
        /\ \A i \in DOMAIN r.found : r.found[i] \in pins
        /\ log' = Append(log, r)
    /\ UNCHANGED <<pins, ready, member, run, lease, final, plan, cited, work, answer>>

\* The model answers with a draft.
Draft(a) ==
    /\ At(a, "decide") /\ Authority(a)
    /\ \E draft \in Drafts : Goes(a, "count", draft)
    /\ UNCHANGED <<pins, ready, member, run, lease, log, final, plan, cited, answer>>

Fail == run' = "failed" /\ lease' = [lease EXCEPT !.held = FALSE]

\* selectedSourceCount, and the plan computed from what was loaded: a draft
\* of which nothing is left fails the Run.
Prepare(a) ==
    /\ At(a, "count")
    /\ IF ~Authority(a) THEN Stops(a) /\ UNCHANGED <<run, lease>>
       ELSE IF PlanOf(work[a].draft).text = <<>> THEN Stops(a) /\ Fail
       ELSE Goes(a, "plan", work[a].draft) /\ UNCHANGED <<run, lease>>
    /\ UNCHANGED <<pins, ready, member, log, final, plan, cited, answer>>

\* Mutant: the plan stored by an earlier Attempt is not compared.
PlanUnread(p) == Range(p.refs) \subseteq pins \cap ready

\* The plan may be stored: there is none, or the same; all it cites is
\* pinned and ready.
PlanHolds(p) ==
    /\ plan = NoPlan \/ (/\ plan.text = p.text /\ plan.refs = p.refs
                         /\ plan.outcome = p.outcome /\ plan.performed = p.performed)
    /\ Range(p.refs) \subseteq pins \cap ready

\* persistSourcePlan: insert, read back and compare, insert the references;
\* a plan that does not hold rolls back and the Run ends as grounding_failed.
PersistSourcePlan(a) ==
    /\ At(a, "plan")
    /\ LET p == PlanOf(work[a].draft) IN
       IF ~Authority(a) THEN Stops(a) /\ UNCHANGED <<run, lease, plan, cited>>
       ELSE IF ~PlanHolds(p) THEN Stops(a) /\ Fail /\ UNCHANGED <<plan, cited>>
       ELSE /\ plan' = IF plan = NoPlan THEN p ELSE plan
            /\ cited' = IF plan = NoPlan THEN p.refs ELSE cited
            /\ Goes(a, "append", p.text)
            /\ UNCHANGED <<run, lease>>
    /\ UNCHANGED <<pins, ready, member, log, final, answer>>

\* AppendCheckpoint of the Final.
AppendFinal(a) ==
    /\ At(a, "append")
    /\ IF Authority(a) /\ member
       THEN final' = work[a].draft /\ Goes(a, "publish", <<>>)
       ELSE UNCHANGED final /\ Stops(a)
    /\ UNCHANGED <<pins, ready, member, run, lease, log, plan, cited, answer>>

\* validateSourceReferenceDraft
DraftValid ==
    LET research == Research
        read     == IF plan.outcome \in {"source_less", "source_unsearched"}
                    THEN Normal(final, {}) ELSE Normal(final, Allowed(research))
    IN  /\ read.text = final
        /\ CASE plan.outcome = "source_less" ->
                  pins = {} /\ ~plan.performed /\ ~plan.complete /\ ~plan.degraded /\ cited = <<>>
             [] plan.outcome = "source_unsearched" ->
                  pins # {} /\ ~plan.performed /\ ~plan.complete /\ ~plan.degraded /\ cited = <<>>
             [] OTHER ->
                  /\ pins # {} /\ plan.performed /\ research.performed
                  /\ plan.complete = research.complete /\ plan.degraded = research.degraded
                  /\ read.dropped = 0 /\ read.refs = cited
                  /\ (plan.outcome = "source_free") = (cited = <<>>)

PinsValid == pins \subseteq ready

\* validateGroundingPublication
Publishable ==
    /\ member /\ PinsValid
    /\ IF plan = NoPlan THEN pins = {}
       ELSE plan.text = final /\ plan.refs = cited /\ DraftValid

\* publishOnce: the Message, its citations, Run and Job in one transaction.
Publish(a) ==
    /\ At(a, "publish") /\ Authority(a) /\ Publishable
    /\ answer' = [text |-> final,
                  citations |-> IF plan # NoPlan /\ plan.outcome = "source_cited" THEN cited ELSE <<>>]
    /\ run' = "completed" /\ lease' = [lease EXCEPT !.held = FALSE]
    /\ Stops(a)
    /\ UNCHANGED <<pins, ready, member, log, final, plan, cited>>

\* publishResult tries twice; the refusal is returned to the worker, and the
\* lease runs out.
Refuse(a) ==
    /\ At(a, "publish") /\ ~(Authority(a) /\ Publishable)
    /\ Stops(a)
    /\ UNCHANGED <<pins, ready, member, run, lease, log, final, plan, cited, answer>>

-----------------------------------------------------------------------------
\* A lease runs out, its worker dead or still at work.
LoseLease ==
    /\ lease.held
    /\ lease' = [lease EXCEPT !.held = FALSE]
    /\ \/ UNCHANGED work
       \/ Stops(lease.no)
    /\ UNCHANGED <<pins, ready, member, run, log, final, plan, cited, answer>>

\* The last attempt is used up.
Exhaust ==
    /\ run = "running" /\ ~lease.held /\ lease.no = MaxAttempts
    /\ run' = "failed"
    /\ UNCHANGED <<pins, ready, member, lease, log, final, plan, cited, work, answer>>

RemoveSource(s) ==
    /\ s \in ready \cap pins
    /\ ready' = ready \ {s}
    /\ UNCHANGED <<pins, member, run, lease, log, final, plan, cited, work, answer>>

Leave ==
    /\ member /\ member' = FALSE
    /\ UNCHANGED <<pins, ready, run, lease, log, final, plan, cited, work, answer>>

Next ==
    \/ \E a \in Attempts :
        \/ Claim(a) \/ Act(a) \/ Draft(a) \/ Prepare(a) \/ PersistSourcePlan(a)
        \/ AppendFinal(a) \/ Publish(a) \/ Refuse(a)
    \/ LoseLease \/ Exhaust \/ Leave
    \/ \E s \in Sources : RemoveSource(s)

Spec == Init /\ [][Next]_vars

-----------------------------------------------------------------------------
\* The variables have their types; the Final and the answer are written by an
\* Attempt of the Run.
TypeOK ==
    /\ pins \subseteq Sources /\ ready \subseteq Sources /\ member \in BOOLEAN
    /\ run \in {"running", "completed", "failed"}
    /\ lease \in [no : 0..MaxAttempts, held : BOOLEAN]
    /\ Len(log) <= MaxActs /\ Range(log) \subseteq Findings
    /\ DOMAIN work = Attempts
    /\ \A a \in Attempts : work[a].pc \in {"off", "decide", "count", "plan", "append", "publish"}

\* Every Source the answer cites was pinned, shown by an accepted Action, and
\* is marked in the text; the text marks no other Source.  Lines 11-77 of
\* grounding_publication.go; several Attempts write the plan and the draft.
CitesWhatWasFound ==
    answer # NoAnswer =>
        /\ Range(answer.citations) \subseteq pins \cap Allowed(Research)
        /\ \A s \in Sources :
            (\E i \in 1..(Len(answer.text) - 3) : SubSeq(answer.text, i, i + 3) = Marker(s))
                <=> s \in Range(answer.citations)

\* The Final and the stored plan, written in two transactions by Attempts
\* that may differ, tell the same text and the same references.
FinalIsPlanned == final # <<>> => plan # NoPlan /\ plan.text = final /\ plan.refs = cited

\* The removal of bad markers may have left a marker in the text.
Settled == Normal(final, Allowed(Research)).text = final

\* The plan is that of an earlier Attempt when the one that drafted the Final
\* made other Actions first; persistSourcePlan compares all but these two.
SameResearch == plan.complete = Research.complete /\ plan.degraded = Research.degraded

\* An accepted Final cannot be drafted again, so publication should refuse it
\* for nothing but a Source or a Membership lost since: prepare and
\* validateGroundingPublication, which derive it separately, agree but for
\* the two cases above.
RefusedForLoss ==
    final # <<>> /\ member /\ PinsValid /\ Settled /\ SameResearch => Publishable

\* An answer is published only while all its Sources may still be cited.
PublishedWhileReady == [][answer' # answer => pins \subseteq ready /\ member]_vars
=============================================================================
