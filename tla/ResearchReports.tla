--------------------------- MODULE ResearchReports ---------------------------
(***************************************************************************)
(* The end of a research Run: claim cards, report sections and their       *)
(* assembly (internal/agent/research_claims.go,                            *)
(* research_workspace_action.go), the declaration the runtime checks       *)
(* before it accepts a Final (research_completion.go), and the report that *)
(* is published (research_runtime.go).                                     *)
(*                                                                         *)
(* Everything is derived from the checkpoints of the root and of its       *)
(* reader.  The code folds over them whenever it asks; the fields of log   *)
(* are what these folds have come to, so that a result that is accepted    *)
(* moves them once.  The text of a section or of the report is the set of  *)
(* cards it cites.                                                         *)
(***************************************************************************)
EXTENDS Naturals, FiniteSets

CONSTANTS Questions,          \* of the accepted plan
          DecisionLimit,      \* ActionDecisionLimit
          ActionLimit,        \* of the Run
          MaxCards            \* cards the root records, and its reader

\* Of the constants; the MC modules that instantiate this one assume it.
ResearchReportsAssumption == {DecisionLimit, ActionLimit, MaxCards} \subseteq Nat

VARIABLES
    cards,      \* collectResearchClaims: the cards of the tree
    log,        \* the folds over the root's checkpoints
    doing,      \* the proposed Action that has no result yet
    seen,       \* what the executing complete_research has read
    reader,     \* the state of the root's subagent
    exhausted,  \* modelBudgetExhaustedForRun
    published   \* research_report_versions

vars == <<cards, log, doing, seen, reader, exhausted, published>>

NoText == [there |-> FALSE, cites |-> {}]
Text(ids) == [there |-> TRUE, cites |-> ids]
NoQuestions == [q \in {} |-> 0]
NoDeclaration == [made |-> FALSE, of |-> NoQuestions]
Action(name) == [name |-> name, question |-> 0, cites |-> {}, declares |-> NoQuestions]
Nothing == Action("none")
NotSeen == [there |-> FALSE, cards |-> {}]

(* The cards of a run are numbered in the order they were proposed in; the *)
(* reader's have a letter of their own.                                    *)
RootId(n) == <<"c", n>>
ReaderId(n) == <<"a", n>>
Unknown == <<"z", 1>>        \* an id that no card has
Ids == {RootId(n) : n \in 1..MaxCards} \union {ReaderId(n) : n \in 1..MaxCards}
CardsOf(letter) == {c \in cards : c.id[1] = letter}
Card(id, q, usable) == [id |-> id, question |-> q, usable |-> usable]

Init ==
    /\ cards = {}
    /\ log = [decisions |-> 0, section |-> NoText, report |-> NoText, fresh |-> FALSE,
              accepted |-> NoDeclaration, sentBack |-> [q \in Questions |-> 0], searched |-> 0]
    /\ doing = Nothing
    /\ seen = NotSeen
    /\ reader = "none"
    /\ exhausted = FALSE
    /\ published = [there |-> FALSE, report |-> NoText, callable |-> FALSE, of |-> NoDeclaration]

ClaimCards == [id : Ids, question : Questions, usable : BOOLEAN]
Texts == [there : BOOLEAN, cites : SUBSET Ids]
Workspaces == [section : Texts, report : Texts, fresh : BOOLEAN]
ReaderStates == {"none", "running", "completed", "failed", "cancelled"}

(* Cards, the folds and the reader have their types.                       *)
TypeOK ==
    /\ cards \subseteq ClaimCards /\ seen.cards \subseteq cards
    /\ [section |-> log.section, report |-> log.report, fresh |-> log.fresh] \in Workspaces
    /\ reader \in ReaderStates
    /\ published.report \in Texts

-----------------------------------------------------------------------------
(* The reader, and the budget of the tree. *)

ReaderRecords(q, usable) ==
    /\ reader = "running" /\ Cardinality(CardsOf("a")) < MaxCards
    /\ cards' = cards \union {Card(ReaderId(Cardinality(CardsOf("a")) + 1), q, usable)}
    /\ UNCHANGED <<log, doing, seen, reader, exhausted, published>>

(* A reader returns Final only after it recorded a card, or it fails.      *)
ReaderEnds ==
    /\ reader = "running"
    /\ \/ CardsOf("a") # {} /\ reader' = "completed"
       \/ reader' = "failed"
    /\ UNCHANGED <<cards, log, doing, seen, exhausted, published>>

BudgetRunsOut ==
    /\ ~exhausted /\ ~published.there
    /\ exhausted' = TRUE
    /\ UNCHANGED <<cards, log, doing, seen, reader, published>>

-----------------------------------------------------------------------------
(* The root's decisions. *)

\* researchCompletionCallable; a decision of this model has one Action.
Callable == log.decisions < ActionLimit /\ log.decisions < DecisionLimit

\* TokenBudgetWrapUpTools: what is left once the budget is spent.
WrapUp == {"write", "assemble", "complete"}

Declarations ==
    LET Answer == {[found |-> FALSE, cards |-> {}]} \union
                  {[found |-> TRUE, cards |-> ids] : ids \in {{}, {Unknown}} \union {{i} : i \in Ids}}
    IN  UNION {[qs -> Answer] : qs \in SUBSET Questions}

Proposals ==
    {Action(name) : name \in {"search", "import", "spawn", "assemble"}}
        \union {[Action("claim") EXCEPT !.question = q] : q \in Questions}
        \union {[Action("write") EXCEPT !.cites = ids] : ids \in SUBSET Ids}
        \union {[Action("complete") EXCEPT !.declares = d] : d \in Declarations}

Decide(a) ==
    /\ doing = Nothing /\ Callable /\ ~published.there
    /\ exhausted => a.name \in WrapUp
    /\ a.name = "claim" => Cardinality(CardsOf("c")) < MaxCards
    /\ doing' = a
    /\ log' = [log EXCEPT !.decisions = @ + 1]
    /\ UNCHANGED <<cards, seen, reader, exhausted, published>>

Result(name) == doing.name = name /\ doing' = Nothing

\* A search that failed, or repeated an earlier one, is no new round.
Search(ok) ==
    /\ Result("search")
    /\ log' = IF ok THEN [log EXCEPT !.searched = log.decisions] ELSE log
    /\ UNCHANGED <<cards, seen, reader, exhausted, published>>

Import ==
    /\ Result("import")
    /\ log' = [log EXCEPT !.fresh = FALSE, !.searched = log.decisions]
    /\ UNCHANGED <<cards, seen, reader, exhausted, published>>

Spawn ==
    /\ Result("spawn") /\ reader = "none"
    /\ reader' = "running"
    /\ log' = [log EXCEPT !.searched = log.decisions]
    /\ UNCHANGED <<cards, seen, exhausted, published>>
SpawnRefused ==
    /\ Result("spawn") /\ reader # "none"
    /\ UNCHANGED <<cards, log, seen, reader, exhausted, published>>

(* The quote is found in the text that was read, or it is not.             *)
RecordClaim(usable) ==
    /\ Result("claim")
    /\ cards' = cards \union {Card(RootId(Cardinality(CardsOf("c")) + 1), doing.question, usable)}
    /\ UNCHANGED <<log, seen, reader, exhausted, published>>

WriteFile ==
    /\ Result("write")
    /\ log' = [log EXCEPT !.section = Text(doing.cites)]
    /\ UNCHANGED <<cards, seen, reader, exhausted, published>>

(* Where the section is missing, assemble_research_report is refused.  The *)
(* imports it waits for are those of SourceImports.                        *)
\* Mutant: a declaration outlives the report it was made for.
AssembleKeeps ==
    /\ Result("assemble")
    /\ log' = IF log.section.there
              THEN [log EXCEPT !.report = log.section, !.fresh = TRUE] ELSE log
    /\ UNCHANGED <<cards, seen, reader, exhausted, published>>
Assemble ==
    /\ Result("assemble")
    /\ log' = IF log.section.there
              THEN [log EXCEPT !.report = log.section, !.fresh = TRUE, !.accepted = NoDeclaration]
              ELSE log
    /\ UNCHANGED <<cards, seen, reader, exhausted, published>>

(* complete_research first loads the tree of claims and the report, and    *)
(* later the subagents that run and the budget.                            *)
LoadTree ==
    /\ doing.name = "complete" /\ ~seen.there
    /\ seen' = [there |-> TRUE, cards |-> cards]
    /\ UNCHANGED <<cards, log, doing, reader, exhausted, published>>

Crash ==
    /\ seen.there
    /\ seen' = NotSeen
    /\ UNCHANGED <<cards, log, doing, reader, exhausted, published>>

Tagged(q) == {c \in seen.cards : c.usable /\ c.question = q}
Retried(q) == log.sentBack[q] # 0 /\ log.searched > log.sentBack[q]
Retry(d) == {q \in DOMAIN d : ~d[q].found /\ Tagged(q) = {} /\ ~exhausted /\ ~Retried(q)}
Stands(id) == id \in log.report.cites /\ \E c \in seen.cards : c.id = id /\ c.usable

(* checkResearchCompletion.                                                *)
Accepts(d) ==
    /\ reader # "running"
    /\ DOMAIN d = Questions
    /\ \A q \in DOMAIN d : /\ d[q].found => d[q].cards # {}
                           /\ \A id \in d[q].cards : Stands(id)
    /\ Retry(d) = {}

Complete ==
    /\ Result("complete") /\ seen.there
    /\ seen' = NotSeen
    /\ log' = IF ~log.fresh THEN log
              ELSE IF Accepts(doing.declares)
              THEN [log EXCEPT !.accepted = [made |-> TRUE, of |-> doing.declares]]
              ELSE [log EXCEPT !.sentBack = [q \in Questions |->
                       IF @[q] = 0 /\ q \in Retry(doing.declares) THEN log.decisions ELSE @[q]]]
    /\ UNCHANGED <<cards, reader, exhausted, published>>

(* PrepareDecisionResponse accepts a Final, PrepareFinal replaces its text *)
(* by the assembled report, and PublishFinal publishes it.                 *)
Final ==
    /\ doing = Nothing /\ ~published.there /\ log.fresh
    /\ Callable => log.accepted.made
    /\ published' = [there |-> TRUE, report |-> log.report, callable |-> Callable, of |-> log.accepted]
    /\ reader' = IF reader = "running" THEN "cancelled" ELSE reader
    /\ UNCHANGED <<cards, log, doing, seen, exhausted>>

Next ==
    \/ \E q \in Questions, usable \in BOOLEAN : ReaderRecords(q, usable)
    \/ ReaderEnds
    \/ BudgetRunsOut
    \/ \E a \in Proposals : Decide(a)
    \/ \E ok \in BOOLEAN : Search(ok)
    \/ Import
    \/ Spawn
    \/ SpawnRefused
    \/ \E usable \in BOOLEAN : RecordClaim(usable)
    \/ WriteFile
    \/ Assemble
    \/ LoadTree
    \/ Crash
    \/ Complete
    \/ Final

Spec == Init /\ [][Next]_vars

-----------------------------------------------------------------------------
(* A published report is the one its declaration was checked against:      *)
(* every question of the plan is declared, and what answers it are usable  *)
(* cards this very report cites.  Only a Run that had no Action left to    *)
(* declare with publishes without.                                         *)
PublishedAsDeclared ==
    published.there /\ published.callable =>
        /\ DOMAIN published.of.of = Questions
        /\ \A q \in Questions :
              LET answer == published.of.of[q] IN
              /\ answer.found => answer.cards # {}
              /\ \A id \in answer.cards :
                    /\ id \in published.report.cites
                    /\ \E c \in cards : c.id = id /\ c.usable

=============================================================================
