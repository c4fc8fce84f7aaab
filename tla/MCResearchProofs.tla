-------------------------- MODULE MCResearchProofs --------------------------
(***************************************************************************)
(* What holds of the sessions of a Member, from the theorems about         *)
(* ResearchSessions, of a research report, for any plan and any number of  *)
(* decisions and cards, and of what a long chat and a long Run have        *)
(* summarised.                                                             *)
(***************************************************************************)
EXTENDS MCResearch, FiniteSetTheorems, TLAPS

-----------------------------------------------------------------------------
(* ResearchReports. *)

Declarations == Reports!Declarations \union {Reports!NoQuestions}
Acceptances == [made : BOOLEAN, of : Declarations]
ReportLogs == [decisions : Nat, section : Reports!Texts, report : Reports!Texts, fresh : BOOLEAN,
               accepted : Acceptances, sentBack : [ReportQuestions -> Nat], searched : Nat]
Actions == [name : {"none", "search", "import", "spawn", "assemble", "claim", "write", "complete"},
            question : ReportQuestions \union {0}, cites : SUBSET Reports!Ids, declares : Declarations]

ReportTyped ==
    /\ rr_cards \subseteq Reports!ClaimCards /\ IsFiniteSet(rr_cards)
    /\ rr_log \in ReportLogs
    /\ rr_doing \in Actions
    /\ rr_seen \in [there : BOOLEAN, cards : SUBSET rr_cards]
    /\ rr_reader \in Reports!ReaderStates
    /\ rr_published \in [there : BOOLEAN, report : Reports!Texts, callable : BOOLEAN, of : Acceptances]

(* A claim that is decided has a number left for its card.                 *)
ReportNumbers ==
    rr_doing.name = "claim" =>
        /\ rr_doing.question \in ReportQuestions
        /\ Cardinality(Reports!CardsOf("c")) < ReportCards

(* Every question is answered by usable cards the report cites, if at all. *)
Declared(d, report) ==
    /\ DOMAIN d = ReportQuestions
    /\ \A q \in ReportQuestions :
          /\ d[q].found => d[q].cards # {}
          /\ \A id \in d[q].cards :
                id \in report.cites /\ \E c \in rr_cards : c.id = id /\ c.usable

(* The accepted declaration is of the assembled report.                    *)
ReportDeclared == rr_log.accepted.made => Declared(rr_log.accepted.of, rr_log.report)

ReportIInv == ReportTyped /\ ReportNumbers /\ ReportDeclared /\ Reports!PublishedAsDeclared

(* The instance counts as this module does.                                *)
LEMMA Counting == \A S : Reports!Cardinality(S) = Cardinality(S)
BY DEF Reports!Cardinality, Cardinality

LEMMA ReportInit == Reports!ResearchReportsAssumption /\ Reports!Init => ReportIInv
<1> SUFFICES ASSUME Reports!ResearchReportsAssumption, Reports!Init PROVE ReportIInv
  OBVIOUS
<1>1. Reports!NoText \in Reports!Texts /\ Reports!NoDeclaration \in Acceptances
  BY DEF Reports!NoText, Reports!Texts, Reports!NoDeclaration, Acceptances, Declarations
<1>2. rr_log \in ReportLogs
  BY <1>1 DEF Reports!Init, ReportLogs
<1>3. rr_doing \in Actions /\ rr_doing.name = "none"
  BY DEF Reports!Init, Reports!Nothing, Reports!Action, Actions, Declarations
<1>4. ReportTyped
  <2>1. rr_cards = {} /\ IsFiniteSet({})
    BY FS_EmptySet DEF Reports!Init
  <2> QED
    BY <1>1, <1>2, <1>3, <2>1 DEF Reports!Init, Reports!NotSeen, Reports!ReaderStates, ReportTyped
<1>5. ~rr_log.accepted.made /\ ~rr_published.there
  BY DEF Reports!Init, Reports!NoDeclaration
<1> QED
  BY <1>3, <1>4, <1>5 DEF ReportIInv, ReportNumbers, ReportDeclared, Reports!PublishedAsDeclared

(* Cards are only added, so what a declaration says stays.                 *)
LEMMA DeclarationStays ==
    ASSUME ReportIInv, rr_cards \subseteq rr_cards', UNCHANGED rr_published
    PROVE  /\ \A d \in Declarations, report \in Reports!Texts : Declared(d, report) => Declared(d, report)'
           /\ Reports!PublishedAsDeclared'
BY DEF ReportIInv, Declared, Reports!PublishedAsDeclared


(* What a result moves in the folds of the log.                            *)
Log(decisions, section, report, fresh, accepted, sentBack, searched) ==
    [decisions |-> decisions, section |-> section, report |-> report, fresh |-> fresh,
     accepted |-> accepted, sentBack |-> sentBack, searched |-> searched]

LEMMA LogMoves ==
    ASSUME NEW log \in ReportLogs, NEW new
    PROVE  /\ new = [log EXCEPT !.decisions = @ + 1]
                => new = Log(log.decisions + 1, log.section, log.report, log.fresh, log.accepted,
                             log.sentBack, log.searched)
           /\ new = [log EXCEPT !.searched = log.decisions]
                => new = Log(log.decisions, log.section, log.report, log.fresh, log.accepted,
                             log.sentBack, log.decisions)
           /\ new = [log EXCEPT !.fresh = FALSE, !.searched = log.decisions]
                => new = Log(log.decisions, log.section, log.report, FALSE, log.accepted,
                             log.sentBack, log.decisions)
           /\ \A section : new = [log EXCEPT !.section = section]
                => new = Log(log.decisions, section, log.report, log.fresh, log.accepted,
                             log.sentBack, log.searched)
           /\ \A accepted : new = [log EXCEPT !.report = log.section, !.fresh = TRUE, !.accepted = accepted]
                => new = Log(log.decisions, log.section, log.section, TRUE, accepted,
                             log.sentBack, log.searched)
           /\ \A accepted : new = [log EXCEPT !.accepted = accepted]
                => new = Log(log.decisions, log.section, log.report, log.fresh, accepted,
                             log.sentBack, log.searched)
           /\ \A sentBack : new = [log EXCEPT !.sentBack = sentBack]
                => new = Log(log.decisions, log.section, log.report, log.fresh, log.accepted,
                             sentBack, log.searched)
BY DEF ReportLogs, Log

(* Moves that keep the report and its declaration.                         *)
LEMMA LogKeeps ==
    ASSUME ReportTyped, NEW new,
           \/ new = rr_log
           \/ new = [rr_log EXCEPT !.decisions = @ + 1]
           \/ new = [rr_log EXCEPT !.searched = rr_log.decisions]
           \/ new = [rr_log EXCEPT !.fresh = FALSE, !.searched = rr_log.decisions]
           \/ \E section \in Reports!Texts : new = [rr_log EXCEPT !.section = section]
           \/ \E sentBack \in [ReportQuestions -> Nat] : new = [rr_log EXCEPT !.sentBack = sentBack]
    PROVE  new \in ReportLogs /\ new.report = rr_log.report /\ new.accepted = rr_log.accepted
<1>1. /\ rr_log \in ReportLogs /\ rr_log.decisions \in Nat /\ rr_log.section \in Reports!Texts
      /\ rr_log.report \in Reports!Texts /\ rr_log.fresh \in BOOLEAN /\ rr_log.accepted \in Acceptances
      /\ rr_log.sentBack \in [ReportQuestions -> Nat] /\ rr_log.searched \in Nat
  BY DEF ReportTyped, ReportLogs
<1> DEFINE Kept(x) == x \in ReportLogs /\ x.report = rr_log.report /\ x.accepted = rr_log.accepted
<1>2. ASSUME NEW decisions \in Nat, NEW searched \in Nat, NEW section \in Reports!Texts,
             NEW fresh \in BOOLEAN, NEW sentBack \in [ReportQuestions -> Nat]
      PROVE  Kept(Log(decisions, section, rr_log.report, fresh, rr_log.accepted, sentBack, searched))
  BY <1>1 DEF ReportLogs, Log
<1> HIDE DEF Kept
<1>3. Kept(rr_log)
  BY <1>1 DEF Kept
<1>4. CASE new = [rr_log EXCEPT !.decisions = @ + 1]
  <2>1. rr_log.decisions + 1 \in Nat
    BY <1>1
  <2>2. new = Log(rr_log.decisions + 1, rr_log.section, rr_log.report, rr_log.fresh, rr_log.accepted,
                  rr_log.sentBack, rr_log.searched)
    BY <1>1, <1>4, LogMoves
  <2> QED
    BY <1>1, <1>2, <2>1, <2>2 DEF Kept
<1>5. CASE new = [rr_log EXCEPT !.searched = rr_log.decisions]
  <2>1. new = Log(rr_log.decisions, rr_log.section, rr_log.report, rr_log.fresh, rr_log.accepted,
                  rr_log.sentBack, rr_log.decisions)
    BY <1>1, <1>5, LogMoves
  <2> QED
    BY <1>1, <1>2, <2>1 DEF Kept
<1>6. CASE new = [rr_log EXCEPT !.fresh = FALSE, !.searched = rr_log.decisions]
  <2>1. new = Log(rr_log.decisions, rr_log.section, rr_log.report, FALSE, rr_log.accepted,
                  rr_log.sentBack, rr_log.decisions)
    BY <1>1, <1>6, LogMoves
  <2>2. \E fresh \in BOOLEAN : new = Log(rr_log.decisions, rr_log.section, rr_log.report, fresh,
                                         rr_log.accepted, rr_log.sentBack, rr_log.decisions)
    BY <2>1
  <2> QED
    BY <1>1, <1>2, <2>2 DEF Kept
<1>7. ASSUME NEW section \in Reports!Texts, new = [rr_log EXCEPT !.section = section] PROVE Kept(new)
  <2>1. new = Log(rr_log.decisions, section, rr_log.report, rr_log.fresh, rr_log.accepted,
                  rr_log.sentBack, rr_log.searched)
    BY <1>1, <1>7, LogMoves, ZenonT(60)
  <2> QED
    BY <1>1, <1>2, <2>1 DEF Kept
<1>8. ASSUME NEW sentBack \in [ReportQuestions -> Nat], new = [rr_log EXCEPT !.sentBack = sentBack]
      PROVE  Kept(new)
  <2>1. new = Log(rr_log.decisions, rr_log.section, rr_log.report, rr_log.fresh, rr_log.accepted,
                  sentBack, rr_log.searched)
    BY <1>1, <1>8, LogMoves, ZenonT(60)
  <2> QED
    BY <1>1, <1>2, <2>1 DEF Kept
<1> QED
  BY <1>3, <1>4, <1>5, <1>6, <1>7, <1>8 DEF Kept

(* A step that decides nothing about the report.                           *)
LEMMA QuietStep ==
    ASSUME ReportIInv, rr_cards \subseteq rr_cards', rr_cards' \subseteq Reports!ClaimCards,
           IsFiniteSet(rr_cards'),
           rr_log' \in ReportLogs, rr_log'.report = rr_log.report, rr_log'.accepted = rr_log.accepted,
           rr_doing' \in Actions, ReportNumbers',
           rr_seen' \in [there : BOOLEAN, cards : SUBSET rr_cards'],
           rr_reader' \in Reports!ReaderStates,
           UNCHANGED rr_published
    PROVE  ReportIInv'
<1>1. ReportTyped'
  BY DEF ReportIInv, ReportTyped
<1>2. ReportDeclared'
  BY DeclarationStays DEF ReportIInv, ReportDeclared, ReportTyped, ReportLogs, Acceptances
<1> QED
  BY <1>1, <1>2, DeclarationStays DEF ReportIInv

(* Cards have numbers below MaxCards, by whom they are recorded.           *)
LEMMA CardAdded ==
    ASSUME Reports!ResearchReportsAssumption, ReportTyped, NEW letter \in {"c", "a"},
           Cardinality(Reports!CardsOf(letter)) < ReportCards,
           NEW q \in ReportQuestions, NEW usable \in BOOLEAN,
           NEW id, id = <<letter, Cardinality(Reports!CardsOf(letter)) + 1>>,
           rr_cards' = rr_cards \union {Reports!Card(id, q, usable)}
    PROVE  /\ rr_cards \subseteq rr_cards' /\ rr_cards' \subseteq Reports!ClaimCards /\ IsFiniteSet(rr_cards')
           /\ letter = "a" => Reports!CardsOf("c")' = Reports!CardsOf("c")
<1>1. IsFiniteSet(Reports!CardsOf(letter))
  BY FS_Subset DEF ReportTyped, Reports!CardsOf
<1>2. Cardinality(Reports!CardsOf(letter)) \in Nat /\ ReportCards \in Nat
  BY <1>1, FS_CardinalityType DEF Reports!ResearchReportsAssumption
<1>3. Cardinality(Reports!CardsOf(letter)) + 1 \in 1..ReportCards
  BY <1>2
<1>4. id \in Reports!Ids
  BY <1>3 DEF Reports!Ids, Reports!RootId, Reports!ReaderId
<1>5. Reports!Card(id, q, usable) \in Reports!ClaimCards
  BY <1>4 DEF Reports!Card, Reports!ClaimCards
<1>6. IsFiniteSet(rr_cards')
  BY FS_AddElement DEF ReportTyped
<1>7. letter = "a" => Reports!CardsOf("c")' = Reports!CardsOf("c")
  <2>1. letter = "a" => Reports!Card(id, q, usable).id[1] = "a"
    BY DEF Reports!Card
  <2> QED
    BY <2>1 DEF Reports!CardsOf
<1> QED
  BY <1>5, <1>6, <1>7 DEF ReportTyped

(* The reader, the budget, and a crash.                                    *)
LEMMA ReaderKeeps ==
    ASSUME Reports!ResearchReportsAssumption, ReportIInv,
           \/ \E q \in ReportQuestions, usable \in BOOLEAN : Reports!ReaderRecords(q, usable)
           \/ Reports!ReaderEnds \/ Reports!BudgetRunsOut \/ Reports!LoadTree \/ Reports!Crash
    PROVE  ReportIInv'
<1>1. ReportTyped /\ ReportNumbers
  BY DEF ReportIInv
<1>2. ASSUME NEW q \in ReportQuestions, NEW usable \in BOOLEAN, Reports!ReaderRecords(q, usable)
      PROVE  ReportIInv'
  <2>1. /\ Cardinality(Reports!CardsOf("a")) < ReportCards
        /\ rr_cards' = rr_cards \union
             {Reports!Card(<<"a", Cardinality(Reports!CardsOf("a")) + 1>>, q, usable)}
        /\ UNCHANGED <<rr_log, rr_doing, rr_seen, rr_reader, rr_exhausted, rr_published>>
    BY <1>2, Counting DEF Reports!ReaderRecords, Reports!ReaderId
  <2>2. /\ rr_cards \subseteq rr_cards' /\ rr_cards' \subseteq Reports!ClaimCards /\ IsFiniteSet(rr_cards')
        /\ Reports!CardsOf("c")' = Reports!CardsOf("c")
    BY <1>1, <2>1, CardAdded
  <2>3. ReportNumbers'
    BY <1>1, <2>1, <2>2 DEF ReportNumbers
  <2> QED
    BY <1>1, <2>1, <2>2, <2>3, QuietStep DEF ReportTyped
<1>3. CASE Reports!ReaderEnds \/ Reports!BudgetRunsOut \/ Reports!LoadTree \/ Reports!Crash
  <2>1. UNCHANGED <<rr_cards, rr_log, rr_doing, rr_published>>
    BY <1>3 DEF Reports!ReaderEnds, Reports!BudgetRunsOut, Reports!LoadTree, Reports!Crash
  <2>2. rr_reader' \in Reports!ReaderStates
    BY <1>1, <1>3 DEF Reports!ReaderEnds, Reports!BudgetRunsOut, Reports!LoadTree, Reports!Crash,
                      ReportTyped, Reports!ReaderStates
  <2>3. rr_seen' \in [there : BOOLEAN, cards : SUBSET rr_cards']
    <3>1. CASE rr_seen' = rr_seen
      BY <1>1, <2>1, <3>1 DEF ReportTyped
    <3>2. CASE rr_seen' = [there |-> TRUE, cards |-> rr_cards]
      BY <2>1, <3>2
    <3>3. CASE rr_seen' = [there |-> FALSE, cards |-> {}]
      BY <2>1, <3>3
    <3> QED
      BY <1>3, <3>1, <3>2, <3>3 DEF Reports!ReaderEnds, Reports!BudgetRunsOut, Reports!LoadTree,
                                    Reports!Crash, Reports!NotSeen
  <2>4. ReportNumbers'
    BY <1>1, <2>1 DEF ReportNumbers, Reports!CardsOf
  <2> QED
    BY <1>1, <2>1, <2>2, <2>3, <2>4, QuietStep DEF ReportTyped
<1> QED
  BY <1>2, <1>3

LEMMA ProposedAction ==
    ASSUME NEW a \in Reports!Proposals
    PROVE  /\ a \in Actions /\ a.name # "none"
           /\ a.name = "claim" => a.question \in ReportQuestions
           /\ a.declares \in Declarations
<1>1. ASSUME NEW name PROVE /\ Reports!Action(name).name = name
                            /\ Reports!Action(name).question = 0 /\ Reports!Action(name).cites = {}
                            /\ Reports!Action(name).declares \in Declarations
  BY DEF Reports!Action, Declarations
<1>2. CASE \E name \in {"search", "import", "spawn", "assemble"} : a = Reports!Action(name)
  BY <1>2 DEF Reports!Action, Actions, Declarations
<1>3. ASSUME NEW q \in ReportQuestions, a = [Reports!Action("claim") EXCEPT !.question = q]
      PROVE  /\ a \in Actions /\ a.name # "none" /\ a.question \in ReportQuestions
             /\ a.declares \in Declarations
  <2>1. a = [name |-> "claim", question |-> q, cites |-> {}, declares |-> Reports!NoQuestions]
    BY <1>3 DEF Reports!Action
  <2> QED
    BY <2>1 DEF Actions, Declarations
<1>4. ASSUME NEW ids \in SUBSET Reports!Ids, a = [Reports!Action("write") EXCEPT !.cites = ids]
      PROVE  a \in Actions /\ a.name = "write" /\ a.declares \in Declarations
  <2>1. a = [name |-> "write", question |-> 0, cites |-> ids, declares |-> Reports!NoQuestions]
    BY <1>4 DEF Reports!Action
  <2> QED
    BY <2>1 DEF Actions, Declarations
<1>5. ASSUME NEW d \in Reports!Declarations, a = [Reports!Action("complete") EXCEPT !.declares = d]
      PROVE  a \in Actions /\ a.name = "complete" /\ a.declares \in Declarations
  <2>1. a = [name |-> "complete", question |-> 0, cites |-> {}, declares |-> d]
    BY <1>5 DEF Reports!Action
  <2> QED
    BY <2>1 DEF Actions, Declarations
<1>6. a.name = "claim" => \E q \in ReportQuestions : a = [Reports!Action("claim") EXCEPT !.question = q]
  BY <1>1, <1>4, <1>5 DEF Reports!Proposals
<1>7. \/ \E name \in {"search", "import", "spawn", "assemble"} : a = Reports!Action(name)
      \/ \E q \in ReportQuestions : a = [Reports!Action("claim") EXCEPT !.question = q]
      \/ \E ids \in SUBSET Reports!Ids : a = [Reports!Action("write") EXCEPT !.cites = ids]
      \/ \E d \in Reports!Declarations : a = [Reports!Action("complete") EXCEPT !.declares = d]
  BY DEF Reports!Proposals
<1> QED
  BY <1>1, <1>2, <1>3, <1>4, <1>5, <1>6, <1>7

(* The root decides.                                                       *)
LEMMA DecideKeeps ==
    ASSUME ReportIInv, NEW a \in Reports!Proposals, Reports!Decide(a)
    PROVE  ReportIInv'
<1>1. ReportTyped /\ ReportNumbers
  BY DEF ReportIInv
<1>2. /\ a \in Actions
      /\ a.name = "claim" => a.question \in ReportQuestions
  BY ProposedAction
<1>3. /\ rr_doing' = a
      /\ a.name = "claim" => Cardinality(Reports!CardsOf("c")) < ReportCards
      /\ rr_log' = [rr_log EXCEPT !.decisions = @ + 1]
      /\ UNCHANGED <<rr_cards, rr_seen, rr_reader, rr_exhausted, rr_published>>
  BY Counting DEF Reports!Decide
<1>4. rr_log' \in ReportLogs /\ rr_log'.report = rr_log.report /\ rr_log'.accepted = rr_log.accepted
  BY <1>1, <1>3, LogKeeps
<1>5. ReportNumbers'
  BY <1>2, <1>3 DEF ReportNumbers, Reports!CardsOf
<1> QED
  BY <1>1, <1>2, <1>3, <1>4, <1>5, QuietStep DEF ReportTyped

(* Results that decide nothing about the report.                           *)
LEMMA NothingIsAction == Reports!Nothing \in Actions /\ Reports!Nothing.name = "none"
BY DEF Reports!Nothing, Reports!Action, Actions, Declarations

LEMMA ResultKeeps ==
    ASSUME ReportIInv,
           \/ \E ok \in BOOLEAN : Reports!Search(ok)
           \/ Reports!Import \/ Reports!Spawn \/ Reports!SpawnRefused \/ Reports!WriteFile
    PROVE  ReportIInv'
<1>1. ReportTyped
  BY DEF ReportIInv
<1>2. /\ rr_doing' = Reports!Nothing
      /\ UNCHANGED <<rr_cards, rr_seen, rr_published>>
  BY DEF Reports!Search, Reports!Import, Reports!Spawn, Reports!SpawnRefused, Reports!WriteFile, Reports!Result
<1>3. rr_reader' \in Reports!ReaderStates
  BY <1>1 DEF Reports!Search, Reports!Import, Reports!Spawn, Reports!SpawnRefused, Reports!WriteFile,
              ReportTyped, Reports!ReaderStates
<1>4. rr_log' \in ReportLogs /\ rr_log'.report = rr_log.report /\ rr_log'.accepted = rr_log.accepted
  <2>1. \/ rr_log' = rr_log
        \/ rr_log' = [rr_log EXCEPT !.searched = rr_log.decisions]
        \/ rr_log' = [rr_log EXCEPT !.fresh = FALSE, !.searched = rr_log.decisions]
        \/ rr_log' = [rr_log EXCEPT !.section = Reports!Text(rr_doing.cites)]
    BY DEF Reports!Search, Reports!Import, Reports!Spawn, Reports!SpawnRefused, Reports!WriteFile
  <2>2. Reports!Text(rr_doing.cites) \in Reports!Texts
    BY <1>1 DEF ReportTyped, Actions, Reports!Text, Reports!Texts
  <2> QED
    BY <1>1, <2>1, <2>2, LogKeeps
<1>5. ReportNumbers'
  BY <1>2, NothingIsAction DEF ReportNumbers
<1> QED
  BY <1>1, <1>2, <1>3, <1>4, <1>5, NothingIsAction, QuietStep DEF ReportTyped

LEMMA ClaimKeeps ==
    ASSUME Reports!ResearchReportsAssumption, ReportIInv, NEW usable \in BOOLEAN, Reports!RecordClaim(usable)
    PROVE  ReportIInv'
<1>1. ReportTyped /\ ReportNumbers
  BY DEF ReportIInv
<1>2. /\ rr_doing.name = "claim" /\ rr_doing' = Reports!Nothing
      /\ rr_cards' = rr_cards \union
           {Reports!Card(<<"c", Cardinality(Reports!CardsOf("c")) + 1>>, rr_doing.question, usable)}
      /\ UNCHANGED <<rr_log, rr_seen, rr_reader, rr_published>>
  BY Counting DEF Reports!RecordClaim, Reports!Result, Reports!RootId
<1>3. rr_doing.question \in ReportQuestions /\ Cardinality(Reports!CardsOf("c")) < ReportCards
  BY <1>1, <1>2 DEF ReportNumbers
<1>4. rr_cards \subseteq rr_cards' /\ rr_cards' \subseteq Reports!ClaimCards /\ IsFiniteSet(rr_cards')
  BY <1>1, <1>2, <1>3, CardAdded
<1>5. ReportNumbers'
  BY <1>2, NothingIsAction DEF ReportNumbers
<1>6. rr_seen' \in [there : BOOLEAN, cards : SUBSET rr_cards']
  BY <1>1, <1>2, <1>4 DEF ReportTyped
<1> QED
  BY <1>1, <1>2, <1>4, <1>5, <1>6, NothingIsAction, QuietStep DEF ReportTyped

(* Another report is assembled, and no declaration is accepted for it.     *)
LEMMA AssembleKeeps ==
    ASSUME ReportIInv, Reports!Assemble
    PROVE  ReportIInv'
<1>1. ReportTyped
  BY DEF ReportIInv
<1>2. /\ rr_doing' = Reports!Nothing /\ UNCHANGED <<rr_cards, rr_seen, rr_reader, rr_published>>
  BY DEF Reports!Assemble, Reports!Result
<1>3. ReportNumbers'
  BY <1>2, NothingIsAction DEF ReportNumbers
<1>4. CASE rr_log' = rr_log
  BY <1>1, <1>2, <1>3, <1>4, NothingIsAction, QuietStep DEF ReportTyped
<1>5. CASE rr_log' = [rr_log EXCEPT !.report = rr_log.section, !.fresh = TRUE, !.accepted = Reports!NoDeclaration]
  <2>1. rr_log' = Log(rr_log.decisions, rr_log.section, rr_log.section, TRUE, Reports!NoDeclaration,
                      rr_log.sentBack, rr_log.searched)
    BY <1>1, <1>5, LogMoves DEF ReportTyped
  <2>2. Reports!NoDeclaration \in Acceptances /\ ~Reports!NoDeclaration.made
    BY DEF Reports!NoDeclaration, Acceptances, Declarations
  <2>3. rr_log' \in ReportLogs /\ rr_log'.accepted = Reports!NoDeclaration
    BY <1>1, <2>1, <2>2 DEF ReportTyped, ReportLogs, Log
  <2>4. ReportTyped'
    BY <1>1, <1>2, <2>3, NothingIsAction DEF ReportTyped
  <2>5. ReportDeclared'
    BY <2>2, <2>3 DEF ReportDeclared
  <2> QED
    BY <1>2, <1>3, <2>4, <2>5, DeclarationStays DEF ReportIInv
<1> QED
  BY <1>4, <1>5 DEF Reports!Assemble

(* checkResearchCompletion accepts what the cards it has seen answer; they *)
(* are still there, and the report is the one it looked at.                *)
LEMMA AcceptedIsDeclared ==
    ASSUME ReportTyped, NEW d \in Declarations, Reports!Accepts(d)
    PROVE  Declared(d, rr_log.report)
<1>1. rr_seen.cards \subseteq rr_cards
  BY DEF ReportTyped
<1>2. \A q \in ReportQuestions :
         /\ d[q].found => d[q].cards # {}
         /\ \A id \in d[q].cards : Reports!Stands(id)
  BY DEF Reports!Accepts
<1>3. \A id : Reports!Stands(id) =>
         id \in rr_log.report.cites /\ \E c \in rr_cards : c.id = id /\ c.usable
  BY <1>1 DEF Reports!Stands
<1>4. DOMAIN d = ReportQuestions
  BY DEF Reports!Accepts
<1> QED
  BY <1>2, <1>3, <1>4 DEF Declared

LEMMA CompleteKeeps ==
    ASSUME ReportIInv, Reports!Complete
    PROVE  ReportIInv'
<1>1. ReportTyped
  BY DEF ReportIInv
<1>2. /\ rr_doing' = Reports!Nothing /\ rr_seen' = Reports!NotSeen
      /\ UNCHANGED <<rr_cards, rr_reader, rr_published>>
  BY DEF Reports!Complete, Reports!Result
<1>3. ReportNumbers'
  BY <1>2, NothingIsAction DEF ReportNumbers
<1>4. rr_seen' \in [there : BOOLEAN, cards : SUBSET rr_cards']
  BY <1>2 DEF Reports!NotSeen
<1> DEFINE sentBack == [q \in ReportQuestions |->
                          IF rr_log.sentBack[q] = 0 /\ q \in Reports!Retry(rr_doing.declares)
                          THEN rr_log.decisions ELSE rr_log.sentBack[q]]
           accepted == [made |-> TRUE, of |-> rr_doing.declares]
<1>5. CASE rr_log' = rr_log \/ rr_log' = [rr_log EXCEPT !.sentBack = sentBack]
  <2>1. sentBack \in [ReportQuestions -> Nat]
    BY <1>1 DEF ReportTyped, ReportLogs
  <2> HIDE DEF sentBack
  <2>2. rr_log' \in ReportLogs /\ rr_log'.report = rr_log.report /\ rr_log'.accepted = rr_log.accepted
    BY <1>1, <1>5, <2>1, LogKeeps
  <2> QED
    BY <1>1, <1>2, <1>3, <1>4, <2>2, NothingIsAction, QuietStep DEF ReportTyped
<1>6. CASE Reports!Accepts(rr_doing.declares) /\ rr_log' = [rr_log EXCEPT !.accepted = accepted]
  <2>1. rr_doing.declares \in Declarations /\ accepted \in Acceptances /\ accepted.made
        /\ accepted.of = rr_doing.declares
    BY <1>1 DEF ReportTyped, Actions, Acceptances
  <2> HIDE DEF accepted
  <2>2. rr_log' = Log(rr_log.decisions, rr_log.section, rr_log.report, rr_log.fresh, accepted,
                      rr_log.sentBack, rr_log.searched)
    BY <1>1, <1>6, LogMoves DEF ReportTyped
  <2>3. rr_log' \in ReportLogs /\ rr_log'.accepted = accepted /\ rr_log'.report = rr_log.report
    BY <1>1, <2>1, <2>2 DEF ReportTyped, ReportLogs, Log
  <2>4. ReportTyped'
    BY <1>1, <1>2, <1>4, <2>3, NothingIsAction DEF ReportTyped
  <2>5. Declared(accepted.of, rr_log.report)
    BY <1>1, <1>6, <2>1, AcceptedIsDeclared
  <2>6. ReportDeclared'
    BY <1>2, <2>3, <2>5 DEF ReportDeclared, Declared
  <2> QED
    BY <1>2, <1>3, <2>4, <2>6, DeclarationStays DEF ReportIInv
<1> QED
  BY <1>5, <1>6 DEF Reports!Complete

(* PublishFinal: what is published is what the declaration was about.      *)
LEMMA FinalKeeps ==
    ASSUME ReportIInv, Reports!Final
    PROVE  ReportIInv'
<1>1. ReportTyped /\ ReportDeclared
  BY DEF ReportIInv
<1>2. /\ UNCHANGED <<rr_cards, rr_log, rr_doing, rr_seen>>
      /\ Reports!Callable => rr_log.accepted.made
      /\ rr_published' = [there |-> TRUE, report |-> rr_log.report, callable |-> Reports!Callable,
                          of |-> rr_log.accepted]
      /\ rr_reader' = IF rr_reader = "running" THEN "cancelled" ELSE rr_reader
  BY DEF Reports!Final
<1>3. Reports!Callable \in BOOLEAN
  BY DEF Reports!Callable
<1>4. rr_published' \in [there : BOOLEAN, report : Reports!Texts, callable : BOOLEAN, of : Acceptances]
  BY <1>1, <1>2, <1>3 DEF ReportTyped, ReportLogs
<1>5. ReportTyped'
  BY <1>1, <1>2, <1>4 DEF ReportTyped, Reports!ReaderStates
<1>6. ReportNumbers' /\ ReportDeclared'
  BY <1>1, <1>2 DEF ReportIInv, ReportNumbers, ReportDeclared, Declared, Reports!CardsOf
<1>7. Reports!PublishedAsDeclared'
  <2>1. rr_published'.callable => Declared(rr_published'.of.of, rr_published'.report)
    BY <1>1, <1>2 DEF ReportDeclared
  <2> QED
    BY <1>2, <2>1 DEF Declared, Reports!PublishedAsDeclared
<1> QED
  BY <1>5, <1>6, <1>7 DEF ReportIInv

LEMMA ReportStep ==
    Reports!ResearchReportsAssumption /\ ReportIInv /\ [Reports!Next]_(Reports!vars) => ReportIInv'
<1> SUFFICES ASSUME Reports!ResearchReportsAssumption, ReportIInv, [Reports!Next]_(Reports!vars)
             PROVE  ReportIInv'
  OBVIOUS
<1>1. CASE UNCHANGED Reports!vars
  <2>1. UNCHANGED <<rr_cards, rr_log, rr_doing, rr_seen, rr_reader, rr_exhausted, rr_published>>
    BY <1>1 DEF Reports!vars
  <2>2. ReportNumbers' /\ ReportTyped
    BY <2>1 DEF ReportIInv, ReportNumbers, Reports!CardsOf
  <2> QED
    BY <2>1, <2>2, QuietStep DEF ReportTyped
<1>2. CASE \/ \E q \in ReportQuestions, usable \in BOOLEAN : Reports!ReaderRecords(q, usable)
           \/ Reports!ReaderEnds \/ Reports!BudgetRunsOut \/ Reports!LoadTree \/ Reports!Crash
  BY <1>2, ReaderKeeps
<1>3. CASE \E a \in Reports!Proposals : Reports!Decide(a)
  BY <1>3, DecideKeeps
<1>4. CASE \/ \E ok \in BOOLEAN : Reports!Search(ok)
           \/ Reports!Import \/ Reports!Spawn \/ Reports!SpawnRefused \/ Reports!WriteFile
  BY <1>4, ResultKeeps
<1>5. CASE \E usable \in BOOLEAN : Reports!RecordClaim(usable)
  BY <1>5, ClaimKeeps
<1>6. CASE Reports!Assemble \/ Reports!Complete \/ Reports!Final
  BY <1>6, AssembleKeeps, CompleteKeeps, FinalKeeps
<1> QED
  BY <1>1, <1>2, <1>3, <1>4, <1>5, <1>6 DEF Reports!Next

LEMMA ReportHolds == ReportIInv => Reports!TypeOK /\ Reports!PublishedAsDeclared
<1> SUFFICES ASSUME ReportIInv PROVE Reports!TypeOK
  BY DEF ReportIInv
<1>1. ReportTyped
  BY DEF ReportIInv
<1>2. [section |-> rr_log.section, report |-> rr_log.report, fresh |-> rr_log.fresh] \in Reports!Workspaces
  BY <1>1 DEF ReportTyped, ReportLogs, Reports!Workspaces
<1> QED
  BY <1>1, <1>2 DEF ReportTyped, Reports!TypeOK

-----------------------------------------------------------------------------
(* ResearchMemory, for Runs of any length, that stall or do not.           *)

CapsuleTables(n) == [1..n -> {0, 1, 2}]
TaskMemories(n) ==
    UNION {[range : {range}, by : 1..2, source : [range -> 1..2]] : range \in (SUBSET (1..n)) \ {{}}}
MemoryPlaces ==
    {"gone", "begun", "capsules", "loaded", "broken", "exceeded", "capsulesGenerated",
     "optional", "needed", "capsulesChecked", "memory", "memoryGenerated", "memoryChecked", "sent"}
MemoryAttempts(n) ==
    [pc : MemoryPlaces, upto : 0..n, archived : CapsuleTables(n), seen : SUBSET TaskMemories(n),
     forced : BOOLEAN, range : SUBSET (1..n)]

(* The capsules are of steps the retention target gave up.                 *)
MemoryTyped(n) ==
    /\ rm_decisions \in 0..n /\ rm_steered \subseteq 1..n /\ rm_holder \in 1..2
    /\ rm_status \in {"running", "failed"}
    /\ rm_capsules \in CapsuleTables(n) /\ rm_memories \subseteq TaskMemories(n)
    /\ \A d \in 1..n : rm_capsules[d] # 0 => d + MemoryKeep <= rm_decisions

(* The memories are legible with these capsules.                           *)
Legible(archived) ==
    /\ \A m \in rm_memories : \A d \in m.range : archived[d] # 0 /\ archived[d] = m.source[d]
    /\ \A m, k \in rm_memories : m # k => m.range \intersect k.range = {}

(* An Attempt has loaded what is still stored, and archives old steps only.*)
MemoryKnown(n, r) ==
    /\ r \in MemoryAttempts(n) /\ r.upto <= rm_decisions
    /\ r.pc \in {"capsulesGenerated", "capsulesChecked"} => \A d \in r.range : d + MemoryKeep <= r.upto
    /\ r.pc \in {"memoryGenerated", "memoryChecked"} =>
          r.range # {} /\ \A d \in r.range : r.archived[d] # 0
    /\ r.pc # "exceeded" => \A d \in 1..n : r.archived[d] # 0 => r.archived[d] = rm_capsules[d]

(* One that does not stall has loaded all that is stored, and covers what  *)
(* no memory covers.                                                       *)
MemoryCurrent(r) ==
    /\ r.pc # "broken"
    /\ r.pc \notin {"gone", "begun", "exceeded"} => r.archived = rm_capsules
    /\ r.pc \in {"memoryGenerated", "memoryChecked"} =>
          \A m \in rm_memories : r.range \intersect m.range = {}

MemoryIInv(n, stalls) ==
    /\ MemoryTyped(n)
    /\ rm_at \in [1..2 -> MemoryAttempts(n)]
    /\ \A a \in 1..2 : MemoryKnown(n, rm_at[a])
    /\ ~stalls => /\ Legible(rm_capsules)
                  /\ \A a \in 1..2 : MemoryCurrent(rm_at[a]) /\ (a # rm_holder => rm_at[a].pc = "gone")

LEMMA RangesAreSteps == \A n : \A m \in TaskMemories(n) : m.range \subseteq 1..n
<1> SUFFICES ASSUME NEW n, NEW range \in (SUBSET (1..n)) \ {{}},
                    NEW m \in [range : {range}, by : 1..2, source : [range -> 1..2]]
             PROVE  m.range \subseteq 1..n
  BY DEF TaskMemories
<1> QED
  OBVIOUS

(* An Attempt that has loaded nothing, or is gone. *)
Fresh(n, pc, u, forced) ==
    [pc |-> pc, upto |-> u, archived |-> [d \in 1..n |-> 0], seen |-> {}, forced |-> forced, range |-> {}]

LEMMA FreshAre ==
    ASSUME NEW CONSTANT n, NEW CONSTANT stalls, NEW u
    PROVE  /\ Memory(n, stalls)!Begun(u) = Fresh(n, "begun", u, FALSE)
           /\ [Memory(n, stalls)!Begun(u) EXCEPT !.forced = TRUE] = Fresh(n, "begun", u, TRUE)
           /\ Memory(n, stalls)!NoAttempt = Fresh(n, "gone", 0, FALSE)
<1>1. \A v : Memory(n, stalls)!Begun(v) = Fresh(n, "begun", v, FALSE)
  BY DEF Memory!Begun, Memory!NoCapsules, Memory!Steps, Fresh
<1>2. ASSUME NEW t, NEW v, NEW b, NEW new,
             b = [pc |-> "begun", upto |-> v, archived |-> t, seen |-> {}, forced |-> FALSE, range |-> {}],
             new = [b EXCEPT !.forced = TRUE]
      PROVE  new = [pc |-> "begun", upto |-> v, archived |-> t, seen |-> {}, forced |-> TRUE, range |-> {}]
  BY <1>2
<1>3. ASSUME NEW t, NEW v, NEW b, NEW new,
             b = [pc |-> "begun", upto |-> v, archived |-> t, seen |-> {}, forced |-> FALSE, range |-> {}],
             new = [b EXCEPT !.pc = "gone"]
      PROVE  new = [pc |-> "gone", upto |-> v, archived |-> t, seen |-> {}, forced |-> FALSE, range |-> {}]
  BY <1>3
<1>4. [Memory(n, stalls)!Begun(u) EXCEPT !.forced = TRUE] = Fresh(n, "begun", u, TRUE)
  <2> DEFINE b == Memory(n, stalls)!Begun(u)
             new == [b EXCEPT !.forced = TRUE]
             none == [d \in 1..n |-> 0]
  <2>1. b = [pc |-> "begun", upto |-> u, archived |-> none, seen |-> {}, forced |-> FALSE, range |-> {}]
    BY <1>1 DEF Fresh
  <2>2. new = [b EXCEPT !.forced = TRUE]
    OBVIOUS
  <2>3. Fresh(n, "begun", u, TRUE) =
          [pc |-> "begun", upto |-> u, archived |-> none, seen |-> {}, forced |-> TRUE, range |-> {}]
    BY DEF Fresh
  <2> HIDE DEF b, new, none
  <2>4. new = Fresh(n, "begun", u, TRUE)
    BY <1>2, <2>1, <2>2, <2>3
  <2> QED
    BY <2>4 DEF new, b
<1>5. Memory(n, stalls)!NoAttempt = Fresh(n, "gone", 0, FALSE)
  <2> DEFINE b == Memory(n, stalls)!Begun(0)
             new == [b EXCEPT !.pc = "gone"]
             none == [d \in 1..n |-> 0]
  <2>1. b = [pc |-> "begun", upto |-> 0, archived |-> none, seen |-> {}, forced |-> FALSE, range |-> {}]
    BY <1>1 DEF Fresh
  <2>2. new = [b EXCEPT !.pc = "gone"]
    OBVIOUS
  <2>3. Fresh(n, "gone", 0, FALSE) =
          [pc |-> "gone", upto |-> 0, archived |-> none, seen |-> {}, forced |-> FALSE, range |-> {}]
    BY DEF Fresh
  <2> HIDE DEF b, new, none
  <2>4. new = Fresh(n, "gone", 0, FALSE)
    BY <1>3, <2>1, <2>2, <2>3
  <2> QED
    BY <2>4 DEF new, b, Memory!NoAttempt
<1> QED
  BY <1>1, <1>4, <1>5

LEMMA FreshKnown ==
    ASSUME NEW CONSTANT n, n \in Nat, NEW u \in 0..n, u <= rm_decisions,
           NEW pc \in {"begun", "gone"}, NEW forced \in BOOLEAN
    PROVE  LET r == Fresh(n, pc, u, forced) IN MemoryKnown(n, r) /\ MemoryCurrent(r) /\ r.pc = pc
<1> DEFINE none == [d \in 1..n |-> 0]
<1>1. none \in CapsuleTables(n) /\ \A d \in 1..n : none[d] = 0
  BY DEF CapsuleTables
<1>2. Fresh(n, pc, u, forced) = [pc |-> pc, upto |-> u, archived |-> none, seen |-> {}, forced |-> forced, range |-> {}]
  BY DEF Fresh
<1> HIDE DEF none
<1>3. Fresh(n, pc, u, forced) \in MemoryAttempts(n)
  BY <1>1, <1>2 DEF MemoryAttempts, MemoryPlaces
<1> QED
  BY <1>1, <1>2, <1>3 DEF MemoryKnown, MemoryCurrent

LEMMA MemoryInit ==
    ASSUME NEW CONSTANT n, NEW CONSTANT stalls, Memory(n, stalls)!ResearchMemoryAssumption,
           Memory(n, stalls)!Init
    PROVE  MemoryIInv(n, stalls)
<1>1. n \in Nat /\ MemoryKeep \in Nat
  BY DEF Memory!ResearchMemoryAssumption
<1>2. /\ rm_decisions = 0 /\ rm_steered = {} /\ rm_memories = {} /\ rm_holder = 1 /\ rm_status = "running"
      /\ rm_capsules = [d \in 1..n |-> 0]
      /\ rm_at = [a \in 1..2 |-> IF a = 1 THEN Memory(n, stalls)!Begun(0) ELSE Memory(n, stalls)!NoAttempt]
  BY DEF Memory!Init, Memory!NoCapsules, Memory!Steps, Memory!Attempts
<1>3. rm_capsules \in CapsuleTables(n) /\ \A d \in 1..n : rm_capsules[d] = 0
  BY <1>2 DEF CapsuleTables
<1>4. MemoryTyped(n) /\ Legible(rm_capsules)
  BY <1>1, <1>2, <1>3 DEF MemoryTyped, Legible
<1>7. ASSUME NEW a \in 1..2
      PROVE  MemoryKnown(n, rm_at[a]) /\ MemoryCurrent(rm_at[a]) /\ (a # rm_holder => rm_at[a].pc = "gone")
  <2>1. rm_at[a] = IF a = 1 THEN Fresh(n, "begun", 0, FALSE) ELSE Fresh(n, "gone", 0, FALSE)
    BY <1>2, FreshAre
  <2>2. 0 \in 0..n /\ 0 <= rm_decisions
    BY <1>1, <1>2
  <2> QED
    BY <1>1, <1>2, <2>1, <2>2, FreshKnown, ZenonT(60)
<1>8. rm_at \in [1..2 -> MemoryAttempts(n)]
  BY <1>2, <1>7 DEF MemoryKnown
<1> QED
  BY <1>4, <1>7, <1>8 DEF MemoryIInv

(* A step of one Attempt that stores nothing.                              *)
LEMMA MemoryMoves ==
    ASSUME NEW CONSTANT n, NEW CONSTANT stalls, MemoryIInv(n, stalls), NEW a \in 1..2, NEW r,
           rm_at' = [rm_at EXCEPT ![a] = r],
           MemoryKnown(n, r), ~stalls => MemoryCurrent(r), a # rm_holder => stalls \/ r.pc = "gone",
           UNCHANGED <<rm_decisions, rm_steered, rm_capsules, rm_memories, rm_holder>>,
           rm_status' \in {"running", "failed"}
    PROVE  MemoryIInv(n, stalls)'
<1>1. MemoryTyped(n)'
  BY DEF MemoryIInv, MemoryTyped
<1>2. rm_at' \in [1..2 -> MemoryAttempts(n)]
  BY DEF MemoryIInv, MemoryKnown
<1>3. ASSUME NEW b \in 1..2
      PROVE  rm_at'[b] = IF b = a THEN r ELSE rm_at[b]
  BY DEF MemoryIInv
<1>4. \A b \in 1..2 : MemoryKnown(n, rm_at[b])'
  BY <1>3 DEF MemoryIInv, MemoryKnown
<1>5. ~stalls => /\ Legible(rm_capsules)'
                 /\ \A b \in 1..2 : MemoryCurrent(rm_at[b])' /\ (b # rm_holder' => rm_at'[b].pc = "gone")
  BY <1>3 DEF MemoryIInv, MemoryCurrent, Legible
<1> QED
  BY <1>1, <1>2, <1>4, <1>5 DEF MemoryIInv

LEMMA PlaceMoves ==
    ASSUME NEW CONSTANT n, NEW CONSTANT stalls, MemoryIInv(n, stalls), NEW a \in 1..2, NEW pc,
           rm_at' = [rm_at EXCEPT ![a].pc = pc],
           rm_at[a].pc \in {"loaded", "optional", "needed", "memory", "capsulesGenerated", "memoryGenerated"},
           \/ pc \in {"sent", "exceeded", "memory"}
           \/ pc = "broken" /\ stalls
           \/ pc = "capsulesChecked" /\ rm_at[a].pc = "capsulesGenerated"
           \/ pc = "memoryChecked" /\ rm_at[a].pc = "memoryGenerated",
           UNCHANGED <<rm_decisions, rm_steered, rm_capsules, rm_memories, rm_holder, rm_status>>
    PROVE  MemoryIInv(n, stalls)'
<1> DEFINE old == rm_at[a]
           r == [old EXCEPT !.pc = pc]
<1>1. old \in MemoryAttempts(n) /\ MemoryKnown(n, old)
  BY DEF MemoryIInv
<1>2. rm_at' = [rm_at EXCEPT ![a] = r]
  OBVIOUS
<1>3. old.pc \in {"loaded", "optional", "needed", "memory", "capsulesGenerated", "memoryGenerated"}
  OBVIOUS
<1>4. ~stalls => MemoryCurrent(old) /\ a = rm_holder
  BY <1>3 DEF MemoryIInv
<1>5. pc \in MemoryPlaces
  BY DEF MemoryPlaces
<1>6. r = [old EXCEPT !.pc = pc]
  OBVIOUS
<1>7. /\ pc = "capsulesChecked" => old.pc = "capsulesGenerated"
      /\ pc = "memoryChecked" => old.pc = "memoryGenerated"
      /\ pc \notin {"capsulesGenerated", "memoryGenerated", "gone", "begun"}
      /\ pc = "broken" => stalls
  OBVIOUS
<1> HIDE DEF old, r
<1>8. /\ r \in MemoryAttempts(n) /\ r.pc = pc /\ r.upto = old.upto /\ r.archived = old.archived
      /\ r.range = old.range
  BY <1>1, <1>5, <1>6 DEF MemoryAttempts
<1>9. MemoryKnown(n, r)
  BY <1>1, <1>3, <1>7, <1>8 DEF MemoryKnown
<1>10. ~stalls => MemoryCurrent(r)
  BY <1>3, <1>4, <1>7, <1>8 DEF MemoryCurrent
<1>11. rm_status' \in {"running", "failed"}
  BY DEF MemoryIInv, MemoryTyped
<1> QED
  BY <1>2, <1>4, <1>9, <1>10, <1>11, MemoryMoves

LEMMA AttemptPlaces ==
    ASSUME NEW CONSTANT n, NEW CONSTANT stalls, MemoryIInv(n, stalls), NEW a \in 1..2,
           \/ Memory(n, stalls)!Send(a) \/ Memory(n, stalls)!ArchivingFails(a)
           \/ Memory(n, stalls)!NoArchivalRange(a) \/ Memory(n, stalls)!MemoryFails(a)
           \/ Memory(n, stalls)!CheckAuthority(a, "capsulesGenerated", "capsulesChecked")
           \/ Memory(n, stalls)!CheckAuthority(a, "memoryGenerated", "memoryChecked")
    PROVE  MemoryIInv(n, stalls)'
<1>1. UNCHANGED <<rm_decisions, rm_steered, rm_capsules, rm_memories, rm_holder, rm_status>>
  BY DEF Memory!Send, Memory!ArchivingFails, Memory!NoArchivalRange, Memory!MemoryFails,
     Memory!CheckAuthority, Memory!Unchanged
<1>2. CASE \/ Memory(n, stalls)!Send(a) \/ Memory(n, stalls)!ArchivingFails(a)
           \/ Memory(n, stalls)!NoArchivalRange(a)
  <2>1. PICK pc \in {"sent", "exceeded", "memory"} :
           rm_at[a].pc \in {"loaded", "optional", "needed"} /\ rm_at' = [rm_at EXCEPT ![a].pc = pc]
    BY <1>2 DEF Memory!Send, Memory!ArchivingFails, Memory!NoArchivalRange, Memory!Selecting, Memory!Goes
  <2> QED
    BY <1>1, <2>1, PlaceMoves
<1>3. CASE Memory(n, stalls)!MemoryFails(a)
  <2>1. PICK pc \in {"exceeded", "broken"} :
           /\ rm_at[a].pc = "memory" /\ rm_at' = [rm_at EXCEPT ![a].pc = pc]
           /\ pc = "broken" => ~Memory(n, stalls)!Projectable(rm_at[a].archived, rm_memories)
    BY <1>3 DEF Memory!MemoryFails, Memory!Goes
  <2>2. ~stalls => Memory(n, stalls)!Projectable(rm_at[a].archived, rm_memories)
    <3>1. ~stalls => Legible(rm_at[a].archived)
      BY <2>1 DEF MemoryIInv, MemoryCurrent
    <3>2. \A m \in rm_memories : m.range \subseteq 1..n
      BY RangesAreSteps DEF MemoryIInv, MemoryTyped
    <3> QED
      BY <3>1, <3>2 DEF Memory!Projectable, Memory!Archived, Memory!Steps, Legible
  <2> QED
    BY <1>1, <2>1, <2>2, PlaceMoves
<1>4. CASE Memory(n, stalls)!CheckAuthority(a, "capsulesGenerated", "capsulesChecked")
  BY <1>1, <1>4, PlaceMoves DEF Memory!CheckAuthority, Memory!Goes
<1>5. CASE Memory(n, stalls)!CheckAuthority(a, "memoryGenerated", "memoryChecked")
  BY <1>1, <1>5, PlaceMoves DEF Memory!CheckAuthority, Memory!Goes
<1> QED
  BY <1>2, <1>3, <1>4, <1>5

(* The older Attempt goes, and the Run ends.                               *)
LEMMA AttemptBegins ==
    ASSUME NEW CONSTANT n, NEW CONSTANT stalls, n \in Nat, MemoryIInv(n, stalls), NEW a \in 1..2,
           Memory(n, stalls)!ProviderOverflow(a) \/ Memory(n, stalls)!Fail(a)
    PROVE  MemoryIInv(n, stalls)'
<1>1. rm_at[a] \in MemoryAttempts(n) /\ rm_at[a].upto \in 0..n /\ rm_at[a].upto <= rm_decisions
  BY DEF MemoryIInv, MemoryKnown, MemoryAttempts
<1>2. 0 \in 0..n /\ 0 <= rm_decisions /\ rm_status \in {"running", "failed"}
  BY DEF MemoryIInv, MemoryTyped
<1>3. rm_at[a].pc # "gone"
  BY DEF Memory!ProviderOverflow, Memory!Fail
<1>4. ~stalls => a = rm_holder
  BY <1>3 DEF MemoryIInv
<1>5. PICK pc \in {"begun", "gone"}, u \in {0, rm_at[a].upto}, forced \in BOOLEAN :
         rm_at' = [rm_at EXCEPT ![a] = Fresh(n, pc, u, forced)]
  <2>1. CASE Memory(n, stalls)!ProviderOverflow(a)
    <3>1. rm_at' = [rm_at EXCEPT ![a] = [Memory(n, stalls)!Begun(rm_at[a].upto) EXCEPT !.forced = TRUE]]
      BY <2>1 DEF Memory!ProviderOverflow
    <3>2. rm_at' = [rm_at EXCEPT ![a] = Fresh(n, "begun", rm_at[a].upto, TRUE)]
      BY <3>1, FreshAre
    <3> QED
      BY <3>2
  <2>2. CASE Memory(n, stalls)!Fail(a)
    BY <2>2, FreshAre DEF Memory!Fail
  <2> QED
    BY <2>1, <2>2
<1>6. /\ UNCHANGED <<rm_decisions, rm_steered, rm_capsules, rm_memories, rm_holder>>
      /\ rm_status' \in {"running", "failed"}
  BY <1>2 DEF Memory!ProviderOverflow, Memory!Fail, Memory!Unchanged
<1>7. MemoryKnown(n, Fresh(n, pc, u, forced)) /\ MemoryCurrent(Fresh(n, pc, u, forced))
  BY <1>1, <1>2, FreshKnown
<1> QED
  BY <1>4, <1>5, <1>6, <1>7, MemoryMoves

LEMMA AttemptLoads ==
    ASSUME NEW CONSTANT n, NEW CONSTANT stalls, MemoryIInv(n, stalls), NEW a \in 1..2,
           \/ Memory(n, stalls)!LoadCapsules(a) \/ Memory(n, stalls)!LoadMemories(a)
           \/ Memory(n, stalls)!ReloadCapsules(a)
    PROVE  MemoryIInv(n, stalls)'
<1> DEFINE old == rm_at[a]
<1>1. /\ old \in MemoryAttempts(n) /\ MemoryKnown(n, old) /\ rm_capsules \in CapsuleTables(n)
      /\ rm_memories \subseteq TaskMemories(n) /\ rm_status \in {"running", "failed"}
      /\ ~stalls => Legible(rm_capsules) /\ MemoryCurrent(old)
  BY DEF MemoryIInv, MemoryTyped
<1>2. old.pc \in {"begun", "capsules", "loaded"}
  BY DEF Memory!LoadCapsules, Memory!LoadMemories, Memory!ReloadCapsules
<1>3. ~stalls => a = rm_holder
  BY <1>2 DEF MemoryIInv
<1>4. UNCHANGED <<rm_decisions, rm_steered, rm_capsules, rm_memories, rm_holder, rm_status>>
  BY DEF Memory!LoadCapsules, Memory!LoadMemories, Memory!ReloadCapsules, Memory!Unchanged
<1>5. CASE Memory(n, stalls)!LoadCapsules(a)
  <2> DEFINE r == [old EXCEPT !.pc = "capsules", !.archived = rm_capsules]
  <2>1. rm_at' = [rm_at EXCEPT ![a] = r] /\ r = [old EXCEPT !.pc = "capsules", !.archived = rm_capsules]
    BY <1>5 DEF Memory!LoadCapsules
  <2> HIDE DEF old, r
  <2>2. r \in MemoryAttempts(n) /\ r.pc = "capsules" /\ r.upto = old.upto /\ r.archived = rm_capsules
    BY <1>1, <2>1 DEF MemoryAttempts, MemoryPlaces
  <2>3. MemoryKnown(n, r) /\ MemoryCurrent(r)
    BY <1>1, <2>2 DEF MemoryKnown, MemoryCurrent
  <2> QED
    BY <1>1, <1>3, <1>4, <2>1, <2>3, MemoryMoves
<1>6. CASE Memory(n, stalls)!LoadMemories(a)
  <2> DEFINE pc == IF Memory(n, stalls)!Projectable(old.archived, rm_memories) THEN "loaded" ELSE "broken"
             r == [old EXCEPT !.seen = rm_memories, !.pc = pc]
  <2>1. rm_at' = [rm_at EXCEPT ![a] = r] /\ r = [old EXCEPT !.seen = rm_memories, !.pc = pc] /\ old.pc = "capsules"
    BY <1>6 DEF Memory!LoadMemories
  <2>2. pc \in {"loaded", "broken"} /\ (~stalls => pc = "loaded")
    <3>1. ~stalls => Legible(old.archived)
      BY <1>1, <2>1 DEF MemoryCurrent
    <3>2. \A m \in rm_memories : m.range \subseteq 1..n
      BY <1>1, RangesAreSteps
    <3> QED
      BY <3>1, <3>2 DEF Memory!Projectable, Memory!Archived, Memory!Steps, Legible
  <2> HIDE DEF old, r, pc
  <2>3. r \in MemoryAttempts(n) /\ r.pc = pc /\ r.upto = old.upto /\ r.archived = old.archived
    BY <1>1, <2>1, <2>2 DEF MemoryAttempts, MemoryPlaces
  <2>4. MemoryKnown(n, r) /\ (~stalls => MemoryCurrent(r))
    BY <1>1, <2>1, <2>2, <2>3 DEF MemoryKnown, MemoryCurrent
  <2> QED
    BY <1>1, <1>3, <1>4, <2>1, <2>4, MemoryMoves
<1>7. CASE Memory(n, stalls)!ReloadCapsules(a)
  <2>1. PICK pc \in {"optional", "needed"} : rm_at' = [rm_at EXCEPT ![a].pc = pc, ![a].archived = rm_capsules]
    BY <1>7 DEF Memory!ReloadCapsules
  <2> DEFINE r == [old EXCEPT !.pc = pc, !.archived = rm_capsules]
  <2>2. rm_at' = [rm_at EXCEPT ![a] = r] /\ r = [old EXCEPT !.pc = pc, !.archived = rm_capsules]
    BY <2>1
  <2> HIDE DEF old, r
  <2>3. r \in MemoryAttempts(n) /\ r.pc = pc /\ r.upto = old.upto /\ r.archived = rm_capsules
    BY <1>1, <2>2 DEF MemoryAttempts, MemoryPlaces
  <2>4. MemoryKnown(n, r) /\ MemoryCurrent(r)
    BY <1>1, <2>3 DEF MemoryKnown, MemoryCurrent
  <2> QED
    BY <1>1, <1>3, <1>4, <2>2, <2>4, MemoryMoves
<1> QED
  BY <1>5, <1>6, <1>7

LEMMA RunGoesOn ==
    ASSUME NEW CONSTANT n, NEW CONSTANT stalls, n \in Nat, MemoryKeep \in Nat, stalls \in BOOLEAN,
           MemoryIInv(n, stalls),
           \/ Memory(n, stalls)!TakeOver \/ Memory(n, stalls)!DeliverSteering
           \/ \E a \in 1..2 : Memory(n, stalls)!AcceptStep(a)
    PROVE  MemoryIInv(n, stalls)'
<1>1. /\ MemoryTyped(n) /\ rm_at \in [1..2 -> MemoryAttempts(n)]
      /\ \A a \in 1..2 : MemoryKnown(n, rm_at[a])
      /\ ~stalls => /\ Legible(rm_capsules)
                    /\ \A a \in 1..2 : MemoryCurrent(rm_at[a]) /\ (a # rm_holder => rm_at[a].pc = "gone")
  BY DEF MemoryIInv
<1>2. 0 \in 0..n /\ 0 <= rm_decisions /\ rm_decisions \in 0..n /\ rm_decisions <= rm_decisions
  BY <1>1 DEF MemoryTyped
<1>3. UNCHANGED <<rm_capsules, rm_memories>>
  BY DEF Memory!TakeOver, Memory!DeliverSteering, Memory!AcceptStep
<1>4. CASE Memory(n, stalls)!TakeOver
  <2> DEFINE next == Fresh(n, "begun", rm_decisions, FALSE)
             gone == Fresh(n, "gone", 0, FALSE)
  <2>1. /\ rm_at' = [rm_at EXCEPT ![3 - rm_holder] = next, ![rm_holder] = IF stalls THEN @ ELSE gone]
        /\ rm_holder' = 3 - rm_holder
        /\ UNCHANGED <<rm_decisions, rm_steered, rm_capsules, rm_memories, rm_status>>
    BY <1>4, FreshAre DEF Memory!TakeOver
  <2>2. /\ MemoryKnown(n, next) /\ MemoryCurrent(next)
        /\ MemoryKnown(n, gone) /\ MemoryCurrent(gone) /\ gone.pc = "gone"
    <3>1. MemoryKnown(n, next) /\ MemoryCurrent(next)
      BY <1>2, FreshKnown
    <3>2. MemoryKnown(n, gone) /\ MemoryCurrent(gone) /\ gone.pc = "gone"
      BY <1>2, FreshKnown
    <3> QED
      BY <3>1, <3>2
  <2> HIDE DEF next, gone
  <2>3. rm_holder \in 1..2 /\ 3 - rm_holder \in 1..2 /\ 3 - rm_holder # rm_holder
    BY <1>1 DEF MemoryTyped
  <2>4. /\ rm_at'[3 - rm_holder] = next
        /\ rm_at'[rm_holder] = IF stalls THEN rm_at[rm_holder] ELSE gone
        /\ \A b \in 1..2 : b = rm_holder \/ b = 3 - rm_holder
    BY <1>1, <2>1, <2>3
  <2>5. MemoryTyped(n)'
    BY <1>1, <2>1, <2>3 DEF MemoryTyped
  <2>6. next \in MemoryAttempts(n) /\ gone \in MemoryAttempts(n)
    BY <2>2 DEF MemoryKnown
  <2>7. rm_at' \in [1..2 -> MemoryAttempts(n)]
    <3>1. (IF stalls THEN rm_at[rm_holder] ELSE gone) \in MemoryAttempts(n)
      BY <1>1, <2>3, <2>6
    <3> QED
      BY <1>1, <2>1, <2>3, <2>6, <3>1
  <2>8. \A b \in 1..2 : MemoryKnown(n, rm_at'[b])
    BY <1>1, <2>2, <2>3, <2>4
  <2>9. \A b \in 1..2 : MemoryKnown(n, rm_at[b])'
    BY <2>1, <2>8 DEF MemoryKnown
  <2>10. ~stalls => /\ Legible(rm_capsules)'
                    /\ \A b \in 1..2 : MemoryCurrent(rm_at'[b]) /\ (b # rm_holder' => rm_at'[b].pc = "gone")
    BY <1>1, <2>1, <2>2, <2>3, <2>4 DEF Legible
  <2>11. ~stalls => \A b \in 1..2 : MemoryCurrent(rm_at[b])'
    BY <2>1, <2>10 DEF MemoryCurrent
  <2> QED
    BY <2>5, <2>7, <2>9, <2>10, <2>11 DEF MemoryIInv
<1>5. CASE Memory(n, stalls)!DeliverSteering
  <2>1. /\ rm_steered' = rm_steered \cup {rm_decisions} /\ rm_decisions > 0
        /\ UNCHANGED <<rm_decisions, rm_at, rm_holder, rm_status, rm_capsules, rm_memories>>
    BY <1>5 DEF Memory!DeliverSteering
  <2>2. MemoryTyped(n)'
    BY <1>1, <2>1 DEF MemoryTyped
  <2> QED
    BY <1>1, <2>1, <2>2 DEF MemoryIInv, MemoryKnown, MemoryCurrent, Legible
<1>6. ASSUME NEW a \in 1..2, Memory(n, stalls)!AcceptStep(a)
      PROVE  MemoryIInv(n, stalls)'
  <2> DEFINE next == Fresh(n, "begun", rm_decisions + 1, FALSE)
  <2>1. /\ rm_decisions < n /\ rm_decisions' = rm_decisions + 1 /\ a = rm_holder
        /\ rm_at' = [rm_at EXCEPT ![a] = next]
        /\ UNCHANGED <<rm_steered, rm_capsules, rm_memories, rm_holder, rm_status>>
    <3>1. rm_at' = [rm_at EXCEPT ![a] = Memory(n, stalls)!Begun(rm_decisions + 1)]
      BY <1>6 DEF Memory!AcceptStep
    <3>2. Memory(n, stalls)!Begun(rm_decisions + 1) = next
      BY FreshAre
    <3> QED
      BY <1>6, <3>1, <3>2 DEF Memory!AcceptStep, Memory!Holds
  <2>2. rm_decisions + 1 \in 0..n
    BY <1>2, <2>1
  <2>3. MemoryTyped(n)'
    BY <1>1, <2>1, <2>2 DEF MemoryTyped
  <2>4. /\ next \in MemoryAttempts(n) /\ next.upto = rm_decisions + 1 /\ next.pc = "begun"
        /\ \A d \in 1..n : next.archived[d] = 0
    <3>1. [d \in 1..n |-> 0] \in CapsuleTables(n)
      BY DEF CapsuleTables
    <3> QED
      BY <2>2, <3>1 DEF Fresh, MemoryAttempts, MemoryPlaces
  <2> HIDE DEF next
  <2>5. \A b \in 1..2 : rm_at'[b] = IF b = a THEN next ELSE rm_at[b]
    BY <1>1, <2>1
  <2>6. rm_at' \in [1..2 -> MemoryAttempts(n)]
    BY <1>1, <2>1, <2>4
  <2>7. ASSUME NEW b \in 1..2
        PROVE  MemoryKnown(n, rm_at[b])'
    <3>1. CASE b = a
      BY <2>1, <2>2, <2>4, <2>5, <3>1 DEF MemoryKnown
    <3>2. CASE b # a
      <4>1. rm_at'[b] = rm_at[b] /\ MemoryKnown(n, rm_at[b]) /\ rm_at[b].upto \in 0..n
        BY <1>1, <2>5, <3>2 DEF MemoryAttempts
      <4> QED
        BY <1>2, <2>1, <4>1 DEF MemoryKnown
    <3> QED
      BY <3>1, <3>2
  <2>8. ~stalls => /\ Legible(rm_capsules)'
                   /\ \A b \in 1..2 : MemoryCurrent(rm_at[b])' /\ (b # rm_holder' => rm_at'[b].pc = "gone")
    BY <1>1, <2>1, <2>4, <2>5 DEF Legible, MemoryCurrent
  <2> QED
    BY <2>3, <2>6, <2>7, <2>8 DEF MemoryIInv
<1> QED
  BY <1>4, <1>5, <1>6

(* What is to be archived is old, and what a memory is to cover has        *)
(* capsules and no memory.                                                 *)
LEMMA AttemptGenerates ==
    ASSUME NEW CONSTANT n, NEW CONSTANT stalls, n \in Nat, MemoryKeep \in Nat, MemoryIInv(n, stalls),
           NEW a \in 1..2, NEW range \in SUBSET (1..n),
           Memory(n, stalls)!GenerateCapsules(a, range) \/ Memory(n, stalls)!GenerateMemory(a, range)
    PROVE  MemoryIInv(n, stalls)'
<1> DEFINE old == rm_at[a]
<1>1. /\ old \in MemoryAttempts(n) /\ MemoryKnown(n, old) /\ rm_capsules \in CapsuleTables(n)
      /\ rm_memories \subseteq TaskMemories(n) /\ rm_status \in {"running", "failed"}
      /\ ~stalls => MemoryCurrent(old)
  BY DEF MemoryIInv, MemoryTyped
<1>2. old.pc \in {"optional", "needed", "memory"} /\ old.upto \in 0..n
  BY <1>1 DEF Memory!GenerateCapsules, Memory!GenerateMemory, Memory!Selecting, MemoryAttempts
<1>3. ~stalls => a = rm_holder
  BY <1>2 DEF MemoryIInv
<1>4. UNCHANGED <<rm_decisions, rm_steered, rm_capsules, rm_memories, rm_holder, rm_status>>
  BY DEF Memory!GenerateCapsules, Memory!GenerateMemory, Memory!Unchanged
<1>5. \A S : \A s \in Memory(n, stalls)!Shrunk(S) : s \subseteq S
  BY DEF Memory!Shrunk
<1>6. CASE Memory(n, stalls)!GenerateCapsules(a, range)
  <2> DEFINE r == [old EXCEPT !.pc = "capsulesGenerated", !.range = range]
  <2>1. rm_at' = [rm_at EXCEPT ![a] = r] /\ r = [old EXCEPT !.pc = "capsulesGenerated", !.range = range]
    BY <1>6 DEF Memory!GenerateCapsules
  <2>2. range \subseteq Memory(n, stalls)!Old(old.upto)
    <3>1. range \subseteq Memory(n, stalls)!Candidates(a)
      BY <1>5, <1>6 DEF Memory!GenerateCapsules
    <3> QED
      BY <3>1 DEF Memory!Candidates, Memory!Selected
  <2>3. \A d \in range : d + MemoryKeep <= old.upto
    <3>1. ASSUME NEW u \in 0..n, NEW d \in Memory(n, stalls)!Old(u)
          PROVE  d + MemoryKeep <= u
      <4>1. CASE u > MemoryKeep
        BY <4>1 DEF Memory!Old
      <4>2. CASE ~(u > MemoryKeep)
        BY <4>2 DEF Memory!Old
      <4> QED
        BY <4>1, <4>2
    <3> QED
      BY <1>2, <2>2, <3>1
  <2> HIDE DEF old, r
  <2>4. /\ r \in MemoryAttempts(n) /\ r.pc = "capsulesGenerated" /\ r.upto = old.upto
        /\ r.archived = old.archived /\ r.range = range
    BY <1>1, <2>1 DEF MemoryAttempts, MemoryPlaces
  <2>5. MemoryKnown(n, r) /\ (~stalls => MemoryCurrent(r))
    BY <1>1, <1>2, <2>3, <2>4 DEF MemoryKnown, MemoryCurrent
  <2> QED
    BY <1>1, <1>3, <1>4, <2>1, <2>5, MemoryMoves
<1>7. CASE Memory(n, stalls)!GenerateMemory(a, range)
  <2>1. PICK pc \in {"memoryGenerated", "exceeded"} :
           rm_at' = [rm_at EXCEPT ![a].range = range, ![a].seen = rm_memories, ![a].pc = pc]
    BY <1>7 DEF Memory!GenerateMemory
  <2> DEFINE r == [old EXCEPT !.range = range, !.seen = rm_memories, !.pc = pc]
  <2>2. rm_at' = [rm_at EXCEPT ![a] = r] /\ r = [old EXCEPT !.range = range, !.seen = rm_memories, !.pc = pc]
    BY <2>1
  <2>3. range \subseteq Memory(n, stalls)!Uncovered(old.upto, old.archived, rm_memories) /\ range # {}
    BY <1>5, <1>7 DEF Memory!GenerateMemory
  <2>4. /\ \A d \in range : old.archived[d] # 0
        /\ \A m \in rm_memories : range \intersect m.range = {}
    <3> DEFINE todo == (1..old.upto \cap Memory(n, stalls)!Archived(old.archived))
                         \ Memory(n, stalls)!Covered(rm_memories)
    <3>1. Memory(n, stalls)!Uncovered(old.upto, old.archived, rm_memories) \subseteq todo
      BY DEF Memory!Uncovered
    <3>2. range \subseteq todo
      BY <2>3, <3>1
    <3> QED
      BY <3>2 DEF Memory!Archived, Memory!Covered
  <2> HIDE DEF old, r
  <2>5. /\ r \in MemoryAttempts(n) /\ r.pc = pc /\ r.upto = old.upto
        /\ r.archived = old.archived /\ r.range = range
    BY <1>1, <2>2 DEF MemoryAttempts, MemoryPlaces
  <2>6. MemoryKnown(n, r) /\ (~stalls => MemoryCurrent(r))
    BY <1>1, <1>2, <2>3, <2>4, <2>5 DEF MemoryKnown, MemoryCurrent
  <2> QED
    BY <1>1, <1>3, <1>4, <2>2, <2>6, MemoryMoves
<1> QED
  BY <1>6, <1>7

(* Capsules are stored where there were none.                              *)
LEMMA CapsulesAdd ==
    ASSUME NEW CONSTANT n, NEW CONSTANT stalls, n \in Nat, MemoryKeep \in Nat, MemoryIInv(n, stalls),
           NEW a \in 1..2, Memory(n, stalls)!AppendCapsules(a)
    PROVE  MemoryIInv(n, stalls)'
<1> DEFINE old == rm_at[a]
           with == Memory(n, stalls)!With(old.archived, a)
<1>1. /\ MemoryTyped(n) /\ old \in MemoryAttempts(n) /\ MemoryKnown(n, old)
      /\ rm_at \in [1..2 -> MemoryAttempts(n)]
      /\ \A b \in 1..2 : MemoryKnown(n, rm_at[b])
      /\ ~stalls => /\ Legible(rm_capsules)
                    /\ \A b \in 1..2 : MemoryCurrent(rm_at[b]) /\ (b # rm_holder => rm_at[b].pc = "gone")
  BY DEF MemoryIInv
<1>2. old.pc = "capsulesChecked" /\ UNCHANGED rm_memories
      /\ UNCHANGED <<rm_decisions, rm_steered, rm_holder, rm_status>>
  BY DEF Memory!AppendCapsules, Memory!Unchanged
<1>3. /\ old.range \subseteq 1..n /\ old.archived \in CapsuleTables(n) /\ old.upto \in 0..n
      /\ rm_capsules \in CapsuleTables(n) /\ rm_decisions \in 0..n
      /\ \A d \in old.range : d + MemoryKeep <= old.upto
      /\ old.upto <= rm_decisions
  BY <1>1, <1>2 DEF MemoryAttempts, MemoryTyped, MemoryKnown
<1>4. with = [d \in 1..n |-> IF d \in old.range THEN a ELSE old.archived[d]] /\ with \in CapsuleTables(n)
  BY <1>3 DEF Memory!With, Memory!Steps, CapsuleTables
<1>5. PICK pc \in {"exceeded", "memory", "sent"} :
         /\ rm_at' = [rm_at EXCEPT ![a] = [[old EXCEPT !.archived = with, !.range = {}] EXCEPT !.pc = pc]]
         /\ pc = "exceeded" => rm_capsules' = rm_capsules
         /\ pc # "exceeded" => /\ \A d \in old.range : rm_capsules[d] \in {0, a}
                               /\ rm_capsules' = Memory(n, stalls)!With(rm_capsules, a)
  BY DEF Memory!AppendCapsules
<1> DEFINE r == [[old EXCEPT !.archived = with, !.range = {}] EXCEPT !.pc = pc]
<1>6. /\ r \in MemoryAttempts(n) /\ r.pc = pc /\ r.upto = old.upto /\ r.archived = with
      /\ r.range = {}
  <2> DEFINE b == [old EXCEPT !.archived = with, !.range = {}]
  <2>1. b = [old EXCEPT !.archived = with, !.range = {}] /\ r = [b EXCEPT !.pc = pc]
    OBVIOUS
  <2> HIDE DEF old, with, b, r
  <2>2. b \in MemoryAttempts(n) /\ b.upto = old.upto /\ b.archived = with /\ b.range = {}
    BY <1>1, <1>4, <2>1 DEF MemoryAttempts
  <2>3. pc \in MemoryPlaces
    BY DEF MemoryPlaces
  <2> QED
    BY <2>1, <2>2, <2>3 DEF MemoryAttempts
<1>7. rm_at' = [rm_at EXCEPT ![a] = r]
  BY <1>5
<1> HIDE DEF old, with, r
<1>8. CASE pc = "exceeded"
  <2>1. MemoryKnown(n, r) /\ MemoryCurrent(r)
    BY <1>1, <1>6, <1>8 DEF MemoryKnown, MemoryCurrent
  <2>2. ~stalls => a = rm_holder
    BY <1>1, <1>2 DEF old
  <2>3. rm_capsules' = rm_capsules /\ rm_status' \in {"running", "failed"}
    BY <1>1, <1>2, <1>5, <1>8 DEF MemoryTyped
  <2> QED
    BY <1>2, <1>7, <2>1, <2>2, <2>3, MemoryMoves
<1>9. CASE pc # "exceeded"
  <2>1. /\ \A d \in old.range : rm_capsules[d] \in {0, a}
        /\ rm_capsules' = [d \in 1..n |-> IF d \in old.range THEN a ELSE rm_capsules[d]]
    BY <1>5, <1>9 DEF Memory!With, Memory!Steps, old
  <2>2. rm_capsules' \in CapsuleTables(n)
        /\ \A d \in 1..n : rm_capsules[d] # 0 => rm_capsules'[d] = rm_capsules[d]
    BY <1>3, <2>1 DEF CapsuleTables
  <2>3. MemoryTyped(n)'
    <3>1. ASSUME NEW d \in 1..n, rm_capsules'[d] # 0 PROVE d + MemoryKeep <= rm_decisions
      <4>1. CASE d \in old.range
        BY <1>3, <4>1
      <4>2. CASE d \notin old.range
        BY <1>1, <2>1, <3>1, <4>2 DEF MemoryTyped
      <4> QED
        BY <4>1, <4>2
    <3> QED
      BY <1>1, <1>2, <2>2, <3>1 DEF MemoryTyped
  <2>4. \A b \in 1..2 : rm_at'[b] = IF b = a THEN r ELSE rm_at[b]
    BY <1>1, <1>7
  <2>5. rm_at' \in [1..2 -> MemoryAttempts(n)]
    BY <1>1, <1>6, <1>7
  <2>6. MemoryKnown(n, rm_at[a])'
    <3>1. \A d \in 1..n : with[d] # 0 => with[d] = rm_capsules'[d]
      BY <1>1, <1>2, <1>4, <2>1, <2>2 DEF MemoryKnown
    <3> QED
      BY <1>2, <1>3, <1>5, <1>6, <2>4, <3>1 DEF MemoryKnown
  <2>7. ASSUME NEW b \in 1..2, b # a PROVE MemoryKnown(n, rm_at[b])'
    BY <1>1, <1>2, <2>2, <2>4, <2>7 DEF MemoryKnown
  <2>8. \A b \in 1..2 : MemoryKnown(n, rm_at[b])'
    BY <2>6, <2>7
  <2>9. ASSUME ~stalls
        PROVE  /\ Legible(rm_capsules)'
               /\ \A b \in 1..2 : MemoryCurrent(rm_at[b])' /\ (b # rm_holder' => rm_at'[b].pc = "gone")
    <3>1. a = rm_holder /\ old.archived = rm_capsules
      BY <1>1, <1>2, <2>9 DEF MemoryCurrent, old
    <3>2. with = rm_capsules'
      BY <1>4, <2>1, <3>1
    <3>3. \A m \in rm_memories : m.range \subseteq 1..n
      BY <1>1, RangesAreSteps DEF MemoryTyped
    <3>4. Legible(rm_capsules)'
      BY <1>1, <1>2, <2>2, <2>9, <3>3 DEF Legible
    <3>5. MemoryCurrent(rm_at[a])'
      BY <1>5, <1>6, <2>4, <3>2 DEF MemoryCurrent
    <3>6. ASSUME NEW b \in 1..2, b # a
          PROVE  MemoryCurrent(rm_at[b])' /\ rm_at'[b].pc = "gone"
      BY <1>1, <2>4, <2>9, <3>1, <3>6 DEF MemoryCurrent
    <3> QED
      BY <1>2, <3>1, <3>4, <3>5, <3>6
  <2> QED
    BY <2>3, <2>5, <2>8, <2>9 DEF MemoryIInv
<1> QED
  BY <1>8, <1>9

(* A memory is stored beside the others.                                   *)
LEMMA MemoriesAdd ==
    ASSUME NEW CONSTANT n, NEW CONSTANT stalls, n \in Nat, MemoryIInv(n, stalls),
           NEW a \in 1..2, Memory(n, stalls)!AppendMemory(a)
    PROVE  MemoryIInv(n, stalls)'
<1> DEFINE old == rm_at[a]
           new == Memory(n, stalls)!Memory(a, old.range)
<1>1. /\ MemoryTyped(n) /\ old \in MemoryAttempts(n) /\ MemoryKnown(n, old)
      /\ rm_at \in [1..2 -> MemoryAttempts(n)]
      /\ \A b \in 1..2 : MemoryKnown(n, rm_at[b])
      /\ ~stalls => /\ Legible(rm_capsules)
                    /\ \A b \in 1..2 : MemoryCurrent(rm_at[b]) /\ (b # rm_holder => rm_at[b].pc = "gone")
  BY DEF MemoryIInv
<1>2. /\ old.pc = "memoryChecked" /\ rm_memories' \in {rm_memories, rm_memories \cup {new}}
      /\ UNCHANGED <<rm_capsules, rm_decisions, rm_steered, rm_holder, rm_status>>
  BY DEF Memory!AppendMemory, Memory!Unchanged
<1>3. PICK pc \in {"sent", "exceeded"} :
         rm_at' = [rm_at EXCEPT ![a] = [old EXCEPT !.pc = pc, !.seen = rm_memories']]
  BY DEF Memory!AppendMemory
<1>4. /\ old.range \subseteq 1..n /\ old.range # {} /\ old.archived \in CapsuleTables(n)
      /\ \A d \in old.range : old.archived[d] # 0 /\ old.archived[d] = rm_capsules[d]
  BY <1>1, <1>2 DEF MemoryAttempts, MemoryKnown
<1>5. new = [range |-> old.range, by |-> a, source |-> [d \in old.range |-> old.archived[d]]]
  BY DEF Memory!Memory
<1> HIDE DEF new
<1>6. new \in TaskMemories(n)
  <2>1. [d \in old.range |-> old.archived[d]] \in [old.range -> 1..2]
    BY <1>4 DEF CapsuleTables
  <2> QED
    <3>1. new \in [range : {old.range}, by : 1..2, source : [old.range -> 1..2]]
      BY <1>5, <2>1
    <3>2. ASSUME NEW S, S \subseteq 1..n, S # {} PROVE S \in (SUBSET (1..n)) \ {{}}
      BY <3>2
    <3> QED
      BY <1>4, <3>1, <3>2 DEF TaskMemories
<1>7. rm_memories' \subseteq TaskMemories(n)
  BY <1>1, <1>2, <1>6 DEF MemoryTyped
<1> DEFINE r == [old EXCEPT !.pc = pc, !.seen = rm_memories']
<1>8. rm_at' = [rm_at EXCEPT ![a] = r] /\ r = [old EXCEPT !.pc = pc, !.seen = rm_memories']
  BY <1>3
<1> HIDE DEF old, r
<1>9. /\ r \in MemoryAttempts(n) /\ r.pc = pc /\ r.upto = old.upto /\ r.archived = old.archived
      /\ r.range = old.range
  BY <1>1, <1>7, <1>8 DEF MemoryAttempts, MemoryPlaces
<1>10. \A b \in 1..2 : rm_at'[b] = IF b = a THEN r ELSE rm_at[b]
  BY <1>1, <1>8
<1>11. MemoryTyped(n)' /\ rm_at' \in [1..2 -> MemoryAttempts(n)]
  BY <1>1, <1>2, <1>7, <1>8, <1>9 DEF MemoryTyped
<1>12. ASSUME NEW b \in 1..2 PROVE MemoryKnown(n, rm_at[b])'
  <2>1. CASE b = a
    BY <1>1, <1>2, <1>9, <1>10, <2>1 DEF MemoryKnown
  <2>2. CASE b # a
    BY <1>1, <1>2, <1>10, <2>2 DEF MemoryKnown
  <2> QED
    BY <2>1, <2>2
<1>13. ASSUME ~stalls
       PROVE  /\ Legible(rm_capsules)'
              /\ \A b \in 1..2 : MemoryCurrent(rm_at[b])' /\ (b # rm_holder' => rm_at'[b].pc = "gone")
  <2>1. /\ a = rm_holder /\ old.archived = rm_capsules
        /\ \A m \in rm_memories : old.range \intersect m.range = {}
    BY <1>1, <1>2, <1>13 DEF MemoryCurrent, old
  <2>2. \A d \in new.range : rm_capsules[d] # 0 /\ rm_capsules[d] = new.source[d]
    BY <1>4, <1>5, <2>1
  <2>3. new.range = old.range
    BY <1>5
  <2>4. Legible(rm_capsules)'
    BY <1>1, <1>2, <1>13, <2>1, <2>2, <2>3 DEF Legible
  <2>5. MemoryCurrent(rm_at[a])'
    BY <1>2, <1>9, <1>10, <2>1 DEF MemoryCurrent
  <2>6. ASSUME NEW b \in 1..2, b # a
        PROVE  MemoryCurrent(rm_at[b])' /\ rm_at'[b].pc = "gone"
    BY <1>1, <1>10, <1>13, <2>1, <2>6 DEF MemoryCurrent
  <2> QED
    BY <1>2, <2>1, <2>4, <2>5, <2>6
<1> QED
  BY <1>11, <1>12, <1>13 DEF MemoryIInv

LEMMA MemoryStep ==
    ASSUME NEW CONSTANT n, NEW CONSTANT stalls, Memory(n, stalls)!ResearchMemoryAssumption,
           MemoryIInv(n, stalls), [Memory(n, stalls)!Next]_(Memory(n, stalls)!vars)
    PROVE  MemoryIInv(n, stalls)'
<1>1. n \in Nat /\ MemoryKeep \in Nat /\ stalls \in BOOLEAN
  BY DEF Memory!ResearchMemoryAssumption
<1>2. CASE UNCHANGED Memory(n, stalls)!vars
  <2>1. UNCHANGED <<rm_decisions, rm_steered, rm_capsules, rm_memories, rm_at, rm_holder, rm_status>>
    BY <1>2 DEF Memory!vars
  <2> QED
    BY <2>1 DEF MemoryIInv, MemoryTyped, MemoryKnown, MemoryCurrent, Legible
<1>3. CASE \/ Memory(n, stalls)!TakeOver \/ Memory(n, stalls)!DeliverSteering
           \/ \E a \in 1..2 : Memory(n, stalls)!AcceptStep(a)
  BY <1>1, <1>3, RunGoesOn
<1>4. ASSUME NEW a \in 1..2,
             \/ Memory(n, stalls)!ProviderOverflow(a) \/ Memory(n, stalls)!Fail(a)
             \/ Memory(n, stalls)!LoadCapsules(a) \/ Memory(n, stalls)!LoadMemories(a)
             \/ Memory(n, stalls)!ReloadCapsules(a)
             \/ Memory(n, stalls)!AppendCapsules(a) \/ Memory(n, stalls)!AppendMemory(a)
      PROVE  MemoryIInv(n, stalls)'
  BY <1>1, <1>4, AttemptBegins, AttemptLoads, CapsulesAdd, MemoriesAdd
<1>5. ASSUME NEW a \in 1..2,
             \/ Memory(n, stalls)!Send(a) \/ Memory(n, stalls)!ArchivingFails(a)
             \/ Memory(n, stalls)!NoArchivalRange(a) \/ Memory(n, stalls)!MemoryFails(a)
             \/ Memory(n, stalls)!CheckAuthority(a, "capsulesGenerated", "capsulesChecked")
             \/ Memory(n, stalls)!CheckAuthority(a, "memoryGenerated", "memoryChecked")
      PROVE  MemoryIInv(n, stalls)'
  BY <1>5, AttemptPlaces
<1>6. ASSUME NEW a \in 1..2, NEW range \in SUBSET (1..n),
             Memory(n, stalls)!GenerateCapsules(a, range) \/ Memory(n, stalls)!GenerateMemory(a, range)
      PROVE  MemoryIInv(n, stalls)'
  BY <1>1, <1>6, AttemptGenerates
<1> QED
  BY <1>2, <1>3, <1>4, <1>5, <1>6 DEF Memory!Next, Memory!Attempts, Memory!Steps

LEMMA MemoryIsKept ==
    ASSUME NEW CONSTANT n, NEW CONSTANT stalls, Memory(n, stalls)!ResearchMemoryAssumption,
           MemoryIInv(n, stalls)
    PROVE  /\ Memory(n, stalls)!TypeOK
           /\ Memory(n, stalls)!CapsulesHold
           /\ Memory(n, stalls)!ProjectionHolds
<1>1. /\ MemoryTyped(n) /\ \A a \in 1..2 : MemoryKnown(n, rm_at[a])
      /\ ~stalls => \A a \in 1..2 : MemoryCurrent(rm_at[a])
      /\ n \in Nat /\ MemoryKeep \in Nat /\ rm_holder \in 1..2 /\ rm_decisions \in 0..n
  BY DEF MemoryIInv, MemoryTyped, Memory!ResearchMemoryAssumption
<1>2. Memory(n, stalls)!TypeOK
  <2>1. CapsuleTables(n) = Memory(n, stalls)!CapsuleRows
    BY DEF CapsuleTables, Memory!CapsuleRows, Memory!Steps, Memory!Attempts
  <2>2. TaskMemories(n) = Memory(n, stalls)!MemoryRows
    BY DEF TaskMemories, Memory!MemoryRows, Memory!Steps, Memory!Attempts
  <2> QED
    BY <1>1, <2>1, <2>2 DEF MemoryTyped, Memory!TypeOK, Memory!Steps
<1>3. Memory(n, stalls)!CapsulesHold
  <2>1. Memory(n, stalls)!Archived(rm_capsules) \cap (1..rm_decisions) \subseteq Memory(n, stalls)!Old(rm_decisions)
    <3>1. ASSUME NEW d \in 1..n, rm_capsules[d] # 0
          PROVE  d \in Memory(n, stalls)!Old(rm_decisions)
      <4>1. d + MemoryKeep <= rm_decisions
        BY <1>1, <3>1 DEF MemoryTyped
      <4> QED
        BY <1>1, <4>1 DEF Memory!Old
    <3> QED
      BY <3>1 DEF Memory!Archived, Memory!Steps
  <2>2. \A a \in 1..2 : rm_at[a].pc = "sent" =>
           \A d \in 1..n : rm_at[a].archived[d] # 0 => rm_at[a].archived[d] = rm_capsules[d]
    BY <1>1 DEF MemoryKnown
  <2> QED
    BY <2>1, <2>2 DEF Memory!CapsulesHold, Memory!Archived, Memory!Steps, Memory!Attempts
<1>4. Memory(n, stalls)!ProjectionHolds
  BY <1>1 DEF Memory!ProjectionHolds, MemoryCurrent
<1> QED
  BY <1>2, <1>3, <1>4

-----------------------------------------------------------------------------
(* ChatContext. *)

(* A finite set of numbers has a least one.                                *)
LEMMA LeastOfFinite ==
    ASSUME NEW S \in SUBSET Int, IsFiniteSet(S), S # {}
    PROVE  \E i \in S : \A j \in S : i <= j
<1> DEFINE Below(i) == {j \in S : j < i}
           T == {Below(i) : i \in S}
<1>1. IsWellFoundedOn(StrictSubsetOrdering(S), FiniteSubsetsOf(S))
  BY FS_StrictSubsetOrderingWellFounded
<1>2. T \subseteq FiniteSubsetsOf(S) /\ T # {}
  <2>1. \A i \in S : Below(i) \subseteq S /\ IsFiniteSet(Below(i))
    BY FS_Subset
  <2>2. T # {}
    OBVIOUS
  <2> HIDE DEF Below
  <2> QED
    BY <2>1, <2>2 DEF FiniteSubsetsOf
<1>3. PICK x \in T : \A y \in T : ~(<<y, x>> \in StrictSubsetOrdering(S))
  <2> HIDE DEF T
  <2> QED
    BY <1>1, <1>2, WFMin
<1>4. PICK i \in S : x = Below(i)
  BY <1>3
<1>5. ASSUME NEW j \in S, j < i PROVE FALSE
  <2>1. Below(j) \subseteq Below(i) /\ Below(j) # Below(i)
    <3>1. j \in Below(i) /\ j \notin Below(j)
      BY <1>5
    <3>2. \A k \in Below(j) : k \in Below(i)
      BY <1>5
    <3> QED
      BY <3>1, <3>2
  <2>2. <<Below(j), Below(i)>> \in StrictSubsetOrdering(S)
    BY <2>1 DEF StrictSubsetOrdering
  <2> QED
    BY <1>3, <1>4, <2>2
<1> QED
  BY <1>5

(* Numbers up to a limit have a least and a greatest one.                  *)
LEMMA Extremes ==
    ASSUME NEW N \in Nat, NEW S, S \subseteq 0..N, S # {}
    PROVE  (\E i \in S : \A j \in S : i <= j) /\ (\E i \in S : \A j \in S : j <= i)
<1> DEFINE M == {N - x : x \in S}
<1>1. IsFiniteSet(0..N)
  BY FS_Interval
<1>2. M \subseteq 0..N /\ M # {}
  <2>1. \A x \in S : N - x \in 0..N
    <3> TAKE x \in S
    <3>1. x \in 0..N
      OBVIOUS
    <3> QED
      BY <3>1
  <2>2. PICK x \in S : TRUE
    OBVIOUS
  <2>3. N - x \in M
    BY <2>2
  <2> QED
    BY <2>1, <2>3
<1>3. IsFiniteSet(S) /\ IsFiniteSet(M)
  BY <1>1, <1>2, FS_Subset
<1>4. \E i \in S : \A j \in S : i <= j
  <2>1. S \in SUBSET Int
    OBVIOUS
  <2> QED
    BY <1>3, <2>1, LeastOfFinite
<1>5. PICK m \in M : \A k \in M : m <= k
  <2>1. M \in SUBSET Int
    BY <1>2
  <2> HIDE DEF M
  <2> QED
    BY <1>2, <1>3, <2>1, LeastOfFinite
<1>6. PICK i \in S : m = N - i
  BY <1>5
<1>7. \A j \in S : N - j \in M /\ j \in 0..N
  OBVIOUS
<1>8. ASSUME NEW j \in S PROVE j <= i
  <2>1. m <= N - j /\ j \in 0..N /\ i \in 0..N
    BY <1>5, <1>7
  <2> QED
    BY <1>6, <2>1
<1> QED
  BY <1>4, <1>8

(* Induction up to a limit, on a set: its least exception is no exception. *)
LEMMA Induction ==
    ASSUME NEW N \in Nat, NEW S, 0 \in S, \A n \in 1..N : n - 1 \in S => n \in S
    PROVE  0..N \subseteq S
<1> SUFFICES ASSUME (0..N) \ S # {} PROVE FALSE
  OBVIOUS
<1>1. PICK i \in (0..N) \ S : \A j \in (0..N) \ S : i <= j
  <2>1. (0..N) \ S \subseteq 0..N
    OBVIOUS
  <2> QED
    BY <2>1, Extremes
<1>2. i \in 1..N /\ i - 1 \in 0..N /\ ~(i <= i - 1)
  BY <1>1
<1> QED
  BY <1>1, <1>2

(* The units of a chat are in one order.                                   *)
Triples == Nat \X Nat \X Nat

LEMMA UnitsOrdered ==
    ASSUME NEW u \in Triples, NEW v \in Triples, NEW w \in Triples
    PROVE  /\ ~Chat!Before(u, u)
           /\ Chat!Before(u, v) => ~Chat!Before(v, u)
           /\ Chat!Before(u, v) /\ Chat!Before(v, w) => Chat!Before(u, w)
           /\ Chat!Before(u, v) \/ Chat!Before(v, u) \/ u = v
  BY DEF Triples, Chat!Before

LEMMA UnitsAre ==
    ASSUME Chat!ChatContextAssumption
    PROVE  Chat!Units \subseteq Triples
  BY DEF Chat!ChatContextAssumption, Chat!Units, Triples

(* Some of them have a first and a last one.                               *)
LEMMA FirstAndLast ==
    ASSUME Chat!ChatContextAssumption, NEW S, S \subseteq Chat!Units, S # {}
    PROVE  /\ \E u \in S : \A v \in S : ~Chat!Before(v, u)
           /\ \E u \in S : \A v \in S : ~Chat!Before(u, v)
<1> DEFINE Turns == {u[1] : u \in S}
           Of(t) == {u[2] : u \in {x \in S : x[1] = t}}
           Nos(t, r) == {u[3] : u \in {x \in S : x[1] = t /\ x[2] = r}}
<1>1. ChatRuns \in Nat /\ ChatUnits \in Nat
  BY DEF Chat!ChatContextAssumption
<1>2. \A u \in S : /\ u[1] \in 0..ChatRuns /\ u[2] \in 0..ChatRuns /\ u[3] \in 0..ChatUnits
                   /\ u = <<u[1], u[2], u[3]>>
  BY <1>1 DEF Chat!Units
<1>3. Turns \subseteq 0..ChatRuns /\ Turns # {}
  BY <1>2
<1>4. \A t \in Turns : Of(t) \subseteq 0..ChatRuns /\ Of(t) # {}
  BY <1>2
<1>5. \A t \in Turns : \A r \in Of(t) : Nos(t, r) \subseteq 0..ChatUnits /\ Nos(t, r) # {}
  BY <1>2
<1>6. \A t, r, i : i \in Nos(t, r) => \E u \in S : u[1] = t /\ u[2] = r /\ u[3] = i
  OBVIOUS
<1>7. \A u \in S : u[1] \in Turns /\ \A t, r : /\ u[1] = t => u[2] \in Of(t)
                                               /\ u[1] = t /\ u[2] = r => u[3] \in Nos(t, r)
  OBVIOUS
<1> HIDE DEF Turns, Of, Nos
<1>8. \E u \in S : \A v \in S : ~Chat!Before(v, u)
  <2>1. PICK t \in Turns : \A x \in Turns : t <= x
    BY <1>1, <1>3, Extremes
  <2>2. PICK r \in Of(t) : \A x \in Of(t) : r <= x
    BY <1>1, <1>4, Extremes
  <2>3. PICK i \in Nos(t, r) : \A x \in Nos(t, r) : i <= x
    BY <1>1, <1>5, Extremes
  <2>4. PICK u \in S : u[1] = t /\ u[2] = r /\ u[3] = i
    BY <1>6
  <2>5. ASSUME NEW v \in S PROVE ~Chat!Before(v, u)
    <3>1. t <= v[1] /\ (v[1] = t => r <= v[2]) /\ (v[1] = t /\ v[2] = r => i <= v[3])
      BY <1>7, <2>1, <2>2, <2>3
    <3> QED
      BY <1>2, <2>4, <3>1 DEF Chat!Before
  <2> QED
    BY <2>5
<1>9. \E u \in S : \A v \in S : ~Chat!Before(u, v)
  <2>1. PICK t \in Turns : \A x \in Turns : x <= t
    BY <1>1, <1>3, Extremes
  <2>2. PICK r \in Of(t) : \A x \in Of(t) : x <= r
    BY <1>1, <1>4, Extremes
  <2>3. PICK i \in Nos(t, r) : \A x \in Nos(t, r) : x <= i
    BY <1>1, <1>5, Extremes
  <2>4. PICK u \in S : u[1] = t /\ u[2] = r /\ u[3] = i
    BY <1>6
  <2>5. ASSUME NEW v \in S PROVE ~Chat!Before(u, v)
    <3>1. v[1] <= t /\ (v[1] = t => v[2] <= r) /\ (v[1] = t /\ v[2] = r => v[3] <= i)
      BY <1>7, <2>1, <2>2, <2>3
    <3> QED
      BY <1>2, <2>4, <3>1 DEF Chat!Before
  <2> QED
    BY <2>5
<1> QED
  BY <1>8, <1>9

(* The cut of a lane is in it, and what goes before a unit of the lane has *)
(* a last one.                                                             *)
LEMMA CutInLane ==
    ASSUME Chat!ChatContextAssumption, NEW lane, lane \subseteq Chat!Units, lane # {}
    PROVE  Chat!Cut(lane) \in lane
<1> DEFINE S == {u \in lane : Chat!Recent(lane, u)}
<1>1. PICK l \in lane : \A v \in lane : ~Chat!Before(l, v)
  BY FirstAndLast
<1>2. Chat!Suffix(lane, l) = {l}
  <2>1. ~Chat!Before(l, l)
    BY <1>1
  <2>2. ASSUME NEW v \in lane, ~Chat!Before(v, l) PROVE v = l
    BY <1>1, <2>2, UnitsAre, UnitsOrdered
  <2> QED
    BY <2>1, <2>2 DEF Chat!Suffix
<1>3. l \in S
  BY <1>2 DEF Chat!Recent
<1>4. PICK u \in S : \A v \in S : ~Chat!Before(v, u)
  <2>1. S \subseteq Chat!Units /\ S # {}
    BY <1>3
  <2> HIDE DEF S
  <2> QED
    BY <2>1, FirstAndLast
<1>5. u \in lane /\ Chat!Recent(lane, u) /\ \A v \in lane : Chat!Before(v, u) => ~Chat!Recent(lane, v)
  BY <1>4
<1> QED
  BY <1>5 DEF Chat!Cut

LEMMA ThroughInLane ==
    ASSUME Chat!ChatContextAssumption, NEW lane, lane \subseteq Chat!Units,
           NEW u \in lane, NEW x \in lane, Chat!Before(x, u)
    PROVE  LET t == Chat!Through(lane, u) IN
           /\ t \in lane /\ Chat!Before(t, u)
           /\ \A v \in lane : Chat!Before(v, u) => ~Chat!Before(t, v)
<1> DEFINE S == {v \in lane : Chat!Before(v, u)}
<1>1. PICK t \in S : \A v \in S : ~Chat!Before(t, v)
  <2>1. S \subseteq Chat!Units /\ S # {}
    OBVIOUS
  <2> HIDE DEF S
  <2> QED
    BY <2>1, FirstAndLast
<1>2. t \in lane /\ Chat!Before(t, u) /\ \A v \in lane : Chat!Before(v, u) => ~Chat!Before(t, v)
  BY <1>1
<1> QED
  BY <1>2 DEF Chat!Through

(* A lane, from the first message of the chat to the last step there is,   *)
(* and what an Attempt may know of it: a beginning.  A compaction stands   *)
(* when it covers all that goes before its suffix.                         *)
LastTurn == IF cc_runs = <<>> THEN 0 ELSE cc_runs[Len(cc_runs)].turn
Whole == {u \in Chat!Units :
            IF u[2] = 0 THEN u[3] = 0 /\ u[1] <= LastTurn
            ELSE /\ u[2] <= Len(cc_runs) /\ u[1] = cc_runs[u[2]].turn
                 /\ u[3] \in 1..Len(cc_runs[u[2]].log)}
Begins(lane) == lane \subseteq Whole /\ \A u \in lane, v \in Whole : Chat!Before(v, u) => v \in lane
Stands(c) ==
    /\ {c.suffix, c.through} \subseteq Whole /\ Chat!Before(c.through, c.suffix)
    /\ \A v \in Whole : Chat!Before(v, c.suffix) => ~Chat!Before(c.through, v)
    /\ c.covers = {u \in Whole : Chat!Before(u, c.suffix)}

ChatSummary == [covers : SUBSET Chat!Units, size : Nat, through : Triples, suffix : Triples, pred : Nat]
Projected == {"projected", "loaded", "broken", "summarised", "exceeded", "checked", "sent"}
ChatAttempts == [pc : Projected \union {"gone", "begun"}, run : Nat, upto : Nat, lane : SUBSET Chat!Units,
                 latest : Nat, forced : BOOLEAN, candidate : ChatSummary]

ChatRows ==
    /\ cc_runs \in Seq(Chat!LaneRuns) /\ Len(cc_runs) <= ChatRuns
    /\ cc_newest \in {"none", "input", "steering", "delivered", "answer"}
    /\ cc_compactions \in Seq(ChatSummary)
    /\ cc_at \in [{1, 2} -> ChatAttempts]
    /\ cc_holder \in {1, 2}
(* Turns follow one another with the Runs.                                 *)
ChatTurns ==
    /\ \A x \in 1..Len(cc_runs) : cc_runs[x].turn <= x
    /\ \A x, y \in 1..Len(cc_runs) : x <= y => cc_runs[x].turn <= cc_runs[y].turn
(* Each compaction stands and goes on where the one before it ended.       *)
ChatCompacted ==
    /\ \A i \in 1..Len(cc_compactions) : Stands(cc_compactions[i]) /\ cc_compactions[i].size \in ChatSummaries
    /\ \A i \in 1..Len(cc_compactions) :
          /\ cc_compactions[i].pred = i - 1
          /\ i > 1 => Chat!Before(cc_compactions[i - 1].suffix, cc_compactions[i].suffix)
(* What an Attempt has read, stragglers included.                          *)
Knows(r) ==
    /\ r.pc # "gone" => r.run \in 1..Len(cc_runs) /\ r.upto <= Len(cc_runs[r.run].log)
    /\ r.pc \in Projected => Begins(r.lane)
    /\ r.pc = "loaded" => /\ r.latest <= Len(cc_compactions)
                          /\ r.latest # 0 => cc_compactions[r.latest].suffix \in r.lane
    /\ r.pc \in {"summarised", "checked"} =>
          /\ Stands(r.candidate) /\ r.candidate.suffix \in r.lane
          /\ r.candidate.size \in ChatSummaries /\ r.candidate.pred <= Len(cc_compactions)
          /\ r.candidate.pred # 0 => Chat!Before(cc_compactions[r.candidate.pred].suffix, r.candidate.suffix)
    /\ r.pc = "sent" => \/ r.candidate = Chat!NoSummary
                        \/ Stands(r.candidate) /\ r.candidate.suffix \in r.lane
ChatKnown == \A a \in {1, 2} : Knows(cc_at[a])
(* The Attempt at work has read all there is.                              *)
Current(r) ==
    /\ r.upto = Len(cc_runs[Len(cc_runs)].log) /\ r.pc # "broken"
    /\ r.pc \in Projected => r.lane = Whole
ChatCurrent == Chat!Holds(cc_holder) => Current(cc_at[cc_holder])
ChatIInv == ChatRows /\ ChatTurns /\ ChatCompacted /\ ChatKnown /\ ChatCurrent

LEMMA RunsAre ==
    ASSUME Chat!ChatContextAssumption, ChatRows, NEW x \in 1..Len(cc_runs)
    PROVE  /\ cc_runs[x].turn \in 1..ChatRuns
           /\ cc_runs[x].status \in {"active", "failed", "completed"}
           /\ cc_runs[x].log \in Seq({"open", "step", "steering"})
           /\ Len(cc_runs[x].log) \in 0..ChatUnits
           /\ cc_runs[x] \in Chat!LaneRuns
<1>1. cc_runs[x] \in Chat!LaneRuns
  BY DEF ChatRows
<1>2. PICK n \in 0..ChatUnits : cc_runs[x].log \in [1..n -> {"open", "step", "steering"}]
  BY <1>1 DEF Chat!LaneRuns
<1>3. n \in Nat
  BY DEF Chat!ChatContextAssumption
<1>4. cc_runs[x].log \in Seq({"open", "step", "steering"}) /\ Len(cc_runs[x].log) = n
  BY <1>2, <1>3
<1> QED
  BY <1>1, <1>4 DEF Chat!LaneRuns

LEMMA LogIs ==
    ASSUME Chat!ChatContextAssumption, NEW log \in Seq({"open", "step", "steering"}),
           Len(log) <= ChatUnits
    PROVE  log \in UNION {[1..n -> {"open", "step", "steering"}] : n \in 0..ChatUnits}
<1>1. log \in [1..Len(log) -> {"open", "step", "steering"}]
  OBVIOUS
<1>2. Len(log) \in 0..ChatUnits
  BY DEF Chat!ChatContextAssumption
<1> QED
  BY <1>1, <1>2

(* The lane of a Run is a beginning of the whole, and all of it for the    *)
(* newest Run and its whole log.                                           *)
LEMMA LaneIs ==
    ASSUME Chat!ChatContextAssumption, ChatRows, ChatTurns,
           NEW r \in 1..Len(cc_runs), NEW upto \in 0..Len(cc_runs[r].log)
    PROVE  Chat!Lane(r, upto) =
             {u \in Whole : /\ u[1] <= cc_runs[r].turn
                            /\ u[2] <= r /\ (u[2] = r => u[3] <= upto)}
<1> DEFINE T == cc_runs[r].turn
           Runs == {x \in 1..Len(cc_runs) : cc_runs[x].turn < T \/ (cc_runs[x].turn = T /\ x <= r)}
           Upto(x) == IF x = r THEN upto ELSE Len(cc_runs[x].log)
<1>1. ChatRuns \in Nat /\ ChatUnits \in Nat /\ Len(cc_runs) \in 0..ChatRuns
  BY DEF Chat!ChatContextAssumption, ChatRows
<1>2. \A x \in 1..Len(cc_runs) : /\ cc_runs[x].turn \in 1..ChatRuns
                                 /\ Len(cc_runs[x].log) \in 0..ChatUnits
  BY RunsAre
<1>3. T \in 1..ChatRuns /\ T <= LastTurn /\ LastTurn \in 1..ChatRuns
  BY <1>1, <1>2 DEF ChatTurns, LastTurn
<1>4. \A x \in 1..Len(cc_runs) : x \in Runs <=> x <= r
  BY <1>1, <1>2 DEF ChatTurns
<1>5. \A x \in Runs : cc_runs[x].turn <= T
  BY <1>2
<1>6. Chat!Lane(r, upto) =
        {<<t, 0, 0>> : t \in 1..T}
          \union UNION {{<<cc_runs[x].turn, x, i>> : i \in 1..Upto(x)} : x \in Runs}
  BY DEF Chat!Lane
<1>7. \A x \in Runs : Upto(x) \in 0..Len(cc_runs[x].log)
  BY <1>2
<1>8. ASSUME NEW u \in Chat!Lane(r, upto)
      PROVE  u \in Whole /\ u[1] <= T /\ u[2] <= r /\ (u[2] = r => u[3] <= upto)
  <2>1. CASE \E t \in 1..T : u = <<t, 0, 0>>
    <3>1. PICK t \in 1..T : u = <<t, 0, 0>>
      BY <2>1
    <3> HIDE DEF T, Runs, Upto
    <3>2. u[1] = t /\ u[2] = 0 /\ u[3] = 0 /\ u \in Chat!Units
      BY <3>1, <1>1, <1>2, <1>3 DEF Chat!Units
    <3> QED
      BY <3>1, <3>2, <1>3 DEF Whole
  <2>2. CASE \E x \in Runs : \E i \in 1..Upto(x) : u = <<cc_runs[x].turn, x, i>>
    <3>1. PICK x \in Runs : \E i \in 1..Upto(x) : u = <<cc_runs[x].turn, x, i>>
      BY <2>2
    <3>2. PICK i \in 1..Upto(x) : u = <<cc_runs[x].turn, x, i>>
      BY <3>1
    <3>3. i \in 1..Len(cc_runs[x].log) /\ x \in 1..Len(cc_runs) /\ x <= r /\ (x = r => i <= upto)
      BY <1>2, <1>4, <1>7
    <3>4. u[1] = cc_runs[x].turn /\ u[2] = x /\ u[3] = i /\ u[1] <= T
      BY <3>2, <1>5
    <3> HIDE DEF T, Runs, Upto
    <3>5. u \in Chat!Units
      BY <3>2, <3>3, <1>1, <1>2 DEF Chat!Units
    <3> QED
      BY <3>3, <3>4, <3>5 DEF Whole
  <2>3. u \in {<<t, 0, 0>> : t \in 1..T} \/ \E x \in Runs : u \in {<<cc_runs[x].turn, x, i>> : i \in 1..Upto(x)}
    BY <1>6
  <2> HIDE DEF T, Runs, Upto
  <2> QED
    BY <2>1, <2>2, <2>3
<1>9. ASSUME NEW u \in Whole, u[1] <= T, u[2] <= r, u[2] = r => u[3] <= upto
      PROVE  u \in Chat!Lane(r, upto)
  <2>1. /\ u[1] \in 1..ChatRuns /\ u[2] \in 0..ChatRuns /\ u[3] \in 0..ChatUnits
        /\ u = <<u[1], u[2], u[3]>>
    BY <1>1 DEF Whole, Chat!Units
  <2>2. CASE u[2] = 0
    <3>1. u = <<u[1], 0, 0>> /\ u[1] \in 1..T
      BY <1>9, <2>1, <2>2, <1>2 DEF Whole
    <3> HIDE DEF T, Runs, Upto
    <3> QED
      BY <3>1, <1>6
  <2>3. CASE u[2] # 0
    <3>1. u[2] \in 1..Len(cc_runs) /\ u[1] = cc_runs[u[2]].turn /\ u[3] \in 1..Len(cc_runs[u[2]].log)
      BY <2>1, <2>3, <1>1 DEF Whole
    <3>2. u[2] \in Runs /\ u[3] \in 1..Upto(u[2])
      <4>1. u[2] \in Runs
        BY <3>1, <1>4, <1>9
      <4>2. u[3] \in 1..Upto(u[2])
        BY <3>1, <1>2, <1>9
      <4> QED
        BY <4>1, <4>2
    <3>3. u = <<cc_runs[u[2]].turn, u[2], u[3]>>
      BY <2>1, <3>1
    <3> HIDE DEF T, Runs, Upto
    <3> QED
      BY <3>2, <3>3, <1>6
  <2> QED
    BY <2>2, <2>3
<1> QED
  BY <1>8, <1>9

LEMMA LaneBegins ==
    ASSUME Chat!ChatContextAssumption, ChatRows, ChatTurns,
           NEW r \in 1..Len(cc_runs), NEW upto \in 0..Len(cc_runs[r].log)
    PROVE  /\ Begins(Chat!Lane(r, upto))
           /\ r = Len(cc_runs) /\ upto = Len(cc_runs[r].log) => Chat!Lane(r, upto) = Whole
<1>1. Chat!Lane(r, upto) = {u \in Whole : /\ u[1] <= cc_runs[r].turn
                                          /\ u[2] <= r /\ (u[2] = r => u[3] <= upto)}
  BY LaneIs
<1>2. ChatRuns \in Nat /\ ChatUnits \in Nat /\ Len(cc_runs) \in 0..ChatRuns
  BY DEF Chat!ChatContextAssumption, ChatRows
<1>3. \A x \in 1..Len(cc_runs) : /\ cc_runs[x].turn \in 1..ChatRuns
                                 /\ Len(cc_runs[x].log) \in 0..ChatUnits
  BY RunsAre
<1>4. \A u \in Whole :
         /\ u[1] \in 1..ChatRuns /\ u[2] \in 0..ChatRuns /\ u[3] \in 0..ChatUnits
         /\ u[2] # 0 => /\ u[2] \in 1..Len(cc_runs) /\ u[1] = cc_runs[u[2]].turn
                        /\ u[3] \in 1..Len(cc_runs[u[2]].log)
         /\ u[2] = 0 => u[1] <= LastTurn
  BY <1>2 DEF Whole, Chat!Units
<1>5. ASSUME NEW u \in Chat!Lane(r, upto), NEW v \in Whole, Chat!Before(v, u)
      PROVE  v \in Chat!Lane(r, upto)
  <2>1. u \in Whole /\ u[1] <= cc_runs[r].turn /\ u[2] <= r /\ (u[2] = r => u[3] <= upto)
    BY <1>1
  <2>2. v[1] <= cc_runs[r].turn
    BY <1>3, <1>4, <1>5, <2>1 DEF Chat!Before
  <2>3. v[2] <= r
    <3>1. CASE v[2] = 0
      BY <3>1
    <3>2. CASE v[2] # 0 /\ v[1] < u[1]
      <4>1. v[2] \in 1..Len(cc_runs) /\ cc_runs[v[2]].turn < cc_runs[r].turn
        BY <1>3, <1>4, <2>1, <3>2
      <4> QED
        BY <4>1, <1>2, <1>3 DEF ChatTurns
    <3>3. CASE ~(v[1] < u[1])
      BY <1>4, <1>5, <2>1, <3>3 DEF Chat!Before
    <3> QED
      BY <3>1, <3>2, <3>3
  <2>4. v[2] = r => v[3] <= upto
    <3> SUFFICES ASSUME v[2] = r PROVE v[3] <= upto
      OBVIOUS
    <3>1. v[1] = cc_runs[r].turn
      BY <1>4
    <3>2. u[1] = v[1]
      BY <1>3, <1>4, <1>5, <2>1, <3>1 DEF Chat!Before
    <3>3. u[2] = r /\ v[3] < u[3]
      BY <1>4, <1>5, <2>1, <3>2 DEF Chat!Before
    <3> QED
      BY <1>3, <1>4, <2>1, <3>3
  <2> QED
    BY <1>1, <2>2, <2>3, <2>4
<1>6. ASSUME r = Len(cc_runs), upto = Len(cc_runs[r].log), NEW u \in Whole
      PROVE  u[1] <= cc_runs[r].turn /\ u[2] <= r /\ (u[2] = r => u[3] <= upto)
  <2>1. LastTurn = cc_runs[r].turn
    BY <1>6 DEF LastTurn
  <2>2. u[1] <= cc_runs[r].turn
    BY <1>2, <1>3, <1>4, <1>6, <2>1 DEF ChatTurns
  <2> QED
    BY <1>2, <1>3, <1>4, <1>6, <2>2
<1> QED
  BY <1>1, <1>5, <1>6 DEF Begins

(* What is appended to the chat goes after all there was, so what was      *)
(* known of it remains true.                                               *)
Grows ==
    /\ Len(cc_runs) <= Len(cc_runs')
    /\ \A x \in 1..Len(cc_runs) : Len(cc_runs[x].log) <= Len(cc_runs'[x].log)
    /\ Whole \subseteq Whole'
    /\ \A e \in Whole' \ Whole : \A u \in Whole : Chat!Before(u, e)
    /\ Len(cc_compactions) <= Len(cc_compactions')
    /\ \A i \in 1..Len(cc_compactions) : cc_compactions'[i] = cc_compactions[i]

LEMMA WholeTyped ==
    ASSUME Chat!ChatContextAssumption
    PROVE  Whole \subseteq Triples
  BY UnitsAre DEF Whole

LEMMA BeginsStays ==
    ASSUME Chat!ChatContextAssumption, Grows, NEW lane, Begins(lane)
    PROVE  Begins(lane)'
<1>1. lane \subseteq Whole'
  BY DEF Begins, Grows
<1>2. ASSUME NEW u \in lane, NEW v \in Whole', Chat!Before(v, u) PROVE v \in lane
  <2>1. u \in Whole /\ u \in Triples
    BY WholeTyped DEF Begins
  <2>2. v \in Triples
    BY UnitsAre DEF Whole
  <2>3. v \in Whole
    <3> SUFFICES ASSUME v \notin Whole PROVE FALSE
      OBVIOUS
    <3>1. Chat!Before(u, v)
      BY <2>1 DEF Grows
    <3> QED
      BY <1>2, <2>1, <2>2, <3>1, UnitsOrdered
  <2> QED
    BY <1>2, <2>3 DEF Begins
<1> QED
  BY <1>1, <1>2 DEF Begins

LEMMA StandsStays ==
    ASSUME Chat!ChatContextAssumption, Grows, NEW c, Stands(c)
    PROVE  Stands(c)'
<1>1. c.suffix \in Whole /\ c.through \in Whole /\ c.suffix \in Triples
  BY WholeTyped DEF Stands
<1>2. ASSUME NEW v \in Whole', Chat!Before(v, c.suffix) PROVE v \in Whole
  <2>1. v \in Triples
    BY UnitsAre DEF Whole
  <2> SUFFICES ASSUME v \notin Whole PROVE FALSE
    OBVIOUS
  <2>2. Chat!Before(c.suffix, v)
    BY <1>1 DEF Grows
  <2> QED
    BY <1>1, <1>2, <2>1, <2>2, UnitsOrdered
<1>3. {c.suffix, c.through} \subseteq Whole' /\ Chat!Before(c.through, c.suffix)
  BY <1>1 DEF Grows, Stands
<1>4. \A v \in Whole' : Chat!Before(v, c.suffix) => ~Chat!Before(c.through, v)
  BY <1>2 DEF Stands
<1>5. c.covers = {u \in Whole' : Chat!Before(u, c.suffix)}
  <2>1. {u \in Whole' : Chat!Before(u, c.suffix)} = {u \in Whole : Chat!Before(u, c.suffix)}
    BY <1>2 DEF Grows
  <2> QED
    BY <2>1 DEF Stands
<1> QED
  BY <1>3, <1>4, <1>5 DEF Stands

LEMMA KnowsStays ==
    ASSUME Chat!ChatContextAssumption, ChatRows, Grows, NEW r \in ChatAttempts, Knows(r)
    PROVE  Knows(r)'
<1>1. r.pc # "gone" => r.run \in 1..Len(cc_runs') /\ r.upto <= Len(cc_runs'[r.run].log)
  <2> SUFFICES ASSUME r.pc # "gone"
               PROVE  r.run \in 1..Len(cc_runs') /\ r.upto <= Len(cc_runs'[r.run].log)
    OBVIOUS
  <2>1. r.run \in 1..Len(cc_runs) /\ r.upto <= Len(cc_runs[r.run].log)
    BY DEF Knows
  <2>2. Len(cc_runs[r.run].log) <= Len(cc_runs'[r.run].log) /\ Len(cc_runs) <= Len(cc_runs')
    BY <2>1 DEF Grows
  <2>3. Len(cc_runs) \in Nat /\ Len(cc_runs[r.run].log) \in Nat
    BY <2>1, RunsAre DEF ChatRows
  <2> QED
    BY <2>1, <2>2, <2>3 DEF ChatAttempts
<1>2. r.pc \in Projected => Begins(r.lane)'
  BY BeginsStays DEF Knows
<1>3. \A i \in 1..Len(cc_compactions) : /\ cc_compactions'[i] = cc_compactions[i]
                                        /\ i <= Len(cc_compactions')
  BY DEF Grows, ChatRows
<1>4. Len(cc_compactions) \in Nat /\ Len(cc_compactions) <= Len(cc_compactions')
  BY DEF Grows, ChatRows
<1>5. r.latest \in Nat /\ r.candidate.pred \in Nat
  BY DEF ChatAttempts, ChatSummary
<1>6. r.pc = "loaded" => /\ r.latest <= Len(cc_compactions')
                         /\ r.latest # 0 => cc_compactions'[r.latest].suffix \in r.lane
  BY <1>3, <1>4, <1>5 DEF Knows
<1>7. r.pc \in {"summarised", "checked"} =>
          /\ Stands(r.candidate)' /\ r.candidate.suffix \in r.lane
          /\ r.candidate.size \in ChatSummaries /\ r.candidate.pred <= Len(cc_compactions')
          /\ r.candidate.pred # 0 => Chat!Before(cc_compactions'[r.candidate.pred].suffix, r.candidate.suffix)
  <2> SUFFICES ASSUME r.pc \in {"summarised", "checked"}
               PROVE  /\ Stands(r.candidate)' /\ r.candidate.suffix \in r.lane
                      /\ r.candidate.size \in ChatSummaries /\ r.candidate.pred <= Len(cc_compactions')
                      /\ r.candidate.pred # 0 =>
                           Chat!Before(cc_compactions'[r.candidate.pred].suffix, r.candidate.suffix)
    OBVIOUS
  <2>1. Stands(r.candidate)'
    BY StandsStays DEF Knows
  <2>2. r.candidate.pred # 0 => r.candidate.pred \in 1..Len(cc_compactions)
    BY <1>5 DEF Knows
  <2> QED
    BY <1>3, <1>4, <1>5, <2>1, <2>2 DEF Knows
<1>8. r.pc = "sent" => \/ r.candidate = Chat!NoSummary
                       \/ Stands(r.candidate)' /\ r.candidate.suffix \in r.lane
  BY StandsStays DEF Knows
<1> QED
  BY <1>1, <1>2, <1>6, <1>7, <1>8 DEF Knows

LEMMA ChatInit == Chat!ChatContextAssumption /\ Chat!Init => ChatIInv
<1> SUFFICES ASSUME Chat!ChatContextAssumption, Chat!Init PROVE ChatIInv
  OBVIOUS
<1> USE DEF Chat!Init
<1>1. cc_at = [a \in {1, 2} |-> Chat!NoAttempt] /\ Chat!NoAttempt \in ChatAttempts
      /\ Chat!NoAttempt.pc = "gone"
  BY DEF Chat!NoAttempt, Chat!Begun, Chat!NoSummary, Chat!NoUnit, ChatAttempts, ChatSummary, Triples
<1>2. ChatRows
  BY <1>1 DEF ChatRows, Chat!ChatContextAssumption
<1>3. ChatTurns /\ ChatCompacted
  BY DEF ChatTurns, ChatCompacted
<1>4. ChatKnown
  BY <1>1 DEF ChatKnown, Knows, Projected
<1>5. ChatCurrent
  BY DEF ChatCurrent, Chat!Holds, Chat!Active, Chat!Newest
<1> QED
  BY <1>2, <1>3, <1>4, <1>5 DEF ChatIInv

(* Runs that keep their turns and the length of their logs have the same   *)
(* units.                                                                  *)
LEMMA SameRuns ==
    ASSUME Chat!ChatContextAssumption, ChatRows, ChatTurns,
           cc_runs' \in Seq(Chat!LaneRuns), Len(cc_runs') = Len(cc_runs),
           \A x \in 1..Len(cc_runs) : /\ cc_runs'[x].turn = cc_runs[x].turn
                                      /\ Len(cc_runs'[x].log) = Len(cc_runs[x].log),
           UNCHANGED cc_compactions
    PROVE  Whole' = Whole /\ Grows /\ ChatTurns'
<1>1. Len(cc_runs) \in Nat /\ Len(cc_compactions) \in Nat
  BY DEF ChatRows
<1>2. LastTurn' = LastTurn
  BY <1>1 DEF LastTurn, ChatRows
<1>3. \A u \in Chat!Units : u[2] # 0 /\ u[2] <= Len(cc_runs) => u[2] \in 1..Len(cc_runs)
  BY <1>1 DEF Chat!Units, Chat!ChatContextAssumption
<1>4. Whole' = Whole
  BY <1>2, <1>3 DEF Whole
<1>5. \A x \in 1..Len(cc_runs) : Len(cc_runs[x].log) \in Nat
  BY RunsAre
<1>6. Grows
  BY <1>1, <1>4, <1>5 DEF Grows
<1>7. ChatTurns'
  BY DEF ChatTurns
<1> QED
  BY <1>4, <1>6, <1>7

(* A unit appended to the log of the newest Run.                           *)
LEMMA MoreUnits ==
    ASSUME Chat!ChatContextAssumption, ChatRows, ChatTurns,
           cc_runs' \in Seq(Chat!LaneRuns), Len(cc_runs') = Len(cc_runs), Len(cc_runs) > 0,
           \A x \in 1..Len(cc_runs) :
              /\ cc_runs'[x].turn = cc_runs[x].turn
              /\ Len(cc_runs'[x].log) = IF x = Len(cc_runs) THEN Len(cc_runs[x].log) + 1
                                        ELSE Len(cc_runs[x].log),
           UNCHANGED cc_compactions
    PROVE  Grows /\ ChatTurns'
<1> DEFINE N == Len(cc_runs)
<1>1. Len(cc_runs) \in Nat /\ Len(cc_compactions) \in Nat /\ N \in 1..Len(cc_runs)
  BY DEF ChatRows
<1>2. LastTurn' = LastTurn /\ LastTurn = cc_runs[N].turn
  BY <1>1 DEF LastTurn, ChatRows
<1>3. \A x \in 1..N : Len(cc_runs[x].log) \in Nat /\ cc_runs[x].turn \in Nat
  BY RunsAre
<1>4. \A u \in Chat!Units : /\ u[1] \in Nat /\ u[2] \in Nat /\ u[3] \in Nat
                            /\ u[2] # 0 /\ u[2] <= N => u[2] \in 1..N
  BY <1>1 DEF Chat!Units, Chat!ChatContextAssumption
<1>5. Whole \subseteq Whole'
  <2> SUFFICES ASSUME NEW u \in Whole PROVE u \in Whole'
    OBVIOUS
  <2>1. u \in Chat!Units
    BY DEF Whole
  <2>2. CASE u[2] = 0
    BY <1>2, <2>1, <2>2 DEF Whole
  <2>3. CASE u[2] # 0
    <3>1. u[2] \in 1..N /\ u[1] = cc_runs[u[2]].turn /\ u[3] \in 1..Len(cc_runs[u[2]].log)
      BY <1>4, <2>1, <2>3 DEF Whole
    <3>2. u[1] = cc_runs'[u[2]].turn
      BY <3>1
    <3>3. PICK x \in 1..N : x = u[2]
      BY <3>1
    <3>4. PICK k \in Nat : k = Len(cc_runs[x].log)
      BY <1>3
    <3>5. Len(cc_runs'[x].log) = k \/ Len(cc_runs'[x].log) = k + 1
      BY <3>4
    <3>6. u[3] \in 1..Len(cc_runs'[u[2]].log)
      BY <3>1, <3>3, <3>4, <3>5
    <3> QED
      BY <2>1, <2>3, <3>1, <3>2, <3>6 DEF Whole
  <2> QED
    BY <2>2, <2>3
<1>6. ASSUME NEW e \in Whole' \ Whole, NEW u \in Whole PROVE Chat!Before(u, e)
  <2>1. e \in Chat!Units /\ u \in Chat!Units
    BY DEF Whole
  <2>2. e[2] # 0
    BY <1>2, <2>1 DEF Whole
  <2>3. e[2] \in 1..N /\ e[1] = cc_runs[e[2]].turn /\ e[3] \in 1..Len(cc_runs'[e[2]].log)
    BY <1>4, <2>1, <2>2 DEF Whole
  <2>4. e[3] \notin 1..Len(cc_runs[e[2]].log)
    BY <2>1, <2>2, <2>3 DEF Whole
  <2>5. e[2] = N /\ e[3] > Len(cc_runs[N].log)
    BY <1>3, <2>3, <2>4
  <2>6. CASE u[2] = 0
    <3>1. u[1] <= e[1]
      BY <1>2, <2>3, <2>5, <2>6 DEF Whole
    <3> QED
      BY <1>1, <1>4, <2>1, <2>5, <2>6, <3>1 DEF Chat!Before
  <2>7. CASE u[2] # 0
    <3>1. u[2] \in 1..N /\ u[1] = cc_runs[u[2]].turn /\ u[3] \in 1..Len(cc_runs[u[2]].log)
      BY <1>4, <2>1, <2>7 DEF Whole
    <3>2. u[1] <= e[1]
      BY <1>1, <2>3, <2>5, <3>1 DEF ChatTurns
    <3>3. u[2] = N => u[3] < e[3]
      BY <1>3, <1>4, <2>1, <2>5, <3>1
    <3> QED
      BY <1>1, <1>4, <2>1, <2>5, <3>1, <3>2, <3>3 DEF Chat!Before
  <2> QED
    BY <2>6, <2>7
<1>7. Grows
  <2>1. \A x \in 1..Len(cc_runs) : Len(cc_runs[x].log) <= Len(cc_runs'[x].log)
    BY <1>3
  <2> QED
    BY <1>1, <1>5, <1>6, <2>1 DEF Grows
<1>8. ChatTurns'
  BY DEF ChatTurns
<1> QED
  BY <1>7, <1>8

(* A new Run, of the newest message or of a new one.                       *)
LEMMA MoreRuns ==
    ASSUME Chat!ChatContextAssumption, ChatRows, ChatTurns, NEW run \in Chat!LaneRuns,
           cc_runs' = Append(cc_runs, run), run.log = <<>>,
           cc_runs = <<>> => run.turn = 1,
           cc_runs # <<>> => run.turn \in {cc_runs[Len(cc_runs)].turn, cc_runs[Len(cc_runs)].turn + 1},
           UNCHANGED cc_compactions
    PROVE  Grows /\ ChatTurns'
<1> DEFINE N == Len(cc_runs)
<1>1. N \in Nat /\ Len(cc_compactions) \in Nat
  BY DEF ChatRows
<1>2. \A x \in 1..N : Len(cc_runs[x].log) \in Nat /\ cc_runs[x].turn \in Nat
  BY RunsAre
<1>3. Len(cc_runs') = N + 1 /\ (\A x \in 1..N : cc_runs'[x] = cc_runs[x]) /\ cc_runs'[N + 1] = run
  BY DEF ChatRows
<1>4. cc_runs = <<>> <=> N = 0
  BY DEF ChatRows
<1>5. LastTurn' = run.turn /\ LastTurn <= run.turn /\ LastTurn \in Nat /\ run.turn \in Nat
      /\ run.turn <= LastTurn + 1
  BY <1>1, <1>2, <1>3, <1>4 DEF LastTurn
<1>6. \A u \in Chat!Units : /\ u[1] \in Nat /\ u[2] \in Nat /\ u[3] \in Nat
                            /\ u[2] # 0 /\ u[2] <= N => u[2] \in 1..N
  BY <1>1 DEF Chat!Units, Chat!ChatContextAssumption
<1>7. \A x \in 1..N : cc_runs[x].turn <= LastTurn /\ cc_runs[x].turn <= x
  BY <1>1, <1>4 DEF ChatTurns, LastTurn
<1>8. Whole \subseteq Whole'
  <2> SUFFICES ASSUME NEW u \in Whole PROVE u \in Whole'
    OBVIOUS
  <2>1. u \in Chat!Units
    BY DEF Whole
  <2>2. CASE u[2] = 0
    BY <1>5, <1>6, <2>1, <2>2 DEF Whole
  <2>3. CASE u[2] # 0
    <3>1. u[2] \in 1..N /\ u[1] = cc_runs[u[2]].turn /\ u[3] \in 1..Len(cc_runs[u[2]].log)
      BY <1>6, <2>1, <2>3 DEF Whole
    <3>2. u[2] <= Len(cc_runs') /\ u[1] = cc_runs'[u[2]].turn /\ u[3] \in 1..Len(cc_runs'[u[2]].log)
      BY <1>1, <1>3, <3>1
    <3> QED
      BY <2>1, <2>3, <3>2 DEF Whole
  <2> QED
    BY <2>2, <2>3
<1>9. ASSUME NEW e \in Whole' \ Whole, NEW u \in Whole PROVE Chat!Before(u, e)
  <2>1. e \in Chat!Units /\ u \in Chat!Units
    BY DEF Whole
  <2>2. e[2] = 0
    <3> SUFFICES ASSUME e[2] # 0 PROVE FALSE
      OBVIOUS
    <3>1. e[2] \in 1..N + 1 /\ e[1] = cc_runs'[e[2]].turn /\ e[3] \in 1..Len(cc_runs'[e[2]].log)
      BY <1>1, <1>3, <1>6, <2>1 DEF Whole
    <3>2. e[2] # N + 1
      <4> SUFFICES ASSUME e[2] = N + 1 PROVE FALSE
        OBVIOUS
      <4>1. Len(cc_runs'[e[2]].log) = 0
        BY <1>3
      <4> HIDE DEF N
      <4> QED
        BY <3>1, <4>1
    <3>3. e[2] \in 1..N
      BY <1>1, <3>1, <3>2
    <3>4. e \in Whole
      BY <1>1, <1>3, <2>1, <3>1, <3>3 DEF Whole
    <3> QED
      BY <3>4
  <2>3. e[3] = 0 /\ e[1] > LastTurn
    BY <1>6, <2>1, <2>2, <1>5 DEF Whole
  <2>4. u[1] <= LastTurn
    <3>1. CASE u[2] = 0
      BY <3>1 DEF Whole
    <3>2. CASE u[2] # 0
      BY <1>6, <1>7, <2>1, <3>2 DEF Whole
    <3> QED
      BY <3>1, <3>2
  <2> QED
    BY <1>5, <1>6, <2>1, <2>3, <2>4 DEF Chat!Before
<1>10. Grows
  <2>1. \A x \in 1..N : Len(cc_runs[x].log) <= Len(cc_runs'[x].log)
    BY <1>2, <1>3
  <2> QED
    BY <1>1, <1>3, <1>8, <1>9, <2>1 DEF Grows
<1>11. ChatTurns'
  <2>1. run.turn <= N + 1
    BY <1>1, <1>2, <1>4, <1>5, <1>7 DEF LastTurn
  <2>2. \A x \in 1..N + 1 : x \in 1..N \/ x = N + 1
    BY <1>1
  <2>3. \A x \in 1..N + 1 : cc_runs'[x].turn <= x
    BY <1>3, <1>7, <2>1, <2>2
  <2>4. \A x, y \in 1..N + 1 : x <= y => cc_runs'[x].turn <= cc_runs'[y].turn
    <3> TAKE x, y \in 1..N + 1
    <3> HAVE x <= y
    <3>1. CASE y \in 1..N
      BY <1>1, <1>3, <2>2, <3>1 DEF ChatTurns
    <3>2. CASE y = N + 1 /\ x \in 1..N
      BY <1>2, <1>3, <1>5, <1>7, <3>2
    <3>3. CASE y = N + 1 /\ x = N + 1
      BY <1>3, <1>5, <3>3
    <3> QED
      BY <2>2, <3>1, <3>2, <3>3
  <2> QED
    BY <1>3, <2>3, <2>4 DEF ChatTurns
<1> QED
  BY <1>10, <1>11

(* What the Attempts know after a step of one of them.                     *)
LEMMA ChatKeeps ==
    ASSUME Chat!ChatContextAssumption, ChatIInv, Grows
    PROVE  /\ UNCHANGED cc_compactions => ChatCompacted'
           /\ \A a \in {1, 2} : cc_at'[a] = cc_at[a] => Knows(cc_at[a])'
<1> USE DEF ChatIInv
<1>1. ASSUME UNCHANGED cc_compactions PROVE ChatCompacted'
  <2>1. \A i \in 1..Len(cc_compactions) : cc_compactions'[i] = cc_compactions[i]
    BY DEF Grows
  <2>2. ASSUME NEW i \in 1..Len(cc_compactions'), NEW c, c = cc_compactions[i]
        PROVE  Stands(c)'
    BY <1>1, <2>2, StandsStays DEF ChatCompacted
  <2>3. ASSUME NEW i \in 1..Len(cc_compactions') PROVE Stands(cc_compactions[i])'
    <3>1. PICK c : c = cc_compactions[i]
      OBVIOUS
    <3>2. Stands(c)' /\ cc_compactions'[i] = c
      BY <1>1, <2>2, <3>1
    <3> QED
      BY <3>2 DEF Stands
  <2> QED
    BY <1>1, <2>3 DEF ChatCompacted
<1>2. ASSUME NEW a \in {1, 2}, cc_at'[a] = cc_at[a] PROVE Knows(cc_at[a])'
  <2>1. PICK r : r = cc_at[a]
    OBVIOUS
  <2>2. r \in ChatAttempts /\ Knows(r)
    BY <2>1 DEF ChatRows, ChatKnown
  <2>3. Knows(r)'
    BY <2>2, KnowsStays
  <2> QED
    BY <1>2, <2>1, <2>3 DEF Knows
<1> QED
  BY <1>1, <1>2

LEMMA ChatKnownStep ==
    ASSUME Chat!ChatContextAssumption, ChatIInv, Grows, NEW a \in {1, 2}, NEW r \in ChatAttempts,
           cc_at' = [cc_at EXCEPT ![a] = r], Knows(r)'
    PROVE  /\ ChatKnown'
           /\ cc_at' \in [{1, 2} -> ChatAttempts]
           /\ cc_at'[a] = r /\ \A b \in {1, 2} : b # a => cc_at'[b] = cc_at[b]
<1>1. cc_at \in [{1, 2} -> ChatAttempts]
  BY DEF ChatIInv, ChatRows
<1>2. cc_at'[a] = r /\ \A b \in {1, 2} : b # a => cc_at'[b] = cc_at[b]
  BY <1>1
<1>3. \A b \in {1, 2} : cc_at'[b] = cc_at[b] => Knows(cc_at[b])'
  BY ChatKeeps
<1>4. Knows(cc_at[a])'
  BY <1>2 DEF Knows
<1>5. \A b \in {1, 2} : Knows(cc_at[b])'
  BY <1>2, <1>3, <1>4
<1> QED
  BY <1>1, <1>2, <1>5 DEF ChatKnown

(* An Attempt that has begun knows where the log ends.                     *)
LEMMA BegunKnows ==
    ASSUME Chat!ChatContextAssumption, NEW run, NEW upto \in Nat, NEW r, r = Chat!Begun(run, upto),
           run \in 1..Len(cc_runs'), upto <= Len(cc_runs'[run].log), Len(cc_runs') \in Nat
    PROVE  /\ r \in ChatAttempts /\ Knows(r)'
           /\ r.pc = "begun" /\ r.upto = upto /\ r.run = run
<1>1. /\ r \in ChatAttempts
      /\ r.pc = "begun" /\ r.run = run /\ r.upto = upto
  BY DEF Chat!Begun, Chat!NoSummary, Chat!NoUnit, ChatAttempts, ChatSummary, Triples, Projected
<1>2. Knows(r)'
  BY <1>1 DEF Knows, Projected
<1> QED
  BY <1>1, <1>2

LEMMA NewRunKept ==
    ASSUME Chat!ChatContextAssumption, ChatIInv, NEW turn,
           Len(cc_runs) = 0 => turn = 1,
           Len(cc_runs) # 0 => turn \in {cc_runs[Len(cc_runs)].turn, cc_runs[Len(cc_runs)].turn + 1},
           Chat!NewRun(turn)
    PROVE  ChatIInv'
<1> USE DEF ChatIInv
<1> DEFINE N == Len(cc_runs)
           run == [turn |-> turn, status |-> "active", log |-> <<>>]
<1>1. N \in Nat /\ N < ChatRuns /\ ChatRuns \in Nat /\ ChatUnits \in Nat
  BY DEF Chat!NewRun, Chat!Newest, ChatRows, Chat!ChatContextAssumption
<1>2. turn \in 1..ChatRuns
  <2>1. CASE N = 0
    BY <1>1, <2>1
  <2>2. CASE N # 0
    <3>1. cc_runs[N].turn \in 1..N
      BY <1>1, <2>2, RunsAre DEF ChatTurns
    <3> QED
      BY <1>1, <2>2, <3>1
  <2> QED
    BY <2>1, <2>2
<1>3. run \in Chat!LaneRuns
  <2>1. <<>> \in [1..0 -> {"open", "step", "steering"}]
    OBVIOUS
  <2>2. <<>> \in UNION {[1..n -> {"open", "step", "steering"}] : n \in 0..ChatUnits}
    BY <1>1, <2>1
  <2> QED
    BY <1>2, <2>2 DEF Chat!LaneRuns
<1>4. cc_runs' = Append(cc_runs, run) /\ UNCHANGED cc_compactions
  BY DEF Chat!NewRun
<1>5. cc_runs = <<>> <=> N = 0
  BY DEF ChatRows
<1>6. Grows /\ ChatTurns'
  <2>1. run.log = <<>> /\ run.turn = turn
    OBVIOUS
  <2> HIDE DEF run
  <2> QED
    BY <1>3, <1>4, <1>5, <2>1, MoreRuns
<1>7. cc_runs' \in Seq(Chat!LaneRuns) /\ Len(cc_runs') = N + 1 /\ cc_runs'[N + 1] = run
  BY <1>1, <1>3, <1>4 DEF ChatRows
<1>8. PICK r : r = Chat!Begun(N + 1, 0)
  OBVIOUS
<1>9. PICK b \in {1, 2} : b = 3 - cc_holder
  BY DEF ChatRows
<1>10. cc_at' = [cc_at EXCEPT ![b] = r] /\ cc_holder' = b
  BY <1>8, <1>9 DEF Chat!NewRun, Chat!Newest
<1>11. Len(cc_runs'[N + 1].log) = 0
  BY <1>7
<1>12. r \in ChatAttempts /\ Knows(r)' /\ r.pc = "begun" /\ r.upto = 0
  <2>1. N + 1 \in 1..Len(cc_runs') /\ 0 \in Nat /\ 0 <= Len(cc_runs'[N + 1].log)
    BY <1>1, <1>7, <1>11
  <2> QED
    BY <1>1, <1>7, <1>8, <2>1, BegunKnows
<1>13. ChatKnown' /\ cc_at' \in [{1, 2} -> ChatAttempts] /\ cc_at'[b] = r
  BY <1>6, <1>10, <1>12, ChatKnownStep
<1>14. ChatRows'
  BY <1>1, <1>4, <1>7, <1>9, <1>10, <1>13 DEF ChatRows, Chat!NewRun
<1>15. ChatCompacted'
  BY <1>4, <1>6, ChatKeeps
<1>16. ChatCurrent'
  BY <1>7, <1>10, <1>11, <1>12, <1>13 DEF ChatCurrent, Current, Projected
<1> QED
  BY <1>6, <1>13, <1>14, <1>15, <1>16

LEMMA TakeOverKept ==
    ASSUME Chat!ChatContextAssumption, ChatIInv, Chat!TakeOver
    PROVE  ChatIInv'
<1> USE DEF ChatIInv
<1> DEFINE N == Len(cc_runs)
<1>1. N \in 1..Len(cc_runs)
  BY DEF Chat!TakeOver, Chat!Active, Chat!Newest, ChatRows
<1>2. UNCHANGED <<cc_runs, cc_newest, cc_compactions>>
  BY DEF Chat!TakeOver
<1>3. Grows /\ ChatTurns'
  BY <1>2, SameRuns DEF ChatRows
<1>4. PICK r : r = Chat!Begun(N, Len(cc_runs[N].log))
  OBVIOUS
<1>5. PICK b \in {1, 2} : b = 3 - cc_holder
  BY DEF ChatRows
<1>6. cc_at' = [cc_at EXCEPT ![b] = r] /\ cc_holder' = b
  BY <1>4, <1>5 DEF Chat!TakeOver, Chat!Newest
<1>7. Len(cc_runs[N].log) \in Nat
  BY <1>1, RunsAre
<1>8. r \in ChatAttempts /\ Knows(r)' /\ r.pc = "begun" /\ r.upto = Len(cc_runs[N].log)
  <2>1. PICK upto \in Nat : upto = Len(cc_runs[N].log)
    BY <1>7
  <2>2. N \in 1..Len(cc_runs') /\ upto <= Len(cc_runs'[N].log) /\ Len(cc_runs') \in Nat
    BY <1>1, <1>2, <2>1
  <2>3. r = Chat!Begun(N, upto)
    BY <1>4, <2>1
  <2> QED
    BY <2>1, <2>2, <2>3, BegunKnows
<1>9. ChatKnown' /\ cc_at' \in [{1, 2} -> ChatAttempts] /\ cc_at'[b] = r
  BY <1>3, <1>6, <1>8, ChatKnownStep
<1>10. ChatRows'
  BY <1>2, <1>5, <1>6, <1>9 DEF ChatRows
<1>11. ChatCompacted'
  BY <1>2, <1>3, ChatKeeps
<1>12. ChatCurrent'
  BY <1>2, <1>6, <1>8, <1>9 DEF ChatCurrent, Current, Projected
<1> QED
  BY <1>3, <1>9, <1>10, <1>11, <1>12

LEMMA SteerKept ==
    ASSUME Chat!ChatContextAssumption, ChatIInv, Chat!SteerRun
    PROVE  ChatIInv'
<1> USE DEF ChatIInv
<1>1. UNCHANGED <<cc_runs, cc_compactions, cc_at, cc_holder>> /\ cc_newest' = "steering"
  BY DEF Chat!SteerRun
<1>2. Grows /\ ChatTurns' /\ Whole' = Whole
  BY <1>1, SameRuns DEF ChatRows
<1>3. ChatRows'
  BY <1>1 DEF ChatRows
<1>4. ChatCompacted' /\ \A a \in {1, 2} : Knows(cc_at[a])'
  BY <1>1, <1>2, ChatKeeps
<1>5. ChatCurrent'
  BY <1>1, <1>2 DEF ChatCurrent, Current, Chat!Holds, Chat!Active, Chat!Newest
<1> QED
  BY <1>2, <1>3, <1>4, <1>5 DEF ChatKnown

LEMMA Replaced ==
    ASSUME NEW S, NEW s \in Seq(S), NEW n \in 1..Len(s), NEW e \in S, NEW t, t = [s EXCEPT ![n] = e]
    PROVE  /\ t \in Seq(S) /\ Len(t) = Len(s)
           /\ \A x \in 1..Len(s) : t[x] = IF x = n THEN e ELSE s[x]
  OBVIOUS

(* The status of the newest Run, by a Member or the Attempt at work.       *)
LEMMA EndedRuns ==
    ASSUME Chat!ChatContextAssumption, ChatIInv, Chat!Active,
           cc_runs' = [cc_runs EXCEPT ![Chat!Newest].status = "failed"],
           UNCHANGED cc_compactions
    PROVE  /\ Grows /\ ChatTurns' /\ Whole' = Whole
           /\ cc_runs' \in Seq(Chat!LaneRuns) /\ Len(cc_runs') = Len(cc_runs)
           /\ cc_runs'[Len(cc_runs)].status = "failed"
<1> USE DEF ChatIInv
<1> DEFINE N == Len(cc_runs)
<1>1. N \in 1..Len(cc_runs) /\ cc_runs \in Seq(Chat!LaneRuns)
  BY DEF Chat!Active, Chat!Newest, ChatRows
<1>2. ASSUME NEW new, new = [cc_runs[N] EXCEPT !.status = "failed"]
      PROVE  /\ new \in Chat!LaneRuns /\ new.turn = cc_runs[N].turn
             /\ new.log = cc_runs[N].log /\ new.status = "failed"
  <2>1. cc_runs[N] \in Chat!LaneRuns
    BY <1>1
  <2> QED
    BY <1>2, <2>1 DEF Chat!LaneRuns
<1>3. PICK new : new = [cc_runs[N] EXCEPT !.status = "failed"]
  OBVIOUS
<1>4. /\ new \in Chat!LaneRuns /\ new.turn = cc_runs[N].turn
      /\ new.log = cc_runs[N].log /\ new.status = "failed"
  BY <1>2, <1>3
<1>5. cc_runs' = [cc_runs EXCEPT ![N] = new]
  BY <1>3 DEF Chat!Newest
<1>6. /\ cc_runs' \in Seq(Chat!LaneRuns) /\ Len(cc_runs') = Len(cc_runs)
      /\ \A x \in 1..Len(cc_runs) : cc_runs'[x] = IF x = N THEN new ELSE cc_runs[x]
  <2>1. PICK rs : rs = [cc_runs EXCEPT ![N] = new]
    OBVIOUS
  <2>2. /\ rs \in Seq(Chat!LaneRuns) /\ Len(rs) = Len(cc_runs)
        /\ \A x \in 1..Len(cc_runs) : rs[x] = IF x = N THEN new ELSE cc_runs[x]
    BY <1>1, <1>4, <2>1, Replaced
  <2> QED
    BY <1>5, <2>1, <2>2
<1>7. \A x \in 1..Len(cc_runs) : /\ cc_runs'[x].turn = cc_runs[x].turn
                                 /\ Len(cc_runs'[x].log) = Len(cc_runs[x].log)
  BY <1>4, <1>6
<1>8. Grows /\ ChatTurns' /\ Whole' = Whole
  BY <1>6, <1>7, SameRuns
<1> QED
  BY <1>1, <1>4, <1>6, <1>8

LEMMA EndKept ==
    ASSUME Chat!ChatContextAssumption, ChatIInv, Chat!EndRun
    PROVE  ChatIInv'
<1> USE DEF ChatIInv
<1>1. UNCHANGED <<cc_newest, cc_compactions, cc_at, cc_holder>>
  BY DEF Chat!EndRun
<1>2. /\ Grows /\ ChatTurns' /\ Whole' = Whole
      /\ cc_runs' \in Seq(Chat!LaneRuns) /\ Len(cc_runs') = Len(cc_runs)
      /\ cc_runs'[Len(cc_runs)].status = "failed"
  BY EndedRuns DEF Chat!EndRun
<1>3. ChatRows'
  BY <1>1, <1>2 DEF ChatRows
<1>4. ChatCompacted' /\ \A a \in {1, 2} : Knows(cc_at[a])'
  BY <1>1, <1>2, ChatKeeps
<1>5. ChatCurrent'
  BY <1>2 DEF ChatCurrent, Chat!Holds, Chat!Active, Chat!Newest
<1> QED
  BY <1>2, <1>3, <1>4, <1>5 DEF ChatKnown

LEMMA GoneKnows ==
    ASSUME NEW r, r = Chat!NoAttempt
    PROVE  r \in ChatAttempts /\ Knows(r)' /\ r.pc = "gone"
<1>1. r \in ChatAttempts /\ r.pc = "gone"
  BY DEF Chat!NoAttempt, Chat!Begun, Chat!NoSummary, Chat!NoUnit, ChatAttempts, ChatSummary, Triples
<1> QED
  BY <1>1 DEF Knows, Projected

LEMMA FailKept ==
    ASSUME Chat!ChatContextAssumption, ChatIInv, NEW a \in {1, 2}, Chat!Fail(a)
    PROVE  ChatIInv'
<1> USE DEF ChatIInv
<1>1. UNCHANGED <<cc_newest, cc_compactions, cc_holder>>
  BY DEF Chat!Fail
<1>2. /\ Grows /\ ChatTurns' /\ Whole' = Whole
      /\ cc_runs' \in Seq(Chat!LaneRuns) /\ Len(cc_runs') = Len(cc_runs)
      /\ cc_runs'[Len(cc_runs)].status = "failed"
  BY EndedRuns DEF Chat!Fail, Chat!Holds
<1>3. PICK r : r = Chat!NoAttempt
  OBVIOUS
<1>4. cc_at' = [cc_at EXCEPT ![a] = r]
  BY <1>3 DEF Chat!Fail, Chat!Gone
<1>5. r \in ChatAttempts /\ Knows(r)'
  BY <1>3, GoneKnows
<1>6. ChatKnown' /\ cc_at' \in [{1, 2} -> ChatAttempts]
  BY <1>2, <1>4, <1>5, ChatKnownStep
<1>7. ChatRows'
  BY <1>1, <1>2, <1>6 DEF ChatRows
<1>8. ChatCompacted'
  BY <1>1, <1>2, ChatKeeps
<1>9. ChatCurrent'
  BY <1>2 DEF ChatCurrent, Chat!Holds, Chat!Active, Chat!Newest
<1> QED
  BY <1>2, <1>6, <1>7, <1>8, <1>9

(* An entry appended to the log of the newest Run, whatever its status     *)
(* becomes.                                                                *)
LEMMA AppendedRuns ==
    ASSUME Chat!ChatContextAssumption, ChatIInv, Len(cc_runs) > 0, Len(cc_runs[Len(cc_runs)].log) < ChatUnits,
           NEW entry \in {"open", "step", "steering"},
           NEW new \in [turn : Nat, status : {"active", "failed", "completed"},
                        log : Seq({"open", "step", "steering"})],
           new.turn = cc_runs[Len(cc_runs)].turn, new.log = Append(cc_runs[Len(cc_runs)].log, entry),
           cc_runs' = [cc_runs EXCEPT ![Len(cc_runs)] = new],
           UNCHANGED cc_compactions
    PROVE  /\ Grows /\ ChatTurns'
           /\ cc_runs' \in Seq(Chat!LaneRuns) /\ Len(cc_runs') = Len(cc_runs)
           /\ cc_runs'[Len(cc_runs)] = new
           /\ Len(cc_runs'[Len(cc_runs)].log) = Len(cc_runs[Len(cc_runs)].log) + 1
<1> USE DEF ChatIInv
<1> DEFINE N == Len(cc_runs)
<1>1. N \in 1..Len(cc_runs) /\ cc_runs \in Seq(Chat!LaneRuns)
  BY DEF ChatRows
<1>2. /\ cc_runs[N].turn \in 1..ChatRuns /\ cc_runs[N].log \in Seq({"open", "step", "steering"})
      /\ ChatUnits \in Nat
  BY <1>1, RunsAre DEF Chat!ChatContextAssumption
<1>3. new.log \in Seq({"open", "step", "steering"}) /\ Len(new.log) = Len(cc_runs[N].log) + 1
      /\ Len(new.log) <= ChatUnits
  BY <1>2
<1>4. new \in Chat!LaneRuns
  <2>1. new.log \in UNION {[1..n -> {"open", "step", "steering"}] : n \in 0..ChatUnits}
    BY <1>3, LogIs
  <2> QED
    BY <1>2, <2>1 DEF Chat!LaneRuns
<1>5. /\ cc_runs' \in Seq(Chat!LaneRuns) /\ Len(cc_runs') = Len(cc_runs)
      /\ \A x \in 1..Len(cc_runs) : cc_runs'[x] = IF x = N THEN new ELSE cc_runs[x]
  BY <1>1, <1>4
<1>6. \A x \in 1..Len(cc_runs) :
              /\ cc_runs'[x].turn = cc_runs[x].turn
              /\ Len(cc_runs'[x].log) = IF x = Len(cc_runs) THEN Len(cc_runs[x].log) + 1
                                        ELSE Len(cc_runs[x].log)
  <2> TAKE x \in 1..Len(cc_runs)
  <2>1. cc_runs'[x] = IF x = N THEN new ELSE cc_runs[x]
    BY <1>5
  <2>2. CASE x = N
    BY <1>3, <2>1, <2>2
  <2>3. CASE x # N
    BY <2>1, <2>3
  <2> QED
    BY <2>2, <2>3
<1>7. Grows /\ ChatTurns'
  BY <1>1, <1>5, <1>6, MoreUnits
<1> QED
  BY <1>1, <1>5, <1>6, <1>7

LEMMA AppendedKept ==
    ASSUME Chat!ChatContextAssumption, ChatIInv, NEW a \in {1, 2}, NEW entry \in {"open", "step", "steering"},
           Chat!Appended(a, entry), cc_newest' \in {cc_newest, "delivered"}, cc_at[a].pc \in {"begun", "sent"}
    PROVE  ChatIInv'
<1> USE DEF ChatIInv
<1> DEFINE N == Len(cc_runs)
<1>1. /\ Chat!Holds(a) /\ a = cc_holder /\ Len(cc_runs[N].log) < ChatUnits /\ N > 0
      /\ UNCHANGED <<cc_compactions, cc_holder>>
  BY DEF Chat!Appended, Chat!Holds, Chat!Active, Chat!Newest
<1>2. N \in 1..Len(cc_runs) /\ cc_runs \in Seq(Chat!LaneRuns) /\ cc_at[a] \in ChatAttempts
  BY <1>1 DEF ChatRows
<1>3. PICK log : log = Append(cc_runs[N].log, entry)
  OBVIOUS
<1>4. PICK new : new = [cc_runs[N] EXCEPT !.log = log]
  OBVIOUS
<1>5. /\ new \in [turn : Nat, status : {"active", "failed", "completed"},
                   log : Seq({"open", "step", "steering"})]
      /\ new.turn = cc_runs[N].turn /\ new.log = log
  <2>1. log \in Seq({"open", "step", "steering"})
    BY <1>2, <1>3, RunsAre
  <2>2. cc_runs[N] \in Chat!LaneRuns /\ cc_runs[N].turn \in Nat
    BY <1>2, RunsAre
  <2> QED
    BY <1>4, <2>1, <2>2 DEF Chat!LaneRuns
<1>6. cc_runs' = [cc_runs EXCEPT ![N] = new]
  BY <1>3, <1>4 DEF Chat!Appended, Chat!Newest
<1>7. /\ Grows /\ ChatTurns'
      /\ cc_runs' \in Seq(Chat!LaneRuns) /\ Len(cc_runs') = Len(cc_runs)
      /\ Len(cc_runs'[N].log) = Len(cc_runs[N].log) + 1
  BY <1>1, <1>3, <1>5, <1>6, AppendedRuns
<1>8. cc_at[a].upto = Len(cc_runs[N].log) /\ Len(cc_runs[N].log) \in Nat
  BY <1>1, <1>2, RunsAre DEF ChatCurrent, Current
<1>9. PICK upto \in Nat : upto = cc_at[a].upto + 1
  BY <1>8
<1>10. PICK r : r = Chat!Begun(N, upto)
  OBVIOUS
<1>11. cc_at' = [cc_at EXCEPT ![a] = r]
  BY <1>9, <1>10 DEF Chat!Appended, Chat!Newest
<1>12. r \in ChatAttempts /\ Knows(r)' /\ r.pc = "begun" /\ r.upto = upto
  BY <1>2, <1>7, <1>8, <1>9, <1>10, BegunKnows
<1>13. ChatKnown' /\ cc_at' \in [{1, 2} -> ChatAttempts] /\ cc_at'[a] = r
  BY <1>7, <1>11, <1>12, ChatKnownStep
<1>14. ChatRows'
  BY <1>1, <1>7, <1>13 DEF ChatRows
<1>15. ChatCompacted'
  BY <1>1, <1>7, ChatKeeps
<1>16. ChatCurrent'
  BY <1>1, <1>7, <1>8, <1>9, <1>12, <1>13 DEF ChatCurrent, Current, Projected
<1> QED
  BY <1>7, <1>13, <1>14, <1>15, <1>16

LEMMA PublishKept ==
    ASSUME Chat!ChatContextAssumption, ChatIInv, NEW a \in {1, 2}, Chat!PublishFinal(a)
    PROVE  ChatIInv'
<1> USE DEF ChatIInv
<1> DEFINE N == Len(cc_runs)
<1>1. /\ Len(cc_runs[N].log) < ChatUnits /\ N > 0
      /\ UNCHANGED <<cc_compactions, cc_holder>> /\ cc_newest' = "answer"
  BY DEF Chat!PublishFinal, Chat!Holds, Chat!Active, Chat!Newest
<1>2. N \in 1..Len(cc_runs) /\ cc_runs \in Seq(Chat!LaneRuns)
  BY <1>1 DEF ChatRows
<1>3. PICK log : log = Append(cc_runs[N].log, "step")
  OBVIOUS
<1>4. PICK new : new = [cc_runs[N] EXCEPT !.log = log, !.status = "completed"]
  OBVIOUS
<1>5. /\ new \in [turn : Nat, status : {"active", "failed", "completed"},
                   log : Seq({"open", "step", "steering"})]
      /\ new.turn = cc_runs[N].turn /\ new.log = log /\ new.status = "completed"
  <2>1. log \in Seq({"open", "step", "steering"})
    BY <1>2, <1>3, RunsAre
  <2>2. cc_runs[N] \in Chat!LaneRuns /\ cc_runs[N].turn \in Nat
    BY <1>2, RunsAre
  <2> QED
    BY <1>4, <2>1, <2>2 DEF Chat!LaneRuns
<1>6. cc_runs' = [cc_runs EXCEPT ![N] = new]
  <2>1. cc_runs' = [cc_runs EXCEPT ![N].log = Append(@, "step"), ![N].status = "completed"]
    BY DEF Chat!PublishFinal, Chat!Newest
  <2> QED
    BY <1>2, <1>3, <1>4, <2>1
<1>7. /\ Grows /\ ChatTurns'
      /\ cc_runs' \in Seq(Chat!LaneRuns) /\ Len(cc_runs') = Len(cc_runs)
      /\ cc_runs'[N] = new
  BY <1>1, <1>3, <1>5, <1>6, AppendedRuns
<1>8. PICK r : r = Chat!NoAttempt
  OBVIOUS
<1>9. cc_at' = [cc_at EXCEPT ![a] = r]
  BY <1>8 DEF Chat!PublishFinal, Chat!Gone
<1>10. r \in ChatAttempts /\ Knows(r)'
  BY <1>8, GoneKnows
<1>11. ChatKnown' /\ cc_at' \in [{1, 2} -> ChatAttempts]
  BY <1>7, <1>9, <1>10, ChatKnownStep
<1>12. ChatRows'
  BY <1>1, <1>7, <1>11 DEF ChatRows
<1>13. ChatCompacted'
  BY <1>1, <1>7, ChatKeeps
<1>14. ChatCurrent'
  BY <1>5, <1>7 DEF ChatCurrent, Chat!Holds, Chat!Active, Chat!Newest
<1> QED
  BY <1>7, <1>11, <1>12, <1>13, <1>14

(* A step of one Attempt that adds no unit.                                *)
LEMMA AttemptStep ==
    ASSUME Chat!ChatContextAssumption, ChatIInv, NEW a \in {1, 2}, NEW r \in ChatAttempts,
           cc_at' = [cc_at EXCEPT ![a] = r], r.run = cc_at[a].run, Knows(r)',
           Chat!Holds(a) => Current(r),
           Grows, Whole' = Whole, ChatTurns', ChatCompacted',
           cc_runs' \in Seq(Chat!LaneRuns), Len(cc_runs') = Len(cc_runs),
           \A x \in 1..Len(cc_runs) : /\ cc_runs'[x].status = cc_runs[x].status
                                      /\ Len(cc_runs'[x].log) = Len(cc_runs[x].log),
           cc_compactions' \in Seq(ChatSummary), UNCHANGED <<cc_newest, cc_holder>>
    PROVE  ChatIInv'
<1> USE DEF ChatIInv
<1>1. ChatKnown' /\ cc_at' \in [{1, 2} -> ChatAttempts] /\ cc_at'[a] = r
      /\ \A b \in {1, 2} : b # a => cc_at'[b] = cc_at[b]
  BY ChatKnownStep
<1>2. ChatRows'
  BY <1>1 DEF ChatRows
<1>3. Len(cc_runs) > 0 => Len(cc_runs) \in 1..Len(cc_runs)
  BY DEF ChatRows
<1>4. cc_holder \in {1, 2}
  BY DEF ChatRows
<1>5. ChatCurrent'
  <2> SUFFICES ASSUME Chat!Holds(cc_holder)' PROVE Current(cc_at[cc_holder])'
    BY DEF ChatCurrent
  <2>1. Len(cc_runs) > 0 /\ Len(cc_runs) \in 1..Len(cc_runs)
    BY <1>3 DEF Chat!Holds, Chat!Active, Chat!Newest
  <2>2. cc_runs[Len(cc_runs)].status = "active" /\ cc_at'[cc_holder].run = Len(cc_runs)
    BY <2>1 DEF Chat!Holds, Chat!Active, Chat!Newest
  <2>3. Chat!Holds(cc_holder)
    BY <1>1, <1>4, <2>1, <2>2 DEF Chat!Holds, Chat!Active, Chat!Newest
  <2>4. Current(cc_at'[cc_holder])
    BY <1>1, <1>4, <2>3 DEF ChatCurrent
  <2> QED
    BY <2>1, <2>4 DEF Current
<1> QED
  BY <1>1, <1>2, <1>5

(* Such a step with the same Runs and compactions.                         *)
LEMMA ChatQuietStep ==
    ASSUME Chat!ChatContextAssumption, ChatIInv, NEW a \in {1, 2}, NEW r \in ChatAttempts,
           cc_at' = [cc_at EXCEPT ![a] = r], r.run = cc_at[a].run, Knows(r),
           Chat!Holds(a) => Current(r),
           UNCHANGED <<cc_runs, cc_newest, cc_compactions, cc_holder>>
    PROVE  ChatIInv'
<1>1. Grows /\ ChatTurns' /\ Whole' = Whole
  BY SameRuns DEF ChatIInv, ChatRows
<1>2. Knows(r)'
  BY <1>1, KnowsStays DEF ChatIInv
<1>3. ChatCompacted'
  BY <1>1, ChatKeeps
<1> QED
  BY <1>1, <1>2, <1>3, AttemptStep DEF ChatIInv, ChatRows

(* A batch whose Results are stored, or that the end of its Run left open. *)
LEMMA ClosedRun ==
    ASSUME Chat!ChatContextAssumption, ChatRows, NEW x \in 1..Len(cc_runs), Chat!Open(x),
           NEW new, new = [cc_runs[x] EXCEPT !.log[Len(cc_runs[x].log)] = "step"]
    PROVE  /\ new \in Chat!LaneRuns /\ new.turn = cc_runs[x].turn
           /\ new.status = cc_runs[x].status /\ Len(new.log) = Len(cc_runs[x].log)
<1>1. /\ cc_runs[x].turn \in 1..ChatRuns
      /\ cc_runs[x].status \in {"active", "failed", "completed"}
      /\ cc_runs[x].log \in Seq({"open", "step", "steering"})
      /\ Len(cc_runs[x].log) \in 0..ChatUnits /\ ChatUnits \in Nat
      /\ cc_runs[x] \in Chat!LaneRuns
  BY RunsAre DEF Chat!ChatContextAssumption
<1>2. PICK old : old = cc_runs[x].log
  OBVIOUS
<1>3. PICK log : log = [old EXCEPT ![Len(old)] = "step"]
  OBVIOUS
<1>4. old \in Seq({"open", "step", "steering"}) /\ Len(old) \in 1..Len(old) /\ Len(old) <= ChatUnits
  BY <1>1, <1>2 DEF Chat!Open
<1>5. log \in Seq({"open", "step", "steering"}) /\ Len(log) = Len(old)
  <2>1. PICK n \in 1..Len(old) : n = Len(old)
    BY <1>4
  <2>2. log = [old EXCEPT ![n] = "step"]
    BY <1>3, <2>1
  <2> QED
    BY <1>4, <2>2, Replaced
<1>6. log \in UNION {[1..n -> {"open", "step", "steering"}] : n \in 0..ChatUnits}
  BY <1>4, <1>5, LogIs
<1>7. new = [cc_runs[x] EXCEPT !.log = log]
  BY <1>2, <1>3
<1>8. new.turn = cc_runs[x].turn /\ new.status = cc_runs[x].status /\ new.log = log
  BY <1>1, <1>7 DEF Chat!LaneRuns
<1>9. new \in Chat!LaneRuns
  BY <1>1, <1>6, <1>7 DEF Chat!LaneRuns
<1> QED
  BY <1>2, <1>5, <1>8, <1>9

LEMMA CompleteKept ==
    ASSUME Chat!ChatContextAssumption, ChatIInv, NEW a \in {1, 2}, Chat!CompleteBatch(a)
    PROVE  ChatIInv'
<1> USE DEF ChatIInv
<1> DEFINE N == Len(cc_runs)
<1>1. /\ UNCHANGED <<cc_newest, cc_compactions, cc_at, cc_holder>> /\ Chat!Open(N)
      /\ cc_runs' = [cc_runs EXCEPT ![N].log[Len(cc_runs[N].log)] = "step"]
      /\ N > 0
  BY DEF Chat!CompleteBatch, Chat!Holds, Chat!Active, Chat!Newest
<1>2. N \in 1..Len(cc_runs) /\ cc_runs \in Seq(Chat!LaneRuns)
  BY <1>1 DEF ChatRows
<1>3. PICK new : new = [cc_runs[N] EXCEPT !.log[Len(cc_runs[N].log)] = "step"]
  OBVIOUS
<1>4. /\ new \in Chat!LaneRuns /\ new.turn = cc_runs[N].turn
      /\ new.status = cc_runs[N].status /\ Len(new.log) = Len(cc_runs[N].log)
  BY <1>1, <1>2, <1>3, ClosedRun
<1>5. PICK rs : rs = [cc_runs EXCEPT ![N] = new]
  OBVIOUS
<1>6. cc_runs' = rs
  BY <1>1, <1>3, <1>5
<1>7. /\ rs \in Seq(Chat!LaneRuns) /\ Len(rs) = Len(cc_runs)
      /\ \A x \in 1..Len(cc_runs) : rs[x] = IF x = N THEN new ELSE cc_runs[x]
  BY <1>2, <1>4, <1>5, Replaced
<1>8. \A x \in 1..Len(cc_runs) : /\ cc_runs'[x].status = cc_runs[x].status
                                 /\ cc_runs'[x].turn = cc_runs[x].turn
                                 /\ Len(cc_runs'[x].log) = Len(cc_runs[x].log)
  BY <1>4, <1>6, <1>7
<1>9. Whole' = Whole /\ Grows /\ ChatTurns'
  BY <1>1, <1>6, <1>7, <1>8, SameRuns
<1>10. ChatCompacted' /\ \A b \in {1, 2} : Knows(cc_at[b])'
  BY <1>1, <1>9, ChatKeeps
<1>11. ChatRows'
  BY <1>1, <1>6, <1>7 DEF ChatRows
<1>12. ChatCurrent'
  <2>1. Chat!Holds(cc_holder)' => Chat!Holds(cc_holder)
    BY <1>1, <1>2, <1>6, <1>7, <1>8 DEF Chat!Holds, Chat!Active, Chat!Newest
  <2>2. Current(cc_at[cc_holder]) => Current(cc_at[cc_holder])'
    BY <1>1, <1>2, <1>6, <1>7, <1>8, <1>9 DEF Current
  <2> QED
    BY <1>1, <2>1, <2>2 DEF ChatCurrent
<1> QED
  BY <1>9, <1>10, <1>11, <1>12 DEF ChatKnown

LEMMA ProjectKept ==
    ASSUME Chat!ChatContextAssumption, ChatIInv, NEW a \in {1, 2}, Chat!Project(a)
    PROVE  ChatIInv'
<1> USE DEF ChatIInv
<1> DEFINE N == Len(cc_runs)
           Ended(x) == x # cc_at[a].run /\ cc_runs[x].status # "active" /\ Chat!Open(x)
           Closed(x) == [cc_runs[x] EXCEPT !.log[Len(cc_runs[x].log)] = "step"]
<1>1. /\ cc_at[a].pc = "begun" /\ UNCHANGED <<cc_newest, cc_compactions, cc_holder>>
      /\ cc_runs' = [x \in 1..N |-> IF Ended(x) THEN Closed(x) ELSE cc_runs[x]]
      /\ cc_at' = [cc_at EXCEPT ![a].pc = "projected", ![a].lane = Chat!Lane(cc_at[a].run, cc_at[a].upto)]
  BY DEF Chat!Project
<1>2. N \in Nat /\ cc_runs \in Seq(Chat!LaneRuns) /\ cc_at \in [{1, 2} -> ChatAttempts]
      /\ cc_compactions \in Seq(ChatSummary)
  BY DEF ChatRows
<1>3. \A x \in 1..N : cc_runs'[x] = IF Ended(x) THEN Closed(x) ELSE cc_runs[x]
  BY <1>1
<1>4. ASSUME NEW x \in 1..N
      PROVE  /\ cc_runs'[x] \in Chat!LaneRuns /\ cc_runs'[x].turn = cc_runs[x].turn
             /\ cc_runs'[x].status = cc_runs[x].status
             /\ Len(cc_runs'[x].log) = Len(cc_runs[x].log)
  <2>1. CASE Ended(x)
    <3>1. PICK new : new = Closed(x)
      OBVIOUS
    <3>2. cc_runs'[x] = new
      BY <1>3, <2>1, <3>1
    <3> QED
      BY <2>1, <3>1, <3>2, ClosedRun
  <2>2. CASE ~Ended(x)
    <3>1. cc_runs'[x] = cc_runs[x]
      BY <1>3, <2>2
    <3> QED
      BY <1>2, <3>1
  <2> QED
    BY <2>1, <2>2
<1>5. cc_runs' \in Seq(Chat!LaneRuns) /\ Len(cc_runs') = Len(cc_runs)
  <2>1. PICK rs : rs = cc_runs'
    OBVIOUS
  <2>2. rs \in [1..N -> Chat!LaneRuns]
    <3>1. DOMAIN rs = 1..N /\ rs = [x \in 1..N |-> rs[x]]
      BY <1>1, <2>1
    <3>2. \A x \in 1..N : rs[x] \in Chat!LaneRuns
      BY <1>4, <2>1
    <3> QED
      BY <3>1, <3>2
  <2>3. rs \in Seq(Chat!LaneRuns) /\ Len(rs) = N
    BY <1>2, <2>2
  <2> QED
    BY <2>1, <2>3
<1>6. Whole' = Whole /\ Grows /\ ChatTurns'
  BY <1>1, <1>4, <1>5, SameRuns
<1>7. PICK lane : lane = Chat!Lane(cc_at[a].run, cc_at[a].upto)
  OBVIOUS
<1>8. PICK r : r = [cc_at[a] EXCEPT !.pc = "projected", !.lane = lane]
  OBVIOUS
<1>9. cc_at' = [cc_at EXCEPT ![a] = r]
  BY <1>1, <1>2, <1>7, <1>8
<1>10. cc_at[a].run \in 1..Len(cc_runs) /\ cc_at[a].upto \in 0..Len(cc_runs[cc_at[a].run].log)
  <2>1. cc_at[a].run \in 1..Len(cc_runs) /\ cc_at[a].upto <= Len(cc_runs[cc_at[a].run].log)
    BY <1>1 DEF ChatKnown, Knows
  <2>2. cc_at[a].upto \in Nat
    BY <1>2 DEF ChatAttempts
  <2>3. Len(cc_runs[cc_at[a].run].log) \in Nat
    BY <2>1, RunsAre
  <2> QED
    BY <2>1, <2>2, <2>3
<1>11. Begins(lane) /\ (cc_at[a].run = N /\ cc_at[a].upto = Len(cc_runs[N].log) => lane = Whole)
  <2>1. PICK run \in 1..Len(cc_runs) : run = cc_at[a].run
    BY <1>10
  <2>2. PICK upto \in 0..Len(cc_runs[run].log) : upto = cc_at[a].upto
    BY <1>10, <2>1
  <2>3. lane = Chat!Lane(run, upto)
    BY <1>7, <2>1, <2>2
  <2>4. /\ Begins(Chat!Lane(run, upto))
        /\ run = Len(cc_runs) /\ upto = Len(cc_runs[run].log) => Chat!Lane(run, upto) = Whole
    BY LaneBegins
  <2> QED
    BY <2>1, <2>2, <2>3, <2>4
<1>12. lane \subseteq Chat!Units
  BY <1>11 DEF Begins, Whole
<1>13. /\ r \in ChatAttempts /\ r.pc = "projected" /\ r.lane = lane
       /\ r.run = cc_at[a].run /\ r.upto = cc_at[a].upto
  <2>1. cc_at[a] \in ChatAttempts
    BY <1>2
  <2> QED
    BY <1>8, <1>12, <2>1 DEF ChatAttempts, Projected
<1>14. Knows(r)
  BY <1>10, <1>11, <1>13 DEF Knows
<1>15. Knows(r)'
  BY <1>6, <1>13, <1>14, KnowsStays
<1>16. Chat!Holds(a) => Current(r)
  BY <1>11, <1>13 DEF ChatCurrent, Current, Chat!Holds, Chat!Active, Chat!Newest
<1>17. ChatCompacted'
  BY <1>1, <1>6, ChatKeeps
<1> HIDE DEF Ended, Closed
<1> QED
  BY <1>1, <1>2, <1>4, <1>5, <1>6, <1>9, <1>13, <1>15, <1>16, <1>17, AttemptStep

(* A compaction that stands applies to a beginning that has its suffix.    *)
LEMMA StandingApplies ==
    ASSUME Chat!ChatContextAssumption, NEW c, Stands(c), NEW lane, Begins(lane), c.suffix \in lane
    PROVE  Chat!Applies(c, lane)
<1>1. c.through \in lane /\ Chat!Before(c.through, c.suffix)
  BY DEF Stands, Begins
<1>2. lane \subseteq Whole /\ lane \subseteq Chat!Units
  BY DEF Begins, Whole
<1>3. PICK t : t = Chat!Through(lane, c.suffix)
  OBVIOUS
<1>4. t \in lane /\ Chat!Before(t, c.suffix) /\ \A v \in lane : Chat!Before(v, c.suffix) => ~Chat!Before(t, v)
  BY <1>1, <1>2, <1>3, ThroughInLane
<1>5. ~Chat!Before(c.through, t) /\ ~Chat!Before(t, c.through)
  BY <1>1, <1>2, <1>4 DEF Stands
<1>6. t = c.through
  BY <1>1, <1>2, <1>4, <1>5, UnitsAre, UnitsOrdered
<1> QED
  BY <1>1, <1>3, <1>6 DEF Chat!Applies

LEMMA AttemptIs ==
    ASSUME ChatIInv, NEW a \in {1, 2}
    PROVE  /\ cc_at[a] \in ChatAttempts /\ Knows(cc_at[a])
           /\ Chat!Holds(a) => Current(cc_at[a])
           /\ cc_at \in [{1, 2} -> ChatAttempts]
           /\ cc_compactions \in Seq(ChatSummary) /\ Len(cc_compactions) \in Nat
  BY DEF ChatIInv, ChatRows, ChatKnown, ChatCurrent, Chat!Holds

LEMMA LoadKept ==
    ASSUME Chat!ChatContextAssumption, ChatIInv, NEW a \in {1, 2}, Chat!LoadLatest(a)
    PROVE  ChatIInv'
<1> DEFINE n == Len(cc_compactions)
           pc == IF n = 0 \/ Chat!Applies(cc_compactions[n], cc_at[a].lane) THEN "loaded" ELSE "broken"
<1>1. /\ cc_at[a].pc = "projected"
      /\ cc_at' = [cc_at EXCEPT ![a].latest = n, ![a].pc = pc]
      /\ UNCHANGED <<cc_runs, cc_newest, cc_compactions, cc_holder>>
  BY DEF Chat!LoadLatest
<1>2. /\ cc_at[a] \in ChatAttempts /\ Knows(cc_at[a])
      /\ Chat!Holds(a) => Current(cc_at[a])
      /\ cc_at \in [{1, 2} -> ChatAttempts]
      /\ cc_compactions \in Seq(ChatSummary) /\ n \in Nat
  BY AttemptIs
<1>3. PICK q : q = pc
  OBVIOUS
<1>4. PICK r : r = [cc_at[a] EXCEPT !.latest = n, !.pc = q]
  OBVIOUS
<1>5. cc_at' = [cc_at EXCEPT ![a] = r]
  BY <1>1, <1>2, <1>3, <1>4
<1>6. q \in {"loaded", "broken"}
  BY <1>3
<1>7. /\ r \in ChatAttempts /\ r.pc = q /\ r.latest = n /\ r.lane = cc_at[a].lane
      /\ r.run = cc_at[a].run /\ r.upto = cc_at[a].upto
  BY <1>2, <1>4, <1>6 DEF ChatAttempts, Projected
<1>8. q = "loaded" /\ n # 0 => cc_compactions[n].suffix \in cc_at[a].lane
  BY <1>3 DEF Chat!Applies
<1>9. Knows(r)
  BY <1>1, <1>2, <1>6, <1>7, <1>8 DEF Knows, Projected
<1>10. ASSUME Chat!Holds(a) PROVE Current(r)
  <2>1. /\ cc_at[a].lane = Whole
        /\ cc_at[a].upto = Len(cc_runs[Len(cc_runs)].log)
    BY <1>1, <1>2, <1>10 DEF Current, Projected
  <2>2. q = "loaded"
    <3>1. CASE n = 0
      BY <1>3, <3>1
    <3>2. CASE n # 0
      <4>1. PICK c : c = cc_compactions[n]
        OBVIOUS
      <4>2. Stands(c)
        BY <1>2, <3>2, <4>1 DEF ChatIInv, ChatCompacted
      <4>3. Begins(cc_at[a].lane) /\ c.suffix \in cc_at[a].lane
        BY <2>1, <4>2 DEF Begins, Stands
      <4>4. Chat!Applies(c, cc_at[a].lane)
        BY <4>2, <4>3, StandingApplies
      <4> QED
        BY <1>3, <4>1, <4>4
    <3> QED
      BY <3>1, <3>2
  <2> QED
    BY <1>7, <2>1, <2>2 DEF Current
<1> QED
  BY <1>1, <1>5, <1>7, <1>9, <1>10, ChatQuietStep

LEMMA OverflowKept ==
    ASSUME Chat!ChatContextAssumption, ChatIInv, NEW a \in {1, 2}, Chat!ProviderOverflow(a)
    PROVE  ChatIInv'
<1>1. /\ cc_at[a].pc = "sent"
      /\ cc_at' = [cc_at EXCEPT ![a] = [Chat!Begun(cc_at[a].run, cc_at[a].upto) EXCEPT !.forced = TRUE]]
      /\ UNCHANGED <<cc_runs, cc_newest, cc_compactions, cc_holder>>
  BY AttemptIs DEF Chat!ProviderOverflow
<1>2. cc_at[a] \in ChatAttempts /\ Knows(cc_at[a]) /\ (Chat!Holds(a) => Current(cc_at[a]))
  BY AttemptIs
<1>3. PICK r : r = [Chat!Begun(cc_at[a].run, cc_at[a].upto) EXCEPT !.forced = TRUE]
  OBVIOUS
<1>4. r \in ChatAttempts /\ r.pc = "begun" /\ r.run = cc_at[a].run /\ r.upto = cc_at[a].upto
  BY <1>2, <1>3 DEF Chat!Begun, Chat!NoSummary, Chat!NoUnit, ChatAttempts, ChatSummary, Triples, Projected
<1>5. Knows(r)
  BY <1>1, <1>2, <1>4 DEF Knows, Projected
<1>6. Chat!Holds(a) => Current(r)
  BY <1>2, <1>4 DEF Current, Projected
<1> QED
  BY <1>1, <1>3, <1>4, <1>5, <1>6, ChatQuietStep

LEMMA GoesKept ==
    ASSUME Chat!ChatContextAssumption, ChatIInv, NEW a \in {1, 2},
           Chat!CannotCompact(a) \/ Chat!CheckAuthority(a)
    PROVE  ChatIInv'
<1>1. PICK q \in {"exceeded", "checked"} :
         /\ Chat!Goes(a, q) /\ UNCHANGED <<cc_runs, cc_newest, cc_compactions, cc_holder>>
         /\ q = "exceeded" => cc_at[a].pc = "loaded"
         /\ q = "checked" => cc_at[a].pc = "summarised"
  BY DEF Chat!CannotCompact, Chat!CheckAuthority
<1>2. cc_at[a] \in ChatAttempts /\ Knows(cc_at[a]) /\ (Chat!Holds(a) => Current(cc_at[a]))
  BY AttemptIs
<1>3. PICK r : r = [cc_at[a] EXCEPT !.pc = q]
  OBVIOUS
<1>4. cc_at' = [cc_at EXCEPT ![a] = r]
  BY <1>1, <1>3 DEF Chat!Goes
<1>5. /\ r \in ChatAttempts /\ r.pc = q /\ r.run = cc_at[a].run /\ r.upto = cc_at[a].upto
      /\ r.lane = cc_at[a].lane /\ r.candidate = cc_at[a].candidate
  BY <1>2, <1>3 DEF ChatAttempts, Projected
<1>6. Knows(r)
  BY <1>1, <1>2, <1>5 DEF Knows, Projected
<1>7. Chat!Holds(a) => Current(r)
  BY <1>1, <1>2, <1>5 DEF Current, Projected
<1> QED
  BY <1>1, <1>4, <1>5, <1>6, <1>7, ChatQuietStep

(* The compaction an Attempt has loaded.                                   *)
LEMMA LatestIs ==
    ASSUME Chat!ChatContextAssumption, ChatIInv, NEW a \in {1, 2}, cc_at[a].pc = "loaded",
           NEW c, c = Chat!Latest(a)
    PROVE  /\ c \in ChatSummary
           /\ cc_at[a].latest = 0 => c = Chat!NoSummary
           /\ cc_at[a].latest # 0 => /\ cc_at[a].latest \in 1..Len(cc_compactions)
                                     /\ c = cc_compactions[cc_at[a].latest]
                                     /\ Stands(c) /\ c.suffix \in cc_at[a].lane
                                     /\ c # Chat!NoSummary
<1>1. /\ cc_at[a] \in ChatAttempts /\ Knows(cc_at[a])
      /\ cc_compactions \in Seq(ChatSummary) /\ Len(cc_compactions) \in Nat
  BY AttemptIs
<1>2. cc_at[a].latest \in Nat
  BY <1>1 DEF ChatAttempts
<1>3. CASE cc_at[a].latest = 0
  BY <1>3 DEF Chat!Latest, Chat!NoSummary, Chat!NoUnit, ChatSummary, Triples
<1>4. CASE cc_at[a].latest # 0
  <2>1. c = cc_compactions[cc_at[a].latest]
    BY <1>4 DEF Chat!Latest
  <2>2. cc_at[a].latest \in 1..Len(cc_compactions) /\ c.suffix \in cc_at[a].lane
    BY <1>1, <1>2, <1>4, <2>1 DEF Knows
  <2>3. Stands(c) /\ c \in ChatSummary
    BY <1>1, <2>1, <2>2 DEF ChatIInv, ChatCompacted
  <2>4. c.through \in c.covers
    BY <2>3 DEF Stands
  <2>5. c # Chat!NoSummary
    BY <2>4 DEF Chat!NoSummary
  <2> QED
    BY <1>4, <2>1, <2>2, <2>3, <2>5
<1> QED
  BY <1>3, <1>4

LEMMA SendKept ==
    ASSUME Chat!ChatContextAssumption, ChatIInv, NEW a \in {1, 2}, Chat!SendUncompacted(a)
    PROVE  ChatIInv'
<1>1. PICK c : c = Chat!Latest(a)
  OBVIOUS
<1>2. /\ cc_at[a].pc = "loaded"
      /\ cc_at' = [cc_at EXCEPT ![a].pc = "sent", ![a].candidate = c, ![a].latest = 0]
      /\ UNCHANGED <<cc_runs, cc_newest, cc_compactions, cc_holder>>
  BY <1>1 DEF Chat!SendUncompacted, Chat!Sends
<1>3. cc_at[a] \in ChatAttempts /\ Knows(cc_at[a]) /\ (Chat!Holds(a) => Current(cc_at[a]))
      /\ cc_at \in [{1, 2} -> ChatAttempts]
  BY AttemptIs
<1>4. c \in ChatSummary /\ (c = Chat!NoSummary \/ (Stands(c) /\ c.suffix \in cc_at[a].lane))
  <2>1. cc_at[a].pc = "loaded"
    BY <1>2
  <2>2. /\ c \in ChatSummary
        /\ cc_at[a].latest = 0 => c = Chat!NoSummary
        /\ cc_at[a].latest # 0 => Stands(c) /\ c.suffix \in cc_at[a].lane
    BY <1>1, <2>1, LatestIs
  <2> QED
    BY <2>2
<1>5. PICK r : r = [cc_at[a] EXCEPT !.pc = "sent", !.candidate = c, !.latest = 0]
  OBVIOUS
<1>6. cc_at' = [cc_at EXCEPT ![a] = r]
  BY <1>2, <1>3, <1>5
<1>7. /\ r \in ChatAttempts /\ r.pc = "sent" /\ r.run = cc_at[a].run /\ r.upto = cc_at[a].upto
      /\ r.lane = cc_at[a].lane /\ r.candidate = c
  BY <1>3, <1>4, <1>5 DEF ChatAttempts, Projected
<1>8. Knows(r)
  BY <1>2, <1>3, <1>4, <1>7 DEF Knows, Projected
<1>9. Chat!Holds(a) => Current(r)
  BY <1>2, <1>3, <1>7 DEF Current, Projected
<1> QED
  BY <1>2, <1>6, <1>7, <1>8, <1>9, ChatQuietStep

(* A summary of what the lane of the Attempt at work has before the cut.   *)
LEMMA CandidateStands ==
    ASSUME Chat!ChatContextAssumption, ChatIInv, NEW a \in {1, 2},
           cc_at[a].pc = "loaded", Chat!Advances(a), Chat!Holds(a),
           NEW cut, cut = Chat!Cut(cc_at[a].lane), NEW through, through = Chat!Through(cc_at[a].lane, cut),
           NEW covers, covers = Chat!SummaryInput(a)
    PROVE  /\ cut \in Whole /\ through \in Whole /\ Chat!Before(through, cut)
           /\ \A v \in Whole : Chat!Before(v, cut) => ~Chat!Before(through, v)
           /\ covers = {u \in Whole : Chat!Before(u, cut)}
           /\ cc_at[a].latest # 0 => Chat!Before(cc_compactions[cc_at[a].latest].suffix, cut)
<1>1. PICK lane : lane = cc_at[a].lane
  OBVIOUS
<1>2. lane = Whole
  BY <1>1, AttemptIs DEF Current, Projected
<1>3. lane \subseteq Chat!Units /\ lane \subseteq Triples
  BY <1>2, UnitsAre DEF Whole
<1>4. Chat!Suffix(lane, cut) # lane
  BY <1>1 DEF Chat!Advances, Chat!CanCut
<1>5. lane # {}
  BY <1>4 DEF Chat!Suffix
<1>6. cut \in lane
  BY <1>1, <1>3, <1>5, CutInLane
<1>7. PICK x \in lane : Chat!Before(x, cut)
  BY <1>4 DEF Chat!Suffix
<1>8. /\ through \in lane /\ Chat!Before(through, cut)
      /\ \A v \in lane : Chat!Before(v, cut) => ~Chat!Before(through, v)
  BY <1>1, <1>3, <1>6, <1>7, ThroughInLane
<1>9. PICK old : old = Chat!Latest(a)
  OBVIOUS
<1>10. /\ cc_at[a].latest = 0 => old = Chat!NoSummary
       /\ cc_at[a].latest # 0 => /\ old = cc_compactions[cc_at[a].latest]
                                 /\ Stands(old) /\ old # Chat!NoSummary
  BY <1>9, LatestIs
<1>11. cc_at[a].latest # 0 => Chat!Before(old.suffix, cut)
  BY <1>1, <1>9 DEF Chat!Advances
<1>12. PICK raw : raw = lane \ Chat!Suffix(lane, cut)
  OBVIOUS
<1>13. raw = {u \in lane : Chat!Before(u, cut)}
  BY <1>12 DEF Chat!Suffix
<1>14. covers = IF old = Chat!NoSummary THEN raw ELSE old.covers \union Chat!Suffix(raw, old.suffix)
  BY <1>1, <1>9, <1>12 DEF Chat!SummaryInput
<1>15. covers = {u \in lane : Chat!Before(u, cut)}
  <2>1. CASE cc_at[a].latest = 0
    BY <1>10, <1>13, <1>14, <2>1
  <2>2. CASE cc_at[a].latest # 0
    <3>1. covers = old.covers \union Chat!Suffix(raw, old.suffix)
      BY <1>10, <1>14, <2>2
    <3>2. old.covers = {u \in lane : Chat!Before(u, old.suffix)} /\ old.suffix \in lane
      BY <1>2, <1>10, <2>2 DEF Stands
    <3>3. Chat!Suffix(raw, old.suffix) = {u \in raw : ~Chat!Before(u, old.suffix)}
      BY DEF Chat!Suffix
    <3>4. \A u \in lane : Chat!Before(u, old.suffix) => Chat!Before(u, cut)
      BY <1>3, <1>6, <1>11, <2>2, <3>2, UnitsOrdered
    <3> QED
      BY <1>13, <3>1, <3>2, <3>3, <3>4
  <2> QED
    BY <2>1, <2>2
<1> QED
  BY <1>2, <1>6, <1>8, <1>10, <1>11, <1>15

LEMMA SummariseKept ==
    ASSUME Chat!ChatContextAssumption, ChatIInv, NEW a \in {1, 2}, NEW size \in ChatSummaries,
           Chat!Summarise(a, size)
    PROVE  ChatIInv'
<1>1. PICK cut : cut = Chat!Cut(cc_at[a].lane)
  OBVIOUS
<1>2. PICK through : through = Chat!Through(cc_at[a].lane, cut)
  OBVIOUS
<1>3. PICK covers : covers = Chat!SummaryInput(a)
  OBVIOUS
<1>4. PICK c : c = [covers |-> covers, size |-> size, pred |-> cc_at[a].latest,
                    through |-> through, suffix |-> cut]
  OBVIOUS
<1>5. PICK q : q = IF Chat!Estimate(c, cc_at[a].lane) <= ChatSafe
                      /\ Chat!Estimate(c, cc_at[a].lane) < Chat!Estimate(Chat!Latest(a), cc_at[a].lane)
                   THEN "summarised" ELSE "exceeded"
  OBVIOUS
<1>6. q \in {"summarised", "exceeded"}
  BY <1>5
<1>7. /\ cc_at[a].pc = "loaded" /\ Chat!Advances(a) /\ Chat!Holds(a)
      /\ cc_at' = [cc_at EXCEPT ![a].candidate = c, ![a].pc = q]
      /\ UNCHANGED <<cc_runs, cc_newest, cc_compactions, cc_holder>>
  BY <1>1, <1>2, <1>3, <1>4, <1>5 DEF Chat!Summarise
<1>8. cc_at[a] \in ChatAttempts /\ Knows(cc_at[a]) /\ Current(cc_at[a])
      /\ cc_at \in [{1, 2} -> ChatAttempts]
  BY <1>7, AttemptIs
<1>9. /\ cut \in Whole /\ through \in Whole /\ Chat!Before(through, cut)
      /\ \A v \in Whole : Chat!Before(v, cut) => ~Chat!Before(through, v)
      /\ covers = {u \in Whole : Chat!Before(u, cut)}
      /\ cc_at[a].latest # 0 => Chat!Before(cc_compactions[cc_at[a].latest].suffix, cut)
  BY <1>1, <1>2, <1>3, <1>7, CandidateStands
<1>10. /\ c.covers = covers /\ c.size = size /\ c.pred = cc_at[a].latest
       /\ c.through = through /\ c.suffix = cut
  BY <1>4
<1>11. c \in ChatSummary
  <2>1. covers \in SUBSET Chat!Units /\ cut \in Triples /\ through \in Triples
    BY <1>9, WholeTyped DEF Whole
  <2>2. size \in Nat
    BY DEF Chat!ChatContextAssumption
  <2>3. cc_at[a].latest \in Nat
    BY <1>8 DEF ChatAttempts
  <2> QED
    BY <1>4, <2>1, <2>2, <2>3 DEF ChatSummary
<1>12. Stands(c)
  BY <1>9, <1>10 DEF Stands
<1>13. PICK r : r = [cc_at[a] EXCEPT !.candidate = c, !.pc = q]
  OBVIOUS
<1>14. cc_at' = [cc_at EXCEPT ![a] = r]
  BY <1>7, <1>8, <1>13
<1>15. /\ r \in ChatAttempts /\ r.pc = q /\ r.run = cc_at[a].run /\ r.upto = cc_at[a].upto
       /\ r.lane = cc_at[a].lane /\ r.candidate = c
  BY <1>6, <1>8, <1>11, <1>13 DEF ChatAttempts, Projected
<1>16. r.lane = Whole /\ Begins(r.lane) /\ cc_at[a].latest <= Len(cc_compactions)
       /\ r.run \in 1..Len(cc_runs) /\ r.upto <= Len(cc_runs[r.run].log)
  BY <1>7, <1>8, <1>15 DEF Current, Knows, Projected
<1>17. Knows(r)
  BY <1>6, <1>9, <1>10, <1>12, <1>15, <1>16 DEF Knows, Projected
<1>18. Current(r)
  BY <1>6, <1>8, <1>15, <1>16 DEF Current
<1> QED
  BY <1>7, <1>14, <1>15, <1>17, <1>18, ChatQuietStep

(* Accepting a compaction: the one proposed, or the one that came first.   *)
LEMMA AppendKept ==
    ASSUME Chat!ChatContextAssumption, ChatIInv, NEW a \in {1, 2}, Chat!AppendContextCompaction(a)
    PROVE  ChatIInv'
<1> DEFINE n == Len(cc_compactions)
           first == n = cc_at[a].candidate.pred
<1>1. cc_at[a].pc = "checked" /\ UNCHANGED <<cc_runs, cc_newest, cc_holder>>
  BY DEF Chat!AppendContextCompaction
<1>2. /\ cc_at[a] \in ChatAttempts /\ Knows(cc_at[a])
      /\ Chat!Holds(a) => Current(cc_at[a])
      /\ cc_at \in [{1, 2} -> ChatAttempts]
      /\ cc_compactions \in Seq(ChatSummary) /\ n \in Nat
  BY AttemptIs
<1>3. PICK c : c = IF first THEN cc_at[a].candidate ELSE cc_compactions[n]
  OBVIOUS
<1>4. cc_compactions' = IF first THEN Append(cc_compactions, c) ELSE cc_compactions
  BY <1>3 DEF Chat!AppendContextCompaction
<1>5. /\ Begins(cc_at[a].lane) /\ Stands(cc_at[a].candidate)
      /\ cc_at[a].candidate.suffix \in cc_at[a].lane /\ cc_at[a].candidate.size \in ChatSummaries
      /\ cc_at[a].candidate.pred <= n /\ cc_at[a].candidate.pred \in Nat
      /\ cc_at[a].candidate \in ChatSummary
      /\ cc_at[a].candidate.pred # 0 =>
           Chat!Before(cc_compactions[cc_at[a].candidate.pred].suffix, cc_at[a].candidate.suffix)
  BY <1>1, <1>2 DEF Knows, ChatAttempts, ChatSummary, Projected
<1>6. c \in ChatSummary /\ Stands(c)
  <2>1. CASE first
    BY <1>3, <1>5, <2>1
  <2>2. CASE ~first
    <3>1. n \in 1..Len(cc_compactions) /\ c = cc_compactions[n]
      BY <1>2, <1>3, <1>5, <2>2
    <3> QED
      BY <1>2, <3>1 DEF ChatIInv, ChatCompacted
  <2> QED
    BY <2>1, <2>2
<1>7. /\ cc_compactions' \in Seq(ChatSummary) /\ n <= Len(cc_compactions')
      /\ \A i \in 1..n : cc_compactions'[i] = cc_compactions[i]
  BY <1>2, <1>4, <1>6
<1>8. ChatTurns' /\ Whole' = Whole
  BY <1>1 DEF ChatIInv, ChatTurns, Whole, LastTurn
<1>9. Grows
  <2>1. \A x \in 1..Len(cc_runs) : Len(cc_runs[x].log) \in Nat
    BY RunsAre DEF ChatIInv
  <2> QED
    BY <1>1, <1>7, <1>8, <2>1 DEF Grows, ChatIInv, ChatRows
<1>10. ASSUME NEW d, Stands(d) PROVE Stands(d)'
  BY <1>9, <1>10, StandsStays
<1>11. ChatCompacted'
  <2>1. CASE first
    <3>1. Len(cc_compactions') = n + 1 /\ cc_compactions'[n + 1] = c /\ c = cc_at[a].candidate
      BY <1>2, <1>3, <1>4, <1>6, <2>1
    <3>2. \A i \in 1..n + 1 : i \in 1..n \/ i = n + 1
      BY <1>2
    <3>3. ASSUME NEW i \in 1..n + 1
          PROVE  Stands(cc_compactions[i])' /\ cc_compactions'[i].size \in ChatSummaries
      <4>1. PICK d : d = cc_compactions'[i]
        OBVIOUS
      <4>2. Stands(d) /\ d.size \in ChatSummaries
        <5>1. CASE i \in 1..n
          BY <1>7, <4>1, <5>1 DEF ChatIInv, ChatCompacted
        <5>2. CASE i = n + 1
          BY <1>5, <1>6, <3>1, <4>1, <5>2
        <5> QED
          BY <3>2, <5>1, <5>2
      <4>3. Stands(d)'
        BY <1>10, <4>2
      <4> QED
        BY <4>1, <4>2, <4>3 DEF Stands
    <3>4. ASSUME NEW i \in 1..n + 1
          PROVE  /\ cc_compactions'[i].pred = i - 1
                 /\ i > 1 => Chat!Before(cc_compactions'[i - 1].suffix, cc_compactions'[i].suffix)
      <4>1. CASE i \in 1..n
        <5>1. i > 1 => i - 1 \in 1..n
          BY <1>2
        <5> QED
          BY <1>7, <4>1, <5>1 DEF ChatIInv, ChatCompacted
      <4>2. CASE i = n + 1
        <5>1. cc_compactions'[i].pred = i - 1
          BY <1>2, <2>1, <3>1, <4>2
        <5>2. ASSUME i > 1 PROVE Chat!Before(cc_compactions'[i - 1].suffix, cc_compactions'[i].suffix)
          <6>1. i - 1 = n /\ n \in 1..n /\ n # 0
            BY <1>2, <4>2, <5>2
          <6>2. Chat!Before(cc_compactions[n].suffix, c.suffix)
            BY <1>5, <2>1, <3>1, <6>1
          <6> QED
            BY <1>7, <3>1, <4>2, <6>1, <6>2
        <5> QED
          BY <5>1, <5>2
      <4> QED
        BY <3>2, <4>1, <4>2
    <3> QED
      BY <3>1, <3>3, <3>4 DEF ChatCompacted
  <2>2. CASE ~first
    BY <1>4, <1>9, <2>2, ChatKeeps
  <2> QED
    BY <2>1, <2>2
<1>12. PICK q \in {"broken", "exceeded", "sent"} :
          /\ cc_at' = IF q = "sent" THEN [cc_at EXCEPT ![a].pc = q, ![a].candidate = c, ![a].latest = 0]
                      ELSE [cc_at EXCEPT ![a].pc = q]
          /\ q = "broken" <=> ~Chat!Applies(c, cc_at[a].lane)
  <2>1. /\ ~Chat!Applies(c, cc_at[a].lane) => Chat!Goes(a, "broken")
        /\ Chat!Applies(c, cc_at[a].lane) => Chat!Goes(a, "exceeded") \/ Chat!Sends(a, c)
    BY <1>3 DEF Chat!AppendContextCompaction
  <2>2. CASE ~Chat!Applies(c, cc_at[a].lane)
    BY <2>1, <2>2 DEF Chat!Goes
  <2>3. CASE Chat!Applies(c, cc_at[a].lane) /\ Chat!Goes(a, "exceeded")
    BY <2>3 DEF Chat!Goes
  <2>4. CASE Chat!Applies(c, cc_at[a].lane) /\ Chat!Sends(a, c)
    BY <2>4 DEF Chat!Sends
  <2> QED
    BY <2>1, <2>2, <2>3, <2>4
<1>13. PICK r : r = IF q = "sent" THEN [cc_at[a] EXCEPT !.pc = q, !.candidate = c, !.latest = 0]
                    ELSE [cc_at[a] EXCEPT !.pc = q]
  OBVIOUS
<1>14. cc_at' = [cc_at EXCEPT ![a] = r]
  <2>1. CASE q = "sent"
    BY <1>2, <1>12, <1>13, <2>1
  <2>2. CASE q # "sent"
    BY <1>2, <1>12, <1>13, <2>2
  <2> QED
    BY <2>1, <2>2
<1>15. /\ r \in ChatAttempts /\ r.pc = q /\ r.run = cc_at[a].run /\ r.upto = cc_at[a].upto
       /\ r.lane = cc_at[a].lane /\ (q = "sent" => r.candidate = c)
  <2>1. CASE q = "sent"
    BY <1>2, <1>6, <1>13, <2>1 DEF ChatAttempts, Projected
  <2>2. CASE q # "sent"
    BY <1>2, <1>12, <1>13, <2>2 DEF ChatAttempts, Projected
  <2> QED
    BY <2>1, <2>2
<1>16. q = "sent" => Stands(r.candidate) /\ r.candidate.suffix \in r.lane
  <2> SUFFICES ASSUME q = "sent" PROVE Stands(r.candidate) /\ r.candidate.suffix \in r.lane
    OBVIOUS
  <2>1. c.suffix \in cc_at[a].lane
    BY <1>12 DEF Chat!Applies
  <2> QED
    BY <1>6, <1>15, <2>1
<1>17. Knows(r)
  BY <1>1, <1>2, <1>12, <1>15, <1>16 DEF Knows, Projected
<1>18. Knows(r)'
  BY <1>9, <1>15, <1>17, KnowsStays DEF ChatIInv
<1>19. ASSUME Chat!Holds(a) PROVE Current(r)
  <2>1. cc_at[a].lane = Whole /\ cc_at[a].upto = Len(cc_runs[Len(cc_runs)].log)
    BY <1>1, <1>2, <1>19 DEF Current, Projected
  <2>2. c.suffix \in cc_at[a].lane
    BY <1>6, <2>1 DEF Stands
  <2>3. Chat!Applies(c, cc_at[a].lane)
    BY <1>5, <1>6, <2>2, StandingApplies
  <2> QED
    BY <1>12, <1>15, <2>1, <2>3 DEF Current
<1>20. /\ cc_runs' \in Seq(Chat!LaneRuns) /\ Len(cc_runs') = Len(cc_runs)
       /\ \A x \in 1..Len(cc_runs) : /\ cc_runs'[x].status = cc_runs[x].status
                                     /\ Len(cc_runs'[x].log) = Len(cc_runs[x].log)
  BY <1>1 DEF ChatIInv, ChatRows
<1> HIDE DEF n, first
<1> QED
  BY <1>1, <1>7, <1>8, <1>9, <1>11, <1>14, <1>15, <1>18, <1>19, <1>20, AttemptStep

LEMMA ChatStep ==
    ASSUME Chat!ChatContextAssumption, ChatIInv, Chat!Next
    PROVE  ChatIInv'
<1>1. ASSUME Chat!SendMessage \/ Chat!RetryRun PROVE ChatIInv'
  <2>1. PICK turn : /\ Chat!NewRun(turn)
                    /\ Len(cc_runs) = 0 => turn = 1
                    /\ Len(cc_runs) # 0 => turn \in {cc_runs[Len(cc_runs)].turn, cc_runs[Len(cc_runs)].turn + 1}
    <3>1. CASE Chat!SendMessage
      BY <3>1 DEF Chat!SendMessage, Chat!Newest
    <3>2. CASE Chat!RetryRun
      BY <3>2 DEF Chat!RetryRun, Chat!Newest, ChatIInv, ChatRows
    <3> QED
      BY <1>1, <3>1, <3>2
  <2> QED
    BY <2>1, NewRunKept
<1>2. ASSUME NEW a \in {1, 2}, Chat!DeliverSteering(a) PROVE ChatIInv'
  <2>1. Chat!Appended(a, "steering") /\ cc_newest' = "delivered" /\ cc_at[a].pc = "begun"
    BY <1>2 DEF Chat!DeliverSteering
  <2> QED
    BY <2>1, AppendedKept
<1>3. ASSUME NEW a \in {1, 2}, Chat!AcceptProposal(a) PROVE ChatIInv'
  <2>1. Chat!Appended(a, "open") /\ cc_newest' = cc_newest /\ cc_at[a].pc = "sent"
    BY <1>3 DEF Chat!AcceptProposal
  <2> QED
    BY <2>1, AppendedKept
<1> QED
  BY <1>1, <1>2, <1>3, SteerKept, EndKept, TakeOverKept, CompleteKept, PublishKept, ProjectKept, LoadKept,
     SendKept, OverflowKept, SummariseKept, GoesKept, AppendKept, FailKept DEF Chat!Next

(* What is sent stands for all of its lane, and compactions go on where    *)
(* their predecessors ended.                                               *)
LEMMA ChatHolds ==
    ASSUME Chat!ChatContextAssumption, ChatIInv
    PROVE  Chat!TypeOK /\ Chat!NothingForgotten
<1> USE DEF ChatIInv
<1>1. Chat!TypeOK
  <2>1. DOMAIN cc_runs = 1..Len(cc_runs) /\ DOMAIN cc_compactions = 1..Len(cc_compactions)
        /\ Len(cc_compactions) \in Nat
    BY DEF ChatRows
  <2>2. \A r \in DOMAIN cc_runs : cc_runs[r] \in Chat!LaneRuns
    BY <2>1 DEF ChatRows
  <2>3. ASSUME NEW i \in DOMAIN cc_compactions
        PROVE  Chat!CompactionRow(cc_compactions[i]) /\ cc_compactions[i].covers # {}
    <3>1. PICK c : c = cc_compactions[i]
      OBVIOUS
    <3>2. c \in ChatSummary /\ Stands(c) /\ c.size \in ChatSummaries /\ c.pred = i - 1
      BY <2>1, <2>3, <3>1 DEF ChatRows, ChatCompacted
    <3>3. c.covers # {} /\ {c.through, c.suffix} \subseteq Chat!Units /\ c.covers \subseteq Chat!Units
      BY <3>2 DEF Stands, Whole
    <3>4. c.pred \in 0..Len(cc_compactions)
      BY <2>1, <3>2
    <3> QED
      BY <3>1, <3>2, <3>3, <3>4 DEF Chat!CompactionRow
  <2> QED
    BY <2>2, <2>3 DEF Chat!TypeOK, ChatRows
<1>2. ASSUME NEW a \in {1, 2}, cc_at[a].pc = "sent",
             NEW exact, exact = IF cc_at[a].candidate = Chat!NoSummary THEN cc_at[a].lane
                                ELSE Chat!Suffix(cc_at[a].lane, cc_at[a].candidate.suffix)
      PROVE  /\ cc_at[a].candidate.covers \intersect exact = {}
             /\ cc_at[a].candidate.covers \union exact = cc_at[a].lane
  <2>1. Begins(cc_at[a].lane) /\ (\/ cc_at[a].candidate = Chat!NoSummary
                                  \/ Stands(cc_at[a].candidate) /\ cc_at[a].candidate.suffix \in cc_at[a].lane)
    BY <1>2 DEF ChatKnown, Knows, Projected
  <2>2. CASE cc_at[a].candidate = Chat!NoSummary
    BY <1>2, <2>2 DEF Chat!NoSummary
  <2>3. CASE cc_at[a].candidate # Chat!NoSummary
    <3>1. exact = {u \in cc_at[a].lane : ~Chat!Before(u, cc_at[a].candidate.suffix)}
      BY <1>2, <2>3 DEF Chat!Suffix
    <3>2. cc_at[a].candidate.covers = {u \in cc_at[a].lane : Chat!Before(u, cc_at[a].candidate.suffix)}
      BY <2>1, <2>3 DEF Stands, Begins
    <3> QED
      BY <3>1, <3>2
  <2> QED
    BY <2>2, <2>3
<1>3. \A i \in 2..Len(cc_compactions) :
          /\ cc_compactions[i].pred = i - 1
          /\ Chat!Before(cc_compactions[i - 1].suffix, cc_compactions[i].suffix)
  BY DEF ChatCompacted, ChatRows
<1>4. cc_at[cc_holder].pc = "broken" => ~Chat!Holds(cc_holder)
  BY DEF ChatCurrent, Current
<1>5. Chat!NothingForgotten
  BY <1>2, <1>3, <1>4 DEF Chat!NothingForgotten
<1> QED
  BY <1>1, <1>5

LEMMA ChatStutters == ChatIInv /\ UNCHANGED Chat!vars => ChatIInv'
<1> SUFFICES ASSUME ChatIInv, UNCHANGED Chat!vars PROVE ChatIInv'
  OBVIOUS
<1>1. UNCHANGED <<cc_runs, cc_newest, cc_compactions, cc_at, cc_holder>>
  BY DEF Chat!vars
<1>2. Whole' = Whole
  BY <1>1 DEF Whole, LastTurn
<1>3. ASSUME NEW lane, Begins(lane) PROVE Begins(lane)'
  BY <1>2, <1>3 DEF Begins
<1>4. ASSUME NEW c, Stands(c) PROVE Stands(c)'
  BY <1>2, <1>4 DEF Stands
<1>5. ASSUME NEW i \in 1..Len(cc_compactions) PROVE Stands(cc_compactions[i])'
  <2>1. Stands(cc_compactions[i])
    BY DEF ChatIInv, ChatCompacted
  <2> QED
    BY <1>1, <1>2, <2>1 DEF Stands
<1>6. ChatCompacted'
  BY <1>1, <1>5 DEF ChatIInv, ChatCompacted
<1>7. ASSUME NEW r, Knows(r) PROVE Knows(r)'
  BY <1>1, <1>3, <1>4, <1>7 DEF Knows
<1>8. ASSUME NEW a \in {1, 2} PROVE Knows(cc_at[a])'
  <2>1. PICK r : r = cc_at[a]
    OBVIOUS
  <2>2. Knows(r)'
    BY <1>7, <2>1 DEF ChatIInv, ChatKnown
  <2> QED
    BY <1>1, <2>1, <2>2 DEF Knows
<1>9. ChatCurrent'
  BY <1>1, <1>2 DEF ChatIInv, ChatCurrent, Current, Chat!Holds, Chat!Active, Chat!Newest
<1> QED
  BY <1>1, <1>6, <1>8, <1>9 DEF ChatIInv, ChatRows, ChatTurns, ChatKnown

-----------------------------------------------------------------------------
(* The texts of long results. *)

(* Characters have bytes.                                                  *)
LEMMA CharsAre ==
    ASSUME Results!ToolResultsAssumption, NEW t \in Seq(Results!Chars), NEW k \in 1..Len(t)
    PROVE  t[k].bytes \in 1..4
<1>1. t[k] \in Results!Chars
  OBVIOUS
<1> QED
  BY <1>1 DEF Results!ToolResultsAssumption

(* What a text weighs is the last of any running sum over its characters.  *)
LEMMA BytesAre ==
    ASSUME NEW u \in Seq(Results!Chars), NEW v \in [0..Len(u) -> Int], v[0] = 0,
           \A k \in 1..Len(u) : v[k] = v[k - 1] + u[k].bytes
    PROVE  Results!Bytes(u) = v[Len(u)]
<1> DEFINE Step(f) == [k \in 0..Len(u) |-> IF k = 0 THEN 0 ELSE f[k - 1] + u[k].bytes]
           f == CHOOSE f : f = Step(f)
<1>1. v = Step(v)
  <2>1. ASSUME NEW k \in 0..Len(u) PROVE v[k] = Step(v)[k]
    <3>1. CASE k = 0
      BY <3>1
    <3>2. CASE k \in 1..Len(u)
      <4>1. v[k] = v[k - 1] + u[k].bytes /\ k # 0
        BY <3>2
      <4> QED
        BY <4>1
    <3> QED
      BY <3>1, <3>2
  <2> HIDE DEF Step
  <2>2. Step(v) = [k \in 0..Len(u) |-> Step(v)[k]]
    BY DEF Step
  <2> QED
    BY <2>1, <2>2
<1>2. f = Step(f)
  BY <1>1
<1>3. Results!Bytes(u) = f[Len(u)]
  BY DEF Results!Bytes, Results!Sum
<1> HIDE DEF f
<1>4. f[0] = 0 /\ \A k \in 1..Len(u) : f[k] = f[k - 1] + u[k].bytes
  <2>1. \A k \in 0..Len(u) : f[k] = IF k = 0 THEN 0 ELSE f[k - 1] + u[k].bytes
    BY <1>2
  <2>2. \A k \in 1..Len(u) : k \in 0..Len(u) /\ k # 0
    OBVIOUS
  <2> QED
    BY <2>1, <2>2
<1>5. 0..Len(u) \subseteq {k \in 0..Len(u) : f[k] = v[k]}
  <2> DEFINE S == {k \in 0..Len(u) : f[k] = v[k]}
  <2>1. 0 \in S
    BY <1>4
  <2>2. ASSUME NEW n \in 1..Len(u), n - 1 \in S PROVE n \in S
    <3>1. f[n - 1] = v[n - 1]
      BY <2>2
    <3>2. f[n] = f[n - 1] + u[n].bytes /\ v[n] = v[n - 1] + u[n].bytes
      BY <1>4
    <3> QED
      BY <3>1, <3>2
  <2>3. Len(u) \in Nat
    OBVIOUS
  <2> HIDE DEF S
  <2>4. 0..Len(u) \subseteq S
    BY <2>1, <2>2, <2>3, Induction
  <2> QED
    BY <2>4 DEF S
<1> QED
  BY <1>3, <1>5

(* Every text has its running sum.                                         *)
LEMMA Weighed ==
    ASSUME Results!ToolResultsAssumption, NEW t \in Seq(Results!Chars)
    PROVE  \E w \in [0..Len(t) -> Nat] :
              w[0] = 0 /\ \A k \in 1..Len(t) : w[k] = w[k - 1] + t[k].bytes
<1> DEFINE Sums(n, w) == w[0] = 0 /\ \A k \in 1..n : w[k] = w[k - 1] + t[k].bytes
           S == {n \in 0..Len(t) : \E w \in [0..n -> Nat] : Sums(n, w)}
<1>1. 0 \in S
  <2>1. PICK w : w = [k \in 0..0 |-> 0]
    OBVIOUS
  <2>2. w \in [0..0 -> Nat] /\ Sums(0, w)
    BY <2>1
  <2>3. 0 \in 0..Len(t)
    OBVIOUS
  <2> HIDE DEF Sums
  <2> QED
    BY <2>2, <2>3
<1>2. ASSUME NEW n \in 1..Len(t), n - 1 \in S PROVE n \in S
  <2>1. PICK w \in [0..(n - 1) -> Nat] : Sums(n - 1, w)
    BY <1>2
  <2>2. t[n].bytes \in Nat /\ w[n - 1] \in Nat
    <3>1. t[n].bytes \in 1..4
      BY CharsAre
    <3> QED
      BY <3>1
  <2>3. PICK v : v = [k \in 0..n |-> IF k = n THEN w[n - 1] + t[n].bytes ELSE w[k]]
    OBVIOUS
  <2>4. v \in [0..n -> Nat]
    <3>1. \A k \in 0..n : k # n => k \in 0..(n - 1)
      OBVIOUS
    <3> QED
      BY <2>2, <2>3, <3>1
  <2>5. \A k \in 0..(n - 1) : v[k] = w[k]
    BY <2>3
  <2>6. v[n] = v[n - 1] + t[n].bytes
    BY <2>3, <2>5
  <2>7. ASSUME NEW k \in 1..n PROVE v[k] = v[k - 1] + t[k].bytes
    <3>1. CASE k = n
      BY <3>1, <2>6
    <3>2. CASE k \in 1..(n - 1)
      <4>1. w[k] = w[k - 1] + t[k].bytes
        BY <2>1, <3>2
      <4>2. v[k] = w[k] /\ v[k - 1] = w[k - 1]
        BY <2>5, <3>2
      <4> QED
        BY <4>1, <4>2
    <3> QED
      BY <3>1, <3>2
  <2>8. v[0] = 0
    BY <2>1, <2>5
  <2>9. n \in 0..Len(t) /\ Sums(n, v)
    BY <2>7, <2>8
  <2> QED
    BY <2>4, <2>9
<1>3. Len(t) \in Nat
  OBVIOUS
<1> HIDE DEF S
<1>4. 0..Len(t) \subseteq S
  BY <1>1, <1>2, <1>3, Induction
<1>5. Len(t) \in S
  BY <1>3, <1>4
<1> QED
  BY <1>5 DEF S

(* It grows with every character, and what is between two places of the   *)
(* text weighs the difference of the sums there.                           *)
LEMMA Weights ==
    ASSUME Results!ToolResultsAssumption, NEW t \in Seq(Results!Chars)
    PROVE  \E w \in [0..Len(t) -> Nat] :
              /\ \A i, j \in 0..Len(t) : i < j => w[i] < w[j]
              /\ \A i, j \in 0..Len(t) : i <= j => Results!Bytes(SubSeq(t, i + 1, j)) = w[j] - w[i]
<1>1. PICK w \in [0..Len(t) -> Nat] : w[0] = 0 /\ \A k \in 1..Len(t) : w[k] = w[k - 1] + t[k].bytes
  BY Weighed
<1>2. \A k \in 1..Len(t) : w[k - 1] < w[k]
  <2> TAKE k \in 1..Len(t)
  <2>1. t[k].bytes \in 1..4 /\ w[k] = w[k - 1] + t[k].bytes
    BY <1>1, CharsAre
  <2>2. w[k - 1] \in Nat
    BY <1>1
  <2> QED
    BY <2>1, <2>2
<1>3. ASSUME NEW i \in 0..Len(t), NEW j \in 0..Len(t), i < j PROVE w[i] < w[j]
  <2> DEFINE S == {n \in 0..(Len(t) - i - 1) : w[i] < w[i + 1 + n]}
  <2>1. 0 \in S
    BY <1>2, <1>3
  <2>2. ASSUME NEW n \in 1..(Len(t) - i - 1), n - 1 \in S PROVE n \in S
    <3>1. w[i] < w[i + n]
      BY <2>2
    <3>2. w[i + 1 + n - 1] < w[i + 1 + n] /\ i + 1 + n - 1 = i + n
      <4>1. i + 1 + n \in 1..Len(t)
        OBVIOUS
      <4> QED
        BY <1>2, <4>1
    <3>3. {w[i], w[i + n], w[i + 1 + n]} \subseteq Nat
      BY <1>1
    <3> QED
      BY <3>1, <3>2, <3>3
  <2>3. Len(t) - i - 1 \in Nat /\ j - i - 1 \in 0..(Len(t) - i - 1) /\ i + 1 + (j - i - 1) = j
    BY <1>3
  <2> HIDE DEF S
  <2>4. 0..(Len(t) - i - 1) \subseteq S
    BY <2>1, <2>2, <2>3, Induction
  <2>5. j - i - 1 \in S
    BY <2>3, <2>4
  <2> QED
    BY <2>3, <2>5 DEF S
<1>4. ASSUME NEW i \in 0..Len(t), NEW j \in 0..Len(t), i <= j
      PROVE  Results!Bytes(SubSeq(t, i + 1, j)) = w[j] - w[i]
  <2>1. PICK u : u = SubSeq(t, i + 1, j)
    OBVIOUS
  <2>2. u \in Seq(Results!Chars) /\ Len(u) = j - i
    BY <2>1, <1>4
  <2>2a. \A k \in 1..(j - i) : u[k] = t[i + k]
    BY <2>1, <1>4
  <2>3. PICK v : v = [k \in 0..Len(u) |-> w[i + k] - w[i]]
    OBVIOUS
  <2>4. v \in [0..Len(u) -> Int]
    <3>1. \A k \in 0..Len(u) : i + k \in 0..Len(t)
      BY <2>2
    <3>2. \A k \in 0..Len(u) : w[i + k] - w[i] \in Int
      BY <3>1
    <3> QED
      BY <2>3, <3>2
  <2>5. v[0] = 0
    <3>1. 0 \in 0..Len(u) /\ i + 0 = i /\ w[i] \in Nat
      BY <2>2
    <3> QED
      BY <2>3, <3>1
  <2>6. ASSUME NEW k \in 1..Len(u) PROVE v[k] = v[k - 1] + u[k].bytes
    <3>1. i + k \in 1..Len(t) /\ k \in 0..Len(u) /\ k - 1 \in 0..Len(u) /\ i + (k - 1) = (i + k) - 1
      BY <2>2
    <3>2. w[i + k] = w[(i + k) - 1] + t[i + k].bytes
      BY <1>1, <3>1
    <3>3. v[k] = w[i + k] - w[i] /\ v[k - 1] = w[(i + k) - 1] - w[i]
      BY <2>3, <3>1
    <3>4. u[k] = t[i + k] /\ u[k].bytes \in 1..4
      BY <2>2, <2>2a, CharsAre
    <3>5. {w[i + k], w[(i + k) - 1], w[i]} \subseteq Nat
      BY <3>1
    <3>6. \A a, b, c \in Nat, d \in 1..4 : a = b + d => a - c = (b - c) + d
      OBVIOUS
    <3>7. u[k].bytes = t[i + k].bytes
      BY <3>4
    <3>8. t[i + k].bytes \in 1..4
      BY <3>4, <3>7
    <3>9. w[i + k] - w[i] = (w[(i + k) - 1] - w[i]) + t[i + k].bytes
      BY <3>2, <3>5, <3>6, <3>8
    <3> QED
      BY <3>3, <3>7, <3>9
  <2>7. Results!Bytes(u) = v[Len(u)]
    BY <2>2, <2>4, <2>5, <2>6, BytesAre
  <2>8. v[Len(u)] = w[j] - w[i]
    <3>1. Len(u) \in 0..Len(u) /\ i + Len(u) = j
      BY <2>2, <1>4
    <3> QED
      BY <2>3, <3>1
  <2> QED
    BY <2>1, <2>7, <2>8
<1> QED
  BY <1>1, <1>3, <1>4

(* Of some beginnings of a text there is a longest.                        *)
LEMMA LongestIs ==
    ASSUME NEW t \in Seq(Results!Chars), NEW S, S \subseteq Results!Prefixes(t), S # {}
    PROVE  Results!Longest(S) \in S
<1> DEFINE L == {Len(p) : p \in S}
<1>1. \A p \in S : Len(p) \in 0..Len(t)
  BY DEF Results!Prefixes
<1>2. L \subseteq 0..Len(t) /\ L # {} /\ Len(t) \in Nat
  <2>1. PICK p \in S : TRUE
    OBVIOUS
  <2>2. Len(p) \in L
    BY <2>1
  <2>3. L \subseteq 0..Len(t)
    BY <1>1
  <2> QED
    BY <2>2, <2>3
<1>3. PICK n \in L : \A m \in L : m <= n
  <2> HIDE DEF L
  <2> QED
    BY <1>2, Extremes
<1>4. PICK p \in S : n = Len(p)
  BY <1>3
<1>5. \A u \in S : Len(u) <= Len(p)
  BY <1>3, <1>4
<1> QED
  BY <1>4, <1>5 DEF Results!Longest

(* Nothing weighs and takes nothing.                                       *)
LEMMA NothingWeighs == Results!Bytes(<<>>) = 0 /\ Results!Cost(<<>>) = 0
<1> DEFINE Step(f) == [k \in 0..Len(<<>>) |-> IF k = 0 THEN 0 ELSE f[k - 1] + <<>>[k].bytes]
           f == CHOOSE f : f = Step(f)
           CostStep(g) == [k \in 0..Len(<<>>) |-> IF k = 0 THEN 0 ELSE g[k - 1] + <<>>[k].cost]
           g == CHOOSE g : g = CostStep(g)
<1>1. PICK z : z = [k \in 0..0 |-> 0]
  OBVIOUS
<1>2. 0..Len(<<>>) = 0..0 /\ \A k \in 0..0 : k = 0
  OBVIOUS
<1>3. z = Step(z) /\ z = CostStep(z)
  BY <1>1, <1>2
<1>4. f = Step(f) /\ g = CostStep(g)
  BY <1>3
<1>5. Results!Bytes(<<>>) = f[Len(<<>>)]
  BY DEF Results!Bytes, Results!Sum
<1>6. Results!Cost(<<>>) = g[Len(<<>>)]
  BY DEF Results!Cost, Results!Sum
<1> HIDE DEF f, g
<1>7. f[0] = 0 /\ g[0] = 0
  BY <1>2, <1>4
<1> QED
  BY <1>5, <1>6, <1>7

(* A page is a beginning of what is left.                                  *)
LEMMA PagesAre ==
    ASSUME NEW rest \in Seq(Results!Chars), NEW limit \in Nat
    PROVE  /\ Results!Cut(rest, limit) \in Results!Prefixes(rest)
           /\ Results!Bounded(rest, limit) \in Results!Prefixes(rest)
<1>1. <<>> \in Results!Prefixes(rest)
  <2>1. SubSeq(rest, 1, 0) = <<>> /\ 0 \in 0..Len(rest)
    OBVIOUS
  <2> QED
    BY <2>1 DEF Results!Prefixes
<1>2. {p \in Results!Prefixes(rest) : Results!Bytes(p) <= limit} # {}
  BY <1>1, NothingWeighs
<1>3. {p \in Results!Prefixes(rest) : Results!Cost(p) <= limit} # {}
  BY <1>1, NothingWeighs
<1>4. Results!Cut(rest, limit) \in {p \in Results!Prefixes(rest) : Results!Bytes(p) <= limit}
  <2>1. PICK S : S = {p \in Results!Prefixes(rest) : Results!Bytes(p) <= limit}
    OBVIOUS
  <2>2. S \subseteq Results!Prefixes(rest) /\ S # {} /\ Results!Cut(rest, limit) = Results!Longest(S)
    BY <1>2, <2>1 DEF Results!Cut
  <2> QED
    BY <2>1, <2>2, LongestIs
<1>5. Results!Bounded(rest, limit) \in {p \in Results!Prefixes(rest) : Results!Cost(p) <= limit}
  <2>1. PICK S : S = {p \in Results!Prefixes(rest) : Results!Cost(p) <= limit}
    OBVIOUS
  <2>2. S \subseteq Results!Prefixes(rest) /\ S # {} /\ Results!Bounded(rest, limit) = Results!Longest(S)
    BY <1>3, <2>1 DEF Results!Bounded
  <2> QED
    BY <2>1, <2>2, LongestIs
<1> QED
  BY <1>4, <1>5

LEMMA PrefixesAre ==
    ASSUME NEW t \in Seq(Results!Chars)
    PROVE  /\ \A p \in Results!Prefixes(t) :
                 /\ p \in Seq(Results!Chars) /\ Len(p) \in 0..Len(t) /\ p = SubSeq(t, 1, Len(p))
                 /\ \A q \in Results!Prefixes(p) : q \in Results!Prefixes(t)
           /\ t \in Results!Prefixes(t) /\ <<>> \in Results!Prefixes(t)
<1>1. ASSUME NEW p \in Results!Prefixes(t)
      PROVE  p \in Seq(Results!Chars) /\ Len(p) \in 0..Len(t) /\ p = SubSeq(t, 1, Len(p))
  <2>1. PICK k \in 0..Len(t) : p = SubSeq(t, 1, k)
    BY DEF Results!Prefixes
  <2> QED
    BY <2>1
<1>2. ASSUME NEW p \in Results!Prefixes(t), NEW q \in Results!Prefixes(p)
      PROVE  q \in Results!Prefixes(t)
  <2>1. PICK k \in 0..Len(p) : q = SubSeq(p, 1, k)
    BY DEF Results!Prefixes
  <2>2. PICK n \in 0..Len(t) : n = Len(p) /\ p = SubSeq(t, 1, n)
    BY <1>1
  <2>3. k \in 0..Len(t) /\ SubSeq(p, 1, k) = SubSeq(t, 1, k)
    BY <2>2
  <2> QED
    BY <2>1, <2>3 DEF Results!Prefixes
<1>3. SubSeq(t, 1, Len(t)) = t /\ Len(t) \in 0..Len(t) /\ SubSeq(t, 1, 0) = <<>> /\ 0 \in 0..Len(t)
  OBVIOUS
<1>4. t \in Results!Prefixes(t) /\ <<>> \in Results!Prefixes(t)
  BY <1>3 DEF Results!Prefixes
<1> QED
  BY <1>1, <1>2, <1>4

(* Whoever has a beginning of a text and asks for what follows its bytes   *)
(* has a longer one, and all of it when its bytes are those of the text.   *)
LEMMA GoesOn ==
    ASSUME Results!ToolResultsAssumption, NEW t \in Seq(Results!Chars), NEW p \in Results!Prefixes(t)
    PROVE  /\ Results!Bytes(p) = 0 => p = <<>>
           /\ Results!Bytes(t) <= Results!Bytes(p) => p = t
           /\ Results!From(t, Results!Bytes(p)) \in Seq(Results!Chars)
           /\ \A page \in Results!Prefixes(Results!From(t, Results!Bytes(p))) :
                 /\ p \o page \in Results!Prefixes(t)
                 /\ Results!Bytes(p \o page) = Results!Bytes(p) + Results!Bytes(page)
<1>1. PICK w \in [0..Len(t) -> Nat] :
         /\ \A i, j \in 0..Len(t) : i < j => w[i] < w[j]
         /\ \A i, j \in 0..Len(t) : i <= j => Results!Bytes(SubSeq(t, i + 1, j)) = w[j] - w[i]
  BY Weights
<1>2. PICK n \in 0..Len(t) : n = Len(p) /\ p = SubSeq(t, 1, n)
  BY PrefixesAre
<1>3. \A k \in 0..Len(t) : Results!Bytes(SubSeq(t, 1, k)) = w[k] - w[0]
  <2> TAKE k \in 0..Len(t)
  <2>1. 0 \in 0..Len(t) /\ 0 <= k
    OBVIOUS
  <2> QED
    BY <1>1, <2>1
<1>4. Results!Bytes(p) = w[n] - w[0]
  BY <1>2, <1>3
<1>5. ASSUME NEW i \in 0..Len(t), NEW j \in 0..Len(t), w[i] = w[j] PROVE i = j
  <2>1. w[i] \in Nat /\ w[j] \in Nat
    BY <1>1
  <2>2. ~(i < j) /\ ~(j < i)
    BY <1>1, <1>5, <2>1
  <2> QED
    BY <2>2
<1>6. Results!Bytes(p) = 0 => p = <<>>
  <2> SUFFICES ASSUME Results!Bytes(p) = 0 PROVE p = <<>>
    OBVIOUS
  <2>1. w[n] \in Nat /\ w[0] \in Nat /\ 0 \in 0..Len(t)
    BY <1>1
  <2>2. w[n] = w[0]
    BY <1>4, <2>1
  <2>3. n = 0
    BY <1>5, <2>1, <2>2
  <2> QED
    BY <1>2, <2>3
<1>7. Results!Bytes(t) <= Results!Bytes(p) => p = t
  <2> SUFFICES ASSUME Results!Bytes(t) <= Results!Bytes(p) PROVE p = t
    OBVIOUS
  <2>1. w[n] \in Nat /\ w[0] \in Nat /\ w[Len(t)] \in Nat /\ Len(t) \in 0..Len(t)
    BY <1>1
  <2>2. t = SubSeq(t, 1, Len(t))
    OBVIOUS
  <2>3. Results!Bytes(t) = w[Len(t)] - w[0]
    BY <1>3, <2>1, <2>2
  <2>4. w[Len(t)] <= w[n]
    BY <1>4, <2>1, <2>3
  <2>5. n < Len(t) => w[n] < w[Len(t)]
    BY <1>1, <2>1
  <2>6. n = Len(t)
    BY <2>1, <2>4, <2>5
  <2> QED
    BY <1>2, <2>2, <2>6
<1>8. Results!From(t, Results!Bytes(p)) = SubSeq(t, n + 1, Len(t))
  <2>1. ASSUME NEW q \in Results!Prefixes(t), Results!Bytes(q) = Results!Bytes(p) PROVE q = p
    <3>1. PICK m \in 0..Len(t) : q = SubSeq(t, 1, m)
      BY DEF Results!Prefixes
    <3>2. Results!Bytes(q) = w[m] - w[0] /\ w[m] \in Nat /\ w[n] \in Nat /\ w[0] \in Nat
      BY <1>1, <1>3, <3>1, SMTT(30)
    <3>3. w[m] = w[n]
      BY <1>4, <2>1, <3>2
    <3>4. m = n
      BY <1>5, <3>3
    <3> QED
      BY <1>2, <3>1, <3>4
  <2>2. (CHOOSE q \in Results!Prefixes(t) : Results!Bytes(q) = Results!Bytes(p)) = p
    BY <2>1
  <2> QED
    BY <1>2, <2>2 DEF Results!From
<1>9. PICK rest : rest = SubSeq(t, n + 1, Len(t))
  OBVIOUS
<1>10. /\ rest \in Seq(Results!Chars) /\ Len(rest) = Len(t) - n
       /\ \A k \in 1..(Len(t) - n) : rest[k] = t[n + k]
  BY <1>9
<1>11. ASSUME NEW page \in Results!Prefixes(rest)
       PROVE  /\ p \o page \in Results!Prefixes(t)
              /\ Results!Bytes(p \o page) = Results!Bytes(p) + Results!Bytes(page)
  <2>1. PICK k \in 0..Len(rest) : page = SubSeq(rest, 1, k)
    BY DEF Results!Prefixes
  <2>2. page \in Seq(Results!Chars) /\ Len(page) = k /\ \A i \in 1..k : page[i] = t[n + i]
    BY <1>10, <2>1
  <2>3. n + k \in 0..Len(t) /\ n <= n + k
    BY <1>10
  <2>4. page = SubSeq(t, n + 1, n + k)
    BY <2>2, <2>3
  <2>2a. ASSUME NEW p1 \in Seq(Results!Chars), NEW p2 \in Seq(Results!Chars)
         PROVE  /\ p1 \o p2 \in Seq(Results!Chars) /\ Len(p1 \o p2) = Len(p1) + Len(p2)
                /\ \A i \in 1..(Len(p1) + Len(p2)) :
                      (p1 \o p2)[i] = IF i <= Len(p1) THEN p1[i] ELSE p2[i - Len(p1)]
    OBVIOUS
  <2>5. p \o page = SubSeq(t, 1, n + k)
    <3>1. p \in Seq(Results!Chars) /\ Len(p) = n /\ \A i \in 1..n : p[i] = t[i]
      BY <1>2
    <3>2. PICK a : a = p \o page
      OBVIOUS
    <3>3. PICK b : b = SubSeq(t, 1, n + k)
      OBVIOUS
    <3>4. /\ a \in Seq(Results!Chars) /\ Len(a) = n + k
          /\ \A i \in 1..(n + k) : a[i] = IF i <= n THEN p[i] ELSE page[i - n]
      BY <2>2, <2>2a, <3>1, <3>2
    <3>5. b \in Seq(Results!Chars) /\ Len(b) = n + k /\ \A i \in 1..(n + k) : b[i] = t[i]
      BY <2>3, <3>3
    <3>6. ASSUME NEW i \in 1..(n + k) PROVE a[i] = t[i]
      <4>1. CASE i \in 1..n
        BY <3>1, <3>4, <4>1
      <4>2. CASE i \notin 1..n
        <5>1. i - n \in 1..k /\ n + (i - n) = i /\ i > n
          BY <4>2
        <5>2. a[i] = page[i - n]
          BY <3>4, <5>1
        <5> QED
          BY <2>2, <5>1, <5>2
      <4> QED
        BY <4>1, <4>2
    <3> QED
      BY <3>2, <3>3, <3>4, <3>5, <3>6
  <2>6. Results!Bytes(page) = w[n + k] - w[n]
    BY <1>1, <2>3, <2>4
  <2>7. Results!Bytes(p \o page) = w[n + k] - w[0]
    BY <1>3, <2>3, <2>5
  <2>8. w[n + k] \in Nat /\ w[n] \in Nat /\ w[0] \in Nat
    <3>1. \A i \in 0..Len(t) : w[i] \in Nat
      OBVIOUS
    <3>2. 0 \in 0..Len(t)
      OBVIOUS
    <3> QED
      BY <2>3, <3>1, <3>2
  <2> QED
    BY <1>4, <2>3, <2>5, <2>6, <2>7, <2>8 DEF Results!Prefixes
<1> QED
  BY <1>6, <1>7, <1>8, <1>9, <1>10, <1>11

(* Beginnings weigh a number.                                              *)
LEMMA BytesCount ==
    ASSUME Results!ToolResultsAssumption, NEW t \in Seq(Results!Chars), NEW p \in Results!Prefixes(t)
    PROVE  Results!Bytes(p) \in Int
<1>1. PICK w \in [0..Len(t) -> Nat] :
         \A i, j \in 0..Len(t) : i <= j => Results!Bytes(SubSeq(t, i + 1, j)) = w[j] - w[i]
  BY Weights
<1>2. PICK k \in 0..Len(t) : p = SubSeq(t, 1, k)
  BY DEF Results!Prefixes
<1>3. 0 \in 0..Len(t) /\ 0 <= k
  OBVIOUS
<1>4. Results!Bytes(p) = w[k] - w[0]
  BY <1>1, <1>2, <1>3
<1> QED
  BY <1>1, <1>3, <1>4

-----------------------------------------------------------------------------
(* A long result. *)

Outcomes == [state : {"none", "inline", "externalized", "not_cached"}, ref : Results!Refs \union {0},
             of : Seq(Results!Chars), preview : Seq(Results!Chars)]

ToolTyped ==
    /\ tr_cache \in [Results!Refs -> Results!CacheRows]
    /\ \A r \in Results!Refs : tr_cache[r].meta \/ tr_cache[r].body => tr_cache[r].put
    /\ {tr_pending, tr_result} \subseteq Outcomes
    /\ tr_pending.state # "none" => tr_result.state = "none"
    /\ tr_result.state = "none" => tr_result = Results!NoResult

(* An outcome shows the beginning of its text, and its reference holds     *)
(* that text for ever.                                                     *)
Outcome(r) ==
    /\ r.preview \in Results!Prefixes(r.of)
    /\ r.state = "inline" => r.preview = r.of
    /\ r.state = "externalized" =>
          r.ref \in Results!Refs /\ tr_cache[r.ref].put /\ tr_cache[r.ref].text = r.of

(* Who follows the offsets has a beginning of what the result can show.    *)
Shows == IF tr_result.state = "externalized" THEN tr_result.of ELSE tr_result.preview
Follows ==
    /\ tr_trail.text \in Results!Prefixes(Shows)
    /\ tr_trail.at = Results!Bytes(tr_trail.text)
    /\ tr_trail.complete /\ tr_result.state # "not_cached" => tr_trail.text = tr_result.of

Hydrates ==
    /\ tr_hydration.pc \in {"idle", "expired", "reading", "whole"}
    /\ tr_hydration.pc # "idle" => tr_result.state = "externalized"
    /\ tr_hydration.pc = "reading" => /\ tr_hydration.text \in Results!Prefixes(tr_result.of)
                                      /\ tr_hydration.at = Results!Bytes(tr_hydration.text)
    /\ tr_hydration.pc = "whole" => tr_hydration.text = tr_result.of

ToolIInv == ToolTyped /\ Outcome(tr_pending) /\ Outcome(tr_result) /\ Follows /\ Hydrates

LEMMA ToolInit == Results!ToolResultsAssumption /\ Results!Init => ToolIInv
<1> SUFFICES ASSUME Results!ToolResultsAssumption, Results!Init PROVE ToolIInv
  OBVIOUS
<1>1. <<>> \in Seq(Results!Chars) /\ Results!NoText = <<>>
  BY DEF Results!NoText
<1>2. <<>> \in Results!Prefixes(<<>>)
  BY <1>1, PrefixesAre
<1>3. Results!NoResult \in Outcomes /\ Outcome(Results!NoResult)
  BY <1>1, <1>2 DEF Results!NoResult, Outcomes, Outcome
<1>4. tr_pending = Results!NoResult /\ tr_result = Results!NoResult /\ Results!NoResult.state = "none"
      /\ Results!NoResult.preview = <<>>
  BY DEF Results!Init, Results!NoResult, Results!NoText
<1>5. Results!Gone \in Results!CacheRows /\ ~Results!Gone.meta /\ ~Results!Gone.body
  BY <1>1 DEF Results!Gone, Results!CacheRows
<1>6. ToolTyped
  BY <1>3, <1>4, <1>5 DEF ToolTyped, Results!Init
<1>7. Follows
  BY <1>1, <1>2, <1>4, NothingWeighs DEF Follows, Shows, Results!Init
<1>8. Hydrates
  BY DEF Hydrates, Results!Init
<1> QED
  BY <1>3, <1>4, <1>6, <1>7, <1>8 DEF ToolIInv

(* What can be read of a result is what it shows.                          *)
LEMMA ShownIs ==
    ASSUME Results!ToolResultsAssumption, ToolIInv
    PROVE  /\ Shows \in Seq(Results!Chars) /\ Shows \in Results!Prefixes(tr_result.of)
           /\ Results!ReadText = Shows
           /\ tr_result.state \in {"inline", "externalized"} => Shows = tr_result.of
           /\ tr_result \in Outcomes
<1>1. tr_result \in Outcomes /\ Outcome(tr_result)
  BY DEF ToolIInv, ToolTyped
<1>2. tr_result.of \in Seq(Results!Chars) /\ tr_result.preview \in Seq(Results!Chars)
  BY <1>1 DEF Outcomes
<1>3. tr_result.of \in Results!Prefixes(tr_result.of)
  BY <1>2, PrefixesAre
<1> QED
  BY <1>1, <1>2, <1>3 DEF Outcome, Shows, Results!ReadText

(* A text the tool yields, put or not.                                     *)
LEMMA TextsAre ==
    ASSUME Results!ToolResultsAssumption, NEW t \in ResultTexts
    PROVE  t \in Seq(Results!Chars)
BY DEF Results!ToolResultsAssumption

(* Steps that leave the cache's texts and the result alone.                *)
LEMMA PutKeeps ==
    ASSUME ToolIInv, NEW r \in Results!Refs, ~tr_cache[r].put, NEW t \in ResultTexts,
           tr_cache' = [tr_cache EXCEPT ![r] = [put |-> TRUE, meta |-> TRUE, body |-> TRUE, text |-> t]]
    PROVE  /\ tr_cache' \in [Results!Refs -> Results!CacheRows]
           /\ \A s \in Results!Refs : tr_cache'[s].meta \/ tr_cache'[s].body => tr_cache'[s].put
           /\ tr_cache'[r].put /\ tr_cache'[r].text = t
           /\ \A o : Outcome(o) => Outcome(o)'
<1> DEFINE row == [put |-> TRUE, meta |-> TRUE, body |-> TRUE, text |-> t]
<1>1. tr_cache \in [Results!Refs -> Results!CacheRows]
  BY DEF ToolIInv, ToolTyped
<1>2. row \in Results!CacheRows /\ row.put /\ row.text = t
  BY DEF Results!CacheRows
<1>3. PICK c : c = row
  OBVIOUS
<1>4. tr_cache' = [tr_cache EXCEPT ![r] = c] /\ c \in Results!CacheRows /\ c.put /\ c.text = t
  BY <1>2, <1>3
<1> HIDE DEF row
<1>5. tr_cache'[r] = c /\ \A s \in Results!Refs : s # r => tr_cache'[s] = tr_cache[s]
  BY <1>1, <1>4
<1>6. ASSUME NEW o, Outcome(o) PROVE Outcome(o)'
  <2>1. o.state = "externalized" => o.ref # r
    BY <1>6 DEF Outcome
  <2> QED
    BY <1>5, <1>6, <2>1 DEF Outcome
<1>7. \A s \in Results!Refs : tr_cache[s].meta \/ tr_cache[s].body => tr_cache[s].put
  BY DEF ToolIInv, ToolTyped
<1> QED
  BY <1>1, <1>4, <1>5, <1>6, <1>7

(* The result, its trail and its hydration stay as they are.               *)
LEMMA ResultStays ==
    ASSUME ToolIInv, UNCHANGED <<tr_result, tr_trail, tr_hydration>>
    PROVE  Follows' /\ Hydrates'
BY DEF ToolIInv, Follows, Hydrates, Shows

(* Inline, NotCached, Externalize: the tool has run.                       *)
LEMMA ToolRan ==
    ASSUME Results!ToolResultsAssumption, ToolIInv, NEW t \in ResultTexts, NEW r, NEW stored,
           \/ Results!Inline(t)
           \/ r \in Results!Refs /\ (Results!NotCached(t, r, stored) \/ Results!Externalize(t, r))
    PROVE  ToolIInv'
<1>1. t \in Seq(Results!Chars) /\ t \in Results!Prefixes(t)
  BY TextsAre, PrefixesAre
<1>2. tr_result.state = "none" /\ UNCHANGED <<tr_result, tr_trail, tr_hydration>>
  BY DEF Results!Inline, Results!NotCached, Results!Externalize
<1>3. Results!Bounded(t, ResultInline) \in Results!Prefixes(t) /\ ResultInline \in Nat
  BY <1>1, PagesAre DEF Results!ToolResultsAssumption
<1>4. PICK b \in Results!Prefixes(t) : b = Results!Bounded(t, ResultInline) /\ b \in Seq(Results!Chars)
  BY <1>1, <1>3, PrefixesAre
<1>5. \/ tr_cache' = tr_cache
      \/ r \in Results!Refs /\ ~tr_cache[r].put
         /\ tr_cache' = [tr_cache EXCEPT ![r] = [put |-> TRUE, meta |-> TRUE, body |-> TRUE, text |-> t]]
  BY DEF Results!Inline, Results!NotCached, Results!Externalize, Results!FreeRef
<1>6. /\ tr_cache' \in [Results!Refs -> Results!CacheRows]
      /\ \A s \in Results!Refs : tr_cache'[s].meta \/ tr_cache'[s].body => tr_cache'[s].put
      /\ \A o : Outcome(o) => Outcome(o)'
  <2>1. CASE tr_cache' = tr_cache
    BY <2>1 DEF ToolIInv, ToolTyped, Outcome
  <2> QED
    BY <1>5, <2>1, PutKeeps
<1>7. PICK p : p = tr_pending'
  OBVIOUS
<1>8. p \in Outcomes /\ Outcome(p)'
  <2>1. CASE Results!Inline(t)
    <3>1. p = [state |-> "inline", ref |-> 0, of |-> t, preview |-> t]
      BY <1>7, <2>1 DEF Results!Inline
    <3> QED
      BY <1>1, <3>1 DEF Outcomes, Outcome
  <2>2. CASE Results!NotCached(t, r, stored)
    <3>1. p = [state |-> "not_cached", ref |-> 0, of |-> t, preview |-> b]
      BY <1>4, <1>7, <2>2 DEF Results!NotCached, Results!Projection
    <3> QED
      BY <1>1, <1>4, <3>1 DEF Outcomes, Outcome
  <2>3. CASE r \in Results!Refs /\ Results!Externalize(t, r)
    <3>1. p = [state |-> "externalized", ref |-> r, of |-> t, preview |-> b]
      BY <1>4, <1>7, <2>3 DEF Results!Externalize, Results!Projection
    <3>2. tr_cache'[r].put /\ tr_cache'[r].text = t
      BY <2>3, PutKeeps DEF Results!Externalize, Results!FreeRef
    <3> QED
      BY <1>1, <1>4, <2>3, <3>1, <3>2 DEF Outcomes, Outcome
  <2> QED
    BY <2>1, <2>2, <2>3
<1>9. Outcome(tr_pending)' /\ Outcome(tr_result)'
  <2>1. PICK o : o = tr_result
    OBVIOUS
  <2>2. Outcome(o)'
    BY <1>6, <2>1 DEF ToolIInv
  <2> QED
    BY <1>2, <1>7, <1>8, <2>1, <2>2 DEF Outcome
<1>10. ToolTyped'
  BY <1>2, <1>6, <1>7, <1>8 DEF ToolIInv, ToolTyped
<1> QED
  BY <1>2, <1>9, <1>10, ResultStays DEF ToolIInv

(* Crash, AppendCheckpoint.                                                *)
LEMMA ToolEnds ==
    ASSUME Results!ToolResultsAssumption, ToolIInv, Results!Crash \/ Results!AppendCheckpoint
    PROVE  ToolIInv'
<1>1. tr_pending.state # "none" /\ tr_pending' = Results!NoResult /\ tr_result.state = "none"
      /\ UNCHANGED <<tr_cache, tr_hydration>>
  BY DEF Results!Crash, Results!AppendCheckpoint, ToolIInv, ToolTyped
<1>2. <<>> \in Seq(Results!Chars) /\ Results!NoText = <<>>
  BY DEF Results!NoText
<1>3. <<>> \in Results!Prefixes(<<>>)
  BY <1>2, PrefixesAre
<1>4. Results!NoResult \in Outcomes /\ Outcome(Results!NoResult) /\ Results!NoResult.state = "none"
  BY <1>2, <1>3 DEF Results!NoResult, Outcomes, Outcome
<1>5. Outcome(tr_pending)'
  BY <1>1, <1>4 DEF Outcome
<1>6. CASE Results!Crash
  <2>1. UNCHANGED <<tr_result, tr_trail>>
    BY <1>6 DEF Results!Crash
  <2> QED
    BY <1>1, <1>4, <1>5, <2>1, ResultStays DEF ToolIInv, ToolTyped, Outcome
<1>7. CASE Results!AppendCheckpoint
  <2>1. PICK p : p = tr_pending
    OBVIOUS
  <2>2. p \in Outcomes /\ Outcome(p) /\ p.state # "none"
    BY <1>1, <2>1 DEF ToolIInv, ToolTyped
  <2>3. tr_result' = p /\ tr_trail' = [at |-> Results!Bytes(p.preview), text |-> p.preview,
                                       complete |-> p.preview = p.of]
    BY <1>7, <2>1 DEF Results!AppendCheckpoint
  <2>4. ToolTyped'
    BY <1>1, <1>4, <2>2, <2>3 DEF ToolIInv, ToolTyped
  <2>5. Outcome(tr_result)'
    BY <1>1, <2>2, <2>3 DEF Outcome
  <2>6. p.preview \in Results!Prefixes(p.preview)
    BY <2>2, PrefixesAre DEF Outcomes
  <2>7. tr_trail'.text = p.preview /\ tr_trail'.at = Results!Bytes(p.preview)
        /\ (tr_trail'.complete <=> p.preview = p.of)
    BY <2>3
  <2>8. Follows'
    BY <2>2, <2>3, <2>6, <2>7 DEF Follows, Shows, Outcome
  <2>9. Hydrates'
    BY <1>1 DEF ToolIInv, Hydrates
  <2> QED
    BY <1>5, <2>4, <2>5, <2>8, <2>9 DEF ToolIInv
<1> QED
  BY <1>6, <1>7

(* Evict, and the steps that change neither cache nor result.              *)
LEMMA ToolRests ==
    ASSUME ToolIInv, \/ \E r \in Results!Refs : Results!Evict(r)
                     \/ Results!Age \/ Results!ReadExpired \/ UNCHANGED Results!vars
    PROVE  ToolIInv'
<1>1. UNCHANGED <<tr_pending, tr_result, tr_trail, tr_hydration>>
  BY DEF Results!Evict, Results!Age, Results!ReadExpired, Results!vars
<1> DEFINE Kept ==
              /\ tr_cache' \in [Results!Refs -> Results!CacheRows]
              /\ \A s \in Results!Refs : tr_cache'[s].meta \/ tr_cache'[s].body => tr_cache'[s].put
              /\ \A s \in Results!Refs : tr_cache'[s].put = tr_cache[s].put /\ tr_cache'[s].text = tr_cache[s].text
<1>2. Kept
  <2>1. CASE tr_cache' = tr_cache
    BY <2>1 DEF ToolIInv, ToolTyped
  <2>2. ASSUME NEW r \in Results!Refs, Results!Evict(r)
        PROVE  Kept
    <3>1. PICK meta \in BOOLEAN, body \in BOOLEAN :
             /\ meta => tr_cache[r].meta
             /\ body => tr_cache[r].body
             /\ tr_cache' = [tr_cache EXCEPT ![r].meta = meta, ![r].body = body]
      BY <2>2 DEF Results!Evict
    <3>2. tr_cache \in [Results!Refs -> Results!CacheRows]
          /\ \A s \in Results!Refs : tr_cache[s].meta \/ tr_cache[s].body => tr_cache[s].put
      BY DEF ToolIInv, ToolTyped
    <3>3. PICK c : c = tr_cache[r] /\ c \in Results!CacheRows
      BY <3>2
    <3>4. PICK d : d = [c EXCEPT !.meta = meta, !.body = body]
      OBVIOUS
    <3>5. /\ d \in Results!CacheRows /\ d.put = c.put /\ d.text = c.text
          /\ d.meta = meta /\ d.body = body
      BY <3>3, <3>4 DEF Results!CacheRows
    <3>6. tr_cache' = [tr_cache EXCEPT ![r] = d]
      BY <3>1, <3>2, <3>3, <3>4
    <3>7. tr_cache'[r] = d /\ \A s \in Results!Refs : s # r => tr_cache'[s] = tr_cache[s]
      BY <3>2, <3>6
    <3> QED
      BY <3>1, <3>2, <3>3, <3>5, <3>6, <3>7
  <2> QED
    BY <2>1, <2>2 DEF Results!Age, Results!ReadExpired, Results!vars
<1>3. ASSUME NEW o, Outcome(o) PROVE Outcome(o)'
  BY <1>2, <1>3 DEF Outcome
<1>4. Outcome(tr_pending)' /\ Outcome(tr_result)'
  <2>1. PICK p, q : p = tr_pending /\ q = tr_result
    OBVIOUS
  <2>2. Outcome(p)' /\ Outcome(q)'
    BY <1>3, <2>1 DEF ToolIInv
  <2> QED
    BY <1>1, <2>1, <2>2 DEF Outcome
<1>5. ToolTyped'
  BY <1>1, <1>2 DEF ToolIInv, ToolTyped
<1> QED
  BY <1>1, <1>4, <1>5, ResultStays DEF ToolIInv

(* Read: from the trail, or from the beginning.                            *)
LEMMA ToolReads ==
    ASSUME Results!ToolResultsAssumption, ToolIInv,
           NEW offset \in Nat, NEW limit \in Nat, Results!Read(offset, limit)
    PROVE  ToolIInv'
<1>1. UNCHANGED <<tr_cache, tr_pending, tr_result, tr_hydration>> /\ tr_result.state # "none"
  BY DEF Results!Read
<1>2. PICK t : t = Results!ReadText
  OBVIOUS
<1>3. PICK text : text = Results!Page(t, offset, limit)
  OBVIOUS
<1>4. /\ offset = tr_trail.at \/ offset = 0
      /\ tr_trail' = [at |-> offset + Results!Bytes(text),
                      complete |-> offset + Results!Bytes(text) = Results!Bytes(t),
                      text |-> IF offset = 0 THEN text ELSE tr_trail.text \o text]
  BY <1>2, <1>3 DEF Results!Read
<1>5. t = Shows /\ t \in Seq(Results!Chars) /\ t \in Results!Prefixes(tr_result.of)
      /\ (tr_result.state \in {"inline", "externalized"} => t = tr_result.of) /\ tr_result \in Outcomes
  BY <1>2, ShownIs
<1>6. /\ tr_trail.text \in Results!Prefixes(t) /\ tr_trail.at = Results!Bytes(tr_trail.text)
  BY <1>5 DEF ToolIInv, Follows
<1>7. <<>> \in Results!Prefixes(t) /\ Results!Bytes(<<>>) = 0
  BY <1>5, PrefixesAre, NothingWeighs
<1>8. PICK p \in Results!Prefixes(t) :
         /\ offset = Results!Bytes(p)
         /\ p = IF offset = 0 THEN <<>> ELSE tr_trail.text
  <2>1. CASE offset = 0
    BY <1>7, <2>1
  <2>2. CASE offset # 0
    BY <1>4, <1>6, <2>2
  <2> QED
    BY <2>1, <2>2
<1>9. text \in Results!Prefixes(Results!From(t, Results!Bytes(p)))
  <2>1. PICK rest : rest = Results!From(t, Results!Bytes(p))
    OBVIOUS
  <2>2. rest \in Seq(Results!Chars)
    BY <1>5, <2>1, GoesOn
  <2>3. PICK cut : cut = Results!Cut(rest, limit)
    OBVIOUS
  <2>4. cut \in Results!Prefixes(rest) /\ cut \in Seq(Results!Chars)
    BY <2>2, <2>3, PagesAre, PrefixesAre
  <2>5. text = Results!Bounded(cut, ResultPage) /\ ResultPage \in Nat
    BY <1>3, <1>8, <2>1, <2>3 DEF Results!Page, Results!ToolResultsAssumption
  <2>6. text \in Results!Prefixes(cut)
    BY <2>4, <2>5, PagesAre
  <2> QED
    BY <2>1, <2>2, <2>4, <2>6, PrefixesAre
<1>10. text \in Seq(Results!Chars)
  BY <1>5, <1>9, GoesOn, PrefixesAre
<1>11. PICK next : next = p \o text
  OBVIOUS
<1>12. next \in Results!Prefixes(t) /\ Results!Bytes(next) = offset + Results!Bytes(text)
  BY <1>5, <1>8, <1>9, <1>11, GoesOn
<1>13. tr_trail' = [at |-> Results!Bytes(next), complete |-> Results!Bytes(next) = Results!Bytes(t),
                    text |-> next]
  <2>1. offset = 0 => next = text
    BY <1>8, <1>10, <1>11
  <2>2. offset # 0 => next = tr_trail.text \o text
    BY <1>8, <1>11
  <2> QED
    BY <1>4, <1>12, <2>1, <2>2
<1>14. Results!Bytes(next) = Results!Bytes(t) => next = t
  <2>1. next = t \/ ~(Results!Bytes(t) <= Results!Bytes(next))
    BY <1>5, <1>12, GoesOn
  <2>2. Results!Bytes(t) \in Int
    BY <1>5, BytesCount, PrefixesAre
  <2> QED
    BY <2>1, <2>2
<1>15. Follows'
  <2>1. Shows' = t /\ tr_result' = tr_result
    BY <1>1, <1>5 DEF Shows
  <2>2. tr_trail'.text = next /\ tr_trail'.at = Results!Bytes(next)
        /\ (tr_trail'.complete <=> Results!Bytes(next) = Results!Bytes(t))
    BY <1>13
  <2>3. tr_result.state # "not_cached" => t = tr_result.of
    BY <1>1, <1>5 DEF Outcomes
  <2> QED
    BY <1>12, <1>14, <2>1, <2>2, <2>3 DEF Follows
<1> QED
  BY <1>1, <1>15 DEF ToolIInv, ToolTyped, Outcome, Hydrates

(* Hydrate, HydratePage.                                                   *)
LEMMA ToolHydrates ==
    ASSUME Results!ToolResultsAssumption, ToolIInv, Results!Hydrate \/ Results!HydratePage
    PROVE  ToolIInv'
<1>1. UNCHANGED <<tr_cache, tr_pending, tr_result, tr_trail>>
  BY DEF Results!Hydrate, Results!HydratePage
<1>2. tr_result.of \in Seq(Results!Chars)
  BY ShownIs DEF Outcomes
<1>3. <<>> \in Results!Prefixes(tr_result.of) /\ Results!Bytes(<<>>) = 0
  BY <1>2, PrefixesAre, NothingWeighs
<1>4. CASE Results!Hydrate
  <2>1. tr_result.state = "externalized"
        /\ tr_hydration' = [pc |-> "reading", at |-> 0, text |-> <<>>]
    BY <1>4 DEF Results!Hydrate, Results!NoText
  <2>2. tr_hydration'.pc = "reading" /\ tr_hydration'.at = 0 /\ tr_hydration'.text = <<>>
    BY <2>1
  <2> QED
    BY <1>1, <1>3, <2>1, <2>2 DEF ToolIInv, ToolTyped, Outcome, Follows, Shows, Hydrates
<1>5. CASE Results!HydratePage
  <2>1. /\ tr_result.state = "externalized"
        /\ tr_hydration.text \in Results!Prefixes(tr_result.of)
        /\ tr_hydration.at = Results!Bytes(tr_hydration.text)
    BY <1>5 DEF ToolIInv, Hydrates, Results!HydratePage
  <2>2. Results!ReadText = tr_result.of
    BY <2>1, ShownIs
  <2>3. PICK t : t = tr_result.of
    OBVIOUS
  <2>4. PICK p : p = tr_hydration.text
    OBVIOUS
  <2>5. PICK page : page = Results!Cut(Results!From(t, Results!Bytes(p)), ResultPage)
    OBVIOUS
  <2>6. t \in Seq(Results!Chars) /\ p \in Results!Prefixes(t) /\ ResultPage \in Nat
    BY <1>2, <2>1, <2>3, <2>4 DEF Results!ToolResultsAssumption
  <2>7. page \in Results!Prefixes(Results!From(t, Results!Bytes(p)))
    <3>1. Results!From(t, Results!Bytes(p)) \in Seq(Results!Chars)
      BY <2>6, GoesOn
    <3> QED
      BY <2>5, <2>6, <3>1, PagesAre
  <2>8. PICK next : next = p \o page
    OBVIOUS
  <2>9. next \in Results!Prefixes(t) /\ Results!Bytes(next) = Results!Bytes(p) + Results!Bytes(page)
    BY <2>6, <2>7, <2>8, GoesOn
  <2>10. Results!Bytes(t) <= Results!Bytes(next) => next = t
    BY <2>6, <2>9, GoesOn
  <2>11. CASE ~Results!Held(tr_result.ref)
    <3>1. tr_hydration' = [pc |-> "expired", at |-> 0, text |-> <<>>]
      BY <1>5, <2>11 DEF Results!HydratePage, Results!NoText
    <3>2. tr_hydration'.pc = "expired"
      BY <3>1
    <3> QED
      BY <1>1, <2>1, <3>2 DEF ToolIInv, ToolTyped, Outcome, Follows, Shows, Hydrates
  <2>12. CASE Results!Held(tr_result.ref)
    <3>1. tr_hydration' = [pc |-> IF Results!Bytes(next) < Results!Bytes(t) THEN "reading"
                                  ELSE IF next = t THEN "whole" ELSE "corrupt",
                           at |-> Results!Bytes(next), text |-> next]
      BY <1>5, <2>1, <2>2, <2>3, <2>4, <2>5, <2>8, <2>9, <2>12 DEF Results!HydratePage
    <3>2. /\ tr_hydration'.pc = IF Results!Bytes(next) < Results!Bytes(t) THEN "reading"
                                ELSE IF next = t THEN "whole" ELSE "corrupt"
          /\ tr_hydration'.at = Results!Bytes(next) /\ tr_hydration'.text = next
      BY <3>1
    <3>3. Results!Bytes(next) \in Int /\ Results!Bytes(t) \in Int
      BY <2>6, <2>9, BytesCount, PrefixesAre
    <3>4. Results!Bytes(next) < Results!Bytes(t) \/ next = t
      BY <2>10, <3>3
    <3>5. Hydrates'
      BY <1>1, <2>1, <2>3, <2>9, <3>2, <3>4 DEF Hydrates
    <3> QED
      BY <1>1, <3>5 DEF ToolIInv, ToolTyped, Outcome, Follows, Shows
  <2> QED
    BY <2>11, <2>12
<1> QED
  BY <1>4, <1>5

LEMMA ToolStep ==
    ASSUME Results!ToolResultsAssumption, ToolIInv, [Results!Next]_(Results!vars)
    PROVE  ToolIInv'
<1>1. CASE UNCHANGED Results!vars
  BY <1>1, ToolRests
<1>2. ASSUME NEW t \in ResultTexts,
             \/ Results!Inline(t)
             \/ \E r \in Results!Refs, stored \in BOOLEAN : Results!NotCached(t, r, stored)
             \/ \E r \in Results!Refs : Results!Externalize(t, r)
      PROVE  ToolIInv'
  BY <1>2, ToolRan
<1>3. ASSUME NEW offset \in 0..ResultMaximum, NEW limit \in 4..ResultPage, Results!Read(offset, limit)
      PROVE  ToolIInv'
  BY <1>3, ToolReads DEF Results!ToolResultsAssumption
<1> QED
  BY <1>1, <1>2, <1>3, ToolEnds, ToolRests, ToolHydrates DEF Results!Next

(* What the suite checks of a result.                                      *)
LEMMA ToolHolds ==
    ASSUME Results!ToolResultsAssumption, ToolIInv
    PROVE  Results!TypeOK /\ Results!FollowedIsTheResult
<1>1. Results!TypeOK
  BY DEF ToolIInv, ToolTyped, Outcomes, Results!TypeOK
<1>2. tr_result.of \in Seq(Results!Chars) /\ Shows \in Results!Prefixes(tr_result.of)
  BY ShownIs DEF Outcomes
<1>3. tr_trail.text \in Results!Prefixes(tr_result.of)
  BY <1>2, ShownIs, PrefixesAre DEF ToolIInv, Follows
<1> QED
  BY <1>1, <1>3 DEF ToolIInv, Follows, Hydrates, Results!FollowedIsTheResult

-----------------------------------------------------------------------------
(* The suite. *)

IInv ==
    /\ scene = "member" => Member!IInv
    /\ scene = "attempts" => Attempts!IInv
    /\ scene = "report" => ReportIInv
    /\ scene = "result" => ToolIInv
    /\ scene = "chat" => ChatIInv
    /\ scene = "memory" => MemoryIInv(MemorySteps, FALSE)
    /\ scene = "stalling" => MemoryIInv(StallingSteps, TRUE)

(* A step of a scene is one of its component.                              *)
LEMMA SceneSteps ==
    ASSUME [Next]_vars
    PROVE  /\ scene' = scene
           /\ scene = "member" => [Member!Next]_(Member!vars)
           /\ scene = "attempts" => [Attempts!Next]_(Attempts!vars)
           /\ scene = "report" => [Reports!Next]_(Reports!vars)
           /\ scene = "result" => [Results!Next]_(Results!vars)
           /\ scene = "chat" => [Chat!Next]_(Chat!vars)
           /\ scene = "memory" => [Memory(MemorySteps, FALSE)!Next]_(Memory(MemorySteps, FALSE)!vars)
           /\ scene = "stalling" => [Memory(StallingSteps, TRUE)!Next]_(Memory(StallingSteps, TRUE)!vars)
<1>1. UNCHANGED rs_vars => UNCHANGED Member!vars /\ UNCHANGED Attempts!vars
  BY DEF rs_vars, Member!vars, Attempts!vars
<1>2. UNCHANGED rr_vars => UNCHANGED Reports!vars
  BY DEF rr_vars, Reports!vars
<1>3. UNCHANGED rm_vars => /\ UNCHANGED Memory(MemorySteps, FALSE)!vars
                           /\ UNCHANGED Memory(StallingSteps, TRUE)!vars
  BY DEF rm_vars, Memory!vars
<1>4. UNCHANGED cc_vars => UNCHANGED Chat!vars
  BY DEF cc_vars, Chat!vars
<1>5. UNCHANGED tr_vars => UNCHANGED Results!vars
  BY DEF tr_vars, Results!vars
<1>6. CASE Next
  BY <1>6 DEF Next
<1>7. CASE UNCHANGED vars
  <2>1. UNCHANGED <<scene, rs_vars, rr_vars, rm_vars, cc_vars, tr_vars>>
    BY <1>7 DEF vars
  <2> QED
    BY <2>1, <1>1, <1>2, <1>3, <1>4, <1>5
<1> QED
  BY <1>6, <1>7

(* In every scene, of sessions, of a report, of a long result, of the      *)
(* context of a chat and of the memory of a Run, the component keeps its   *)
(* inductive invariant.                                                    *)
THEOREM Invariance == Spec => []IInv
<1>1. Init => IInv
  <2> SUFFICES ASSUME Init PROVE IInv
    OBVIOUS
  <2>1. scene = "member" => Member!IInv
    BY Member!InitIInv, ResearchAssumption DEF Init
  <2>2. scene = "attempts" => Attempts!IInv
    BY Attempts!InitIInv, ResearchAssumption DEF Init
  <2>3. scene = "report" => ReportIInv
    BY ReportInit, ResearchAssumption DEF Init
  <2>4. scene = "memory" => MemoryIInv(MemorySteps, FALSE)
    BY MemoryInit, ResearchAssumption DEF Init
  <2>5. scene = "stalling" => MemoryIInv(StallingSteps, TRUE)
    BY MemoryInit, ResearchAssumption DEF Init
  <2>6. scene = "chat" => ChatIInv
    BY ChatInit, ResearchAssumption DEF Init
  <2>7. scene = "result" => ToolIInv
    BY ToolInit, ResearchAssumption DEF Init
  <2> QED
    BY <2>1, <2>2, <2>3, <2>4, <2>5, <2>6, <2>7 DEF IInv
<1>2. IInv /\ [Next]_vars => IInv'
  <2> SUFFICES ASSUME IInv, [Next]_vars PROVE IInv'
    OBVIOUS
  <2>1. scene = "member" => Member!IInv'
    BY SceneSteps, Member!NextIInv, ResearchAssumption DEF IInv
  <2>2. scene = "attempts" => Attempts!IInv'
    BY SceneSteps, Attempts!NextIInv, ResearchAssumption DEF IInv
  <2>3. scene = "report" => ReportIInv'
    BY SceneSteps, ReportStep, ResearchAssumption DEF IInv
  <2>4. scene = "memory" => MemoryIInv(MemorySteps, FALSE)'
    BY SceneSteps, MemoryStep, ResearchAssumption DEF IInv
  <2>5. scene = "stalling" => MemoryIInv(StallingSteps, TRUE)'
    BY SceneSteps, MemoryStep, ResearchAssumption DEF IInv
  <2>6. scene = "chat" => ChatIInv'
    BY SceneSteps, ChatStep, ChatStutters, ResearchAssumption DEF IInv
  <2>7. scene = "result" => ToolIInv'
    BY SceneSteps, ToolStep, ResearchAssumption DEF IInv
  <2> QED
    BY SceneSteps, <2>1, <2>2, <2>3, <2>4, <2>5, <2>6, <2>7 DEF IInv
<1> QED
  BY <1>1, <1>2, PTL DEF Spec

(* research_routes.go, research_planning_runtime.go, research_runtime.go:  *)
(* a Member has one research Run at work, a Run at work finds its session  *)
(* where its end looks for it, and a planner is suspended exactly while    *)
(* its session shows an open batch of its questions.                       *)
THEOREM SessionsFollow == Spec => []SessionFollowsRun
<1>1. IInv => SessionFollowsRun
  <2> SUFFICES ASSUME IInv PROVE SessionFollowsRun
    OBVIOUS
  <2>1. scene = "member" => Member!TypeOK /\ Member!OneRunAtWork /\ Member!SessionFollowsRun
    BY Member!ImpliesTypeOK, Member!ImpliesOne, Member!ImpliesFollows, ResearchAssumption DEF IInv
  <2>2. scene = "attempts" => Attempts!TypeOK /\ Attempts!SessionFollowsRun
    BY Attempts!ImpliesTypeOK, Attempts!ImpliesFollows DEF IInv
  <2> QED
    BY <2>1, <2>2 DEF SessionFollowsRun
<1> QED
  BY <1>1, Invariance, PTL

(* research_completion.go, research_runtime.go: a report published while   *)
(* the Run could still declare is the one its declaration was accepted     *)
(* for, every question of the plan is declared, and usable cards that this *)
(* report cites answer it, for any plan and any number of decisions.       *)
THEOREM ReportsAreDeclared == Spec => []PublishedAsDeclared
<1>1. IInv => PublishedAsDeclared
  BY ReportHolds DEF IInv, PublishedAsDeclared
<1> QED
  BY <1>1, Invariance, PTL

(* research_compaction.go: a capsule a request was built with is the one   *)
(* stored, steps of the retention target are not archived, and as          *)
(* long as no Attempt stalls between CheckAuthority and its insert no      *)
(* later request finds the memories illegible, for a Run of any length,    *)
(* any limits and any number of lost leases.                               *)
THEOREM MemoriesHold == Spec => []MemoryHolds
<1>1. IInv => MemoryHolds
  <2> SUFFICES ASSUME IInv PROVE MemoryHolds
    OBVIOUS
  <2>1. scene = "memory" => /\ Memory(MemorySteps, FALSE)!TypeOK
                            /\ Memory(MemorySteps, FALSE)!CapsulesHold
                            /\ Memory(MemorySteps, FALSE)!ProjectionHolds
    BY MemoryIsKept, ResearchAssumption DEF IInv
  <2>2. scene = "stalling" => Memory(StallingSteps, TRUE)!CapsulesHold
    BY MemoryIsKept, ResearchAssumption DEF IInv
  <2> QED
    BY <2>1, <2>2 DEF MemoryHolds
<1> QED
  BY <1>1, Invariance, PTL

(* postgres_compaction.go, postgres_context_projection.go: a request of a  *)
(* chat Run stands for every unit of its lane, each in the summary or as   *)
(* it was; compactions follow one another whoever appends them, and none   *)
(* makes the chat illegible for the Run at work, for any number of Runs,   *)
(* units and lost leases and any limits.                                   *)
THEOREM NothingIsForgotten == Spec => []NothingForgotten
<1>1. IInv => NothingForgotten
  BY ChatHolds, ResearchAssumption DEF IInv, NothingForgotten
<1> QED
  BY <1>1, Invariance, PTL

(* tool_result_cache.go, read_tool_result_action.go, research_runtime.go:  *)
(* whoever follows the offsets from a preview has read a beginning of the  *)
(* result the checkpoint is of, and all of it when told so, over evictions *)
(* and repeated executions, and what is hydrated for the ledger is the     *)
(* whole result and never corrupt, for any texts and limits.               *)
THEOREM ReadingFollows == Spec => []FollowedIsTheResult
<1>1. IInv => FollowedIsTheResult
  BY ToolHolds, ResearchAssumption DEF IInv, FollowedIsTheResult
<1> QED
  BY <1>1, Invariance, PTL
=============================================================================
