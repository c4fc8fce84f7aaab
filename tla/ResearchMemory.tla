---------------------------- MODULE ResearchMemory ----------------------------
(***************************************************************************)
(* How a long research Run fits its log into a request                     *)
(* (internal/agent/research_compaction.go): old decision steps are         *)
(* replaced by capsules, and runs of capsules by a task memory, both       *)
(* written once and read by every later request of the Run, of whichever   *)
(* Attempt.                                                                *)
(*                                                                         *)
(* A step is known by its decision number; steering occupies a place of    *)
(* the log between two of them.  A text is its author.                     *)
(***************************************************************************)
EXTENDS Naturals, Sequences, FiniteSets

CONSTANTS MaxDecisions,
          MaxTakeovers,  \* leases that are lost
          BatchMax,      \* researchArchivalBatchMaxSteps
          Trigger,       \* CompactionTriggerTokens
          Safe,          \* SafeInputTokens
          KeepRecent,    \* steps the retention target keeps exact
          Stalls         \* an Attempt may stall between CheckAuthority and its insert

\* Of the constants; the MC modules that instantiate this one assume it.
ResearchMemoryAssumption ==
    /\ {MaxDecisions, MaxTakeovers, BatchMax, Trigger, Safe} \subseteq Nat
    /\ KeepRecent \in Nat \ {0} /\ Trigger <= Safe /\ Stalls \in BOOLEAN

VARIABLES
    decisions,   \* accepted decision steps
    steered,     \* the steps after which steering was delivered
    capsules,    \* research_archival_capsules: the author by decision, 0 for none
    memories,    \* research_task_memories
    at,          \* two Attempts, the older one possibly a straggler
    holder,
    takeovers,
    status       \* of the Run

vars == <<decisions, steered, capsules, memories, at, holder, takeovers, status>>

Steps == 1..MaxDecisions
Attempts == 1..2
NoCapsules == [d \in Steps |-> 0]
Begun(upto) == [pc |-> "begun", upto |-> upto, archived |-> NoCapsules, seen |-> {},
                forced |-> FALSE, range |-> {}]
NoAttempt == [Begun(0) EXCEPT !.pc = "gone"]

Init ==
    /\ decisions = 0
    /\ steered = {}
    /\ capsules = NoCapsules
    /\ memories = {}
    /\ at = [a \in Attempts |-> IF a = 1 THEN Begun(0) ELSE NoAttempt]
    /\ holder = 1
    /\ takeovers = 0
    /\ status = "running"

CapsuleRows == [Steps -> {0} \union Attempts]
MemoryRows == UNION {[range : {range}, by : Attempts, source : [range -> Attempts]] : range \in (SUBSET Steps) \ {{}}}

(* A capsule has one author, a memory tells what each capsule of its range *)
(* was when it was made.                                                   *)
TypeOK ==
    /\ decisions \in 0..MaxDecisions /\ steered \subseteq Steps
    /\ capsules \in CapsuleRows
    /\ memories \subseteq MemoryRows
    /\ status \in {"running", "failed"}

Holds(a) == a = holder /\ status = "running"        \* CheckAuthority
Goes(a, pc) == at' = [at EXCEPT ![a].pc = pc]
Unchanged == UNCHANGED <<decisions, steered, holder, takeovers, status>>

-----------------------------------------------------------------------------
(* The projection of the trajectory. *)

Archived(archived) == {d \in Steps : archived[d] # 0}
First(S) == CHOOSE d \in S : \A e \in S : d <= e

(* loadResearchTaskMemories and applyResearchTaskMemories find the stored  *)
(* ranges disjoint and backed by capsules.                                 *)
Projectable(archived, ms) ==
    /\ \A m \in ms : /\ m.range \subseteq Archived(archived)
                     /\ \A d \in m.range : archived[d] = m.source[d]
    /\ \A m, n \in ms : m # n => m.range \intersect n.range = {}

Covered(ms) == UNION {m.range : m \in ms}

(* A step takes two, a capsule or a memory one, the fixed rest nothing.    *)
Tokens(upto, archived, ms) ==
    LET exact == 1..upto \ Archived(archived)
        shells == (1..upto \intersect Archived(archived)) \ Covered(ms)
    IN  2 * Cardinality(exact) + Cardinality(shells) + Cardinality(ms)

(* selectResearchArchivalSteps: the oldest unarchived steps in a row that  *)
(* the retention target does not keep.                                     *)
Old(upto) == 1..(IF upto > KeepRecent THEN upto - KeepRecent ELSE 0)
Selected(upto, archived) ==
    LET todo == Old(upto) \ Archived(archived) IN
    IF todo = {} THEN {}
    ELSE {d \in todo : d < First(todo) + BatchMax /\ First(todo)..d \subseteq todo}

(* compactResearchTaskMemory: the first capsules in a row that no memory   *)
(* covers, as far as their checkpoints adjoin.                             *)
Uncovered(upto, archived, ms) ==
    LET todo == (1..upto \intersect Archived(archived)) \ Covered(ms) IN
    IF todo = {} THEN {}
    ELSE {d \in todo : First(todo)..d \subseteq todo /\ First(todo)..(d - 1) \intersect steered = {}}

\* What still fits the summarizer.
Shrunk(S) == {{d \in S : d <= e} : e \in S} \union {{}}

-----------------------------------------------------------------------------
(* The Run. *)

TakeOver ==
    /\ status = "running" /\ takeovers < MaxTakeovers
    /\ takeovers' = takeovers + 1
    /\ holder' = 3 - holder
    /\ at' = [at EXCEPT ![3 - holder] = Begun(decisions),
                        ![holder] = IF Stalls THEN @ ELSE NoAttempt]
    /\ UNCHANGED <<decisions, steered, capsules, memories, status>>

DeliverSteering ==
    /\ status = "running" /\ decisions \notin steered /\ decisions > 0
    /\ at[holder].pc = "begun" /\ ~at[holder].forced
    /\ steered' = steered \union {decisions}
    /\ UNCHANGED <<decisions, capsules, memories, at, holder, takeovers, status>>

(* A decision with all its Results; the prefix of the Attempt follows.     *)
AcceptStep(a) ==
    /\ at[a].pc = "sent" /\ Holds(a) /\ decisions < MaxDecisions
    /\ decisions' = decisions + 1
    /\ at' = [at EXCEPT ![a] = Begun(decisions + 1)]
    /\ UNCHANGED <<steered, capsules, memories, holder, takeovers, status>>

(* The Provider found the request too long.                                *)
ProviderOverflow(a) ==
    /\ at[a].pc = "sent" /\ ~at[a].forced
    /\ at' = [at EXCEPT ![a] = [Begun(@.upto) EXCEPT !.forced = TRUE]]
    /\ UNCHANGED <<capsules, memories>> /\ Unchanged

(* ErrContextBudgetExceeded and a projection that fails end the Run.       *)
Fail(a) ==
    /\ at[a].pc \in {"exceeded", "broken"} /\ Holds(a)
    /\ status' = "failed"
    /\ at' = [at EXCEPT ![a] = NoAttempt]
    /\ UNCHANGED <<decisions, steered, capsules, memories, holder, takeovers>>

-----------------------------------------------------------------------------
(* PrepareDecisionRequest. *)

(* loadResearchArchivalCapsules, and the memories in a query of their own. *)
LoadCapsules(a) ==
    /\ at[a].pc = "begun"
    /\ at' = [at EXCEPT ![a].pc = "capsules", ![a].archived = capsules]
    /\ UNCHANGED <<capsules, memories>> /\ Unchanged

LoadMemories(a) ==
    /\ at[a].pc = "capsules"
    /\ at' = [at EXCEPT ![a].seen = memories,
                        ![a].pc = IF Projectable(at[a].archived, memories) THEN "loaded" ELSE "broken"]
    /\ UNCHANGED <<capsules, memories>> /\ Unchanged

Now(a) == Tokens(at[a].upto, at[a].archived, at[a].seen)
Due(a) == at[a].forced \/ Now(a) >= Trigger
Optional(a) == ~at[a].forced /\ Now(a) <= Safe        \* researchCompactionOptional
Short(a) == at[a].upto < 2                             \* nothing is old
Candidates(a) == Selected(at[a].upto, at[a].archived)
Selecting(a) == at[a].pc \in {"optional", "needed"}

(* The steps to archive are selected by the capsules of a second load; how *)
(* long the request is was measured with those of the first.               *)
ReloadCapsules(a) ==
    /\ at[a].pc = "loaded" /\ Due(a) /\ ~Short(a)
    /\ at' = [at EXCEPT ![a].pc = IF Optional(a) THEN "optional" ELSE "needed", ![a].archived = capsules]
    /\ UNCHANGED <<capsules, memories>> /\ Unchanged

(* A request that is short enough, or one that fits although nothing more  *)
(* can be archived or archiving failed.                                    *)
Send(a) ==
    /\ at[a].pc = "optional" \/ (at[a].pc = "loaded" /\ ~Due(a))
    /\ Goes(a, "sent")
    /\ UNCHANGED <<capsules, memories>> /\ Unchanged

(* Archiving fails for good: nothing is old, the steps do not fit the      *)
(* summarizer, or it never answers in form.                                *)
ArchivingFails(a) ==
    /\ \/ at[a].pc = "loaded" /\ Due(a) /\ Short(a)
       \/ Selecting(a) /\ Candidates(a) # {}
       \/ at[a].pc = "needed" /\ Candidates(a) = {} /\ Archived(at[a].archived) = {}
    /\ Goes(a, "exceeded")
    /\ UNCHANGED <<capsules, memories>> /\ Unchanged

(* generateResearchArchivalCapsules.                                       *)
GenerateCapsules(a, range) ==
    /\ Selecting(a)
    /\ range \in Shrunk(Candidates(a)) \ {{}}
    /\ at' = [at EXCEPT ![a].pc = "capsulesGenerated", ![a].range = range]
    /\ UNCHANGED <<capsules, memories>> /\ Unchanged

(* appendResearchArchivalCapsules asks for the lease first, and inserts in *)
(* a transaction of its own.  One capsule of another text undoes it.       *)
CheckAuthority(a, from, to) ==
    /\ at[a].pc = from /\ Holds(a)
    /\ Goes(a, to)
    /\ UNCHANGED <<capsules, memories>> /\ Unchanged

With(archived, a) == [d \in Steps |-> IF d \in at[a].range THEN a ELSE archived[d]]
\* Mutant: a capsule of another text is replaced.
AppendOver(a) ==
    /\ at[a].pc = "capsulesChecked" /\ status = "running"
    /\ capsules' = With(capsules, a)
    /\ at' = [at EXCEPT ![a].archived = With(@, a), ![a].range = {}, ![a].pc = "sent"]
    /\ UNCHANGED memories /\ Unchanged
AppendCapsules(a) ==
    LET now == [at[a] EXCEPT !.archived = With(@, a), !.range = {}]
        after == Tokens(now.upto, now.archived, now.seen)
        conflict == \E d \in at[a].range : capsules[d] \notin {0, a}
    IN  /\ at[a].pc = "capsulesChecked" /\ status = "running"
        /\ capsules' = IF conflict THEN capsules ELSE With(capsules, a)
        /\ at' = [at EXCEPT ![a] = [now EXCEPT !.pc = IF conflict THEN "exceeded"
                                                      ELSE IF after > Safe THEN "memory" ELSE "sent"]]
        /\ UNCHANGED memories /\ Unchanged

(* Nothing is left to archive: a task memory has to help.                  *)
NoArchivalRange(a) ==
    /\ at[a].pc = "needed" /\ Candidates(a) = {}
    /\ Archived(at[a].archived) # {}
    /\ Goes(a, "memory")
    /\ UNCHANGED <<capsules, memories>> /\ Unchanged

(* generateResearchTaskMemory; the request must fit with it.               *)
Memory(a, range) == [range |-> range, by |-> a, source |-> [d \in range |-> at[a].archived[d]]]
GenerateMemory(a, range) ==
    LET after == Tokens(at[a].upto, at[a].archived, memories \union {Memory(a, range)}) IN
    /\ at[a].pc = "memory"
    /\ Projectable(at[a].archived, memories)
    /\ range \in Shrunk(Uncovered(at[a].upto, at[a].archived, memories)) \ {{}}
    /\ at' = [at EXCEPT ![a].range = range, ![a].seen = memories,
                        ![a].pc = IF after <= Safe THEN "memoryGenerated" ELSE "exceeded"]
    /\ UNCHANGED <<capsules, memories>> /\ Unchanged

MemoryFails(a) ==
    /\ at[a].pc = "memory"
    /\ Goes(a, IF Projectable(at[a].archived, memories) THEN "exceeded" ELSE "broken")
    /\ UNCHANGED <<capsules, memories>> /\ Unchanged

(* appendResearchTaskMemory: the range is unique, an overlap is not looked *)
(* for.                                                                    *)
AppendMemory(a) ==
    LET new == Memory(a, at[a].range)
        same == {m \in memories : m.range = new.range}
    IN  /\ at[a].pc = "memoryChecked" /\ status = "running"
        /\ memories' = IF same = {} THEN memories \union {new} ELSE memories
        /\ at' = [at EXCEPT ![a].pc = IF same \subseteq {new} THEN "sent" ELSE "exceeded", ![a].seen = memories']
        /\ UNCHANGED capsules /\ Unchanged

Next ==
    \/ TakeOver
    \/ DeliverSteering
    \/ \E a \in Attempts :
          \/ AcceptStep(a)
          \/ ProviderOverflow(a)
          \/ Fail(a)
          \/ LoadCapsules(a)
          \/ LoadMemories(a)
          \/ ReloadCapsules(a)
          \/ Send(a)
          \/ ArchivingFails(a)
          \/ CheckAuthority(a, "capsulesGenerated", "capsulesChecked")
          \/ AppendCapsules(a)
          \/ NoArchivalRange(a)
          \/ CheckAuthority(a, "memoryGenerated", "memoryChecked")
          \/ MemoryFails(a)
          \/ AppendMemory(a)
          \/ \E range \in SUBSET Steps : GenerateCapsules(a, range) \/ GenerateMemory(a, range)

Spec == Init /\ [][Next]_vars

-----------------------------------------------------------------------------
(* Although an Attempt that lost its lease may still insert, a capsule a   *)
(* request of the Run was built with is the one that is stored, whoever    *)
(* wrote it, and the steps of the retention target are never archived.     *)
CapsulesHold ==
    /\ Archived(capsules) \intersect (1..decisions) \subseteq Old(decisions)
    /\ \A a \in Attempts : Holds(a) /\ at[a].pc = "sent" =>
          \A d \in Archived(at[a].archived) : at[a].archived[d] = capsules[d]

(* What was written stays legible: no later request of the Run finds       *)
(* memories that overlap, lack capsules or were made of others.  It takes  *)
(* Attempts that do not stall: one that lost its lease after               *)
(* CheckAuthority inserts a memory that overlaps the newer one.            *)
ProjectionHolds == ~Stalls => at[holder].pc # "broken"

=============================================================================
