-------------------------- MODULE SubagentsProofs --------------------------
(***************************************************************************)
(* Theorems about Subagents, for every number of children and Actions, all *)
(* limits of the tree, timeouts and deadlines.                             *)
(***************************************************************************)
EXTENDS Subagents, FiniteSetTheorems, TLAPS

----------------------------------------------------------------------------
(* The inductive invariant.                                                *)

Steps == {"idle", "observing", "returning", "yielding", "result", "excerpt", "gone",
          "error", "ending", "sweeping", "ended", "waking"}

\* Positions without a transaction in progress.
Resting == {"idle", "result", "excerpt", "gone", "error"}

Typed ==
    /\ status \in [Runs -> Active \cup Terminal \cup {"absent"}]
    /\ availableAt \in Nat
    /\ waits \in [Actions -> [agents : SUBSET Children, deadline : Int]]
    /\ childOf \in [Actions -> Children \cup {None}]
    /\ act \in [no : 0..MaxActions, kind : {"none", "spawn", "wait"},
                agents : SUBSET Children, timeout : Nat]
    /\ excerpts \subseteq Actions
    /\ now \in 0..MaxTime
    /\ lock \in [Runs -> Txs \cup {None}]
    /\ want \in [Txs -> Runs \cup {None}]
    /\ step \in [Txs -> Steps]
    /\ began \in [Txs -> Nat]
    /\ endAs \in [Txs -> Terminal \cup {"none"}]
    /\ parked \in BOOLEAN

\* What a transaction holds at each of its steps, and what cannot change under
\* its locks.
Holding(t) ==
    /\ began[t] <= now
    /\ step[t] \in Resting => want[t] = None /\ \A r \in Runs : lock[r] # t
    /\ step[t] \in {"result", "excerpt"} => t = Root /\ act.kind # "none"
    /\ step[t] \in {"observing", "returning", "yielding"} =>
          t = Root /\ lock[Root] = Root /\ status[Root] = "running" /\ act.kind = "wait"
    /\ step[t] = "ending" => t \in {Root, Member} /\ lock[Root] = t /\ endAs[t] \in Terminal
    /\ step[t] = "sweeping" => t = Sweeper
    /\ step[t] \in {"ended", "waking"} =>
          t \in Children /\ lock[t] = t /\ status[t] = "running" /\ endAs[t] \in Terminal

\* The rows of agent_subagent_waits are those of the Actions so far; the last
\* one's is of the agents it waits for.
WaitRows ==
    /\ act.kind # "none" => act.no \in Actions
    /\ act.agents \subseteq Created
    /\ \A a \in Actions : /\ waits[a].agents \subseteq Created
                          /\ waits[a] # NoRow => waits[a].deadline >= 0
                          /\ a > act.no => waits[a] = NoRow
    /\ act.kind = "spawn" => waits[act.no] = NoRow
    /\ act.kind = "wait" => waits[act.no] = NoRow \/ waits[act.no].agents = act.agents

\* The wait that read its agents keeps them locked; a child that has to wake the
\* root keeps the root from reading it.
Observed ==
    /\ step[Root] \in {"returning", "yielding"} => \A c \in act.agents : lock[c] = Root
    /\ step[Root] = "yielding" => \A c \in act.agents : status[c] \notin Terminal
    /\ status[Root] = "queued" => step[Root] \in {"idle", "gone"}
    /\ \A c \in Children : step[c] = "waking" =>
          /\ c \in act.agents /\ act.kind = "wait"
          /\ step[Root] \notin {"returning", "yielding", "result", "excerpt"}

\* A parked root is runnable at the deadline of its wait or because of a child.
Parked ==
    /\ parked => act.kind = "wait" /\ waits[act.no] # NoRow /\ status[Root] # "running"
    /\ NoLostWakeup
    /\ parked /\ status[Root] = "queued" =>
          \/ availableAt = waits[act.no].deadline
          \/ \E c \in act.agents : status[c] \in Terminal

\* Every child is of one Action.
Owned(c) == \E a \in Actions : childOf[a] = c /\ \A b \in Actions : childOf[b] = c => b = a

Tree ==
    /\ \A a \in Actions : childOf[a] \in Created \cup {None}
    /\ \A c \in Created : Owned(c)
    /\ WithinCapacity
    /\ NoOrphans

\* The inductive invariant.
IInv ==
    /\ Typed
    /\ \A t \in Txs : Holding(t)
    /\ WaitRows
    /\ Observed
    /\ Parked
    /\ Tree

----------------------------------------------------------------------------
(* Lemmas.                                                                 *)

\* Runs and transactions are numbers.
LEMMA Numbers ==
    ASSUME SubagentsAssumption
    PROVE  /\ Runs \subseteq Nat /\ Children \subseteq Nat \ {0} /\ Actions \subseteq Nat \ {0}
           /\ Root \in Runs /\ Root \notin Children /\ Children \subseteq Runs
           /\ Runs \subseteq Txs /\ Member \in Txs \ Runs /\ Sweeper \in Txs \ Runs
           /\ Member # Sweeper /\ None \notin Txs
           /\ \A r \in Runs : r = Root \/ r \in Children
           /\ \A t \in Txs : t \in Runs \/ t = Member \/ t = Sweeper
  BY DEF SubagentsAssumption, Runs, Children, Actions, Root, Txs, Member, Sweeper, None

\* A finite set of numbers has a least one.
LEMMA LeastOfFinite ==
    ASSUME NEW S \in SUBSET Int, IsFiniteSet(S), S # {}
    PROVE  \E i \in S : \A j \in S : i <= j
<1> DEFINE Below(i) == {j \in S : j < i}
           T == {Below(i) : i \in S}
<1>1. IsWellFoundedOn(StrictSubsetOrdering(S), FiniteSubsetsOf(S))
  BY FS_StrictSubsetOrderingWellFounded
<1>2. T \subseteq FiniteSubsetsOf(S) /\ T # {}
  <2>1. \A i \in S : Below(i) \subseteq S /\ IsFiniteSet(Below(i))
    BY FS_Subset
  <2>2. T # {}
    OBVIOUS
  <2> HIDE DEF Below
  <2> QED
    BY <2>1, <2>2 DEF FiniteSubsetsOf
<1>3. PICK x \in T : \A y \in T : ~(<<y, x>> \in StrictSubsetOrdering(S))
  <2> HIDE DEF T
  <2> QED
    BY <1>1, <1>2, WFMin
<1>4. PICK i \in S : x = Below(i)
  BY <1>3
<1>5. ASSUME NEW j \in S, j < i PROVE FALSE
  <2>1. Below(j) \subseteq Below(i) /\ Below(j) # Below(i)
    <3>1. j \in Below(i) /\ j \notin Below(j)
      BY <1>5
    <3>2. \A k \in Below(j) : k \in Below(i)
      BY <1>5
    <3> QED
      BY <3>1, <3>2
  <2>2. <<Below(j), Below(i)>> \in StrictSubsetOrdering(S)
    BY <2>1 DEF StrictSubsetOrdering
  <2> QED
    BY <1>3, <1>4, <2>2
<1> QED
  BY <1>5

\* And a greatest one.
LEMMA GreatestOfFinite ==
    ASSUME NEW S \in SUBSET Int, IsFiniteSet(S), S # {}
    PROVE  \E i \in S : \A j \in S : j <= i
<1> DEFINE T == {-i : i \in S}
           f == [i \in S |-> -i]
<1>1. f \in Surjection(S, T)
  BY DEF Surjection
<1>2. IsFiniteSet(T) /\ T \in SUBSET Int /\ T # {}
  <2>1. T \in SUBSET Int /\ T # {}
    <3>1. \A i \in S : -i \in Int
      OBVIOUS
    <3>2. PICK i \in S : TRUE
      OBVIOUS
    <3>3. -i \in T
      OBVIOUS
    <3> QED
      BY <3>1, <3>3
  <2> HIDE DEF T, f
  <2>2. IsFiniteSet(T)
    BY <1>1, FS_Surjection
  <2> QED
    BY <2>1, <2>2
<1>3. PICK k \in T : \A j \in T : k <= j
  <2> HIDE DEF T
  <2> QED
    BY <1>2, LeastOfFinite
<1>4. PICK i \in S : k = -i
  BY <1>3
<1>5. ASSUME NEW j \in S PROVE j <= i
  <2>1. -j \in T
    OBVIOUS
  <2>2. -i <= -j /\ i \in Int /\ j \in Int
    BY <1>3, <1>4, <2>1
  <2> QED
    BY <2>2
<1> QED
  BY <1>5

\* The children are finitely many.
LEMMA FiniteChildren ==
    ASSUME SubagentsAssumption
    PROVE  /\ IsFiniteSet(Children) /\ IsFiniteSet(Actions)
           /\ \A S \in SUBSET Children : IsFiniteSet(S) /\ Cardinality(S) \in Nat
           /\ \A S \in SUBSET Actions : IsFiniteSet(S) /\ Cardinality(S) \in Nat
<1>1. IsFiniteSet(Children) /\ IsFiniteSet(Actions)
  BY FS_Interval DEF SubagentsAssumption, Children, Actions
<1> QED
  BY <1>1, FS_Subset, FS_CardinalityType

----------------------------------------------------------------------------
(* Types.                                                                  *)

\* A transaction that ends, one that begins and one that takes a row keep the
\* types of the locks.
LEMMA TypedLocks ==
    ASSUME SubagentsAssumption, Typed
    PROVE  /\ \A t \in Txs, where \in Steps : Close(t, where) =>
                 /\ lock' \in [Runs -> Txs \cup {None}]
                 /\ want' \in [Txs -> Runs \cup {None}]
                 /\ step' \in [Txs -> Steps]
                 /\ began' \in [Txs -> Nat]
                 /\ endAs' \in [Txs -> Terminal \cup {"none"}]
           /\ \A t \in Txs, r \in Runs, where \in Steps, as \in Terminal \cup {"none"} :
                 Open(t, r, where, as) =>
                 /\ lock' \in [Runs -> Txs \cup {None}]
                 /\ want' \in [Txs -> Runs \cup {None}]
                 /\ step' \in [Txs -> Steps]
                 /\ began' \in [Txs -> Nat]
                 /\ endAs' \in [Txs -> Terminal \cup {"none"}]
           /\ \A t \in Txs, r \in Runs : Take(t, r) =>
                 /\ lock' \in [Runs -> Txs \cup {None}]
                 /\ want' \in [Txs -> Runs \cup {None}]
<1> USE DEF Typed
<1>1. now \in Nat
  BY DEF SubagentsAssumption
<1>2. ASSUME NEW t \in Txs, NEW where \in Steps, Close(t, where)
      PROVE  /\ lock' \in [Runs -> Txs \cup {None}]
             /\ want' \in [Txs -> Runs \cup {None}]
             /\ step' \in [Txs -> Steps]
             /\ began' \in [Txs -> Nat]
             /\ endAs' \in [Txs -> Terminal \cup {"none"}]
  BY <1>2 DEF Close
<1>3. ASSUME NEW t \in Txs, NEW r \in Runs, NEW where \in Steps,
             NEW as \in Terminal \cup {"none"}, Open(t, r, where, as)
      PROVE  /\ lock' \in [Runs -> Txs \cup {None}]
             /\ want' \in [Txs -> Runs \cup {None}]
             /\ step' \in [Txs -> Steps]
             /\ began' \in [Txs -> Nat]
             /\ endAs' \in [Txs -> Terminal \cup {"none"}]
  BY <1>1, <1>3 DEF Open
<1>4. ASSUME NEW t \in Txs, NEW r \in Runs, Take(t, r)
      PROVE  /\ lock' \in [Runs -> Txs \cup {None}]
             /\ want' \in [Txs -> Runs \cup {None}]
  BY <1>4 DEF Take
<1> QED
  BY <1>2, <1>3, <1>4

\* The wait locks one agent after another.
LEMMA ObservesOne ==
    ASSUME SubagentsAssumption, Typed, ObserveChild
    PROVE  \E c \in Unobserved : Take(Root, c)
<1>1. Unobserved \in SUBSET Children /\ Unobserved \in SUBSET Int
  BY Numbers DEF Typed, Unobserved, Observe
<1>2. Unobserved # {} /\ Take(Root, CHOOSE c \in Unobserved : \A d \in Unobserved : c <= d)
  BY DEF ObserveChild
<1>3. \E c \in Unobserved : \A d \in Unobserved : c <= d
  BY <1>1, <1>2, FiniteChildren, LeastOfFinite
<1>4. (CHOOSE c \in Unobserved : \A d \in Unobserved : c <= d) \in Unobserved
  BY <1>3
<1> QED
  BY <1>2, <1>4

\* So does the expiry, the root last.
LEMMA SweepsOne ==
    ASSUME SubagentsAssumption, Typed, SweepNext
    PROVE  \E r \in Overdue : Take(Sweeper, r)
<1> DEFINE left == Overdue \ Locked(Sweeper)
           pick == IF left = {Root} THEN left ELSE left \ {Root}
<1>1. left # {} /\ Take(Sweeper, CHOOSE r \in pick : \A s \in pick : r <= s)
  BY DEF SweepNext
<1>2. pick \subseteq Overdue /\ pick # {} /\ Overdue \subseteq Runs
  BY <1>1 DEF Overdue
<1>3. pick \in SUBSET Int
  BY <1>2, Numbers
<1>4. IsFiniteSet(pick)
  <2>1. IsFiniteSet(Runs)
    BY FS_AddElement, FiniteChildren DEF Runs
  <2> HIDE DEF pick
  <2> QED
    BY <1>2, <2>1, FS_Subset
<1> HIDE DEF pick
<1>5. \E r \in pick : \A s \in pick : r <= s
  BY <1>2, <1>3, <1>4, LeastOfFinite
<1>6. (CHOOSE r \in pick : \A s \in pick : r <= s) \in pick
  BY <1>5
<1> QED
  BY <1>1, <1>2, <1>6 DEF pick

\* The children a wait dispatches are new, and each is of one Action.
LEMMA DispatchTyped ==
    ASSUME SubagentsAssumption, Typed, NEW f \in [Dispatched -> Children \ Created]
    PROVE  /\ [a \in Actions |-> IF a \in Dispatched THEN f[a] ELSE childOf[a]]
                  \in [Actions -> Children \cup {None}]
           /\ [r \in Runs |-> IF \E a \in Dispatched : f[a] = r THEN "queued" ELSE status[r]]
                  \in [Runs -> Active \cup Terminal \cup {"absent"}]
  BY DEF Typed, Active

\* The row of a wait is typed and has a time.
LEMMA WaitRowTyped ==
    ASSUME SubagentsAssumption, IInv, act.kind = "wait"
    PROVE  /\ act.no \in Actions
           /\ WaitRow \in [agents : SUBSET Children, deadline : Int]
           /\ WaitRow # NoRow /\ WaitRow.deadline >= 0 /\ WaitRow.agents = act.agents
<1>1. /\ act.no \in Actions /\ began[Root] \in Nat /\ act.timeout \in Nat
      /\ act.agents \in SUBSET Children
      /\ waits[act.no] \in [agents : SUBSET Children, deadline : Int]
      /\ waits[act.no] # NoRow => waits[act.no].deadline >= 0
      /\ waits[act.no] # NoRow => waits[act.no].agents = act.agents
  BY Numbers DEF IInv, Typed, WaitRows
<1>2. CASE waits[act.no] # NoRow
  BY <1>1, <1>2 DEF WaitRow
<1>3. CASE waits[act.no] = NoRow
  <2>1. WaitRow = [agents |-> act.agents, deadline |-> began[Root] + act.timeout]
    BY <1>3 DEF WaitRow
  <2>2. began[Root] + act.timeout \in Nat
    BY <1>1
  <2> QED
    BY <1>1, <2>1, <2>2 DEF NoRow
<1> QED
  BY <1>2, <1>3

\* Every step keeps the types.
LEMMA TypedStep ==
    ASSUME SubagentsAssumption, IInv, [Next]_vars
    PROVE  Typed'
<1>0. /\ Typed /\ Root \in Txs /\ Member \in Txs /\ Sweeper \in Txs /\ Root \in Runs
      /\ \A t \in Txs : Holding(t)
  BY Numbers DEF IInv
<1>1. now \in Nat /\ MaxTime \in Nat
  BY <1>0 DEF Typed, SubagentsAssumption
<1>2. ASSUME NEW where \in Steps, NEW t \in Txs
      PROVE  [step EXCEPT ![t] = where] \in [Txs -> Steps]
  BY <1>0 DEF Typed
<1>3. ASSUME NEW r \in Runs, NEW s \in Active \cup Terminal
      PROVE  [status EXCEPT ![r] = s] \in [Runs -> Active \cup Terminal \cup {"absent"}]
  BY <1>0 DEF Typed
<1>4. CASE Tick
  BY <1>0, <1>1, <1>4 DEF Tick, Typed, rows, root, locks, txs
<1>5. CASE RootStep
  <2>1. ASSUME NEW kind \in {"spawn", "wait"}, NEW S \in SUBSET Created, NEW m \in Nat,
               Propose(kind, S, m)
        PROVE  Typed'
    <3>1. act' \in [no : 0..MaxActions, kind : {"none", "spawn", "wait"},
                    agents : SUBSET Children, timeout : Nat]
      BY <1>0, <2>1 DEF Propose, Typed, SubagentsAssumption, Created
    <3> QED
      BY <1>0, <2>1, <3>1 DEF Propose, Typed, rows, locks, txs
  <2>2. CASE Spawn
    <3>1. status' \in [Runs -> Active \cup Terminal \cup {"absent"}]
          /\ childOf' \in [Actions -> Children \cup {None}]
      <4>1. CASE UNCHANGED <<status, childOf>>
        BY <1>0, <4>1 DEF Typed
      <4>2. ASSUME NEW c \in Children \ Created, status' = [status EXCEPT ![c] = "queued"],
                   childOf' = [childOf EXCEPT ![act.no] = c]
            PROVE  /\ status' \in [Runs -> Active \cup Terminal \cup {"absent"}]
                   /\ childOf' \in [Actions -> Children \cup {None}]
        BY <1>0, <1>3, <4>2, Numbers DEF Typed, Active
      <4> QED
        BY <2>2, <4>1, <4>2 DEF Spawn
    <3>2. step' \in [Txs -> Steps]
      BY <1>0, <2>2 DEF Spawn, Answer, Typed, Steps
    <3> QED
      BY <1>0, <2>2, <3>1, <3>2 DEF Spawn, Typed, root, locks
  <2>3. CASE BeginWait
    BY <1>0, <2>3, TypedLocks DEF BeginWait, Typed, rows, root, Steps
  <2>4. CASE ObserveChild
    <3>1. PICK c \in Unobserved : Take(Root, c)
      BY <1>0, <2>4, ObservesOne
    <3> QED
      BY <1>0, <2>4, <3>1, TypedLocks, Numbers DEF ObserveChild, Typed, rows, root, txs,
         Unobserved, Observe
  <2>5. CASE LoadAgents
    BY <1>0, <2>5 DEF LoadAgents, Answer, Typed, Steps, rows, root, locks
  <2>6. CASE FinishWait
    <3>1. act.kind = "wait"
      BY <1>0, <2>6 DEF FinishWait, Holding
    <3>2. PICK f \in [Dispatched -> Children \ Created] :
             /\ childOf' = [a \in Actions |-> IF a \in Dispatched THEN f[a] ELSE childOf[a]]
             /\ LET spawned == [r \in Runs |-> IF \E a \in Dispatched : f[a] = r
                                               THEN "queued" ELSE status[r]]
                IN  \/ /\ status' = spawned
                       /\ Close(Root, "result")
                       /\ UNCHANGED <<availableAt, waits, parked>>
                    \/ /\ waits' = [waits EXCEPT ![act.no] = WaitRow]
                       /\ IF WaitRow.deadline <= began[Root]
                          THEN /\ status' = spawned
                               /\ Close(Root, "result")
                               /\ UNCHANGED <<availableAt, parked>>
                          ELSE /\ status' = [spawned EXCEPT ![Root] = "queued"]
                               /\ availableAt' = WaitRow.deadline
                               /\ parked' = TRUE
                               /\ Close(Root, "idle")
      BY <2>6 DEF FinishWait
    <3> DEFINE spawned == [r \in Runs |-> IF \E a \in Dispatched : f[a] = r
                                          THEN "queued" ELSE status[r]]
    <3>3. /\ childOf' \in [Actions -> Children \cup {None}]
          /\ spawned \in [Runs -> Active \cup Terminal \cup {"absent"}]
      BY <1>0, <3>2, DispatchTyped
    <3>4. /\ status' \in [Runs -> Active \cup Terminal \cup {"absent"}]
          /\ availableAt' \in Nat /\ parked' \in BOOLEAN
          /\ waits' \in [Actions -> [agents : SUBSET Children, deadline : Int]]
      <4>1. /\ WaitRow \in [agents : SUBSET Children, deadline : Int] /\ WaitRow.deadline >= 0
            /\ waits \in [Actions -> [agents : SUBSET Children, deadline : Int]]
            /\ availableAt \in Nat /\ parked \in BOOLEAN
        BY <1>0, <3>1, WaitRowTyped DEF Typed
      <4>2. [spawned EXCEPT ![Root] = "queued"] \in [Runs -> Active \cup Terminal \cup {"absent"}]
        <5> HIDE DEF spawned
        <5> QED
          BY <3>3 DEF Active
      <4>3. /\ status' \in {spawned, [spawned EXCEPT ![Root] = "queued"]}
            /\ availableAt' \in {availableAt, WaitRow.deadline} /\ parked' \in {parked, TRUE}
            /\ waits' \in {waits, [waits EXCEPT ![act.no] = WaitRow]}
        BY <3>2
      <4>4. [waits EXCEPT ![act.no] = WaitRow] \in [Actions -> [agents : SUBSET Children, deadline : Int]]
        BY <4>1
      <4>5. WaitRow.deadline \in Nat
        BY <4>1
      <4> HIDE DEF spawned
      <4> QED
        BY <3>3, <4>1, <4>2, <4>3, <4>4, <4>5
    <3>5. Close(Root, "result") \/ Close(Root, "idle")
      BY <3>2
    <3>6. act' \in [no : 0..MaxActions, kind : {"none", "spawn", "wait"},
                    agents : SUBSET Children, timeout : Nat]
          /\ excerpts' \subseteq Actions /\ now' \in 0..MaxTime
      BY <1>0, <2>6 DEF FinishWait, Typed, root
    <3> QED
      BY <1>0, <3>3, <3>4, <3>5, <3>6, TypedLocks DEF Typed, Steps
  <2>7. CASE StoreResult
    <3>1. act.no \in Actions /\ act' \in [no : 0..MaxActions, kind : {"none", "spawn", "wait"},
                                          agents : SUBSET Children, timeout : Nat]
      BY <1>0, <2>7 DEF StoreResult, Typed, IInv, WaitRows, Holding
    <3>2. Close(Root, "idle") /\ "idle" \in Steps
      BY <2>7 DEF StoreResult, Steps
    <3> QED
      BY <1>0, <2>7, <3>1, <3>2, TypedLocks DEF StoreResult, Typed, rows
  <2>8. CASE RetryRoot
    BY <1>0, <1>1, <1>3, <2>8 DEF RetryRoot, Typed, root, locks, txs, SubagentsAssumption, Active
  <2> QED
    BY <1>5, <2>1, <2>2, <2>3, <2>4, <2>5, <2>6, <2>7, <2>8 DEF RootStep, SubagentsAssumption
<1>6. CASE ClaimRoot
  BY <1>0, <1>3, <1>6 DEF ClaimRoot, Typed, root, locks, txs, Active
<1>7. ASSUME NEW t \in {Root, Member}, EndStep(t) PROVE Typed'
  <2>1. ASSUME NEW as \in Terminal, BeginEnd(t, as) PROVE Typed'
    BY <1>0, <2>1, TypedLocks DEF BeginEnd, Typed, rows, root, Steps
  <2>2. CASE CancelChild(t)
    <3>1. PICK c \in Runs : Take(t, c)
      BY <2>2, Numbers DEF CancelChild, Outstanding
    <3> QED
      BY <1>0, <2>2, <3>1, TypedLocks DEF CancelChild, Typed, rows, root, txs
  <2>3. CASE FinishEnd(t)
    <3>1. endAs[t] \in Terminal
      BY <1>0, <2>3 DEF FinishEnd, Holding
    <3>2. status' \in [Runs -> Active \cup Terminal \cup {"absent"}]
      BY <1>0, <2>3, <3>1 DEF FinishEnd, Typed, Terminal
    <3> QED
      BY <1>0, <2>3, <3>2, TypedLocks DEF FinishEnd, Typed, root, Steps
  <2> QED
    BY <1>7, <2>1, <2>2, <2>3 DEF EndStep
<1>8. CASE Expiry
  <2>1. CASE BeginExpiry
    BY <1>0, <2>1 DEF BeginExpiry, Typed, rows, root, locks, Steps
  <2>2. CASE SweepNext
    <3>1. PICK r \in Overdue : Take(Sweeper, r)
      BY <1>0, <2>2, SweepsOne
    <3> QED
      BY <1>0, <2>2, <3>1, TypedLocks DEF SweepNext, Typed, rows, root, txs, Overdue
  <2>3. CASE FinishExpiry
    <3>1. status' \in [Runs -> Active \cup Terminal \cup {"absent"}]
      BY <1>0, <2>3 DEF FinishExpiry, Typed, Terminal
    <3> QED
      BY <1>0, <2>3, <3>1, TypedLocks DEF FinishExpiry, Typed, root, Steps
  <2> QED
    BY <1>8, <2>1, <2>2, <2>3 DEF Expiry
<1>9. ASSUME NEW c \in Children, ChildStep(c) PROVE Typed'
  <2>0. c \in Runs /\ c \in Txs
    BY Numbers
  <2>1. CASE ClaimChild(c)
    BY <1>0, <1>3, <2>0, <2>1 DEF ClaimChild, Typed, root, locks, txs, Active
  <2>2. CASE RetryChild(c)
    BY <1>0, <1>3, <2>0, <2>2 DEF RetryChild, Typed, root, locks, txs, Active
  <2>3. ASSUME NEW as \in {"completed", "failed"}, BeginChildEnd(c, as) PROVE Typed'
    BY <1>0, <2>0, <2>3, TypedLocks DEF BeginChildEnd, Typed, rows, root, Steps, Terminal
  <2>4. ASSUME NEW wakes \in BOOLEAN, ChildEnds(c, wakes), step[c] \in {"ended", "waking"}
        PROVE  Typed'
    <3>1. endAs[c] \in Terminal
      BY <1>0, <2>0, <2>4 DEF Holding
    <3>2. began[c] \in Nat /\ availableAt' \in Nat
      BY <1>0, <2>0, <2>4 DEF ChildEnds, Typed
    <3>3. Close(c, "idle") /\ "idle" \in Steps
      BY <2>4 DEF ChildEnds, Steps
    <3> QED
      BY <1>0, <1>3, <2>0, <2>4, <3>1, <3>2, <3>3, TypedLocks DEF ChildEnds, Typed, root
  <2>5. CASE FinishChildEnd(c)
    <3>1. CASE \E wakes \in BOOLEAN : ChildEnds(c, wakes)
      BY <2>4, <2>5, <3>1 DEF FinishChildEnd
    <3>2. CASE want' = [want EXCEPT ![c] = Root] /\ step' = [step EXCEPT ![c] = "waking"]
               /\ UNCHANGED <<rows, root, now, parked, lock, began, endAs>>
      BY <1>0, <2>0, <3>2 DEF Typed, rows, root, Steps
    <3> QED
      BY <2>5, <3>1, <3>2 DEF FinishChildEnd
  <2>6. CASE FinishWake(c)
    BY <2>4, <2>6 DEF FinishWake
  <2> QED
    BY <1>9, <2>1, <2>2, <2>3, <2>5, <2>6 DEF ChildStep
<1>10. ASSUME NEW t \in Txs, Acquire(t) \/ AbortVictim(t) \/ Crash(t) PROVE Typed'
  <2>1. CASE Acquire(t)
    BY <1>0, <2>1 DEF Acquire, Typed, rows, root, txs
  <2>2. CASE AbortVictim(t) \/ Crash(t)
    <3>1. PICK where \in {"error", "gone", "idle"} : Close(t, where)
      BY <2>2 DEF AbortVictim, Crash, Restart
    <3>2. UNCHANGED <<rows, root, now, parked>>
      BY <2>2 DEF AbortVictim, Crash
    <3> QED
      BY <1>0, <3>1, <3>2, TypedLocks DEF Typed, rows, root, Steps
  <2> QED
    BY <1>10, <2>1, <2>2
<1>11. CASE UNCHANGED vars
  BY <1>0, <1>11 DEF vars, rows, root, locks, txs, Typed
<1> QED
  BY <1>4, <1>5, <1>6, <1>7, <1>8, <1>9, <1>10, <1>11 DEF Next

----------------------------------------------------------------------------
(* Transactions and their locks.                                           *)

\* A step leaves transaction t what it has.
SameTx(t) ==
    /\ began'[t] = began[t] /\ step'[t] = step[t] /\ want'[t] = want[t] /\ endAs'[t] = endAs[t]
    /\ \A r \in Runs : lock'[r] = t <=> lock[r] = t

\* And the rows that it relies on.
KeepsRows(t) ==
    /\ step[t] \in {"result", "excerpt"} => act'.kind # "none"
    /\ step[t] \in {"observing", "returning", "yielding"} =>
          status'[Root] = "running" /\ act'.kind = "wait"
    /\ step[t] \in {"ended", "waking"} => status'[t] = "running"

LEMMA HoldingSame ==
    ASSUME SubagentsAssumption, Typed, NEW t \in Txs, Holding(t), SameTx(t), KeepsRows(t),
           now' \in Int, now <= now'
    PROVE  Holding(t)'
<1>1. now \in Int /\ began[t] \in Nat /\ Root \in Runs /\ (t \in Children => t \in Runs)
  BY Numbers DEF Typed
<1> QED
  BY <1>1 DEF Holding, SameTx, KeepsRows

\* Rows that do not change are kept.
LEMMA RowsKept ==
    ASSUME NEW t \in Txs, Holding(t), UNCHANGED <<status, act>>
    PROVE  KeepsRows(t)
  BY DEF Holding, KeepsRows

\* What a transaction that ends leaves.
LEMMA CloseHolding ==
    ASSUME SubagentsAssumption, Typed, NEW u \in Txs, NEW where \in Resting, Close(u, where),
           where \in {"result", "excerpt"} => u = Root /\ act'.kind # "none",
           now' = now
    PROVE  /\ \A t \in Txs \ {u} : SameTx(t)
           /\ Holding(u)'
           /\ step'[u] = where
<1>1. None \notin Txs /\ now \in Nat
  BY Numbers DEF Typed, SubagentsAssumption
<1>2. \A t \in Txs \ {u} : SameTx(t)
  BY <1>1 DEF Close, SameTx, Typed
<1>3. /\ step'[u] = where /\ want'[u] = None /\ began'[u] = 0
      /\ \A r \in Runs : lock'[r] # u
  BY <1>1 DEF Close, Typed
<1>4. Holding(u)'
  BY <1>1, <1>3 DEF Holding, Resting
<1> QED
  BY <1>2, <1>3, <1>4

\* What one that begins has.
LEMMA OpenHolding ==
    ASSUME SubagentsAssumption, Typed, NEW u \in Txs, NEW r \in Runs, NEW where \in Steps,
           NEW as \in Terminal \cup {"none"}, Open(u, r, where, as), Holding(u)
    PROVE  /\ \A t \in Txs \ {u} : SameTx(t)
           /\ step[u] = "idle" /\ step'[u] = where /\ began'[u] <= now /\ lock'[r] = u
           /\ endAs'[u] = as /\ want'[u] = None
           /\ \A q \in Runs \ {r} : lock'[q] = lock[q]
<1>1. None \notin Txs /\ now \in Nat
  BY Numbers DEF Typed, SubagentsAssumption
<1> QED
  BY <1>1 DEF Open, SameTx, Typed, Unlocked, Holding, Resting

\* What one that takes a row or waits for it has.
LEMMA TakeHolding ==
    ASSUME SubagentsAssumption, Typed, NEW u \in Txs, NEW r \in Runs, Take(u, r),
           Holding(u), step[u] \notin Resting, UNCHANGED <<status, act, now, txs>>
    PROVE  /\ \A t \in Txs \ {u} : SameTx(t)
           /\ Holding(u)'
           /\ \A q \in Runs : lock[q] = u => lock'[q] = u
<1>1. None \notin Txs /\ now \in Nat /\ Root \in Runs /\ (u \in Children => u \in Runs)
  BY Numbers DEF Typed, SubagentsAssumption
<1>2. \A t \in Txs \ {u} : SameTx(t)
  BY <1>1 DEF Take, SameTx, Typed, Unlocked, txs
<1>3. \A q \in Runs : lock[q] = u => lock'[q] = u
  BY <1>1 DEF Take, Typed, Unlocked
<1>4. Holding(u)'
  BY <1>1, <1>3 DEF Holding, Resting, txs
<1> QED
  BY <1>2, <1>3, <1>4

\* The lock queue serves u.
LEMMA AcquireHolding ==
    ASSUME SubagentsAssumption, Typed, NEW u \in Txs, Acquire(u), Holding(u)
    PROVE  /\ \A t \in Txs \ {u} : SameTx(t)
           /\ Holding(u)'
           /\ step[u] \notin Resting
           /\ \A q \in Runs : lock[q] \in Txs => lock'[q] = lock[q]
<1>1. None \notin Txs /\ now \in Nat /\ Root \in Runs /\ (u \in Children => u \in Runs)
      /\ want[u] \in Runs
  BY Numbers DEF Typed, SubagentsAssumption, Acquire
<1>2. \A t \in Txs \ {u} : SameTx(t)
  BY <1>1 DEF Acquire, SameTx, Typed, Unlocked, txs
<1>3. step[u] \notin Resting
  BY DEF Holding, Acquire
<1>4. \A q \in Runs : lock[q] \in Txs => lock'[q] = lock[q]
  BY <1>1 DEF Acquire, Typed, Unlocked
<1>5. Holding(u)'
  BY <1>1, <1>3, <1>4 DEF Holding, Resting, Acquire, txs, rows, root
<1> QED
  BY <1>2, <1>3, <1>4, <1>5

\* A transaction that goes on in another position with the locks it has.
LEMMA MoveHolding ==
    ASSUME SubagentsAssumption, Typed, NEW u \in Txs, NEW where \in Steps,
           step' = [step EXCEPT ![u] = where], UNCHANGED <<lock, began, endAs>>,
           \A t \in Txs \ {u} : want'[t] = want[t]
    PROVE  \A t \in Txs \ {u} : SameTx(t)
  BY DEF SameTx, Typed

\* A Run whose rows transaction u holds is at work in no other one.
LEMMA NotAtWork ==
    ASSUME SubagentsAssumption, NEW t \in Txs, Holding(t), NEW u \in Txs \ {t}
    PROVE  /\ lock[Root] = u => step[t] \notin {"observing", "returning", "yielding", "ending"}
           /\ lock[t] = u => step[t] \notin {"ended", "waking"}
  BY DEF Holding

\* Every step leaves each transaction what it holds.
LEMMA HoldingStep ==
    ASSUME SubagentsAssumption, IInv, [Next]_vars, NEW t \in Txs
    PROVE  Holding(t)'
<1>0. /\ Typed /\ Root \in Txs /\ Member \in Txs /\ Sweeper \in Txs /\ Root \in Runs
      /\ \A u \in Txs : Holding(u)
      /\ now \in Int /\ Holding(t) /\ Holding(Root)
      /\ None \notin Txs
  BY Numbers DEF IInv, Typed, SubagentsAssumption
<1>1. ASSUME NEW u \in Txs, \A v \in Txs \ {u} : SameTx(v), Holding(u)', t # u => KeepsRows(t),
             now' = now
      PROVE  Holding(t)'
  BY <1>0, <1>1, HoldingSame
<1>2. ASSUME SameTx(t), KeepsRows(t), now' = now PROVE Holding(t)'
  BY <1>0, <1>2, HoldingSame
<1>3. CASE Tick
  BY <1>0, <1>3, RowsKept, HoldingSame DEF Tick, rows, root, locks, txs, SameTx
<1>4. CASE RootStep
  <2>1. ASSUME NEW kind \in {"spawn", "wait"}, NEW S \in SUBSET Created, NEW m \in Nat,
               Propose(kind, S, m)
        PROVE  Holding(t)'
    <3>1. step[Root] = "idle" /\ status' = status /\ SameTx(t) /\ now' = now
      BY <1>0, <2>1 DEF Propose, Proposed, rows, locks, txs, SameTx
    <3>2. KeepsRows(t)
      BY <1>0, <3>1 DEF KeepsRows, Holding
    <3> QED
      BY <1>2, <3>1, <3>2
  <2>2. CASE Spawn
    <3>1. /\ step[Root] = "idle" /\ act' = act /\ act.kind = "spawn" /\ now' = now
          /\ UNCHANGED <<lock, want, began, endAs>>
      BY <2>2 DEF Spawn, Proposed, root, locks
    <3>2. PICK how \in {"result", "excerpt"} : step' = [step EXCEPT ![Root] = how]
      BY <2>2 DEF Spawn, Answer
    <3>3. \A r \in Runs : status[r] \in Active => status'[r] = status[r]
      BY <1>0, <2>2 DEF Spawn, Created, Typed, Active
    <3>4. KeepsRows(t)
      BY <1>0, <3>1, <3>3, Numbers DEF KeepsRows, Holding, Active
    <3>5. Holding(Root)'
      BY <1>0, <3>1, <3>2 DEF Holding, Typed, Resting
    <3>6. \A v \in Txs \ {Root} : SameTx(v)
      BY <1>0, <3>1, <3>2, MoveHolding DEF Steps
    <3> QED
      BY <1>0, <1>1, <3>1, <3>4, <3>5, <3>6
  <2>3. CASE BeginWait
    <3>1. UNCHANGED <<status, act, now>> /\ Open(Root, Root, "observing", "none")
          /\ status[Root] = "running" /\ act.kind = "wait"
      BY <2>3 DEF BeginWait, rows, root, Authority, Proposed
    <3>2. Holding(Root)'
      BY <1>0, <3>1, OpenHolding DEF Holding, Resting, Steps
    <3> QED
      BY <1>0, <1>1, <3>1, <3>2, OpenHolding, RowsKept DEF Steps
  <2>4. CASE ObserveChild
    <3>1. PICK c \in Unobserved : Take(Root, c)
      BY <1>0, <2>4, ObservesOne
    <3>2. UNCHANGED <<status, act, now, txs>> /\ step[Root] \notin Resting /\ c \in Runs
      BY <1>0, <2>4, Numbers DEF ObserveChild, rows, root, Resting, Unobserved, Observe, Typed
    <3> QED
      BY <1>0, <1>1, <3>1, <3>2, TakeHolding, RowsKept
  <2>5. CASE LoadAgents
    <3>1. /\ step[Root] = "observing" /\ UNCHANGED <<status, act, now, lock, want, began, endAs>>
      BY <2>5 DEF LoadAgents, rows, root, locks
    <3>2. PICK how \in {"returning", "yielding"} : step' = [step EXCEPT ![Root] = how]
      BY <2>5 DEF LoadAgents, Answer
    <3>3. Holding(Root)'
      BY <1>0, <3>1, <3>2 DEF Holding, Typed, Resting
    <3>4. \A v \in Txs \ {Root} : SameTx(v)
      BY <1>0, <3>1, <3>2, MoveHolding DEF Steps
    <3> QED
      BY <1>0, <1>1, <3>1, <3>3, <3>4, RowsKept
  <2>6. CASE FinishWait
    <3>1. /\ step[Root] \in {"returning", "yielding"} /\ act' = act /\ act.kind = "wait" /\ now' = now
      BY <1>0, <2>6 DEF FinishWait, root, Holding
    <3>2. PICK where \in {"result", "idle"} : Close(Root, where)
      BY <2>6 DEF FinishWait
    <3>3. \A c \in Children : status[c] \in Active => status'[c] = status[c]
      <4>1. PICK f \in [Dispatched -> Children \ Created] :
               LET spawned == [r \in Runs |-> IF \E a \in Dispatched : f[a] = r
                                             THEN "queued" ELSE status[r]]
               IN  status' = spawned \/ status' = [spawned EXCEPT ![Root] = "queued"]
        BY <2>6 DEF FinishWait
      <4>2. \A c \in Children : status[c] \in Active => ~\E a \in Dispatched : f[a] = c
        BY DEF Created, Active
      <4> HIDE DEF Dispatched
      <4> QED
        BY <1>0, <4>1, <4>2, Numbers
    <3>4. t # Root => KeepsRows(t)
      BY <1>0, <3>1, <3>3, Numbers DEF KeepsRows, Holding, Active
    <3> QED
      BY <1>0, <1>1, <3>1, <3>2, <3>4, CloseHolding DEF Resting
  <2>7. CASE StoreResult
    <3>1. step[Root] \in {"result", "excerpt"} /\ Close(Root, "idle") /\ UNCHANGED <<status, now>>
      BY <2>7 DEF StoreResult, rows
    <3>2. t # Root => KeepsRows(t)
      BY <1>0, <3>1 DEF KeepsRows, Holding
    <3> QED
      BY <1>0, <1>1, <3>1, <3>2, CloseHolding DEF Resting
  <2>8. CASE RetryRoot
    <3>1. /\ step[Root] = "idle" /\ status' = [status EXCEPT ![Root] = "queued"] /\ act' = act
          /\ SameTx(t) /\ now' = now
      BY <2>8 DEF RetryRoot, root, locks, txs, SameTx
    <3>2. KeepsRows(t)
      BY <1>0, <3>1, Numbers DEF KeepsRows, Holding, Typed
    <3> QED
      BY <1>2, <3>1, <3>2
  <2> QED
    BY <1>4, <2>1, <2>2, <2>3, <2>4, <2>5, <2>6, <2>7, <2>8 DEF RootStep, SubagentsAssumption
<1>5. CASE ClaimRoot
  <2>1. /\ status[Root] = "queued" /\ status' = [status EXCEPT ![Root] = "running"] /\ act' = act
        /\ SameTx(t) /\ now' = now
    BY <1>5 DEF ClaimRoot, root, locks, txs, SameTx
  <2>2. KeepsRows(t)
    BY <1>0, <2>1, Numbers DEF KeepsRows, Holding, Typed
  <2> QED
    BY <1>2, <2>1, <2>2
<1>6. ASSUME NEW u \in {Root, Member}, EndStep(u) PROVE Holding(t)'
  <2>0. u \in Txs /\ Holding(u)
    BY <1>0
  <2>1. ASSUME NEW as \in Terminal, BeginEnd(u, as) PROVE Holding(t)'
    <3>1. UNCHANGED <<status, act, now>> /\ Open(u, Root, "ending", as)
      BY <2>1 DEF BeginEnd, rows, root
    <3>2. /\ step'[u] = "ending" /\ began'[u] <= now /\ lock'[Root] = u /\ endAs'[u] = as
          /\ \A v \in Txs \ {u} : SameTx(v)
      <4>1. step'[u] = "ending" /\ endAs'[u] = as
        BY <1>0, <2>0, <3>1 DEF Open, Typed
      <4>2. began'[u] <= now /\ lock'[Root] = u /\ \A v \in Txs \ {u} : SameTx(v)
        BY <1>0, <2>0, <3>1, OpenHolding DEF Steps
      <4> QED
        BY <4>1, <4>2
    <3>3. Holding(u)'
      BY <1>0, <1>6, <2>1, <3>1, <3>2 DEF Holding, Resting
    <3> QED
      BY <1>0, <1>1, <2>0, <3>1, <3>2, <3>3, RowsKept
  <2>2. CASE CancelChild(u)
    <3>1. PICK c \in Runs : Take(u, c)
      BY <2>2, Numbers DEF CancelChild, Outstanding
    <3>2. UNCHANGED <<status, act, now, txs>> /\ step[u] \notin Resting
      BY <2>2 DEF CancelChild, rows, root, Resting
    <3> QED
      BY <1>0, <1>1, <2>0, <3>1, <3>2, TakeHolding, RowsKept
  <2>3. CASE FinishEnd(u)
    <3>1. /\ step[u] = "ending" /\ lock[Root] = u /\ act' = act /\ now' = now /\ Close(u, "idle")
          /\ \A c \in Children : status[c] \in Active => lock[c] = u
          /\ \A c \in Children : status[c] \notin Active => status'[c] = status[c]
      BY <1>0, <2>0, <2>3, Numbers DEF FinishEnd, root, Holding, Outstanding, Locked
    <3>2. t # u => KeepsRows(t)
      BY <1>0, <2>0, <3>1, NotAtWork, Numbers DEF KeepsRows, Holding, Active
    <3> QED
      BY <1>0, <1>1, <2>0, <3>1, <3>2, CloseHolding DEF Resting
  <2> QED
    BY <1>6, <2>1, <2>2, <2>3 DEF EndStep
<1>7. CASE Expiry
  <2>1. CASE BeginExpiry
    <3>1. UNCHANGED <<status, act, now, lock, want, began, endAs>>
          /\ step[Sweeper] = "idle" /\ step' = [step EXCEPT ![Sweeper] = "sweeping"]
      BY <2>1 DEF BeginExpiry, rows, root, locks
    <3>2. Holding(Sweeper)'
      BY <1>0, <3>1 DEF Holding, Typed, Resting
    <3>3. \A v \in Txs \ {Sweeper} : SameTx(v)
      BY <1>0, <3>1, MoveHolding DEF Steps
    <3> QED
      BY <1>0, <1>1, <3>1, <3>2, <3>3, RowsKept
  <2>2. CASE SweepNext
    <3>1. PICK r \in Overdue : Take(Sweeper, r)
      BY <1>0, <2>2, SweepsOne
    <3>2. UNCHANGED <<status, act, now, txs>> /\ step[Sweeper] \notin Resting /\ r \in Runs
      BY <2>2 DEF SweepNext, rows, root, Resting, Overdue
    <3> QED
      BY <1>0, <1>1, <3>1, <3>2, TakeHolding, RowsKept
  <2>3. CASE FinishExpiry
    <3>1. /\ act' = act /\ now' = now /\ Close(Sweeper, "idle")
          /\ \A r \in Runs : status[r] \in Active => lock[r] = Sweeper
          /\ \A r \in Runs : status[r] \notin Active => status'[r] = status[r]
      BY <2>3 DEF FinishExpiry, root, Overdue, Locked
    <3>2. t # Sweeper => KeepsRows(t)
      BY <1>0, <3>1, NotAtWork, Numbers DEF KeepsRows, Holding, Active
    <3> QED
      BY <1>0, <1>1, <3>1, <3>2, CloseHolding DEF Resting
  <2> QED
    BY <1>7, <2>1, <2>2, <2>3 DEF Expiry
<1>8. ASSUME NEW c \in Children, ChildStep(c) PROVE Holding(t)'
  <2>0. c \in Runs /\ c \in Txs /\ c # Root /\ Holding(c) /\ (t = c \/ t # c)
    BY <1>0, Numbers
  <2>1. CASE ClaimChild(c) \/ RetryChild(c)
    <3>1. /\ act' = act /\ now' = now /\ SameTx(t) /\ Unlocked(c)
          /\ \A r \in Runs \ {c} : status'[r] = status[r]
      BY <1>0, <2>0, <2>1 DEF ClaimChild, RetryChild, root, locks, txs, SameTx, Typed
    <3>2. KeepsRows(t)
      BY <1>0, <2>0, <3>1, Numbers DEF KeepsRows, Holding, Unlocked
    <3> QED
      BY <1>2, <3>1, <3>2
  <2>2. ASSUME NEW as \in {"completed", "failed"}, BeginChildEnd(c, as) PROVE Holding(t)'
    <3>1. UNCHANGED <<status, act, now>> /\ Open(c, c, "ended", as) /\ status[c] = "running"
      BY <2>2 DEF BeginChildEnd, rows, root
    <3>2. /\ step'[c] = "ended" /\ began'[c] <= now /\ lock'[c] = c /\ endAs'[c] = as
          /\ \A v \in Txs \ {c} : SameTx(v)
      <4>1. step'[c] = "ended" /\ endAs'[c] = as
        BY <1>0, <2>0, <3>1 DEF Open, Typed
      <4>2. "ended" \in Steps /\ as \in Terminal \cup {"none"}
        BY DEF Steps, Terminal
      <4>3. began'[c] <= now /\ lock'[c] = c /\ \A v \in Txs \ {c} : SameTx(v)
        BY <1>0, <2>0, <3>1, <4>2, OpenHolding
      <4> QED
        BY <4>1, <4>3
    <3>3. Holding(c)'
      BY <1>0, <2>0, <2>2, <3>1, <3>2 DEF Holding, Resting, Terminal
    <3> QED
      BY <1>0, <1>1, <2>0, <3>1, <3>2, <3>3, RowsKept
  <2>3. ASSUME NEW wakes \in BOOLEAN, ChildEnds(c, wakes) PROVE Holding(t)'
    <3>1. act' = act /\ now' = now /\ Close(c, "idle") /\ \A r \in Runs \ {c} : status'[r] = status[r]
      BY <1>0, <2>0, <2>3 DEF ChildEnds, root, Typed
    <3>2. t # c => KeepsRows(t)
      BY <1>0, <2>0, <3>1, Numbers DEF KeepsRows, Holding
    <3> QED
      BY <1>0, <1>1, <2>0, <3>1, <3>2, CloseHolding DEF Resting
  <2>4. CASE FinishChildEnd(c)
    <3>1. CASE \E wakes \in BOOLEAN : ChildEnds(c, wakes)
      BY <2>3, <3>1
    <3>2. CASE step[c] = "ended" /\ want' = [want EXCEPT ![c] = Root] /\ step' = [step EXCEPT ![c] = "waking"]
               /\ UNCHANGED <<rows, root, now, parked, lock, began, endAs>>
      <4>1. UNCHANGED <<status, act, now, lock, began, endAs>> /\ \A v \in Txs \ {c} : want'[v] = want[v]
        BY <1>0, <3>2 DEF rows, root, Typed
      <4>2. Holding(c)'
        BY <1>0, <2>0, <3>2, <4>1 DEF Holding, Typed, Resting
      <4>3. \A v \in Txs \ {c} : SameTx(v)
        BY <1>0, <2>0, <3>2, <4>1, MoveHolding DEF Steps
      <4> QED
        BY <1>0, <1>1, <2>0, <4>1, <4>2, <4>3, RowsKept
    <3> QED
      BY <2>4, <3>1, <3>2 DEF FinishChildEnd
  <2>5. CASE FinishWake(c)
    BY <2>3, <2>5 DEF FinishWake
  <2> QED
    BY <1>8, <2>1, <2>2, <2>4, <2>5 DEF ChildStep
<1>9. ASSUME NEW u \in Txs, Acquire(u) \/ AbortVictim(u) \/ Crash(u) PROVE Holding(t)'
  <2>1. UNCHANGED <<status, act, now>>
    BY <1>9 DEF Acquire, AbortVictim, Crash, rows, root
  <2>2. CASE Acquire(u)
    BY <1>0, <1>1, <2>1, <2>2, AcquireHolding, RowsKept
  <2>3. CASE AbortVictim(u) \/ Crash(u)
    <3>1. PICK where \in {"error", "gone", "idle"} : Close(u, where)
      BY <2>3 DEF AbortVictim, Crash, Restart
    <3> QED
      BY <1>0, <1>1, <2>1, <3>1, CloseHolding, RowsKept DEF Resting
  <2> QED
    BY <1>9, <2>2, <2>3
<1>10. CASE UNCHANGED vars
  <2>1. SameTx(t) /\ UNCHANGED <<status, act, now>>
    BY <1>10 DEF vars, rows, root, locks, txs, SameTx
  <2> QED
    BY <1>0, <1>2, <2>1, RowsKept
<1> QED
  BY <1>3, <1>4, <1>5, <1>6, <1>7, <1>8, <1>9, <1>10 DEF Next

----------------------------------------------------------------------------
(* What changes which row.                                                 *)

\* The steps that write the rows of a Run.
WritesStatus ==
    \/ Spawn \/ FinishWait \/ RetryRoot \/ ClaimRoot \/ FinishExpiry
    \/ \E u \in {Root, Member} : FinishEnd(u)
    \/ \E c \in Children : ClaimChild(c) \/ RetryChild(c) \/ FinishChildEnd(c) \/ FinishWake(c)

Proposes == \E kind \in {"spawn", "wait"}, S \in SUBSET Created, m \in Nat : Propose(kind, S, m)

\* Each of the other variables is written by few steps.
LEMMA Writers ==
    ASSUME SubagentsAssumption, [Next]_vars
    PROVE  /\ UNCHANGED status \/ WritesStatus
           /\ UNCHANGED act \/ Proposes \/ StoreResult
           /\ UNCHANGED waits \/ FinishWait
           /\ UNCHANGED childOf \/ Spawn \/ FinishWait
           /\ UNCHANGED parked \/ FinishWait \/ ClaimRoot
           /\ UNCHANGED availableAt \/ FinishWait \/ RetryRoot
                 \/ \E c \in Children : FinishChildEnd(c) \/ FinishWake(c)
<1> DEFINE G ==
           /\ UNCHANGED status \/ WritesStatus
           /\ UNCHANGED act \/ Proposes \/ StoreResult
           /\ UNCHANGED waits \/ FinishWait
           /\ UNCHANGED childOf \/ Spawn \/ FinishWait
           /\ UNCHANGED parked \/ FinishWait \/ ClaimRoot
           /\ UNCHANGED availableAt \/ FinishWait \/ RetryRoot
                 \/ \E c \in Children : FinishChildEnd(c) \/ FinishWake(c)
<1> SUFFICES G
  OBVIOUS
<1>1. CASE Tick
  BY <1>1 DEF Tick, rows, root, txs
<1>2. CASE RootStep
  <2>1. ASSUME NEW kind \in {"spawn", "wait"}, NEW S \in SUBSET Created, NEW m \in Nat,
               Propose(kind, S, m)
        PROVE  G
    <3>1. Proposes
      BY <2>1 DEF Proposes
    <3> QED
      BY <2>1, <3>1 DEF Propose, rows, txs
  <2>2. CASE Spawn
    BY <2>2 DEF Spawn, WritesStatus, root
  <2>3. CASE BeginWait \/ ObserveChild \/ LoadAgents
    BY <2>3 DEF BeginWait, ObserveChild, LoadAgents, rows, root
  <2>4. CASE FinishWait
    <3>1. UNCHANGED act
      BY <2>4 DEF FinishWait, root
    <3> QED
      BY <2>4, <3>1 DEF WritesStatus
  <2>5. CASE StoreResult
    BY <2>5 DEF StoreResult, rows
  <2>6. CASE RetryRoot
    BY <2>6 DEF RetryRoot, root, WritesStatus
  <2> HIDE DEF G
  <2> QED
    BY <1>2, <2>1, <2>2, <2>3, <2>4, <2>5, <2>6 DEF RootStep, SubagentsAssumption
<1>3. CASE ClaimRoot
  BY <1>3 DEF ClaimRoot, root, WritesStatus
<1>4. ASSUME NEW u \in {Root, Member}, EndStep(u) PROVE G
  <2>1. CASE FinishEnd(u)
    BY <2>1 DEF FinishEnd, root, WritesStatus
  <2>2. CASE CancelChild(u) \/ \E as \in Terminal : BeginEnd(u, as)
    BY <2>2 DEF CancelChild, BeginEnd, rows, root
  <2> QED
    BY <1>4, <2>1, <2>2 DEF EndStep
<1>5. CASE Expiry
  <2>1. CASE FinishExpiry
    BY <2>1 DEF FinishExpiry, root, WritesStatus
  <2>2. CASE BeginExpiry \/ SweepNext
    BY <2>2 DEF BeginExpiry, SweepNext, rows, root
  <2> QED
    BY <1>5, <2>1, <2>2 DEF Expiry
<1>6. ASSUME NEW c \in Children, ChildStep(c) PROVE G
  <2>1. CASE ClaimChild(c) \/ RetryChild(c)
    BY <2>1 DEF ClaimChild, RetryChild, root, WritesStatus
  <2>2. CASE \E as \in {"completed", "failed"} : BeginChildEnd(c, as)
    BY <2>2 DEF BeginChildEnd, rows, root
  <2>3. CASE FinishChildEnd(c) \/ FinishWake(c)
    <3>1. UNCHANGED <<waits, childOf, act, parked>>
      BY <2>3 DEF FinishChildEnd, FinishWake, ChildEnds, root, rows
    <3> QED
      BY <2>3, <3>1 DEF WritesStatus
  <2> QED
    BY <1>6, <2>1, <2>2, <2>3 DEF ChildStep
<1>7. ASSUME NEW u \in Txs, Acquire(u) \/ AbortVictim(u) \/ Crash(u) PROVE G
  BY <1>7 DEF Acquire, AbortVictim, Crash, rows, root
<1>8. CASE UNCHANGED vars
  BY <1>8 DEF vars, rows, root
<1> HIDE DEF G
<1> QED
  BY <1>1, <1>2, <1>3, <1>4, <1>5, <1>6, <1>7, <1>8 DEF Next

\* A child ends in its own transaction or with the root.
ChildCommits(c) == \E wakes \in BOOLEAN : (FinishChildEnd(c) \/ FinishWake(c)) /\ ChildEnds(c, wakes)

\* How the status of the Runs may change.
StatusGoes ==
    /\ \A c \in Children :
          /\ status[c] # "absent" => status'[c] # "absent"
          /\ status[c] \in Terminal => status'[c] \in Terminal
          /\ status[c] = "absent" => status'[c] = "absent" \/ Spawn \/ FinishWait
          /\ status'[c] \in Active => status[c] \in Active \/ Spawn \/ FinishWait
          /\ status'[c] \in Terminal /\ status[c] \notin Terminal =>
                status'[Root] \notin Active \/ ChildCommits(c)
          /\ step[Root] = "yielding" /\ lock[c] = Root /\ status[c] # "absent" =>
                status'[c] = status[c]
    /\ status[Root] \in Terminal => status'[Root] \in Terminal
    /\ status'[Root] = "running" => status[Root] = "running" \/ ClaimRoot
    /\ status'[Root] = "queued" => status[Root] = "queued" \/ RetryRoot \/ FinishWait
    /\ status'[Root] \in Terminal /\ status[Root] \notin Terminal =>
          \A c \in Children : status'[c] \notin Active

LEMMA StatusStep ==
    ASSUME SubagentsAssumption, IInv, [Next]_vars
    PROVE  StatusGoes
<1>0. /\ Typed /\ Root \in Txs /\ Root \in Runs /\ Root \notin Children
      /\ \A c \in Children : c \in Runs /\ c \in Txs
      /\ Member \in Txs /\ Sweeper \in Txs /\ Member # Root /\ Sweeper # Root
      /\ \A u \in Txs : Holding(u)
      /\ None \notin Txs
  BY Numbers DEF IInv
<1>1. CASE UNCHANGED status
  BY <1>1 DEF StatusGoes, Active, Terminal
<1>2. CASE Spawn
  <2>1. CASE UNCHANGED status
    BY <1>1, <2>1
  <2>2. ASSUME NEW d \in Children \ Created, status' = [status EXCEPT ![d] = "queued"]
        PROVE  StatusGoes
    <3>1. status'[Root] = status[Root] /\ \A c \in Children : status'[c] = IF c = d THEN "queued" ELSE status[c]
      BY <1>0, <2>2 DEF Typed
    <3>2. status[d] = "absent" /\ status[Root] = "running"
      BY <1>2, <2>2 DEF Created, Spawn, Authority
    <3> QED
      BY <1>2, <3>1, <3>2 DEF StatusGoes, Active, Terminal
  <2> QED
    BY <1>2, <2>1, <2>2 DEF Spawn
<1>3. CASE FinishWait
  <2>1. status[Root] = "running"
    BY <1>0, <1>3 DEF FinishWait, Holding
  <2>2. /\ status'[Root] \in {"running", "queued"}
        /\ \A c \in Children : status'[c] = status[c] \/ (status[c] = "absent" /\ status'[c] = "queued")
    <3>1. PICK f \in [Dispatched -> Children \ Created] :
               LET spawned == [r \in Runs |-> IF \E a \in Dispatched : f[a] = r
                                             THEN "queued" ELSE status[r]]
               IN  status' = spawned \/ status' = [spawned EXCEPT ![Root] = "queued"]
      BY <1>3 DEF FinishWait
    <3>2. \A r \in Runs : (\E a \in Dispatched : f[a] = r) => r # Root /\ status[r] = "absent"
      BY <1>0 DEF Created
    <3> HIDE DEF Dispatched
    <3> QED
      BY <1>0, <2>1, <3>1, <3>2
  <2> QED
    BY <1>3, <2>1, <2>2 DEF StatusGoes, Active, Terminal
<1>4. CASE RetryRoot \/ ClaimRoot
  <2>1. /\ \A c \in Children : status'[c] = status[c]
        /\ \/ status[Root] = "running" /\ status'[Root] = "queued" /\ RetryRoot
           \/ status[Root] = "queued" /\ status'[Root] = "running" /\ ClaimRoot
    BY <1>0, <1>4 DEF RetryRoot, ClaimRoot, Typed
  <2> QED
    BY <2>1 DEF StatusGoes, Active, Terminal
<1>5. CASE FinishExpiry
  <2>1. \A r \in Runs : status'[r] = IF status[r] \in Active THEN "failed" ELSE status[r]
    BY <1>5 DEF FinishExpiry, Overdue
  <2>2. \A c \in Children : status[c] \in Active => lock[c] = Sweeper
    BY <1>0, <1>5 DEF FinishExpiry, Overdue, Locked
  <2>3. /\ status'[Root] = IF status[Root] \in Active THEN "failed" ELSE status[Root]
        /\ \A c \in Children : status'[c] = IF status[c] \in Active THEN "failed" ELSE status[c]
    BY <1>0, <2>1
  <2> QED
    BY <1>0, <2>2, <2>3 DEF StatusGoes, Active, Terminal
<1>6. ASSUME NEW u \in {Root, Member}, FinishEnd(u) PROVE StatusGoes
  <2>1. step[u] = "ending" /\ endAs[u] \in Terminal
    BY <1>0, <1>6 DEF FinishEnd, Holding
  <2>2. /\ status'[Root] = endAs[u]
        /\ \A c \in Children : status'[c] = IF status[c] \in Active THEN "cancelled" ELSE status[c]
        /\ \A c \in Children : status[c] \in Active => lock[c] = u
    BY <1>0, <1>6 DEF FinishEnd, Outstanding, Locked
  <2>3. step[Root] = "yielding" => u # Root
    BY <2>1
  <2> QED
    BY <1>0, <2>1, <2>2, <2>3 DEF StatusGoes, Active, Terminal
<1>7. ASSUME NEW d \in Children, ClaimChild(d) \/ RetryChild(d) PROVE StatusGoes
  <2>1. /\ status'[Root] = status[Root]
        /\ \A c \in Children \ {d} : status'[c] = status[c]
        /\ status[d] \in Active /\ status'[d] \in Active /\ lock[d] = None
    BY <1>0, <1>7 DEF ClaimChild, RetryChild, Typed, Active, Unlocked
  <2> QED
    BY <1>0, <2>1 DEF StatusGoes, Active, Terminal
<1>8. ASSUME NEW d \in Children, FinishChildEnd(d) \/ FinishWake(d) PROVE StatusGoes
  <2>1. ASSUME NEW wakes \in BOOLEAN, ChildEnds(d, wakes) PROVE StatusGoes
    <3>1. status[d] = "running" /\ lock[d] = d /\ endAs[d] \in Terminal
      BY <1>0, <1>8 DEF FinishChildEnd, FinishWake, Holding
    <3>2. status'[Root] = status[Root] /\ status'[d] = endAs[d]
          /\ \A c \in Children \ {d} : status'[c] = status[c]
      BY <1>0, <2>1 DEF ChildEnds, Typed
    <3>3. ChildCommits(d)
      BY <1>8, <2>1 DEF ChildCommits
    <3> QED
      BY <1>0, <3>1, <3>2, <3>3 DEF StatusGoes, Active, Terminal
  <2>2. UNCHANGED status \/ \E wakes \in BOOLEAN : ChildEnds(d, wakes)
    BY <1>8 DEF FinishChildEnd, FinishWake, rows
  <2> QED
    BY <1>1, <2>1, <2>2
<1> QED
  BY <1>1, <1>2, <1>3, <1>4, <1>5, <1>6, <1>7, <1>8, Writers DEF WritesStatus

\* Every step keeps the wait rows to the Actions so far.
LEMMA WaitRowsStep ==
    ASSUME SubagentsAssumption, IInv, [Next]_vars
    PROVE  WaitRows'
<1>0. /\ Typed /\ WaitRows /\ Root \in Txs /\ Holding(Root) /\ Actions \subseteq Nat \ {0}
      /\ MaxActions \in Nat /\ act.no \in Nat
  BY Numbers DEF IInv, SubagentsAssumption, Typed
<1>1. Created \subseteq Created'
  BY StatusStep DEF StatusGoes, Created
<1>2. CASE UNCHANGED <<act, waits>>
  <2>1. \A a \in Actions : waits'[a] = waits[a]
    BY <1>2
  <2>2. act'.kind = act.kind /\ act'.no = act.no /\ act'.agents = act.agents
    BY <1>2
  <2> QED
    BY <1>0, <1>1, <1>2, <2>1, <2>2 DEF WaitRows
<1>3. ASSUME NEW kind \in {"spawn", "wait"}, NEW S \in SUBSET Created, NEW m \in Nat,
             Propose(kind, S, m)
      PROVE  WaitRows'
  <2>1. /\ waits' = waits /\ act.no + 1 \in Actions
        /\ act'.no = act.no + 1 /\ act'.kind = kind /\ act'.agents = S
    BY <1>0, <1>3 DEF Propose, rows, Actions
  <2>2. \A a \in Actions : /\ waits[a].agents \subseteq Created'
                           /\ waits[a] # NoRow => waits[a].deadline >= 0
                           /\ a > act.no + 1 => waits[a] = NoRow
    <3> TAKE a \in Actions
    <3>1. waits[a].agents \subseteq Created /\ (waits[a] # NoRow => waits[a].deadline >= 0)
          /\ (a > act.no => waits[a] = NoRow)
      BY <1>0 DEF WaitRows
    <3>2. a \in Nat
      BY <1>0
    <3> QED
      BY <1>0, <1>1, <3>1, <3>2
  <2>3. waits[act.no + 1] = NoRow
    BY <1>0, <2>1 DEF WaitRows
  <2> QED
    BY <1>1, <2>1, <2>2, <2>3 DEF WaitRows
<1>4. CASE StoreResult
  <2>1. waits' = waits /\ act'.no = act.no /\ act'.kind = "none" /\ act'.agents = act.agents
    BY <1>0, <1>4 DEF StoreResult, rows, Typed
  <2> QED
    BY <1>0, <1>1, <2>1 DEF WaitRows
<1>5. CASE FinishWait
  <2>1. act' = act /\ act.kind = "wait" /\ (waits' = waits \/ waits' = [waits EXCEPT ![act.no] = WaitRow])
    BY <1>0, <1>5 DEF FinishWait, Holding, root
  <2>2. CASE waits' = waits
    BY <1>2, <2>1, <2>2
  <2>3. CASE waits' = [waits EXCEPT ![act.no] = WaitRow]
    <3>1. /\ act.no \in Actions /\ WaitRow # NoRow /\ WaitRow.deadline >= 0
          /\ WaitRow.agents = act.agents
      BY <2>1, WaitRowTyped
    <3>2. /\ waits'[act.no] = WaitRow
          /\ \A a \in Actions \ {act.no} : waits'[a] = waits[a]
      BY <1>0, <2>3, <3>1 DEF Typed
    <3>3. \A a \in Actions : /\ waits'[a].agents \subseteq Created'
                             /\ waits'[a] # NoRow => waits'[a].deadline >= 0
                             /\ a > act.no => waits'[a] = NoRow
      BY <1>0, <1>1, <3>1, <3>2 DEF WaitRows
    <3>4. act'.no = act.no /\ act'.kind = "wait" /\ act'.agents = act.agents
      BY <2>1
    <3>5. waits'[act.no].agents = act.agents /\ act.agents \subseteq Created'
      BY <1>0, <1>1, <3>1, <3>2 DEF WaitRows
    <3> QED
      BY <3>1, <3>3, <3>4, <3>5 DEF WaitRows
  <2> QED
    BY <2>1, <2>2, <2>3
<1> QED
  BY <1>2, <1>3, <1>4, <1>5, Writers DEF Proposes

\* A child the root waits for finds it asleep, and only such a child does.
LEMMA WakesItsWait ==
    ASSUME SubagentsAssumption, IInv, NEW c \in Children
    PROVE  /\ Wakes(c) => c \in act.agents /\ act.kind = "wait"
           /\ parked /\ status[Root] = "queued" /\ c \in act.agents => Wakes(c)
<1>0. WaitRows /\ Typed /\ act.no \in Nat /\ Actions \subseteq Nat
  BY Numbers DEF IInv, Typed, SubagentsAssumption
<1>1. ASSUME Wakes(c) PROVE c \in act.agents /\ act.kind = "wait"
  <2>1. PICK a \in Actions : c \in waits[a].agents /\ ~Answered(a)
    BY <1>1 DEF Wakes
  <2>2. act.kind # "none" /\ a >= act.no /\ waits[a] # NoRow
    BY <1>0, <2>1 DEF Answered, NoRow
  <2>3. a = act.no
    BY <1>0, <2>2 DEF WaitRows
  <2> QED
    BY <1>0, <2>1, <2>2, <2>3 DEF WaitRows, Typed
<1>2. ASSUME parked, status[Root] = "queued", c \in act.agents PROVE Wakes(c)
  <2>1. act.kind = "wait" /\ waits[act.no] # NoRow
    BY <1>2 DEF IInv, Parked
  <2>2. act.no \in Actions /\ waits[act.no].agents = act.agents
    BY <1>0, <2>1 DEF WaitRows
  <2>3. ~Answered(act.no)
    BY <1>0, <2>1 DEF Answered
  <2> QED
    BY <1>2, <2>2, <2>3 DEF Wakes
<1> QED
  BY <1>1, <1>2

----------------------------------------------------------------------------
(* What moves which transaction.                                           *)

\* The steps that transaction t takes itself.
Moves(t) ==
    \/ t = Root /\ (Spawn \/ BeginWait \/ ObserveChild \/ LoadAgents \/ FinishWait \/ StoreResult)
    \/ t \in {Root, Member} /\ EndStep(t)
    \/ t = Sweeper /\ Expiry
    \/ t \in Children /\ ChildStep(t)
    \/ Acquire(t) \/ AbortVictim(t) \/ Crash(t)

\* No step disturbs the transaction of another.
LEMMA Movers ==
    ASSUME SubagentsAssumption, IInv, [Next]_vars, NEW t \in Txs
    PROVE  SameTx(t) \/ Moves(t)
<1>0. /\ Typed /\ Root \in Txs /\ Member \in Txs /\ Sweeper \in Txs /\ Root \in Runs
      /\ \A u \in Txs : Holding(u)
      /\ now \in Int /\ None \notin Txs
      /\ \A c \in Children : c \in Runs /\ c \in Txs
  BY Numbers DEF IInv, Typed, SubagentsAssumption
<1>1. ASSUME UNCHANGED <<lock, want, step, began, endAs>> PROVE SameTx(t)
  BY <1>1 DEF SameTx
<1>2. ASSUME NEW u \in Txs, NEW where \in Resting, Close(u, where) PROVE t = u \/ SameTx(t)
  BY <1>0, <1>2 DEF Close, SameTx, Typed
<1>3. ASSUME NEW u \in Txs, NEW r \in Runs, NEW where, NEW as, Open(u, r, where, as)
      PROVE  t = u \/ SameTx(t)
  BY <1>0, <1>3 DEF Open, SameTx, Typed, Unlocked
<1>4. ASSUME NEW u \in Txs, NEW r \in Runs, Take(u, r), UNCHANGED txs PROVE t = u \/ SameTx(t)
  BY <1>0, <1>4 DEF Take, SameTx, Typed, Unlocked, txs
<1>5. ASSUME NEW u \in Txs, NEW where, step' = [step EXCEPT ![u] = where],
             UNCHANGED <<lock, began, endAs>>, \A v \in Txs \ {u} : want'[v] = want[v]
      PROVE  t = u \/ SameTx(t)
  BY <1>0, <1>5 DEF SameTx, Typed
<1>6. CASE Tick \/ ClaimRoot \/ UNCHANGED vars
  BY <1>1, <1>6 DEF Tick, ClaimRoot, vars, locks, txs
<1>7. CASE RootStep
  <2>1. CASE RetryRoot \/ \E kind \in {"spawn", "wait"}, S \in SUBSET Children :
                             \E m : Propose(kind, S, m)
    BY <1>1, <2>1 DEF RetryRoot, Propose, locks, txs
  <2>2. CASE Spawn \/ LoadAgents
    <3>1. PICK where : step' = [step EXCEPT ![Root] = where]
      BY <2>2 DEF Spawn, LoadAgents, Answer
    <3>2. UNCHANGED <<lock, want, began, endAs>>
      BY <2>2 DEF Spawn, LoadAgents, locks
    <3> QED
      BY <1>0, <1>5, <2>2, <3>1, <3>2 DEF Moves
  <2>3. CASE BeginWait
    BY <1>0, <1>3, <2>3 DEF BeginWait, Moves
  <2>4. CASE ObserveChild
    <3>1. PICK c \in Unobserved : Take(Root, c)
      BY <1>0, <2>4, ObservesOne
    <3>2. c \in Runs /\ UNCHANGED txs
      BY <1>0, <2>4 DEF ObserveChild, Unobserved, Observe, Typed
    <3> QED
      BY <1>0, <1>4, <2>4, <3>1, <3>2 DEF Moves
  <2>5. CASE FinishWait \/ StoreResult
    <3>1. PICK where \in {"result", "idle"} : Close(Root, where)
      BY <2>5 DEF FinishWait, StoreResult
    <3> QED
      BY <1>0, <1>2, <2>5, <3>1 DEF Moves, Resting
  <2> QED
    BY <1>7, <2>1, <2>2, <2>3, <2>4, <2>5 DEF RootStep, Created
<1>8. ASSUME NEW u \in {Root, Member}, EndStep(u) PROVE SameTx(t) \/ Moves(t)
  <2>1. CASE \E as \in Terminal : BeginEnd(u, as)
    BY <1>0, <1>3, <1>8, <2>1 DEF BeginEnd, Moves
  <2>2. CASE CancelChild(u)
    <3>1. PICK c \in Runs : Take(u, c)
      BY <1>0, <2>2 DEF CancelChild, Outstanding
    <3> QED
      BY <1>0, <1>4, <1>8, <2>2, <3>1 DEF CancelChild, Moves
  <2>3. CASE FinishEnd(u)
    BY <1>0, <1>2, <1>8, <2>3 DEF FinishEnd, Moves, Resting
  <2> QED
    BY <1>8, <2>1, <2>2, <2>3 DEF EndStep
<1>9. CASE Expiry
  <2>1. CASE BeginExpiry
    BY <1>0, <1>5, <1>9, <2>1 DEF BeginExpiry, Moves, locks
  <2>2. CASE SweepNext
    <3>1. PICK r \in Overdue : Take(Sweeper, r)
      BY <1>0, <2>2, SweepsOne
    <3> QED
      BY <1>0, <1>4, <1>9, <2>2, <3>1 DEF SweepNext, Moves, Overdue
  <2>3. CASE FinishExpiry
    BY <1>0, <1>2, <1>9, <2>3 DEF FinishExpiry, Moves, Resting
  <2> QED
    BY <1>9, <2>1, <2>2, <2>3 DEF Expiry
<1>10. ASSUME NEW c \in Children, ChildStep(c) PROVE SameTx(t) \/ Moves(t)
  <2>1. CASE ClaimChild(c) \/ RetryChild(c)
    BY <1>1, <2>1 DEF ClaimChild, RetryChild, locks, txs
  <2>2. CASE \E as \in {"completed", "failed"} : BeginChildEnd(c, as)
    <3>1. PICK as : Open(c, c, "ended", as)
      BY <2>2 DEF BeginChildEnd
    <3> QED
      BY <1>0, <1>3, <1>10, <3>1 DEF Moves
  <2>3. CASE FinishChildEnd(c) \/ FinishWake(c)
    <3>1. CASE Close(c, "idle")
      BY <1>0, <1>2, <1>10, <3>1 DEF Moves, Resting
    <3>2. CASE want' = [want EXCEPT ![c] = Root] /\ step' = [step EXCEPT ![c] = "waking"]
               /\ UNCHANGED <<lock, began, endAs>>
      <4>1. \A v \in Txs \ {c} : want'[v] = want[v]
        BY <1>0, <3>2 DEF Typed
      <4> QED
        BY <1>0, <1>5, <1>10, <3>2, <4>1 DEF Moves
    <3> QED
      BY <2>3, <3>1, <3>2 DEF FinishChildEnd, FinishWake, ChildEnds
  <2> QED
    BY <1>10, <2>1, <2>2, <2>3 DEF ChildStep
<1>11. ASSUME NEW u \in Txs, Acquire(u) \/ AbortVictim(u) \/ Crash(u) PROVE SameTx(t) \/ Moves(t)
  <2>1. CASE Acquire(u)
    BY <1>0, <1>11, <2>1, AcquireHolding DEF Moves
  <2>2. CASE AbortVictim(u) \/ Crash(u)
    <3>1. PICK where \in {"error", "gone", "idle"} : Close(u, where)
      BY <2>2 DEF AbortVictim, Crash, Restart
    <3> QED
      BY <1>0, <1>2, <1>11, <3>1 DEF Moves, Resting
  <2> QED
    BY <1>11, <2>1, <2>2
<1> QED
  BY <1>6, <1>7, <1>8, <1>9, <1>10, <1>11 DEF Next

\* The positions that the root's transaction reaches.
RootGoes ==
    /\ step'[Root] \in {"returning", "yielding"} =>
          \/ LoadAgents
          \/ step'[Root] = step[Root] /\ \A r \in Runs : lock[r] = Root => lock'[r] = Root
    /\ step'[Root] \in {"result", "excerpt"} => step'[Root] = step[Root] \/ Spawn \/ FinishWait
    /\ step[Root] \in {"idle", "gone"} /\ status[Root] = "queued" => step'[Root] \in {"idle", "gone"}
    /\ FinishWait => step'[Root] \in {"result", "idle"}
    /\ RetryRoot => step'[Root] = "idle"

LEMMA RootStepGoes ==
    ASSUME SubagentsAssumption, IInv, [Next]_vars
    PROVE  RootGoes
<1>0. /\ Typed /\ Root \in Txs /\ Root \in Runs /\ Holding(Root)
      /\ None \notin Txs /\ Root \notin Children /\ Root # Member /\ Root # Sweeper
      /\ \A c \in Children : c \in Runs /\ c \in Txs
  BY Numbers DEF IInv, Root, Member, Sweeper
<1>1. ASSUME NEW where, Close(Root, where) PROVE step'[Root] = where
  BY <1>0, <1>1 DEF Close, Typed
<1>2. ASSUME NEW where, step' = [step EXCEPT ![Root] = where] PROVE step'[Root] = where
  BY <1>0, <1>2 DEF Typed
<1>3. FinishWait => step'[Root] \in {"result", "idle"}
  BY <1>1 DEF FinishWait
<1>4. RetryRoot => step'[Root] = "idle"
  BY DEF RetryRoot, txs
<1>5. CASE SameTx(Root)
  BY <1>3, <1>4, <1>5 DEF SameTx, RootGoes
<1>6. CASE Spawn
  <2>1. step[Root] = "idle" /\ status[Root] = "running" /\ step'[Root] \in {"result", "excerpt"}
    BY <1>2, <1>6 DEF Spawn, Proposed, Answer, Authority
  <2> QED
    BY <1>3, <1>4, <1>6, <2>1 DEF RootGoes
<1>7. CASE BeginWait
  <2>1. status[Root] = "running" /\ step'[Root] = "observing"
    BY <1>0, <1>7 DEF BeginWait, Authority, Open, Typed
  <2> QED
    BY <1>3, <1>4, <2>1 DEF RootGoes
<1>8. CASE ObserveChild
  <2>1. step'[Root] = "observing" /\ step[Root] = "observing"
    BY <1>8 DEF ObserveChild, txs
  <2> QED
    BY <1>3, <1>4, <2>1 DEF RootGoes
<1>9. CASE LoadAgents
  <2>1. step[Root] = "observing" /\ step'[Root] \in {"returning", "yielding"}
    BY <1>2, <1>9 DEF LoadAgents, Answer
  <2> QED
    BY <1>3, <1>4, <1>9, <2>1 DEF RootGoes
<1>10. CASE FinishWait
  <2>1. step[Root] \in {"returning", "yielding"}
    BY <1>10 DEF FinishWait
  <2> QED
    BY <1>3, <1>4, <1>10, <2>1 DEF RootGoes
<1>11. CASE StoreResult
  <2>1. step'[Root] = "idle"
    BY <1>1, <1>11 DEF StoreResult
  <2> QED
    BY <1>3, <1>4, <2>1 DEF RootGoes
<1>12. CASE EndStep(Root)
  <2>1. CASE \E as \in Terminal : BeginEnd(Root, as)
    <3>1. step'[Root] = "ending" /\ status[Root] = "running"
      BY <1>0, <2>1 DEF BeginEnd, Authority, Open, Typed
    <3> QED
      BY <1>3, <1>4, <3>1 DEF RootGoes
  <2>2. CASE CancelChild(Root)
    <3>1. step'[Root] = "ending" /\ step[Root] = "ending"
      BY <2>2 DEF CancelChild, txs
    <3> QED
      BY <1>3, <1>4, <3>1 DEF RootGoes
  <2>3. CASE FinishEnd(Root)
    <3>1. step'[Root] = "idle"
      BY <1>1, <2>3 DEF FinishEnd
    <3> QED
      BY <1>3, <1>4, <3>1 DEF RootGoes
  <2> QED
    BY <1>12, <2>1, <2>2, <2>3 DEF EndStep
<1>13. CASE Acquire(Root)
  <2>1. step'[Root] = step[Root] /\ \A r \in Runs : lock[r] = Root => lock'[r] = Root
    BY <1>0, <1>13, AcquireHolding DEF Acquire, txs
  <2> QED
    BY <1>3, <1>4, <2>1 DEF RootGoes
<1>14. CASE AbortVictim(Root) \/ Crash(Root)
  <2>1. step'[Root] \in {"idle", "gone"}
    BY <1>0, <1>1, <1>14 DEF AbortVictim, Crash, Restart
  <2> QED
    BY <1>3, <1>4, <2>1 DEF RootGoes
<1> QED
  BY <1>0, <1>5, <1>6, <1>7, <1>8, <1>9, <1>10, <1>11, <1>12, <1>13, <1>14, Movers DEF Moves

\* A child's transaction gets to wait for the root's rows when it finds the root
\* in a wait for the child.
LEMMA WakingFrom ==
    ASSUME SubagentsAssumption, IInv, [Next]_vars, NEW c \in Children, step'[c] = "waking"
    PROVE  \/ step[c] = "waking" /\ lock[c] = c
           \/ Wakes(c) /\ UNCHANGED <<status, act>>
<1>0. /\ Typed /\ c \in Txs /\ c \in Runs /\ Holding(c) /\ c # Root /\ c # Member /\ c # Sweeper
  BY Numbers DEF IInv
<1>1. ASSUME NEW where, Close(c, where) PROVE where = "waking"
  BY <1>0, <1>1 DEF Close, Typed
<1>2. CASE step[c] = "waking"
  BY <1>0, <1>2 DEF Holding
<1>3. CASE SameTx(c)
  BY <1>2, <1>3 DEF SameTx
<1>4. CASE ChildStep(c)
  <2>1. CASE ClaimChild(c) \/ RetryChild(c)
    BY <1>2, <2>1 DEF ClaimChild, RetryChild, txs
  <2>2. CASE \E as \in {"completed", "failed"} : BeginChildEnd(c, as)
    BY <1>0, <2>2 DEF BeginChildEnd, Open, Typed
  <2>3. CASE FinishChildEnd(c) \/ FinishWake(c)
    BY <1>1, <2>3 DEF FinishChildEnd, FinishWake, ChildEnds, rows, root
  <2> QED
    BY <1>4, <2>1, <2>2, <2>3 DEF ChildStep
<1>5. CASE Acquire(c) \/ AbortVictim(c) \/ Crash(c)
  BY <1>0, <1>1, <1>2, <1>5 DEF Acquire, AbortVictim, Crash, Restart, txs
<1> QED
  BY <1>0, <1>3, <1>4, <1>5, Movers DEF Moves

----------------------------------------------------------------------------
(* The wait and its children.                                              *)

\* The Action of a wait in progress stays.
LEMMA ActStays ==
    ASSUME SubagentsAssumption, IInv, [Next]_vars
    PROVE  /\ step[Root] \notin {"idle", "result", "excerpt"} => act' = act
           /\ status[Root] # "running" => act' = act
           /\ act.kind = "wait" /\ step[Root] \notin {"result", "excerpt"} => act' = act
  BY Writers DEF Proposes, Propose, Proposed, StoreResult, Authority

\* Every step keeps what the wait has read and whom the children wake.
LEMMA ObservedStep ==
    ASSUME SubagentsAssumption, IInv, [Next]_vars
    PROVE  Observed'
<1>0. /\ Typed /\ Observed /\ Root \in Txs /\ Root \in Runs /\ Holding(Root) /\ None \notin Txs
      /\ act.agents \subseteq Created
      /\ Root \notin Children /\ \A c \in Children : c \in Runs /\ c \in Txs
  BY Numbers DEF IInv, WaitRows
<1>1. StatusGoes /\ RootGoes
  BY StatusStep, RootStepGoes
<1>2. ASSUME LoadAgents
      PROVE  /\ act' = act /\ status' = status /\ lock' = lock
             /\ \A c \in act.agents : lock[c] = Root
             /\ step'[Root] = "yielding" => \A c \in act.agents : status[c] \notin Terminal
  <2>1. UNCHANGED <<act, status, lock>>
    BY <1>2 DEF LoadAgents, root, rows, locks
  <2>2. \A c \in act.agents : lock[c] = Root
    BY <1>2 DEF LoadAgents, Unobserved, Observe, Locked
  <2>3. (\E c \in act.agents : status[c] \in Terminal) => step'[Root] = "returning"
    BY <1>0, <1>2 DEF LoadAgents, Answer, Typed
  <2> QED
    BY <2>1, <2>2, <2>3
<1>3. (step[Root] \in {"returning", "yielding"} => \A c \in act.agents : lock[c] = Root)'
  <2> SUFFICES ASSUME step'[Root] \in {"returning", "yielding"}
               PROVE  \A c \in act'.agents : lock'[c] = Root
    OBVIOUS
  <2>1. CASE LoadAgents
    BY <1>2, <2>1
  <2>2. CASE step'[Root] = step[Root] /\ \A r \in Runs : lock[r] = Root => lock'[r] = Root
    <3>1. act' = act
      BY <2>2, ActStays
    <3> QED
      BY <1>0, <2>2, <3>1 DEF Observed, Created
  <2> QED
    BY <1>1, <2>1, <2>2 DEF RootGoes
<1>4. (step[Root] = "yielding" => \A c \in act.agents : status[c] \notin Terminal)'
  <2> SUFFICES ASSUME step'[Root] = "yielding"
               PROVE  \A c \in act'.agents : status'[c] \notin Terminal
    OBVIOUS
  <2>1. CASE LoadAgents
    BY <1>2, <2>1
  <2>2. CASE step'[Root] = step[Root] /\ \A r \in Runs : lock[r] = Root => lock'[r] = Root
    <3>1. act' = act
      BY <2>2, ActStays
    <3>2. \A c \in act.agents : /\ c \in Children /\ status[c] # "absent" /\ lock[c] = Root
                                /\ status[c] \notin Terminal
      BY <1>0, <2>2 DEF Observed, Created
    <3> QED
      BY <1>1, <2>2, <3>1, <3>2 DEF StatusGoes
  <2> QED
    BY <1>1, <2>1, <2>2 DEF RootGoes
<1>5. (status[Root] = "queued" => step[Root] \in {"idle", "gone"})'
  <2> SUFFICES ASSUME status'[Root] = "queued"
               PROVE  step'[Root] \in {"idle", "gone"}
    OBVIOUS
  <2>1. CASE status[Root] = "queued"
    BY <1>0, <1>1, <2>1 DEF Observed, RootGoes
  <2>2. CASE RetryRoot
    BY <1>1, <2>2 DEF RootGoes
  <2>3. CASE FinishWait
    <3>1. PICK where \in {"result", "idle"} :
             Close(Root, where) /\ (where = "result" => status'[Root] = status[Root])
      <4>1. PICK f \in [Dispatched -> Children \ Created] :
               LET spawned == [r \in Runs |-> IF \E a \in Dispatched : f[a] = r
                                             THEN "queued" ELSE status[r]]
               IN  \/ status' = spawned /\ Close(Root, "result")
                   \/ Close(Root, "idle")
        BY <2>3 DEF FinishWait
      <4>2. ~\E a \in Dispatched : f[a] = Root
        BY <1>0
      <4> HIDE DEF Dispatched
      <4> QED
        BY <1>0, <4>1, <4>2
    <3>2. step'[Root] = where
      BY <1>0, <3>1 DEF Close, Typed
    <3>3. status[Root] = "running"
      BY <1>0, <2>3 DEF FinishWait, Holding
    <3> QED
      BY <3>1, <3>2, <3>3
  <2> QED
    BY <1>1, <2>1, <2>2, <2>3 DEF StatusGoes
<1>6. ASSUME NEW c \in Children, step'[c] = "waking"
      PROVE  /\ c \in act'.agents /\ act'.kind = "wait"
             /\ step'[Root] \notin {"returning", "yielding", "result", "excerpt"}
  <2>1. CASE Wakes(c) /\ UNCHANGED <<status, act>>
    <3>1. status'[Root] = "queued" /\ c \in act'.agents /\ act'.kind = "wait"
      BY <2>1, WakesItsWait DEF Wakes
    <3> QED
      BY <1>5, <3>1
  <2>2. CASE step[c] = "waking" /\ lock[c] = c
    <3>1. /\ c \in act.agents /\ act.kind = "wait"
          /\ step[Root] \notin {"returning", "yielding", "result", "excerpt"}
      BY <1>0, <2>2 DEF Observed
    <3>2. act' = act
      BY <3>1, ActStays
    <3>3. ~LoadAgents
      BY <1>0, <1>2, <2>2, <3>1
    <3>4. ~Spawn /\ ~FinishWait
      BY <3>1 DEF Spawn, Proposed, FinishWait
    <3> QED
      BY <1>1, <3>1, <3>2, <3>3, <3>4 DEF RootGoes
  <2> QED
    BY <1>6, <2>1, <2>2, WakingFrom
<1> QED
  BY <1>3, <1>4, <1>5, <1>6 DEF Observed

\* What the wait that yields commits.
LEMMA Yields ==
    ASSUME SubagentsAssumption, IInv, FinishWait
    PROVE  \/ UNCHANGED <<act, parked, availableAt>> /\ status'[Root] = status[Root]
           \/ /\ step[Root] = "yielding" /\ act' = act /\ parked' = TRUE
              /\ status'[Root] = "queued"
              /\ waits'[act.no] = WaitRow /\ availableAt' = WaitRow.deadline
<1>0. /\ Typed /\ Root \in Runs /\ Holding(Root) /\ Root \in Txs /\ Root \notin Children
  BY Numbers DEF IInv
<1>1. act.kind = "wait" /\ act' = act
  BY <1>0 DEF FinishWait, Holding, root
<1>2. act.no \in Actions
  BY <1>1, WaitRowTyped
<1>3. PICK f \in [Dispatched -> Children \ Created] :
         LET spawned == [r \in Runs |-> IF \E a \in Dispatched : f[a] = r
                                       THEN "queued" ELSE status[r]]
         IN  \/ status' = spawned /\ UNCHANGED <<availableAt, parked>>
             \/ /\ step[Root] = "yielding" /\ waits' = [waits EXCEPT ![act.no] = WaitRow]
                /\ status' = [spawned EXCEPT ![Root] = "queued"]
                /\ availableAt' = WaitRow.deadline /\ parked' = TRUE
  BY DEF FinishWait
<1>4. ~\E a \in Dispatched : f[a] = Root
  BY <1>0
<1> HIDE DEF Dispatched, WaitRow
<1> QED
  BY <1>0, <1>1, <1>2, <1>3, <1>4 DEF Typed

\* A child that ends while the root sleeps in a wait for it wakes the root.
LEMMA ChildWakes ==
    ASSUME SubagentsAssumption, IInv, NEW c \in Children, ChildCommits(c)
    PROVE  /\ UNCHANGED <<act, waits, parked, now>> /\ status'[Root] = status[Root]
           /\ status'[c] \in Terminal /\ \A d \in Children \ {c} : status'[d] = status[d]
           /\ \/ availableAt' = availableAt
              \/ availableAt' <= now /\ c \in act.agents
           /\ parked /\ status[Root] = "queued" /\ c \in act.agents => availableAt' <= now
<1>0. /\ Typed /\ c \in Runs /\ c \in Txs /\ Root \in Runs /\ c # Root
      /\ \A d \in Children : d \in Runs
      /\ Holding(c) /\ Observed
  BY Numbers DEF IInv
<1>1. PICK wakes \in BOOLEAN : (FinishChildEnd(c) \/ FinishWake(c)) /\ ChildEnds(c, wakes)
  BY DEF ChildCommits
<1>2. began[c] <= now /\ endAs[c] \in Terminal
  BY <1>0, <1>1 DEF Holding, FinishChildEnd, FinishWake
<1>3. /\ UNCHANGED <<act, waits, parked, now>> /\ status'[Root] = status[Root]
      /\ status'[c] = endAs[c] /\ \A d \in Children \ {c} : status'[d] = status[d]
      /\ availableAt' = IF wakes THEN began[c] ELSE availableAt
  BY <1>0, <1>1 DEF ChildEnds, root, Typed
<1>4. CASE FinishWake(c)
  <2>1. c \in act.agents /\ (availableAt' = IF status[Root] = "queued" THEN began[c] ELSE availableAt)
    BY <1>0, <1>4 DEF Observed, FinishWake, ChildEnds
  <2> QED
    BY <1>2, <1>3, <2>1
<1>5. CASE FinishChildEnd(c)
  <2>1. \/ Wakes(c) /\ availableAt' = began[c]
        \/ ~Wakes(c) /\ availableAt' = availableAt
        \/ step'[c] = "waking"
    BY <1>0, <1>5 DEF FinishChildEnd, ChildEnds, Typed
  <2>2. step'[c] # "waking"
    BY <1>0, <1>1 DEF ChildEnds, Close, Typed
  <2> QED
    BY <1>2, <1>3, <2>1, <2>2, WakesItsWait
<1> QED
  BY <1>1, <1>4, <1>5

\* Every step keeps the root that sleeps runnable.
LEMMA ParkedStep ==
    ASSUME SubagentsAssumption, IInv, [Next]_vars
    PROVE  Parked'
<1>0. /\ Typed /\ Parked /\ WaitRows /\ Observed /\ Holding(Root) /\ Root \in Txs
      /\ act.agents \subseteq Children /\ act.agents \subseteq Created
      /\ now \in Nat /\ availableAt \in Nat
  <2>1. Typed /\ Parked /\ WaitRows /\ Observed /\ Holding(Root) /\ Root \in Txs
    BY Numbers DEF IInv
  <2>2. act.agents \subseteq Children /\ now \in Nat /\ availableAt \in Nat
    BY <2>1 DEF Typed, SubagentsAssumption
  <2> QED
    BY <2>1, <2>2 DEF WaitRows
<1>1. StatusGoes /\ Typed'
  BY StatusStep, TypedStep
<1>2. now \in Int /\ now' \in Int /\ now <= now'
  <2>1. now' = now \/ now' = now + 1
    BY DEF Next, Tick, RootStep, Propose, Spawn, BeginWait, ObserveChild, LoadAgents, FinishWait,
       StoreResult, RetryRoot, ClaimRoot, EndStep, BeginEnd, CancelChild, FinishEnd, Expiry,
       BeginExpiry, SweepNext, FinishExpiry, ChildStep, ClaimChild, RetryChild, BeginChildEnd,
       FinishChildEnd, FinishWake, ChildEnds, Acquire, AbortVictim, Crash, vars
  <2> QED
    BY <1>0, <2>1
<1>3. CASE FinishWait /\ ~UNCHANGED parked
  <2>1. /\ step[Root] = "yielding" /\ act' = act /\ parked' = TRUE /\ status'[Root] = "queued"
        /\ waits'[act.no] = WaitRow /\ availableAt' = WaitRow.deadline
    BY <1>3, Yields
  <2>2. act.kind = "wait" /\ WaitRow # NoRow
    BY <1>0, <2>1, WaitRowTyped DEF Holding
  <2>3. \A c \in act.agents : status'[c] \notin Terminal
    <3> TAKE c \in act.agents
    <3>1. c \in Children /\ status[c] # "absent" /\ lock[c] = Root /\ status[c] \notin Terminal
      BY <1>0, <2>1 DEF Observed, Created
    <3> QED
      BY <1>1, <2>1, <3>1 DEF StatusGoes
  <2>4. Parked' <=> /\ parked' => act'.kind = "wait" /\ waits'[act'.no] # NoRow /\ status'[Root] # "running"
                    /\ NoLostWakeup'
                    /\ parked' /\ status'[Root] = "queued" =>
                          \/ availableAt' = waits'[act'.no].deadline
                          \/ \E c \in act'.agents : status'[c] \in Terminal
    BY DEF Parked
  <2>5. NoLostWakeup'
    BY <2>1, <2>3 DEF NoLostWakeup
  <2> HIDE DEF WaitRow
  <2> QED
    BY <2>1, <2>2, <2>4, <2>5
<1>4. CASE parked' = FALSE
  BY <1>4 DEF Parked, NoLostWakeup
<1>5. ASSUME parked' = parked, parked
      PROVE  Parked'
  <2>0. /\ act.kind = "wait" /\ waits[act.no] # NoRow /\ status[Root] # "running" /\ act' = act
        /\ ~RetryRoot /\ ~FinishWait /\ waits' = waits
    <3>1. act.kind = "wait" /\ waits[act.no] # NoRow /\ status[Root] # "running"
      BY <1>0, <1>5 DEF Parked
    <3>2. ~RetryRoot /\ ~FinishWait
      BY <1>0, <3>1 DEF RetryRoot, FinishWait, Holding
    <3> QED
      BY <3>1, <3>2, ActStays, Writers
  <2>1. status'[Root] # "running"
    <3>1. ~ClaimRoot
      BY <1>5 DEF ClaimRoot
    <3> QED
      BY <1>1, <2>0, <3>1 DEF StatusGoes
  <2>2. ASSUME status'[Root] = "queued"
        PROVE  /\ (\E c \in act.agents : status'[c] \in Terminal) => availableAt' <= now'
               /\ \/ availableAt' = waits[act.no].deadline
                  \/ \E c \in act.agents : status'[c] \in Terminal
    <3>1. status[Root] = "queued"
      BY <1>1, <2>0, <2>2 DEF StatusGoes
    <3>2. /\ (\E c \in act.agents : status[c] \in Terminal) => availableAt <= now
          /\ \/ availableAt = waits[act.no].deadline
             \/ \E c \in act.agents : status[c] \in Terminal
      BY <1>0, <1>5, <3>1 DEF Parked, NoLostWakeup
    <3>3. ASSUME NEW c \in Children, ChildCommits(c) PROVE
               /\ (\E d \in act.agents : status'[d] \in Terminal) => availableAt' <= now'
               /\ \/ availableAt' = waits[act.no].deadline
                  \/ \E d \in act.agents : status'[d] \in Terminal
      <4>1. /\ now' = now /\ status'[c] \in Terminal
            /\ \A d \in Children \ {c} : status'[d] = status[d]
            /\ \/ availableAt' = availableAt
               \/ availableAt' <= now /\ c \in act.agents
            /\ c \in act.agents => availableAt' <= now
        BY <1>5, <3>1, <3>3, ChildWakes
      <4>2. CASE c \in act.agents
        BY <4>1, <4>2
      <4>3. CASE c \notin act.agents
        <5>1. availableAt' = availableAt /\ \A d \in act.agents : status'[d] = status[d]
          BY <1>0, <4>1, <4>3
        <5> QED
          BY <3>2, <4>1, <5>1
      <4> QED
        BY <4>2, <4>3
    <3>4. ASSUME \A c \in Children : ~ChildCommits(c) PROVE
               /\ (\E d \in act.agents : status'[d] \in Terminal) => availableAt' <= now'
               /\ \/ availableAt' = waits[act.no].deadline
                  \/ \E d \in act.agents : status'[d] \in Terminal
      <4>1. \A d \in act.agents : status'[d] \in Terminal <=> status[d] \in Terminal
        BY <1>0, <1>1, <2>2, <3>4 DEF StatusGoes, Active
      <4>2. availableAt' = availableAt
        <5>1. ASSUME NEW c \in Children, FinishChildEnd(c) \/ FinishWake(c) PROVE availableAt' = availableAt
          BY <3>4, <5>1 DEF ChildCommits, FinishChildEnd, FinishWake, rows
        <5> QED
          BY <2>0, <5>1, Writers
      <4> QED
        BY <1>0, <1>2, <3>2, <4>1, <4>2
    <3> QED
      BY <3>3, <3>4
  <2>3. Parked' <=> /\ parked' => act'.kind = "wait" /\ waits'[act'.no] # NoRow /\ status'[Root] # "running"
                    /\ NoLostWakeup'
                    /\ parked' /\ status'[Root] = "queued" =>
                          \/ availableAt' = waits'[act'.no].deadline
                          \/ \E c \in act'.agents : status'[c] \in Terminal
    BY DEF Parked
  <2>4. NoLostWakeup'
    BY <2>0, <2>2 DEF NoLostWakeup
  <2> QED
    BY <1>5, <2>0, <2>1, <2>2, <2>3, <2>4
<1>6. parked \in BOOLEAN /\ parked' \in BOOLEAN
  BY <1>0, <1>1 DEF Typed
<1>7. parked' = parked \/ FinishWait \/ parked' = FALSE
  BY Writers DEF ClaimRoot
<1>8. parked' = FALSE \/ (parked' = parked /\ parked) \/ (FinishWait /\ ~(parked' = parked))
  BY <1>6, <1>7
<1> QED
  BY <1>3, <1>4, <1>5, <1>8

----------------------------------------------------------------------------
(* The children of the tree.                                               *)

\* The reads that a wait dispatches fit into the free slots.
LEMMA DispatchFits ==
    ASSUME SubagentsAssumption, IInv
    PROVE  /\ Dispatched \subseteq Actions /\ \A a \in Dispatched : childOf[a] = None
           /\ \/ Dispatched = {}
              \/ /\ Cardinality(ActiveChildren) + Cardinality(Dispatched) <= MaxActive
                 /\ Cardinality(Created) + Cardinality(Dispatched) <= MaxTotal
<1> DEFINE K == {a \in excerpts : childOf[a] = None}
           D == Dispatched
           before(a) == {b \in K : b < a}
<1>0. /\ Actions \subseteq Nat /\ Actions \in SUBSET Int /\ K \subseteq Actions
      /\ MaxActive \in Nat /\ MaxTotal \in Nat
  BY Numbers DEF IInv, Typed, SubagentsAssumption
<1>1. /\ D \subseteq K
      /\ \A a \in D : /\ Cardinality(ActiveChildren) + Cardinality(before(a)) < MaxActive
                      /\ Cardinality(Created) + Cardinality(before(a)) < MaxTotal
  BY DEF Dispatched
<1> HIDE DEF D, K
<1>2. D \subseteq Actions /\ \A a \in D : childOf[a] = None
  BY <1>0, <1>1 DEF K
<1>3. ASSUME D # {}
      PROVE  /\ Cardinality(ActiveChildren) + Cardinality(D) <= MaxActive
             /\ Cardinality(Created) + Cardinality(D) <= MaxTotal
  <2>1. IsFiniteSet(D) /\ D \in SUBSET Int /\ Cardinality(D) \in Nat
    BY <1>0, <1>2, FiniteChildren
  <2>2. PICK m \in D : \A b \in D : b <= m
    BY <1>3, <2>1, GreatestOfFinite
  <2>3. D \ {m} \subseteq before(m)
    <3>1. \A b \in D \ {m} : b \in K /\ b < m
      BY <1>1, <2>1, <2>2
    <3> QED
      BY <3>1
  <2>4. before(m) \subseteq Actions
    BY <1>0
  <2> HIDE DEF before
  <2>5. Cardinality(D \ {m}) <= Cardinality(before(m)) /\ Cardinality(before(m)) \in Nat
    BY <2>3, <2>4, FiniteChildren, FS_Subset
  <2>6. Cardinality(D \ {m}) = Cardinality(D) - 1
    BY <2>1, <2>2, FS_RemoveElement
  <2>7. /\ Cardinality(ActiveChildren) + Cardinality(before(m)) < MaxActive
        /\ Cardinality(Created) + Cardinality(before(m)) < MaxTotal
    BY <1>1, <2>2
  <2>8. Cardinality(ActiveChildren) \in Nat /\ Cardinality(Created) \in Nat
    BY FiniteChildren DEF ActiveChildren, Created
  <2> QED
    BY <1>0, <2>1, <2>5, <2>6, <2>7, <2>8
<1> QED
  BY <1>2, <1>3 DEF D

\* New children, no more of them than there are slots.
LEMMA CapacityKept ==
    ASSUME SubagentsAssumption, WithinCapacity,
           NEW N \in SUBSET (Children \ Created), NEW n \in Nat, Cardinality(N) <= n,
           N = {} \/ (Cardinality(ActiveChildren) + n <= MaxActive /\ Cardinality(Created) + n <= MaxTotal),
           NEW A \in SUBSET (ActiveChildren \cup N), NEW C \in SUBSET (Created \cup N)
    PROVE  Cardinality(A) <= MaxActive /\ Cardinality(C) <= MaxTotal
<1>0. /\ ActiveChildren \in SUBSET Children /\ Created \in SUBSET Children /\ N \in SUBSET Children
      /\ A \in SUBSET Children /\ C \in SUBSET Children
  BY DEF ActiveChildren, Created
<1>1. /\ Cardinality(ActiveChildren) \in Nat /\ Cardinality(Created) \in Nat /\ Cardinality(N) \in Nat
      /\ Cardinality(A) \in Nat /\ Cardinality(C) \in Nat
      /\ IsFiniteSet(ActiveChildren) /\ IsFiniteSet(Created) /\ IsFiniteSet(N)
      /\ MaxActive \in Nat /\ MaxTotal \in Nat
  BY <1>0, FiniteChildren DEF SubagentsAssumption
<1>2. /\ Cardinality(A) <= Cardinality(ActiveChildren \cup N)
      /\ Cardinality(C) <= Cardinality(Created \cup N)
      /\ IsFiniteSet(ActiveChildren \cup N) /\ IsFiniteSet(Created \cup N)
  BY <1>1, FS_Union, FS_Subset
<1>3. /\ Cardinality(ActiveChildren \cup N) <= Cardinality(ActiveChildren) + Cardinality(N)
      /\ Cardinality(Created \cup N) <= Cardinality(Created) + Cardinality(N)
  <2>1. /\ Cardinality(ActiveChildren \cup N) =
             Cardinality(ActiveChildren) + Cardinality(N) - Cardinality(ActiveChildren \cap N)
        /\ Cardinality(Created \cup N) =
             Cardinality(Created) + Cardinality(N) - Cardinality(Created \cap N)
    BY <1>1, FS_Union
  <2>2. Cardinality(ActiveChildren \cap N) \in Nat /\ Cardinality(Created \cap N) \in Nat
    BY <1>0, FiniteChildren
  <2> QED
    BY <1>1, <2>1, <2>2
<1>4. CASE N = {}
  <2>1. ActiveChildren \cup N = ActiveChildren /\ Created \cup N = Created
    BY <1>4
  <2> QED
    BY <1>1, <1>2, <2>1 DEF WithinCapacity
<1>5. CASE Cardinality(ActiveChildren) + n <= MaxActive /\ Cardinality(Created) + n <= MaxTotal
  <2>1. Cardinality(ActiveChildren \cup N) \in Nat /\ Cardinality(Created \cup N) \in Nat
    BY <1>2, FS_CardinalityType
  <2> QED
    BY <1>1, <1>2, <1>3, <1>5, <2>1
<1> QED
  BY <1>4, <1>5

\* The children that a wait dispatches.
LEMMA Spawned ==
    ASSUME SubagentsAssumption, IInv, NEW f \in [Dispatched -> Children \ Created],
           \A a, b \in Dispatched : f[a] = f[b] => a = b
    PROVE  /\ {f[a] : a \in Dispatched} \in SUBSET (Children \ Created)
           /\ Cardinality({f[a] : a \in Dispatched}) <= Cardinality(Dispatched)
           /\ Cardinality(Dispatched) \in Nat
           /\ Dispatched = {} => {f[a] : a \in Dispatched} = {}
<1> DEFINE D == Dispatched
           F == {f[a] : a \in D}
<1>1. IsFiniteSet(D) /\ Cardinality(D) \in Nat
  BY DispatchFits, FiniteChildren
<1> HIDE DEF D
<1>2. f \in [D -> Children \ Created]
  BY DEF D
<1>3. f \in Surjection(D, F)
  BY <1>2 DEF Surjection
<1>4. F \in SUBSET (Children \ Created) /\ (D = {} => F = {})
  BY <1>2
<1> HIDE DEF F
<1>5. Cardinality(F) <= Cardinality(D)
  BY <1>1, <1>3, FS_Surjection
<1> QED
  BY <1>1, <1>4, <1>5 DEF D, F

\* A spawn adds one child, of its Action.
LEMMA SpawnTree ==
    ASSUME SubagentsAssumption, IInv, [Next]_vars, Spawn, ~UNCHANGED childOf
    PROVE  Tree'
<1>0. /\ Typed /\ Tree /\ WaitRows /\ Typed' /\ Root \notin Children /\ None \notin Children
      /\ \A c \in Children : c \in Runs
  BY Numbers, TypedStep DEF IInv, Txs
<1>1. PICK d \in Children \ Created :
         /\ status' = [status EXCEPT ![d] = "queued"]
         /\ childOf' = [childOf EXCEPT ![act.no] = d]
         /\ childOf[act.no] = None /\ ~Full /\ status[Root] = "running" /\ act.kind = "spawn"
  BY DEF Spawn, Authority, Proposed
<1>2. act.no \in Actions
  BY <1>0, <1>1 DEF WaitRows
<1>3. /\ status'[Root] = status[Root] /\ status'[d] = "queued"
      /\ \A c \in Children \ {d} : status'[c] = status[c]
      /\ childOf'[act.no] = d /\ \A a \in Actions \ {act.no} : childOf'[a] = childOf[a]
  BY <1>0, <1>1, <1>2, Numbers DEF Typed
<1>4. Created' = Created \cup {d} /\ ActiveChildren' = ActiveChildren \cup {d}
  BY <1>1, <1>3 DEF Created, ActiveChildren, Active
<1>5. \A a \in Actions : childOf[a] \in Created \cup {None}
  BY <1>0 DEF Tree
<1>6. \A a \in Actions : childOf'[a] \in Created' \cup {None}
  BY <1>3, <1>4, <1>5
<1>7. ASSUME NEW c \in Created' PROVE Owned(c)'
  <2>1. CASE c = d
    <3>1. \A b \in Actions : childOf'[b] = d => b = act.no
      BY <1>0, <1>1, <1>3, <1>5
    <3> QED
      BY <1>2, <1>3, <2>1, <3>1 DEF Owned
  <2>2. CASE c # d
    <3>1. c \in Created /\ c # None
      BY <1>0, <1>4, <2>2 DEF Created
    <3>2. PICK a \in Actions : childOf[a] = c /\ \A b \in Actions : childOf[b] = c => b = a
      BY <1>0, <3>1 DEF Tree, Owned
    <3>3. childOf'[a] = c /\ \A b \in Actions : childOf'[b] = c => b = a
      BY <1>1, <1>3, <2>2, <3>1, <3>2
    <3> QED
      BY <3>3 DEF Owned
  <2> QED
    BY <2>1, <2>2
<1>8. WithinCapacity'
  <2>1. Cardinality({d}) <= 1
    BY FS_Singleton
  <2>2. Cardinality(ActiveChildren) + 1 <= MaxActive /\ Cardinality(Created) + 1 <= MaxTotal
    BY <1>1, FiniteChildren DEF Full, ActiveChildren, Created, SubagentsAssumption
  <2>3. Cardinality(ActiveChildren') <= MaxActive /\ Cardinality(Created') <= MaxTotal
    BY <1>0, <1>4, <2>1, <2>2, CapacityKept DEF Tree
  <2> QED
    BY <2>3 DEF WithinCapacity
<1>9. NoOrphans'
  BY <1>1, <1>3 DEF NoOrphans, Terminal
<1> QED
  BY <1>6, <1>7, <1>8, <1>9 DEF Tree

\* A wait adds one child for each read it dispatches.
LEMMA WaitTree ==
    ASSUME SubagentsAssumption, IInv, [Next]_vars, FinishWait
    PROVE  Tree'
<1>0. /\ Typed /\ Tree /\ Holding(Root) /\ Root \in Runs /\ Root \notin Children /\ None \notin Children
      /\ Root \in Txs /\ \A c \in Children : c \in Runs
  BY Numbers DEF IInv, Txs
<1>1. status[Root] = "running"
  BY <1>0 DEF Holding, FinishWait
<1>2. PICK f \in [Dispatched -> Children \ Created] :
         /\ \A a, b \in Dispatched : f[a] = f[b] => a = b
         /\ childOf' = [a \in Actions |-> IF a \in Dispatched THEN f[a] ELSE childOf[a]]
         /\ LET spawned == [r \in Runs |-> IF \E a \in Dispatched : f[a] = r
                                          THEN "queued" ELSE status[r]]
            IN  status' = spawned \/ status' = [spawned EXCEPT ![Root] = "queued"]
  BY DEF FinishWait
<1> DEFINE D == Dispatched
           F == {f[a] : a \in D}
<1>3. /\ F \in SUBSET (Children \ Created) /\ Cardinality(F) <= Cardinality(D)
      /\ Cardinality(D) \in Nat /\ (D = {} => F = {})
  BY <1>2, Spawned
<1>4. /\ D \subseteq Actions /\ \A a \in D : childOf[a] = None
      /\ \/ D = {}
         \/ /\ Cardinality(ActiveChildren) + Cardinality(D) <= MaxActive
            /\ Cardinality(Created) + Cardinality(D) <= MaxTotal
  BY DispatchFits
<1>5. /\ f \in [D -> Children \ Created]
      /\ \A a, b \in D : f[a] = f[b] => a = b
      /\ \A a \in Actions : childOf'[a] = IF a \in D THEN f[a] ELSE childOf[a]
      /\ LET spawned == [r \in Runs |-> IF \E a \in D : f[a] = r THEN "queued" ELSE status[r]]
         IN  status' = spawned \/ status' = [spawned EXCEPT ![Root] = "queued"]
  BY <1>2
<1> HIDE DEF D
<1>6. /\ \A c \in Children : status'[c] = IF c \in F THEN "queued" ELSE status[c]
      /\ status'[Root] \in {"running", "queued"}
  <2>1. ~\E a \in D : f[a] = Root
    BY <1>0, <1>5
  <2>2. \A c \in Children : (\E a \in D : f[a] = c) <=> c \in F
    OBVIOUS
  <2> HIDE DEF F
  <2> DEFINE spawned == [r \in Runs |-> IF \E a \in D : f[a] = r THEN "queued" ELSE status[r]]
  <2>4. /\ spawned[Root] = "running"
        /\ \A c \in Children : spawned[c] = IF c \in F THEN "queued" ELSE status[c]
    BY <1>0, <1>1, <2>1, <2>2
  <2>5. status' = spawned \/ status' = [spawned EXCEPT ![Root] = "queued"]
    BY <1>5
  <2>6. DOMAIN spawned = Runs
    OBVIOUS
  <2> HIDE DEF spawned
  <2>7. \/ status' = spawned
        \/ status'[Root] = "queued" /\ \A c \in Children : status'[c] = spawned[c]
    BY <1>0, <2>5, <2>6
  <2> QED
    BY <2>4, <2>7
<1>7. \A a \in D : f[a] \in F
  OBVIOUS
<1>8. \A c \in F : \E a \in D : c = f[a]
  OBVIOUS
<1> HIDE DEF F
<1>9. Created' = Created \cup F /\ ActiveChildren' = ActiveChildren \cup F
  BY <1>3, <1>6 DEF Created, ActiveChildren, Active
<1>10. \A a \in Actions : childOf[a] \in Created \cup {None}
  BY <1>0 DEF Tree
<1>11. \A a \in Actions : childOf'[a] \in Created' \cup {None}
  BY <1>5, <1>7, <1>9, <1>10
<1>12. ASSUME NEW c \in Created' PROVE Owned(c)'
  <2>1. CASE c \in F
    <3>1. PICK a \in D : c = f[a]
      BY <1>8, <2>1
    <3>2. c \notin Created /\ c # None
      BY <1>0, <1>3, <2>1
    <3>3. \A b \in Actions : childOf'[b] = c => b = a
      BY <1>5, <1>10, <3>1, <3>2
    <3>4. a \in Actions /\ childOf'[a] = c
      BY <1>4, <1>5, <3>1
    <3> QED
      BY <3>3, <3>4 DEF Owned
  <2>2. CASE c \notin F
    <3>1. c \in Created /\ c # None
      BY <1>0, <1>9, <2>2 DEF Created
    <3>2. PICK a \in Actions : childOf[a] = c /\ \A b \in Actions : childOf[b] = c => b = a
      BY <1>0, <3>1 DEF Tree, Owned
    <3>3. a \notin D
      BY <1>4, <3>1, <3>2
    <3>4. childOf'[a] = c /\ \A b \in Actions : childOf'[b] = c => b = a
      BY <1>5, <1>7, <2>2, <3>2, <3>3
    <3> QED
      BY <3>4 DEF Owned
  <2> QED
    BY <2>1, <2>2
<1>13. WithinCapacity'
  <2>1. Cardinality(ActiveChildren') <= MaxActive /\ Cardinality(Created') <= MaxTotal
    BY <1>0, <1>3, <1>4, <1>9, CapacityKept DEF Tree
  <2> QED
    BY <2>1 DEF WithinCapacity
<1>14. NoOrphans'
  BY <1>6 DEF NoOrphans, Terminal
<1> QED
  BY <1>11, <1>12, <1>13, <1>14 DEF Tree

\* Every step keeps the children to their Actions, to the limits and to a root
\* that is at work.
LEMMA TreeStep ==
    ASSUME SubagentsAssumption, IInv, [Next]_vars
    PROVE  Tree'
<1>0. Tree /\ StatusGoes
  BY StatusStep DEF IInv
<1>1. CASE FinishWait
  BY <1>1, WaitTree
<1>2. CASE Spawn /\ ~UNCHANGED childOf
  BY <1>2, SpawnTree
<1>3. CASE UNCHANGED childOf /\ (~Spawn \/ UNCHANGED status) /\ ~FinishWait
  <2>1. Created' = Created
    BY <1>0, <1>3 DEF StatusGoes, Created
  <2>2. ActiveChildren' \subseteq ActiveChildren
    BY <1>0, <1>3 DEF StatusGoes, ActiveChildren
  <2>3. \A a \in Actions : childOf'[a] \in Created' \cup {None}
    BY <1>0, <1>3, <2>1 DEF Tree
  <2>4. ASSUME NEW c \in Created' PROVE Owned(c)'
    BY <1>0, <1>3, <2>1, <2>4 DEF Tree, Owned
  <2>5. WithinCapacity'
    <3>1. /\ IsFiniteSet(ActiveChildren) /\ Cardinality(ActiveChildren) \in Nat
          /\ Cardinality(ActiveChildren') \in Nat /\ MaxActive \in Nat
      BY <2>2, FiniteChildren DEF ActiveChildren, SubagentsAssumption
    <3>2. Cardinality(ActiveChildren') <= Cardinality(ActiveChildren)
      BY <2>2, <3>1, FS_Subset
    <3> QED
      BY <1>0, <2>1, <3>1, <3>2 DEF Tree, WithinCapacity
  <2>6. NoOrphans'
    <3>1. CASE status[Root] \in Terminal
      BY <1>0, <2>2, <3>1 DEF Tree, NoOrphans
    <3>2. CASE status[Root] \notin Terminal
      BY <1>0, <3>2 DEF StatusGoes, NoOrphans, ActiveChildren
    <3> QED
      BY <3>1, <3>2
  <2> QED
    BY <2>3, <2>4, <2>5, <2>6 DEF Tree
<1>4. Spawn /\ UNCHANGED childOf => UNCHANGED status \/ \E c \in Children \ Created : childOf[act.no] = None /\ childOf' = [childOf EXCEPT ![act.no] = c]
  BY DEF Spawn
<1>5. Spawn /\ UNCHANGED childOf => UNCHANGED status
  <2> SUFFICES ASSUME Spawn, UNCHANGED childOf,
                      NEW c \in Children \ Created, childOf[act.no] = None,
                      childOf' = [childOf EXCEPT ![act.no] = c]
               PROVE  FALSE
    BY <1>4
  <2>1. act.no \in Actions /\ Typed /\ None \notin Children
    BY Numbers DEF IInv, WaitRows, Spawn, Proposed, Txs
  <2>2. childOf'[act.no] = c
    BY <2>1 DEF Typed
  <2> QED
    BY <2>1, <2>2
<1> QED
  BY <1>1, <1>2, <1>3, <1>5, Writers

----------------------------------------------------------------------------
(* The theorems.                                                           *)

\* The first state has the inductive invariant.
LEMMA InitIInv ==
    ASSUME SubagentsAssumption, Init
    PROVE  IInv
<1>0. /\ Root \in Runs /\ Root \notin Children /\ None \notin Txs /\ \A c \in Children : c \in Runs
      /\ MaxActions \in Nat /\ MaxTime \in Nat /\ MaxActive \in Nat /\ MaxTotal \in Nat
  BY Numbers DEF SubagentsAssumption
<1>1. Typed
  <2>1. waits \in [Actions -> [agents : SUBSET Children, deadline : Int]]
    BY DEF Init, NoRow
  <2>2. act \in [no : 0..MaxActions, kind : {"none", "spawn", "wait"},
                 agents : SUBSET Children, timeout : Nat]
    BY <1>0 DEF Init
  <2>3. /\ status \in [Runs -> Active \cup Terminal \cup {"absent"}]
        /\ step \in [Txs -> Steps] /\ began \in [Txs -> Nat]
        /\ endAs \in [Txs -> Terminal \cup {"none"}]
    BY DEF Init, Active, Terminal, Steps
  <2>4. /\ childOf \in [Actions -> Children \cup {None}]
        /\ excerpts \subseteq Actions /\ parked \in BOOLEAN
        /\ lock \in [Runs -> Txs \cup {None}] /\ want \in [Txs -> Runs \cup {None}]
    BY DEF Init
  <2>5. availableAt \in Nat /\ now \in 0..MaxTime
    BY <1>0 DEF Init
  <2> QED
    BY <2>1, <2>2, <2>3, <2>4, <2>5 DEF Typed
<1>2. \A t \in Txs : Holding(t)
  BY <1>0 DEF Init, Holding, Resting
<1>3. Created = {} /\ ActiveChildren = {}
  BY <1>0 DEF Init, Created, ActiveChildren, Active
<1>4. WaitRows
  BY <1>0 DEF Init, WaitRows, NoRow
<1>5. Observed
  BY <1>0, Numbers DEF Init, Observed
<1>6. Parked
  BY DEF Init, Parked, NoLostWakeup
<1>7. WithinCapacity
  BY <1>0, <1>3, FS_EmptySet DEF WithinCapacity
<1>8. Tree
  BY <1>0, <1>3, <1>7 DEF Init, Tree, NoOrphans, Terminal
<1> QED
  BY <1>1, <1>2, <1>4, <1>5, <1>6, <1>8 DEF IInv

\* Every step keeps it.
LEMMA NextIInv ==
    ASSUME SubagentsAssumption, IInv, [Next]_vars
    PROVE  IInv'
  BY TypedStep, HoldingStep, WaitRowsStep, ObservedStep, ParkedStep, TreeStep DEF IInv

\* It has the types and the locks.
LEMMA TypeFollows ==
    ASSUME SubagentsAssumption, IInv
    PROVE  TypeOK
<1>1. Typed /\ WaitRows /\ Tree
  BY DEF IInv
<1>2. \A a \in Actions : waits[a].agents \subseteq Created /\ childOf[a] \in Created \cup {None}
  BY <1>1 DEF WaitRows, Tree
<1>3. act.no \in 0..MaxActions /\ act.kind \in {"none", "spawn", "wait"}
  BY <1>1 DEF Typed
<1>4. ASSUME NEW t \in Txs, step[t] \in {"idle", "result", "excerpt", "gone", "error"}
      PROVE  Locked(t) = {} /\ want[t] = None
  <2>1. Holding(t)
    BY DEF IInv
  <2> QED
    BY <1>4, <2>1 DEF Holding, Resting, Locked
<1> QED
  BY <1>1, <1>2, <1>3, <1>4 DEF TypeOK, Typed

\* And the one Action of each child.
LEMMA OwnersFollow ==
    ASSUME SubagentsAssumption, IInv, NEW c \in Created
    PROVE  Cardinality({a \in Actions : childOf[a] = c}) = 1
<1>1. PICK a \in Actions : childOf[a] = c /\ \A b \in Actions : childOf[b] = c => b = a
  BY DEF IInv, Tree, Owned
<1>2. {b \in Actions : childOf[b] = c} = {a}
  BY <1>1
<1> QED
  BY <1>2, FS_Singleton

\* What it says of the properties.
LEMMA Consequences ==
    ASSUME SubagentsAssumption, IInv
    PROVE  TypeOK /\ WithinCapacity /\ OneChildPerAction /\ NoOrphans /\ NoLostWakeup
  BY TypeFollows, OwnersFollow DEF OneChildPerAction, IInv, Tree, Parked

\* A root that is parked no more was claimed.
LEMMA ResumesStep ==
    ASSUME SubagentsAssumption, IInv, [Next]_vars, parked, ~parked'
    PROVE  \/ waits[act.no].deadline <= now
           \/ \E c \in act.agents : status[c] \in Terminal
<1>1. parked' # parked /\ ~FinishWait
  <2>1. ~FinishWait
    BY Yields
  <2> QED
    BY <2>1
<1>2. ClaimRoot
  BY <1>1, Writers
<1>3. status[Root] = "queued" /\ availableAt <= now
  BY <1>2 DEF ClaimRoot
<1> QED
  BY <1>3 DEF IInv, Parked

\* The inductive invariant holds in every state.
THEOREM Invariance ==
    ASSUME SubagentsAssumption
    PROVE  Spec => []IInv
<1>1. Init => IInv
  BY InitIInv
<1>2. IInv /\ [Next]_vars => IInv'
  BY NextIInv
<1> QED
  BY <1>1, <1>2, PTL DEF Spec

\* The rows have their types, and only a transaction in progress holds or
\* awaits the rows of a Run: locks do not outlive a commit, an abort or a crash.
THEOREM TypeCorrect ==
    ASSUME SubagentsAssumption
    PROVE  Spec => []TypeOK
<1>1. IInv => TypeOK
  BY Consequences
<1> QED
  BY <1>1, Invariance, PTL

\* However many spawns, replays and dispatched reads a tree sees, it never has
\* more children at work, or in all, than runtimeSubagentMaxActive and
\* runtimeSubagentMaxTotal.
THEOREM CapacityHolds ==
    ASSUME SubagentsAssumption
    PROVE  Spec => []WithinCapacity
<1>1. IInv => WithinCapacity
  BY Consequences
<1> QED
  BY <1>1, Invariance, PTL

\* An Action that is executed again finds the child it has: no child belongs to
\* two Actions, and none to no Action.
THEOREM ChildrenAreOwned ==
    ASSUME SubagentsAssumption
    PROVE  Spec => []OneChildPerAction
<1>1. IInv => OneChildPerAction
  BY Consequences
<1> QED
  BY <1>1, Invariance, PTL

\* However the root ends, by its worker, the Member or the deadline, the trigger
\* or the scan has locked every child at work first.
THEOREM NoChildIsOrphaned ==
    ASSUME SubagentsAssumption
    PROVE  Spec => []NoOrphans
<1>1. IInv => NoOrphans
  BY Consequences
<1> QED
  BY <1>1, Invariance, PTL

\* The end of a child and the root's wait for it, committed in either order,
\* leave a root that can be claimed.
THEOREM NoWakeupIsLost ==
    ASSUME SubagentsAssumption
    PROVE  Spec => []NoLostWakeup
<1>1. IInv => NoLostWakeup
  BY Consequences
<1> QED
  BY <1>1, Invariance, PTL

\* A root that yielded is claimed again at its deadline or when a child of that
\* very wait has ended.
THEOREM WaitsForItsChildren ==
    ASSUME SubagentsAssumption
    PROVE  Spec => ResumesForItsWait
<1>1. IInv /\ [Next]_vars =>
        [(parked /\ ~parked') =>
              \/ waits[act.no].deadline <= now
              \/ \E c \in act.agents : status[c] \in Terminal]_vars
  BY ResumesStep
<1> QED
  BY <1>1, Invariance, PTL DEF Spec, ResumesForItsWait
============================================================================
