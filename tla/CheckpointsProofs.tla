------------------------- MODULE CheckpointsProofs -------------------------
(***************************************************************************)
(* Theorems about Checkpoints, for every number of Attempts and decisions, *)
(* every set of batches and any Steering Messages.                         *)
(***************************************************************************)
EXTENDS Checkpoints, FiniteSetTheorems, SequenceTheorems, TLAPS

----------------------------------------------------------------------------
(* The log.                                                                *)

Kinds == {"proposal", "final", "result", "steering"}

\* Checkpoints as the Controller makes them.
Made(c) ==
    /\ c.kind = "proposal" => c.decision <= MaxDecisions /\ c.batch \in Batches
    /\ c.kind \in {"proposal", "final"} =>
          c.payload # 0 /\ c.index = 0 /\ c.msg = NoMessage
    /\ c.kind = "result" => c.msg = NoMessage
    /\ c.kind = "steering" => c.index = 0

AnyCheckpoint ==
    [kind : Kinds, decision : 1..(MaxDecisions + 1), index : Nat,
     msg : Messages \cup {NoMessage}, batch : Batches \cup {<<>>}, payload : 0..MaxAttempts]

Checkpts == {c \in AnyCheckpoint : Made(c)}

\* What every log is, the stored one and the ones an Attempt has loaded.
WellFormed(l) ==
    /\ l \in Seq(Checkpts)
    /\ Positions(l, "proposal") # {} =>
          \E p \in Positions(l, "proposal") : \A q \in Positions(l, "proposal") : q <= p
    /\ \A p \in Positions(l, "proposal") \cup Positions(l, "final") :
          l[p].decision <= AcceptedDecisions(l)
    /\ \A p, q \in Positions(l, "proposal") : l[p].decision = l[q].decision => p = q
    /\ Positions(l, "final") \subseteq {Len(l)}
    /\ Positions(l, "final") = {} => AcceptedDecisions(l) <= MaxDecisions
    /\ PendingActions(l) # {} => Positions(l, "final") = {}
    /\ \A i, j \in DOMAIN l : Identity(l[i]) = Identity(l[j]) => i = j

\* The checkpoints q may be appended to l one after another, in any order.
Fits(l, q) ==
    \A k \in DOMAIN q :
        /\ MayFollow(l, q[k])
        /\ \A j \in DOMAIN q \ {k} : /\ q[j].kind = q[k].kind
                                     /\ q[k].kind \in {"result", "steering"}
                                     /\ Identity(q[j]) # Identity(q[k])

\* No pending Action of another Attempt's proposal is unsafe to repeat.
NoneUnknown(l, a) ==
    \A i \in PendingActions(l) :
        LastProposal(l).payload = a \/ LastProposal(l).batch[i] \in ReplaySafe

----------------------------------------------------------------------------
(* The rows.                                                               *)

\* TypeOK and the types of what it leaves out.
Typed ==
    /\ TypeOK
    /\ steering \in Seq([msg : Messages, at : Nat])
    /\ \A i, j \in DOMAIN steering : steering[i].msg = steering[j].msg => i = j
    /\ queue \in [Attempts -> Seq(Checkpts)]
    /\ seen \in [Attempts -> Seq(Checkpts)]
    /\ running \in [Attempts -> SUBSET Nat]
    /\ asked \in [Attempts -> SUBSET Messages]
    /\ started \in [(1..MaxDecisions) \X (1..MaxActions) -> Nat]

\* One Attempt has the lease of a running Run, the newest; a Run has an answer
\* when it completed.
Fence ==
    /\ lease \in {0, attemptNo}
    /\ run = "running" <=> lease # 0
    /\ leaseLive => lease # 0
    /\ answer # 0 <=> run = "completed"
    /\ \A a \in Attempts : pc[a] = "none" <=> a > attemptNo

\* Positions of an Attempt that knows the log, and those in which it stores
\* what it has queued.
Knowing == {"decide", "model", "thinking", "decided", "executing", "publish",
            "reconcile_publish"}
Storing == {"append", "reconcile"}

\* An undecided commit is the lease holder's; it holds the locks, so that what
\* it writes still fits when it lands.
Flight ==
    inFlight # NoWrite =>
        /\ inFlight = lease
        /\ pc[inFlight] \notin Knowing \ {"publish", "reconcile_publish"}
        /\ pc[inFlight] \notin {"load", "completed", "none"}
        /\ IF queue[inFlight] # <<>> THEN MayFollow(log, Write(inFlight)) ELSE HasFinal(log)

\* The stored log, whose checkpoints the Attempts so far have written; only
\* Actions of its proposals were ever started.
Log ==
    /\ WellFormed(log)
    /\ \A i \in DOMAIN log : log[i].payload <= attemptNo
    /\ \A id \in DOMAIN started :
          started[id] > 0 => \E p \in Positions(log, "proposal") : log[p].decision = id[1]

Global ==
    /\ Typed
    /\ Fence
    /\ Flight
    /\ Log
    /\ AnswerIsAcceptedDraft
    /\ NoFalseCompletion
    /\ HolderNeverInvalid

----------------------------------------------------------------------------
(* An Attempt.                                                             *)

\* What an Attempt has at each position of the loop.
Shape(a) ==
    /\ pc[a] = "none" => queue[a] = <<>> /\ boundary[a] /\ ~failing[a] /\ asked[a] = {}
    /\ pc[a] \in Knowing \cup {"load"} => queue[a] = <<>> /\ ~failing[a]
    /\ pc[a] \in Storing => queue[a] # <<>> /\ ~boundary[a]
    /\ pc[a] \in {"model", "thinking", "decided"} =>
          ~boundary[a] /\ ~HasFinal(seen[a]) /\ PendingActions(seen[a]) = {}
    /\ pc[a] = "executing" =>
          ~boundary[a] /\ ~HasFinal(seen[a]) /\ running[a] \subseteq PendingActions(seen[a])
    /\ pc[a] \in {"publish", "reconcile_publish"} => HasFinal(seen[a])
    /\ pc[a] \in Storing \cup {"publish", "reconcile_publish"} => tries[a] <= 1
    /\ \A k \in DOMAIN queue[a] : queue[a][k].payload \in {0, a}

\* What it has loaded is a prefix of the log.
Known(a) ==
    /\ WellFormed(seen[a])
    /\ Len(seen[a]) <= Len(log)
    /\ \A i \in DOMAIN seen[a] : seen[a][i] = log[i] /\ seen[a][i].payload <= a

\* The lease holder knows the whole log, and what it stores fits, unless the
\* first of it is already there.
Holder(a) ==
    lease = a =>
        /\ pc[a] \in Knowing => seen[a] = log
        /\ pc[a] \in Storing =>
              \/ Fits(log, queue[a])
              \/ /\ \E i \in DOMAIN log : log[i] = Write(a)
                 /\ Fits(log, Tail(queue[a]))

\* The holder decides with the messages it saw at the last boundary.
Informed(a) ==
    lease = a =>
        /\ pc[a] \in {"model", "thinking", "decided"} => asked[a] \subseteq Delivered(log)
        /\ \A k \in DOMAIN queue[a] :
              queue[a][k].kind \in {"proposal", "final"} => asked[a] \subseteq Delivered(log)

\* Past the recovery boundary, what another Attempt may have executed is safe to
\* repeat, or is about to be closed.
Closed(a) ==
    /\ pc[a] \in Knowing /\ ~Recovering(a) => NoneUnknown(seen[a], a)
    /\ lease = a /\ pc[a] = "load" /\ ~Recovering(a) => NoneUnknown(log, a)
    /\ lease = a /\ pc[a] \in Storing =>
          \A i \in PendingActions(log) :
              \/ LastProposal(log).payload = a
              \/ LastProposal(log).batch[i] \in ReplaySafe
              \/ \E k \in DOMAIN queue[a] : /\ queue[a][k].kind = "result"
                                            /\ queue[a][k].decision = LastProposal(log).decision
                                            /\ queue[a][k].index = i

\* An Attempt that started Action i of decision d does not come back to it.
Past(a, d, i) ==
    /\ pc[a] = "load" => HasResult(log, d, i)
    /\ pc[a] \in Knowing =>
          \/ HasResult(seen[a], d, i)
          \/ pc[a] = "executing" /\ i \in running[a] /\ LastProposal(seen[a]).decision = d
    /\ pc[a] \in Storing =>
          \/ failing[a]
          \/ HasResult(log, d, i)
          \/ \E k \in DOMAIN queue[a] : /\ queue[a][k].kind = "result"
                                        /\ queue[a][k].decision = d
                                        /\ queue[a][k].index = i

\* Attempt a proposed Action i of decision d, which may not run twice.
Unsafe(l, a, d, i) ==
    \E p \in Positions(l, "proposal") :
        /\ l[p].payload = a /\ l[p].decision = d
        /\ i \in DOMAIN l[p].batch /\ l[p].batch[i] \notin ReplaySafe

\* Only the Attempt that proposed an unsafe Action starts it, once.
Mine(a) ==
    \A d \in 1..MaxDecisions, i \in 1..MaxActions :
        Unsafe(log, a, d, i) =>
            /\ started[<<d, i>>] <= 1
            /\ started[<<d, i>>] = 1 => Past(a, d, i)

Local(a) ==
    /\ Shape(a)
    /\ Known(a)
    /\ Holder(a)
    /\ Informed(a)
    /\ Closed(a)
    /\ Mine(a)

\* The inductive invariant.
IInv == Global /\ \A a \in Attempts : Local(a)

----------------------------------------------------------------------------
(* Lemmas about the operators on logs.                                     *)

\* Appending adds one position.
LEMMA AppendFacts ==
    ASSUME NEW S, NEW l \in Seq(S), NEW c \in S
    PROVE  /\ Append(l, c) \in Seq(S)
           /\ Len(l) \in Nat
           /\ Len(Append(l, c)) = Len(l) + 1
           /\ DOMAIN l = 1..Len(l)
           /\ DOMAIN Append(l, c) = 1..(Len(l) + 1)
           /\ \A i \in 1..Len(l) : Append(l, c)[i] = l[i]
           /\ Append(l, c)[Len(l) + 1] = c
  OBVIOUS

\* The positions of a kind, before and after an append.
LEMMA PositionsAppend ==
    ASSUME NEW l \in Seq(Checkpts), NEW c \in Checkpts, NEW kind
    PROVE  /\ c.kind = kind => Positions(Append(l, c), kind) = Positions(l, kind) \cup {Len(l) + 1}
           /\ c.kind # kind => Positions(Append(l, c), kind) = Positions(l, kind)
  BY AppendFacts DEF Positions

\* A decision is accepted with each proposal and with the Final Draft.
LEMMA AcceptedAppend ==
    ASSUME NEW l \in Seq(Checkpts), NEW c \in Checkpts
    PROVE  /\ AcceptedDecisions(l) \in Nat
           /\ AcceptedDecisions(Append(l, c)) =
                 IF c.kind \in {"proposal", "final"} THEN AcceptedDecisions(l) + 1
                 ELSE AcceptedDecisions(l)
<1> DEFINE D(s) == Positions(s, "proposal") \cup Positions(s, "final")
<1>1. D(l) \in SUBSET (1..Len(l)) /\ Len(l) \in Nat
  BY AppendFacts DEF Positions
<1>2. IsFiniteSet(D(l)) /\ Cardinality(D(l)) \in Nat
  <2>1. IsFiniteSet(1..Len(l))
    BY <1>1, FS_Interval
  <2> QED
    BY <1>1, <2>1, FS_Subset, FS_CardinalityType
<1>3. CASE c.kind \in {"proposal", "final"}
  <2>1. D(Append(l, c)) = D(l) \cup {Len(l) + 1}
    BY <1>3, PositionsAppend
  <2>2. Len(l) + 1 \notin D(l)
    BY <1>1
  <2> QED
    BY <1>2, <1>3, <2>1, <2>2, FS_AddElement DEF AcceptedDecisions
<1>4. CASE c.kind \notin {"proposal", "final"}
  <2>1. D(Append(l, c)) = D(l)
    BY <1>4, PositionsAppend
  <2> QED
    BY <1>2, <1>4, <2>1 DEF AcceptedDecisions
<1> QED
  BY <1>3, <1>4

\* The decisions of a log are counted.
LEMMA AcceptedIsNat ==
    ASSUME NEW l, WellFormed(l)
    PROVE  AcceptedDecisions(l) \in Nat
<1> DEFINE D == Positions(l, "proposal") \cup Positions(l, "final")
<1>1. D \in SUBSET (1..Len(l)) /\ Len(l) \in Nat
  BY AppendFacts DEF Positions, WellFormed
<1>2. IsFiniteSet(1..Len(l))
  BY <1>1, FS_Interval
<1> QED
  BY <1>1, <1>2, FS_Subset, FS_CardinalityType DEF AcceptedDecisions

\* The last proposal is the one no other follows.
LEMMA LastProposalAt ==
    ASSUME NEW l \in Seq(Checkpts), NEW p \in Positions(l, "proposal"),
           \A q \in Positions(l, "proposal") : q <= p
    PROVE  LastProposal(l) = l[p]
<1>1. Positions(l, "proposal") \subseteq Int
  BY AppendFacts DEF Positions
<1>2. \A q \in Positions(l, "proposal") :
         (\A j \in Positions(l, "proposal") : j <= q) => q = p
  BY <1>1
<1> QED
  BY <1>2 DEF LastProposal

\* A well-formed log with a proposal has a last one.
LEMMA LastProposalIs ==
    ASSUME NEW l, WellFormed(l), Positions(l, "proposal") # {}
    PROVE  \E p \in Positions(l, "proposal") :
              LastProposal(l) = l[p] /\ \A q \in Positions(l, "proposal") : q <= p
  BY LastProposalAt DEF WellFormed

\* Results are kept, and the one appended is added.
LEMMA HasResultAppend ==
    ASSUME NEW l \in Seq(Checkpts), NEW c \in Checkpts, NEW d, NEW i
    PROVE  HasResult(Append(l, c), d, i) <=>
              HasResult(l, d, i) \/ (c.kind = "result" /\ c.decision = d /\ c.index = i)
<1>1. /\ \A p \in Positions(l, "result") : p \in 1..Len(l) /\ Append(l, c)[p] = l[p]
      /\ Append(l, c)[Len(l) + 1] = c
  BY AppendFacts DEF Positions
<1>2. CASE c.kind = "result"
  <2>1. Positions(Append(l, c), "result") = Positions(l, "result") \cup {Len(l) + 1}
    BY <1>2, PositionsAppend
  <2> QED
    BY <1>1, <1>2, <2>1 DEF HasResult
<1>3. CASE c.kind # "result"
  <2>1. Positions(Append(l, c), "result") = Positions(l, "result")
    BY <1>3, PositionsAppend
  <2> QED
    BY <1>1, <1>3, <2>1 DEF HasResult
<1> QED
  BY <1>2, <1>3

\* So are the delivered messages.
LEMMA DeliveredAppend ==
    ASSUME NEW l \in Seq(Checkpts), NEW c \in Checkpts
    PROVE  /\ c.kind = "steering" => Delivered(Append(l, c)) = Delivered(l) \cup {c.msg}
           /\ c.kind # "steering" => Delivered(Append(l, c)) = Delivered(l)
<1>1. /\ \A p \in Positions(l, "steering") : p \in 1..Len(l) /\ Append(l, c)[p] = l[p]
      /\ Append(l, c)[Len(l) + 1] = c
  BY AppendFacts DEF Positions
<1>2. CASE c.kind = "steering"
  <2>1. Positions(Append(l, c), "steering") = Positions(l, "steering") \cup {Len(l) + 1}
    BY <1>2, PositionsAppend
  <2> QED
    BY <1>1, <1>2, <2>1 DEF Delivered
<1>3. CASE c.kind # "steering"
  <2>1. Positions(Append(l, c), "steering") = Positions(l, "steering")
    BY <1>3, PositionsAppend
  <2> QED
    BY <1>1, <1>3, <2>1 DEF Delivered
<1> QED
  BY <1>2, <1>3

\* An appended proposal is the last one, another checkpoint leaves it.
LEMMA LastProposalAppend ==
    ASSUME NEW l, WellFormed(l), NEW c \in Checkpts
    PROVE  /\ c.kind = "proposal" => LastProposal(Append(l, c)) = c
           /\ c.kind # "proposal" /\ Positions(l, "proposal") # {} =>
                 LastProposal(Append(l, c)) = LastProposal(l)
<1>0. /\ l \in Seq(Checkpts) /\ Append(l, c) \in Seq(Checkpts) /\ Len(l) \in Nat
      /\ Append(l, c)[Len(l) + 1] = c
      /\ \A p \in Positions(l, "proposal") : p \in 1..Len(l) /\ Append(l, c)[p] = l[p]
  BY AppendFacts DEF WellFormed, Positions
<1>1. ASSUME c.kind = "proposal" PROVE LastProposal(Append(l, c)) = c
  <2>1. Positions(Append(l, c), "proposal") = Positions(l, "proposal") \cup {Len(l) + 1}
    BY <1>0, <1>1, PositionsAppend
  <2>2. \A q \in Positions(Append(l, c), "proposal") : q <= Len(l) + 1
    BY <1>0, <2>1
  <2> QED
    BY <1>0, <2>1, <2>2, LastProposalAt
<1>2. ASSUME c.kind # "proposal", Positions(l, "proposal") # {}
      PROVE  LastProposal(Append(l, c)) = LastProposal(l)
  <2>1. Positions(Append(l, c), "proposal") = Positions(l, "proposal")
    BY <1>0, <1>2, PositionsAppend
  <2>2. PICK p \in Positions(l, "proposal") :
           LastProposal(l) = l[p] /\ \A q \in Positions(l, "proposal") : q <= p
    BY <1>2, LastProposalIs
  <2>3. LastProposal(Append(l, c)) = Append(l, c)[p]
    BY <1>0, <2>1, <2>2, LastProposalAt
  <2> QED
    BY <1>0, <2>2, <2>3
<1> QED
  BY <1>1, <1>2

\* What is pending after an append that is no proposal.
LEMMA PendingAppend ==
    ASSUME NEW l, WellFormed(l), NEW c \in Checkpts, c.kind # "proposal"
    PROVE  /\ PendingActions(Append(l, c)) \subseteq PendingActions(l)
           /\ c.kind # "result" => PendingActions(Append(l, c)) = PendingActions(l)
           /\ \A i \in PendingActions(l) :
                 i \in PendingActions(Append(l, c)) \/ (c.kind = "result" /\ i = c.index)
<1>0. l \in Seq(Checkpts)
  BY DEF WellFormed
<1>1. Positions(Append(l, c), "proposal") = Positions(l, "proposal")
  BY <1>0, PositionsAppend
<1>2. CASE Positions(l, "proposal") = {}
  BY <1>1, <1>2 DEF PendingActions
<1>3. CASE Positions(l, "proposal") # {}
  <2>1. LastProposal(Append(l, c)) = LastProposal(l)
    BY <1>3, LastProposalAppend
  <2> DEFINE p == LastProposal(l)
  <2>2. /\ PendingActions(l) = {i \in DOMAIN p.batch : ~HasResult(l, p.decision, i)}
        /\ PendingActions(Append(l, c)) =
              {i \in DOMAIN p.batch : ~HasResult(Append(l, c), p.decision, i)}
    BY <1>1, <1>3, <2>1 DEF PendingActions
  <2>3. \A i : HasResult(Append(l, c), p.decision, i) <=>
             \/ HasResult(l, p.decision, i)
             \/ c.kind = "result" /\ c.decision = p.decision /\ c.index = i
    BY <1>0, HasResultAppend
  <2> QED
    BY <2>2, <2>3
<1> QED
  BY <1>2, <1>3

\* A checkpoint that may follow has an identity of its own.
LEMMA FreshIdentity ==
    ASSUME NEW l, WellFormed(l), NEW c \in Checkpts, MayFollow(l, c), NEW i \in DOMAIN l
    PROVE  Identity(l[i]) # Identity(c)
<1> SUFFICES ASSUME Identity(l[i]) = Identity(c) PROVE FALSE
  OBVIOUS
<1>0. /\ l \in Seq(Checkpts) /\ l[i] \in Checkpts
      /\ l[i].kind = c.kind /\ l[i].decision = c.decision /\ l[i].index = c.index
      /\ l[i].msg = c.msg
  BY AppendFacts DEF WellFormed, Identity
<1>1. c.kind \in Kinds /\ c.decision \in Nat
  BY CheckpointsAssumption DEF Checkpts, AnyCheckpoint
<1>2. CASE c.kind = "result"
  BY <1>0, <1>2 DEF MayFollow, PendingActions, HasResult, Positions
<1>3. CASE c.kind = "steering"
  BY <1>0, <1>3 DEF MayFollow, Delivered, Positions
<1>4. CASE c.kind \in {"proposal", "final"}
  <2>1. c.decision = AcceptedDecisions(l) + 1 /\ AcceptedDecisions(l) \in Nat
    BY <1>0, <1>4, AcceptedAppend DEF MayFollow
  <2>2. l[i].decision <= AcceptedDecisions(l)
    BY <1>0, <1>4 DEF WellFormed, Positions
  <2> QED
    BY <1>0, <1>1, <2>1, <2>2
<1> QED
  BY <1>1, <1>2, <1>3, <1>4 DEF Kinds

\* A well-formed log stays one when a checkpoint that may follow is appended.
LEMMA WellFormedAppend ==
    ASSUME NEW l, WellFormed(l), NEW c \in Checkpts, MayFollow(l, c)
    PROVE  WellFormed(Append(l, c))
<1> DEFINE m == Append(l, c)
           n == Len(l) + 1
<1>0. /\ l \in Seq(Checkpts) /\ m \in Seq(Checkpts) /\ Len(l) \in Nat /\ Len(m) = n
      /\ DOMAIN l = 1..Len(l) /\ DOMAIN m = 1..n /\ m[n] = c
      /\ \A i \in 1..Len(l) : m[i] = l[i]
  BY AppendFacts DEF WellFormed
<1>1. \A kind : Positions(l, kind) \subseteq 1..Len(l)
  BY <1>0 DEF Positions
<1>2. /\ c.kind \in Kinds /\ c.decision \in Nat
      /\ c.kind = "proposal" => c.decision <= MaxDecisions
  BY CheckpointsAssumption DEF Checkpts, AnyCheckpoint, Made
<1>3. /\ AcceptedDecisions(l) \in Nat
      /\ AcceptedDecisions(m) = IF c.kind \in {"proposal", "final"}
                                THEN AcceptedDecisions(l) + 1 ELSE AcceptedDecisions(l)
  BY <1>0, AcceptedAppend
<1>4. /\ Positions(l, "final") = {}
      /\ c.kind \in {"proposal", "final"} => c.decision = AcceptedDecisions(l) + 1
  BY <1>2 DEF MayFollow, Kinds
<1>5. /\ c.kind = "proposal" => Positions(m, "proposal") = Positions(l, "proposal") \cup {n}
      /\ c.kind # "proposal" => Positions(m, "proposal") = Positions(l, "proposal")
      /\ c.kind = "final" => Positions(m, "final") = {n}
      /\ c.kind # "final" => Positions(m, "final") = {}
  <2>1. \A kind : /\ c.kind = kind => Positions(m, kind) = Positions(l, kind) \cup {n}
                  /\ c.kind # kind => Positions(m, kind) = Positions(l, kind)
    BY <1>0, PositionsAppend
  <2> QED
    BY <1>4, <2>1
<1>6. ASSUME Positions(m, "proposal") # {}
      PROVE  \E p \in Positions(m, "proposal") : \A q \in Positions(m, "proposal") : q <= p
  <2>1. CASE c.kind = "proposal"
    <3>1. \A q \in Positions(m, "proposal") : q <= n
      BY <1>0, <1>1, <1>5, <2>1
    <3> QED
      BY <1>5, <2>1, <3>1
  <2>2. CASE c.kind # "proposal"
    BY <1>5, <1>6, <2>2 DEF WellFormed
  <2> QED
    BY <2>1, <2>2
<1>7. ASSUME NEW p \in Positions(m, "proposal") \cup Positions(m, "final")
      PROVE  m[p].decision <= AcceptedDecisions(m)
  <2>1. CASE p = n
    <3>1. c.kind \in {"proposal", "final"}
      BY <1>0, <1>7, <2>1 DEF Positions
    <3> QED
      BY <1>0, <1>2, <1>3, <1>4, <2>1, <3>1
  <2>2. CASE p # n
    <3>1. p \in Positions(l, "proposal") /\ m[p] = l[p]
      BY <1>0, <1>1, <1>5, <1>7, <2>2
    <3>2. l[p].decision <= AcceptedDecisions(l) /\ l[p].decision \in Nat
      <4>1. l[p] \in Checkpts
        BY <1>0, <1>1, <3>1
      <4> QED
        BY <3>1, <4>1, CheckpointsAssumption DEF WellFormed, Checkpts, AnyCheckpoint
    <3> QED
      BY <1>3, <3>1, <3>2
  <2> QED
    BY <2>1, <2>2
<1>8. ASSUME NEW p \in Positions(m, "proposal"), NEW q \in Positions(m, "proposal"),
             m[p].decision = m[q].decision
      PROVE  p = q
  <2>1. ASSUME NEW r \in Positions(l, "proposal")
        PROVE  m[r] = l[r] /\ (c.kind = "proposal" => l[r].decision # c.decision)
    <3>1. l[r].decision <= AcceptedDecisions(l)
      BY DEF WellFormed
    <3> QED
      BY <1>0, <1>1, <1>3, <1>4, <3>1
  <2>2. \A r \in Positions(m, "proposal") :
           r \in Positions(l, "proposal") \/ (r = n /\ c.kind = "proposal")
    BY <1>5
  <2>3. p \in Positions(l, "proposal") /\ q \in Positions(l, "proposal") => p = q
    BY <1>8, <2>1 DEF WellFormed
  <2> QED
    BY <1>0, <1>8, <2>1, <2>2, <2>3
<1>9. ASSUME NEW i \in DOMAIN m, NEW j \in DOMAIN m, Identity(m[i]) = Identity(m[j])
      PROVE  i = j
  BY <1>0, <1>9, FreshIdentity DEF WellFormed
<1>10. Positions(m, "final") \subseteq {Len(m)}
  BY <1>0, <1>5
<1>11. Positions(m, "final") = {} => AcceptedDecisions(m) <= MaxDecisions
  BY <1>2, <1>3, <1>4, <1>5, CheckpointsAssumption DEF WellFormed
<1>12. PendingActions(m) # {} => Positions(m, "final") = {}
  <2>1. CASE c.kind = "final"
    <3>1. PendingActions(l) = {}
      BY <2>1 DEF MayFollow
    <3> QED
      BY <2>1, <3>1, PendingAppend
  <2>2. CASE c.kind # "final"
    BY <1>5, <2>2
  <2> QED
    BY <2>1, <2>2
<1> QED
  BY <1>0, <1>6, <1>7, <1>8, <1>9, <1>10, <1>11, <1>12 DEF WellFormed

\* The unsafe Actions that are added are those of an appended proposal.
LEMMA UnsafeAppend ==
    ASSUME NEW l \in Seq(Checkpts), NEW c \in Checkpts, NEW a, NEW d, NEW i
    PROVE  Unsafe(Append(l, c), a, d, i) =>
              \/ Unsafe(l, a, d, i)
              \/ c.kind = "proposal" /\ c.payload = a /\ c.decision = d
<1>1. \A p \in DOMAIN Append(l, c) :
         (p \in DOMAIN l /\ Append(l, c)[p] = l[p]) \/ Append(l, c)[p] = c
  BY AppendFacts
<1> QED
  BY <1>1 DEF Unsafe, Positions

\* The empty log is well-formed.
LEMMA WellFormedEmpty == WellFormed(<<>>) /\ PendingActions(<<>>) = {}
<1>1. \A kind : Positions(<<>>, kind) = {}
  BY DEF Positions
<1>2. AcceptedDecisions(<<>>) = 0
  BY <1>1, FS_EmptySet DEF AcceptedDecisions
<1> QED
  BY <1>1, <1>2, CheckpointsAssumption DEF WellFormed, PendingActions

\* What fits a log still fits after the first of it was appended.
LEMMA FitsTail ==
    ASSUME NEW l, WellFormed(l), NEW q \in Seq(Checkpts), q # <<>>, Fits(l, q)
    PROVE  MayFollow(l, Head(q)) /\ Fits(Append(l, Head(q)), Tail(q))
<1> DEFINE c == Head(q)
           t == Tail(q)
           m == Append(l, c)
<1>0. /\ l \in Seq(Checkpts) /\ c \in Checkpts /\ c = q[1] /\ t \in Seq(Checkpts)
      /\ DOMAIN q = 1..Len(q) /\ Len(q) \in Nat /\ 1 \in DOMAIN q
      /\ DOMAIN t = 1..(Len(q) - 1)
      /\ \A k \in DOMAIN t : t[k] = q[k + 1]
  BY HeadTailProperties, EmptySeq DEF WellFormed
<1>1. MayFollow(l, c)
  BY <1>0 DEF Fits
<1>2. ASSUME NEW k \in DOMAIN t
      PROVE  /\ MayFollow(m, t[k])
             /\ \A j \in DOMAIN t \ {k} : /\ t[j].kind = t[k].kind
                                          /\ t[k].kind \in {"result", "steering"}
                                          /\ Identity(t[j]) # Identity(t[k])
  <2>1. /\ k + 1 \in DOMAIN q /\ k + 1 # 1 /\ t[k] = q[k + 1]
        /\ \A j \in DOMAIN t \ {k} : j + 1 \in DOMAIN q \ {k + 1} /\ t[j] = q[j + 1]
    BY <1>0, <1>2
  <2>2. /\ MayFollow(l, t[k]) /\ t[k] \in Checkpts
        /\ c.kind = t[k].kind /\ t[k].kind \in {"result", "steering"}
        /\ Identity(c) # Identity(t[k])
    BY <1>0, <2>1 DEF Fits
  <2>3. /\ Positions(m, "proposal") = Positions(l, "proposal")
        /\ Positions(m, "final") = Positions(l, "final")
        /\ AcceptedDecisions(m) = AcceptedDecisions(l)
    BY <1>0, <2>2, PositionsAppend, AcceptedAppend
  <2>4. MayFollow(m, t[k])
    <3>1. CASE t[k].kind = "result"
      <4>1. /\ Positions(l, "proposal") # {} /\ Positions(l, "final") = {}
            /\ t[k].decision = LastProposal(l).decision /\ t[k].index \in PendingActions(l)
            /\ c.decision = LastProposal(l).decision
        BY <1>1, <2>2, <3>1 DEF MayFollow
      <4>2. c.index # t[k].index
        BY <1>0, <2>2, <3>1, <4>1 DEF Identity, Checkpts, Made
      <4>3. LastProposal(m) = LastProposal(l)
        BY <1>0, <2>2, <3>1, <4>1, LastProposalAppend
      <4>4. t[k].index \in PendingActions(m)
        BY <1>0, <2>2, <3>1, <4>1, <4>2, PendingAppend
      <4> QED
        BY <2>3, <3>1, <4>1, <4>3, <4>4 DEF MayFollow
    <3>2. CASE t[k].kind = "steering"
      <4>1. /\ Positions(l, "final") = {} /\ PendingActions(l) = {}
            /\ t[k].decision = AcceptedDecisions(l) + 1 /\ t[k].msg \notin Delivered(l)
            /\ c.decision = AcceptedDecisions(l) + 1
        BY <1>1, <2>2, <3>2 DEF MayFollow
      <4>2. c.msg # t[k].msg
        BY <1>0, <2>2, <3>2, <4>1 DEF Identity, Checkpts, Made
      <4>3. Delivered(m) = Delivered(l) \cup {c.msg}
        BY <1>0, <2>2, <3>2, DeliveredAppend
      <4>4. PendingActions(m) = {}
        BY <1>0, <2>2, <3>2, <4>1, PendingAppend
      <4> QED
        BY <2>3, <3>2, <4>1, <4>2, <4>3, <4>4 DEF MayFollow
    <3> QED
      BY <2>2, <3>1, <3>2
  <2>5. \A j \in DOMAIN t \ {k} : /\ t[j].kind = t[k].kind
                                  /\ t[k].kind \in {"result", "steering"}
                                  /\ Identity(t[j]) # Identity(t[k])
    BY <2>1 DEF Fits
  <2> QED
    BY <2>4, <2>5
<1> QED
  BY <1>1, <1>2 DEF Fits

\* Pending Actions are Actions of a proposal.
LEMMA PendingFacts ==
    ASSUME NEW l, WellFormed(l), PendingActions(l) # {}
    PROVE  /\ Positions(l, "proposal") # {}
           /\ LastProposal(l) \in Checkpts
           /\ LastProposal(l).decision \in 1..MaxDecisions
           /\ PendingActions(l) \subseteq 1..MaxActions
           /\ IsFiniteSet(PendingActions(l))
<1>1. Positions(l, "proposal") # {}
  BY DEF PendingActions
<1>2. PICK p \in Positions(l, "proposal") : LastProposal(l) = l[p]
  BY <1>1, LastProposalIs
<1>3. l[p] \in Checkpts /\ l[p].kind = "proposal"
  BY AppendFacts DEF WellFormed, Positions
<1>4. l[p].batch \in Batches /\ l[p].decision \in 1..MaxDecisions
  BY <1>3, CheckpointsAssumption DEF Checkpts, AnyCheckpoint, Made
<1>5. PICK n \in 1..MaxActions : DOMAIN l[p].batch = 1..n
  BY <1>4, CheckpointsAssumption
<1>6. PendingActions(l) \subseteq 1..n
  BY <1>1, <1>2, <1>5 DEF PendingActions
<1>7. IsFiniteSet(1..n) /\ 1..n \subseteq 1..MaxActions
  BY <1>5, CheckpointsAssumption, FS_Interval
<1> QED
  BY <1>1, <1>2, <1>3, <1>4, <1>6, <1>7, FS_Subset

\* A function on an interval is a sequence.
LEMMA FunctionIsSeq ==
    ASSUME NEW S, NEW n \in Nat, NEW f \in [1..n -> S]
    PROVE  /\ f \in Seq(S) /\ Len(f) = n /\ DOMAIN f = 1..n
           /\ f = <<>> <=> n = 0
  OBVIOUS

\* A finite set of numbers has a least one.
LEMMA LeastOfFinite ==
    ASSUME NEW S \in SUBSET Int, IsFiniteSet(S), S # {}
    PROVE  \E i \in S : \A j \in S : i <= j
<1> DEFINE Below(i) == {j \in S : j < i}
           T == {Below(i) : i \in S}
<1>1. IsWellFoundedOn(StrictSubsetOrdering(S), FiniteSubsetsOf(S))
  BY FS_StrictSubsetOrderingWellFounded
<1>2. T \subseteq FiniteSubsetsOf(S) /\ T # {}
  <2>1. \A i \in S : Below(i) \subseteq S /\ IsFiniteSet(Below(i))
    BY FS_Subset
  <2>2. T # {}
    OBVIOUS
  <2> HIDE DEF Below
  <2> QED
    BY <2>1, <2>2 DEF FiniteSubsetsOf
<1>3. PICK x \in T : \A y \in T : ~(<<y, x>> \in StrictSubsetOrdering(S))
  <2> HIDE DEF T
  <2> QED
    BY <1>1, <1>2, WFMin
<1>4. PICK i \in S : x = Below(i)
  BY <1>3
<1>5. ASSUME NEW j \in S, j < i PROVE FALSE
  <2>1. Below(j) \subseteq Below(i) /\ Below(j) # Below(i)
    <3>1. j \in Below(i) /\ j \notin Below(j)
      BY <1>5
    <3>2. \A k \in Below(j) : k \in Below(i)
      BY <1>5
    <3> QED
      BY <3>1, <3>2
  <2>2. <<Below(j), Below(i)>> \in StrictSubsetOrdering(S)
    BY <2>1 DEF StrictSubsetOrdering
  <2> QED
    BY <1>3, <1>4, <2>2
<1> QED
  BY <1>5

\* An enumeration in order has every element once.
LEMMA InOrderFacts ==
    ASSUME NEW S \in SUBSET Int, IsFiniteSet(S), NEW s \in InOrder(S)
    PROVE  /\ Cardinality(S) \in Nat
           /\ DOMAIN s = 1..Cardinality(S)
           /\ \A k \in DOMAIN s : s[k] \in S
           /\ \A j, k \in DOMAIN s : s[j] = s[k] => j = k
           /\ \A x \in S : \E k \in DOMAIN s : s[k] = x
<1>1. /\ Cardinality(S) \in Nat
      /\ s \in [1..Cardinality(S) -> S]
      /\ \A j, k \in DOMAIN s : j < k => s[j] < s[k]
  BY FS_CardinalityType DEF InOrder
<1>2. ASSUME NEW j \in DOMAIN s, NEW k \in DOMAIN s, s[j] = s[k]
      PROVE  j = k
  <2>1. j \in 1..Cardinality(S) /\ k \in 1..Cardinality(S) /\ s[j] \in S /\ s[k] \in S
    BY <1>1
  <2>2. s[j] \in Int /\ s[k] \in Int /\ s[j] = s[k]
    BY <1>2, <2>1
  <2>3. ~(j < k) /\ ~(k < j)
    BY <1>1, <2>1, <2>2
  <2> QED
    BY <1>1, <2>1, <2>3
<1>3. s \in Injection(1..Cardinality(S), S)
  BY <1>1, <1>2 DEF Injection, IsInjective
<1>4. Cardinality(1..Cardinality(S)) = Cardinality(S)
  BY <1>1, FS_Interval
<1>5. s \in Surjection(1..Cardinality(S), S)
  BY <1>3, <1>4, FS_Injection
<1> QED
  BY <1>1, <1>2, <1>5 DEF Surjection

----------------------------------------------------------------------------
(* Steps.                                                                  *)

\* Nothing of Attempt b changes.
Same(b) ==
    /\ pc'[b] = pc[b] /\ seen'[b] = seen[b] /\ queue'[b] = queue[b] /\ tries'[b] = tries[b]
    /\ failing'[b] = failing[b] /\ boundary'[b] = boundary[b]
    /\ running'[b] = running[b] /\ asked'[b] = asked[b]

\* The executions of the unsafe Actions that b proposed are not touched.
SameStarted(b) ==
    \A d \in 1..MaxDecisions, i \in 1..MaxActions :
        Unsafe(log, b, d, i) => started'[<<d, i>>] = started[<<d, i>>]

\* The log is extended by a checkpoint that may follow.
Extended(c) == c \in Checkpts /\ MayFollow(log, c) /\ log' = Append(log, c)

\* An Attempt that does not step keeps its invariant, when the lease is not given
\* to it and what is appended is not its proposal.
LEMMA SameLocal ==
    ASSUME IInv, NEW b \in Attempts, Same(b), SameStarted(b),
           lease' = b => lease = b /\ log' = log,
           log' = log \/ \E c : Extended(c) /\ (c.kind = "proposal" => c.payload # b)
    PROVE  Local(b)'
<1> USE DEF Same
<1>0. WellFormed(log) /\ log \in Seq(Checkpts) /\ Local(b)
  BY DEF IInv, Global, Log, WellFormed
<1>1. Shape(b)'
  BY <1>0 DEF Local, Shape
<1>2. /\ Len(log) <= Len(log')
      /\ \A i \in DOMAIN log : i \in DOMAIN log' /\ log'[i] = log[i]
  BY <1>0, AppendFacts, SMTT(30) DEF Extended
<1>3. Known(b)'
  <2>1. /\ WellFormed(seen[b]) /\ Len(seen[b]) <= Len(log)
        /\ \A i \in DOMAIN seen[b] : seen[b][i] = log[i] /\ seen[b][i].payload <= b
    BY <1>0 DEF Local, Known
  <2>2. DOMAIN seen[b] \subseteq DOMAIN log /\ Len(seen[b]) \in Nat /\ Len(log) \in Nat /\ Len(log') \in Nat
    BY <1>0, <2>1, AppendFacts DEF WellFormed, Extended
  <2>3. WellFormed(seen[b])'
    BY <2>1
  <2> QED
    BY <1>2, <2>1, <2>2, <2>3 DEF Known
<1>4. Holder(b)'
  <2> SUFFICES ASSUME lease' = b PROVE Holder(b)'
    BY DEF Holder
  <2>1. lease = b /\ log' = log
    OBVIOUS
  <2> QED
    BY <1>0, <2>1 DEF Local, Holder, Write
<1>5. Informed(b)'
  BY <1>0 DEF Local, Informed
<1>6. Closed(b)'
  BY <1>0 DEF Local, Closed, Recovering
<1>7. ASSUME NEW d, NEW i, Past(b, d, i) PROVE Past(b, d, i)'
  <2>1. HasResult(log, d, i) => HasResult(log', d, i)
    <3>1. CASE log' = log
      BY <3>1
    <3>2. ASSUME NEW c, Extended(c) PROVE HasResult(log, d, i) => HasResult(log', d, i)
      <4>1. c \in Checkpts /\ log' = Append(log, c)
        BY <3>2 DEF Extended
      <4> QED
        BY <1>0, <4>1, HasResultAppend
    <3> QED
      BY <3>1, <3>2
  <2> QED
    BY <1>7, <2>1 DEF Past
<1>8. Mine(b)'
  <2> SUFFICES ASSUME NEW d \in 1..MaxDecisions, NEW i \in 1..MaxActions,
                      Unsafe(log', b, d, i)
               PROVE  /\ started'[<<d, i>>] <= 1
                      /\ started'[<<d, i>>] = 1 => Past(b, d, i)'
    BY DEF Mine
  <2>1. Unsafe(log, b, d, i)
    BY <1>0, <1>2, UnsafeAppend DEF Extended
  <2>2. started'[<<d, i>>] = started[<<d, i>>]
    BY <2>1 DEF SameStarted
  <2>3. started[<<d, i>>] <= 1 /\ (started[<<d, i>>] = 1 => Past(b, d, i))
    BY <1>0, <2>1 DEF Local, Mine
  <2> QED
    BY <1>7, <2>2, <2>3
<1> QED
  BY <1>1, <1>3, <1>4, <1>5, <1>6, <1>8 DEF Local

\* Checkpoints made for the positions S, in their order.
LEMMA OrderedQueue ==
    ASSUME NEW S \in SUBSET Int, IsFiniteSet(S), NEW s \in InOrder(S), NEW q,
           q = [k \in DOMAIN s |-> q[k]], \A k \in DOMAIN s : q[k] \in Checkpts
    PROVE  /\ q \in Seq(Checkpts) /\ DOMAIN q = DOMAIN s
           /\ q = <<>> <=> S = {}
<1>1. Cardinality(S) \in Nat /\ DOMAIN s = 1..Cardinality(S)
  BY InOrderFacts
<1>2. q \in [1..Cardinality(S) -> Checkpts]
  BY <1>1
<1>3. S = {} <=> Cardinality(S) = 0
  BY FS_EmptySet
<1> QED
  BY <1>1, <1>2, <1>3, FunctionIsSeq

\* What closeUnknownRecoveredActions appends.
LEMMA CloseUnknownQueue ==
    ASSUME IInv, NEW a \in Attempts, CloseUnknown(a)
    PROVE  \E s \in InOrder(UnknownActions(a)), q \in Seq(Checkpts) :
              /\ queue' = [queue EXCEPT ![a] = q]
              /\ Goto(a, IF q = <<>> THEN "decide" ELSE "append")
              /\ q = <<>> <=> UnknownActions(a) = {}
              /\ DOMAIN q = DOMAIN s
              /\ \A k \in DOMAIN q : q[k] = Interrupted(LastProposal(seen[a]).decision, s[k])
              /\ UnknownActions(a) \in SUBSET Int /\ IsFiniteSet(UnknownActions(a))
<1> DEFINE d == LastProposal(seen[a]).decision
<1>0. WellFormed(seen[a]) /\ PendingActions(seen[a]) # {}
  BY DEF IInv, Local, Known, CloseUnknown
<1>1. /\ d \in 1..MaxDecisions /\ UnknownActions(a) \subseteq 1..MaxActions
      /\ IsFiniteSet(UnknownActions(a))
  BY <1>0, PendingFacts, FS_Subset DEF UnknownActions
<1>2. PICK s \in InOrder(UnknownActions(a)) :
         Enqueue(a, [k \in DOMAIN s |-> Interrupted(d, s[k])], "decide")
  BY DEF CloseUnknown
<1> DEFINE q == [k \in DOMAIN s |-> Interrupted(d, s[k])]
<1>3. \A k \in DOMAIN s : s[k] \in 1..MaxActions
  BY <1>1, InOrderFacts, CheckpointsAssumption
<1>4. \A k \in DOMAIN s : q[k] \in Checkpts
  BY <1>1, <1>3, CheckpointsAssumption
     DEF Checkpts, AnyCheckpoint, Made, Interrupted, Checkpoint, Kinds
<1>5. UnknownActions(a) \in SUBSET Int
  BY <1>1, CheckpointsAssumption
<1>6. q \in Seq(Checkpts) /\ DOMAIN q = DOMAIN s /\ (q = <<>> <=> UnknownActions(a) = {})
  <2> HIDE DEF q
  <2>1. q = [k \in DOMAIN s |-> q[k]]
    BY DEF q
  <2> QED
    BY <1>1, <1>4, <1>5, <2>1, OrderedQueue
<1>7. queue' = [queue EXCEPT ![a] = q] /\ Goto(a, IF q = <<>> THEN "decide" ELSE "append")
  BY <1>2 DEF Enqueue
<1> QED
  BY <1>1, <1>5, <1>6, <1>7

\* What the executed Actions append.
LEMMA FinishActionsQueue ==
    ASSUME IInv, NEW a \in Attempts, NEW ok \in SUBSET running[a], FinishActions(a, ok)
    PROVE  \E s \in InOrder(ok), q \in Seq(Checkpts) :
              /\ queue' = [queue EXCEPT ![a] = q]
              /\ Goto(a, IF q = <<>> THEN "failed_action" ELSE "append")
              /\ q = <<>> <=> ok = {}
              /\ DOMAIN q = DOMAIN s
              /\ \A k \in DOMAIN q : q[k] = Result(LastProposal(seen[a]).decision, s[k], a)
              /\ ok \in SUBSET Int /\ IsFiniteSet(ok)
<1> DEFINE d == LastProposal(seen[a]).decision
<1>0. WellFormed(seen[a]) /\ running[a] \subseteq PendingActions(seen[a])
  BY DEF IInv, Local, Known, Shape, FinishActions
<1>1. PICK s \in InOrder(ok) :
         Enqueue(a, [k \in DOMAIN s |-> Result(d, s[k], a)], "failed_action")
  BY DEF FinishActions
<1> DEFINE q == [k \in DOMAIN s |-> Result(d, s[k], a)]
<1>2. IsFiniteSet(ok) /\ ok \subseteq 1..MaxActions /\ (ok # {} => d \in 1..MaxDecisions)
  <2>1. CASE ok = {}
    BY <2>1, FS_EmptySet
  <2>2. CASE ok # {}
    <3>1. PendingActions(seen[a]) # {} /\ ok \subseteq PendingActions(seen[a])
      BY <1>0, <2>2
    <3> QED
      BY <1>0, <3>1, PendingFacts, FS_Subset
  <2> QED
    BY <2>1, <2>2
<1>3. ok \in SUBSET Int
  BY <1>2, CheckpointsAssumption
<1>4. \A k \in DOMAIN s : s[k] \in ok
  BY <1>2, <1>3, InOrderFacts
<1>5. \A k \in DOMAIN s : q[k] \in Checkpts
  <2>1. ASSUME NEW k \in DOMAIN s PROVE s[k] \in Nat /\ d \in 1..(MaxDecisions + 1)
    <3>1. s[k] \in 1..MaxActions /\ d \in 1..MaxDecisions
      BY <1>2, <1>4
    <3> QED
      BY <3>1, CheckpointsAssumption
  <2>2. a \in 0..MaxAttempts
    BY CheckpointsAssumption DEF Attempts
  <2> QED
    BY <2>1, <2>2 DEF Checkpts, AnyCheckpoint, Made, Result, Checkpoint, Kinds
<1>6. q \in Seq(Checkpts) /\ DOMAIN q = DOMAIN s /\ (q = <<>> <=> ok = {})
  <2> HIDE DEF q
  <2>1. q = [k \in DOMAIN s |-> q[k]]
    BY DEF q
  <2> QED
    BY <1>2, <1>3, <1>5, <2>1, OrderedQueue
<1>7. queue' = [queue EXCEPT ![a] = q] /\ Goto(a, IF q = <<>> THEN "failed_action" ELSE "append")
  BY <1>1 DEF Enqueue
<1> QED
  BY <1>2, <1>3, <1>6, <1>7

\* What a decision boundary appends: the messages not delivered yet.
LEMMA ReadSteeringQueue ==
    ASSUME IInv, NEW a \in Attempts, ReadSteering(a)
    PROVE  \E s \in InOrder(Undelivered), q \in Seq(Checkpts) :
              /\ queue' = [queue EXCEPT ![a] = q]
              /\ Goto(a, IF q = <<>> THEN "model" ELSE "append")
              /\ q = <<>> <=> Undelivered = {}
              /\ DOMAIN q = DOMAIN s
              /\ \A k \in DOMAIN q :
                    q[k] = Steer(AcceptedDecisions(seen[a]) + 1, steering[s[k]].msg)
              /\ Undelivered \in SUBSET Int /\ IsFiniteSet(Undelivered)
<1> DEFINE d == AcceptedDecisions(seen[a]) + 1
<1>0. /\ WellFormed(seen[a]) /\ Positions(seen[a], "final") = {}
      /\ steering \in Seq([msg : Messages, at : Nat])
  BY DEF IInv, Global, Typed, Local, Known, ReadSteering, HasFinal
<1>1. PICK s \in InOrder(Undelivered) :
         Enqueue(a, [k \in DOMAIN s |-> Steer(d, steering[s[k]].msg)], "model")
  BY DEF ReadSteering
<1> DEFINE q == [k \in DOMAIN s |-> Steer(d, steering[s[k]].msg)]
<1>2. Undelivered \subseteq 1..Len(steering) /\ Len(steering) \in Nat
  BY <1>0 DEF Undelivered
<1>3. Undelivered \in SUBSET Int /\ IsFiniteSet(Undelivered)
  <2>1. IsFiniteSet(1..Len(steering))
    BY <1>2, FS_Interval
  <2>2. 1..Len(steering) \subseteq Int
    BY <1>2
  <2> QED
    BY <1>2, <2>1, <2>2, FS_Subset
<1>4. \A k \in DOMAIN s : s[k] \in Undelivered
  BY <1>3, InOrderFacts
<1>5. \A k \in DOMAIN s : q[k] \in Checkpts
  <2>1. ASSUME NEW k \in DOMAIN s PROVE steering[s[k]].msg \in Messages
    <3>1. s[k] \in 1..Len(steering)
      BY <1>2, <1>4
    <3>2. steering[s[k]] \in [msg : Messages, at : Nat]
      BY <1>0, <3>1, ElementOfSeq
    <3> QED
      BY <3>2
  <2>2. d \in 1..(MaxDecisions + 1)
    BY <1>0, AcceptedIsNat, CheckpointsAssumption DEF WellFormed
  <2> QED
    BY <2>1, <2>2, CheckpointsAssumption
       DEF Checkpts, AnyCheckpoint, Made, Steer, Checkpoint, Kinds
<1>6. q \in Seq(Checkpts) /\ DOMAIN q = DOMAIN s /\ (q = <<>> <=> Undelivered = {})
  <2> HIDE DEF q
  <2>1. q = [k \in DOMAIN s |-> q[k]]
    BY DEF q
  <2> QED
    BY <1>3, <1>5, <2>1, OrderedQueue
<1>7. queue' = [queue EXCEPT ![a] = q] /\ Goto(a, IF q = <<>> THEN "model" ELSE "append")
  BY <1>1 DEF Enqueue
<1> QED
  BY <1>3, <1>6, <1>7

\* The proposal or the Final Draft a model returned.
LEMMA DecideQueue ==
    ASSUME IInv, NEW a \in Attempts, Decide(a)
    PROVE  \E c \in Checkpts :
              /\ queue' = [queue EXCEPT ![a] = <<c>>]
              /\ Goto(a, "append")
              /\ c.kind \in {"proposal", "final"} /\ c.payload = a
              /\ c.decision = AcceptedDecisions(seen[a]) + 1
<1> DEFINE d == AcceptedDecisions(seen[a]) + 1
<1>0. /\ WellFormed(seen[a]) /\ Positions(seen[a], "final") = {}
  BY DEF IInv, Local, Known, Shape, Decide, HasFinal
<1>1. d \in 1..(MaxDecisions + 1)
  BY <1>0, AcceptedIsNat, CheckpointsAssumption DEF WellFormed
<1>2. a \in 0..MaxAttempts /\ a # 0
  BY CheckpointsAssumption DEF Attempts
<1>3. PICK c : /\ Enqueue(a, <<c>>, "append")
               /\ \/ c = FinalDraft(d, a)
                  \/ \E b \in Batches : d <= MaxDecisions /\ c = Proposal(d, b, a)
  BY DEF Decide
<1>4. c \in Checkpts /\ c.kind \in {"proposal", "final"} /\ c.payload = a /\ c.decision = d
  <2>1. CASE c = FinalDraft(d, a)
    BY <1>1, <1>2, <2>1 DEF Checkpts, AnyCheckpoint, Made, FinalDraft, Checkpoint, Kinds
  <2>2. ASSUME NEW b \in Batches, d <= MaxDecisions, c = Proposal(d, b, a)
        PROVE  c \in Checkpts /\ c.kind \in {"proposal", "final"} /\ c.payload = a /\ c.decision = d
    BY <1>1, <1>2, <2>2 DEF Checkpts, AnyCheckpoint, Made, Proposal, Checkpoint, Kinds
  <2> QED
    BY <1>3, <2>1, <2>2
<1>5. queue' = [queue EXCEPT ![a] = <<c>>] /\ Goto(a, "append")
  BY <1>3 DEF Enqueue
<1> QED
  BY <1>4, <1>5

\* The parts of Typed: the rows, the log, what the Attempts have.
RowsTyped ==
    /\ run \in {"queued", "running", "completed", "failed", "cancelled"}
    /\ attemptNo \in 0..MaxAttempts
    /\ lease \in 0..attemptNo
    /\ leaseLive \in BOOLEAN
    /\ overdue \in BOOLEAN
    /\ answer \in 0..attemptNo
    /\ inFlight \in 0..attemptNo
    /\ steering \in Seq([msg : Messages, at : Nat])
    /\ \A i, j \in DOMAIN steering : steering[i].msg = steering[j].msg => i = j

LogTyped ==
    \A i \in DOMAIN log : /\ log[i].decision \in 1..(MaxDecisions + 1)
                          /\ log[i].msg \in Messages \cup {NoMessage}
                          /\ log[i].payload \in 0..attemptNo

AttemptsTyped ==
    /\ pc \in [Attempts -> Phases]
    /\ tries \in [Attempts -> 0..2]
    /\ boundary \in [Attempts -> BOOLEAN]
    /\ failing \in [Attempts -> BOOLEAN]
    /\ queue \in [Attempts -> Seq(Checkpts)]
    /\ seen \in [Attempts -> Seq(Checkpts)]
    /\ running \in [Attempts -> SUBSET Nat]
    /\ asked \in [Attempts -> SUBSET Messages]

StartedTyped == started \in [(1..MaxDecisions) \X (1..MaxActions) -> Nat]

LEMMA TypedParts ==
    /\ Typed <=> RowsTyped /\ LogTyped /\ AttemptsTyped /\ StartedTyped
    /\ Typed' <=> RowsTyped' /\ LogTyped' /\ AttemptsTyped' /\ StartedTyped'
  BY DEF Typed, TypeOK, RowsTyped, LogTyped, AttemptsTyped, StartedTyped

\* The end of a Run, and its return to the queue.
LEMMA RowsEnd ==
    ASSUME RowsTyped, MaxAttempts \in Nat, NEW status \in {"queued", "completed", "failed", "cancelled"},
           End(status), answer' \in 0..attemptNo, inFlight' \in 0..attemptNo,
           UNCHANGED <<attemptNo, overdue, steering>>
    PROVE  RowsTyped'
<1>1. run' \in {"queued", "running", "completed", "failed", "cancelled"}
  BY DEF End
<1>2. attemptNo' \in 0..MaxAttempts /\ attemptNo' \in Nat
  BY DEF RowsTyped
<1>3. lease' = 0 /\ leaseLive' = FALSE
  BY DEF End
<1>4. lease' \in 0..attemptNo'
  BY <1>2, <1>3
<1> QED
  BY <1>1, <1>2, <1>3, <1>4 DEF RowsTyped

\* Steps of Attempt a that leave the rows and the log alone.
LEMMA TypedOwn ==
    ASSUME Typed, UNCHANGED <<rows, log, inFlight>>, AttemptsTyped', StartedTyped'
    PROVE  Typed'
<1>1. RowsTyped' /\ LogTyped'
  BY TypedParts DEF RowsTyped, LogTyped, rows
<1> QED
  BY <1>1, TypedParts

\* Leaving changes the position only.
LEMMA TypedLeave ==
    ASSUME Typed, NEW a \in Attempts, NEW where \in Phases, Leave(a, where)
    PROVE  AttemptsTyped'
  BY TypedParts DEF AttemptsTyped, Leave, Goto

\* Going on changes the position, the queue and the tries.
LEMMA TypedAccepted ==
    ASSUME Typed, NEW a \in Attempts, queue[a] # <<>>, Accepted(a)
    PROVE  AttemptsTyped'
<1>1. Tail(queue[a]) \in Seq(Checkpts)
  BY TypedParts, HeadTailProperties DEF AttemptsTyped
<1> QED
  BY <1>1, TypedParts DEF AttemptsTyped, Accepted, Goto, Phases, Working

\* What an Attempt has queued is typed, also in the log.
LEMMA WriteTyped ==
    ASSUME IInv, NEW a \in Attempts, queue[a] # <<>>, a <= attemptNo,
           log' = Append(log, Write(a)), attemptNo' = attemptNo
    PROVE  /\ LogTyped'
           /\ Write(a) \in Checkpts /\ Write(a).payload \in {0, a}
<1>1. /\ Typed /\ log \in Seq(Checkpts) /\ queue[a] \in Seq(Checkpts)
      /\ \A k \in DOMAIN queue[a] : queue[a][k].payload \in {0, a}
      /\ attemptNo \in Nat /\ a \in Nat
  BY CheckpointsAssumption
     DEF IInv, Global, Log, WellFormed, Typed, TypeOK, Local, Shape, Attempts
<1>2. Write(a) \in Checkpts /\ Write(a) = queue[a][1] /\ 1 \in DOMAIN queue[a]
  BY <1>1, HeadTailProperties, EmptySeq DEF Write
<1>3. Write(a).payload \in {0, a}
  BY <1>1, <1>2
<1>4. ASSUME NEW i \in DOMAIN log' PROVE (i \in DOMAIN log /\ log'[i] = log[i]) \/ log'[i] = Write(a)
  BY <1>1, <1>2, AppendFacts
<1>5. /\ Write(a).decision \in 1..(MaxDecisions + 1)
      /\ Write(a).msg \in Messages \cup {NoMessage}
      /\ Write(a).payload \in 0..attemptNo
  BY <1>1, <1>2, <1>3, SMTT(30) DEF Checkpts, AnyCheckpoint
<1>6. LogTyped'
  BY <1>1, <1>4, <1>5 DEF LogTyped, Typed, TypeOK
<1> QED
  BY <1>2, <1>3, <1>6

\* The Actions that start are pending.
LEMMA StartActionsFacts ==
    ASSUME IInv, NEW a \in Attempts, StartActions(a)
    PROVE  \E S \in SUBSET PendingActions(seen[a]) :
              /\ running' = [running EXCEPT ![a] = S]
              /\ started' = [id \in DOMAIN started |->
                                IF id \in {<<LastProposal(seen[a]).decision, i>> : i \in S}
                                THEN started[id] + 1 ELSE started[id]]
              /\ S \subseteq Nat
<1> DEFINE l == seen[a]
           P == PendingActions(l)
           d == LastProposal(l).decision
           S == IF Cardinality(P) > 1 /\ AllParallel(l, P) THEN P
                ELSE {CHOOSE i \in P : \A j \in P : i <= j}
<1>1. WellFormed(l) /\ P # {}
  BY DEF IInv, Local, Known, StartActions
<1>2. P \subseteq 1..MaxActions /\ IsFiniteSet(P)
  BY <1>1, PendingFacts
<1>3. \E i \in P : \A j \in P : i <= j
  BY <1>1, <1>2, CheckpointsAssumption, LeastOfFinite
<1>4. S \subseteq P
  BY <1>3
<1>5. /\ running' = [running EXCEPT ![a] = S]
      /\ started' = [id \in DOMAIN started |->
                        IF id \in {<<d, i>> : i \in S} THEN started[id] + 1 ELSE started[id]]
  BY DEF StartActions
<1>6. S \subseteq Nat
  BY <1>2, <1>4, CheckpointsAssumption
<1> HIDE DEF S
<1> QED
  BY <1>4, <1>5, <1>6

\* Every step keeps the types.
LEMMA TypedStep == IInv /\ [Next]_vars => Typed'
<1> SUFFICES ASSUME IInv, [Next]_vars PROVE Typed'
  OBVIOUS
<1>0. /\ Typed /\ RowsTyped /\ LogTyped /\ AttemptsTyped /\ StartedTyped
      /\ log \in Seq(Checkpts) /\ Fence /\ MaxAttempts \in Nat \ {0}
      /\ \A i \in DOMAIN log : log[i].payload <= attemptNo
      /\ \A a \in Attempts : Shape(a)
  BY TypedParts, CheckpointsAssumption DEF IInv, Global, Log, WellFormed, Local
<1>1. CASE Claim
  <2>1. RowsTyped'
    BY <1>0, <1>1 DEF RowsTyped, Claim, Unlocked, NoWrite
  <2>2. LogTyped'
    BY <1>0, <1>1 DEF RowsTyped, LogTyped, Claim
  <2>3. AttemptsTyped' /\ StartedTyped'
    BY <1>0, <1>1 DEF AttemptsTyped, StartedTyped, Claim, Goto, Phases, Working
  <2> QED
    BY <2>1, <2>2, <2>3, TypedParts
<1>2. CASE ExpireLease
  BY <1>0, <1>2, TypedParts
     DEF ExpireLease, RowsTyped, LogTyped, AttemptsTyped, StartedTyped, attempts
<1>3. CASE PassDeadline
  BY <1>0, <1>3, TypedParts
     DEF PassDeadline, RowsTyped, LogTyped, AttemptsTyped, StartedTyped, attempts
<1>4. ASSUME NEW status \in {"cancelled", "failed"}, Stop(status) PROVE Typed'
  <2>0. run' = status /\ lease' = 0 /\ leaseLive' = FALSE
        /\ UNCHANGED <<attemptNo, overdue, answer, steering, log, inFlight, attempts, started>>
    BY <1>4 DEF Stop, End
  <2>1. RowsTyped'
    BY <1>0, <1>4, <2>0, RowsEnd DEF Stop, RowsTyped
  <2>2. LogTyped' /\ AttemptsTyped' /\ StartedTyped'
    BY <1>0, <2>0 DEF LogTyped, AttemptsTyped, StartedTyped, attempts
  <2> QED
    BY <2>1, <2>2, TypedParts
<1>5. ASSUME NEW m \in Messages, SendSteering(m) PROVE Typed'
  <2>1. RowsTyped'
    BY <1>0, <1>5 DEF RowsTyped, SendSteering, Sent
  <2>2. LogTyped' /\ AttemptsTyped' /\ StartedTyped'
    BY <1>0, <1>5 DEF LogTyped, AttemptsTyped, StartedTyped, SendSteering, attempts
  <2> QED
    BY <2>1, <2>2, TypedParts
<1>6. ASSUME NEW a \in Attempts, AttemptStep(a) PROVE Typed'
  <2>0. a \in 1..MaxAttempts
    BY DEF Attempts
  <2> DEFINE Quiet == UNCHANGED <<rows, log, inFlight>>
  <2>a. Quiet /\ AttemptsTyped' /\ UNCHANGED started => Typed'
    BY <1>0, TypedOwn DEF StartedTyped
  <2>b. /\ UNCHANGED log /\ UNCHANGED started /\ RowsTyped' /\ attemptNo' = attemptNo /\ AttemptsTyped'
           => Typed'
    BY <1>0, TypedParts DEF StartedTyped, LogTyped
  <2>1. CASE Load(a)
    <3>1. AttemptsTyped'
      BY <1>0, <2>1 DEF Load, AttemptsTyped, Goto, Phases, Working
    <3> QED
      BY <2>1, <2>a, <3>1 DEF Load
  <2>2. CASE StartPublish(a)
    <3>1. AttemptsTyped'
      BY <1>0, <2>2 DEF StartPublish, AttemptsTyped, Goto, Phases, Working
    <3> QED
      BY <2>2, <2>a, <3>1 DEF StartPublish
  <2>3. CASE PublishTx(a)
    <3>1. AttemptsTyped'
      BY <1>0, <2>3, TypedLeave DEF PublishTx, Phases, Working
    <3>2. CASE Quiet
      BY <2>3, <2>a, <3>1, <3>2 DEF PublishTx
    <3>3. CASE inFlight' = a /\ UNCHANGED <<rows, log>>
      <4>1. RowsTyped'
        BY <1>0, <2>3, <3>3 DEF PublishTx, Authority, RowsTyped, rows
      <4> QED
        BY <2>3, <2>b, <3>1, <3>3, <4>1 DEF PublishTx, rows
    <3>4. CASE HasFinal(log) /\ answer' = FinalOf(log) /\ End("completed")
               /\ UNCHANGED <<attemptNo, overdue, steering, log, inFlight>>
      <4>1. FinalOf(log) \in 0..attemptNo
        BY <1>0, <3>4 DEF FinalOf, HasFinal, Positions, LogTyped
      <4>2. RowsTyped'
        BY <1>0, <3>4, <4>1, RowsEnd DEF RowsTyped
      <4> QED
        BY <2>3, <2>b, <3>1, <3>4, <4>2 DEF PublishTx
    <3> QED
      BY <2>3, <3>2, <3>3, <3>4 DEF PublishTx
  <2>4. CASE PublishRefused(a)
    BY <1>0, <2>4, <2>a, TypedLeave DEF PublishRefused, Phases
  <2>5. CASE ReconcilePublish(a)
    <3>1. CASE Leave(a, "completed") \/ Leave(a, "stopped")
      BY <1>0, <2>5, <2>a, <3>1, TypedLeave DEF ReconcilePublish, Phases
    <3>2. CASE /\ tries' = [tries EXCEPT ![a] = @ + 1]
               /\ Goto(a, IF tries[a] = 0 THEN "publish" ELSE "error")
               /\ UNCHANGED <<seen, queue, failing, boundary, running, asked>>
      <4>1. tries[a] + 1 \in 0..2
        <5>1. tries[a] \in 0..2
          BY <1>0 DEF AttemptsTyped
        <5>2. tries[a] <= 1
          BY <1>0, <2>5 DEF ReconcilePublish, Shape
        <5> QED
          BY <5>1, <5>2
      <4>2. AttemptsTyped'
        BY <1>0, <3>2, <4>1 DEF AttemptsTyped, Goto, Phases, Working
      <4> QED
        BY <2>5, <2>a, <4>2 DEF ReconcilePublish
    <3> QED
      BY <2>5, <3>1, <3>2 DEF ReconcilePublish
  <2>6. CASE CloseUnknown(a)
    <3>1. PICK q \in Seq(Checkpts) : /\ queue' = [queue EXCEPT ![a] = q]
                                     /\ Goto(a, IF q = <<>> THEN "decide" ELSE "append")
      BY <2>6, CloseUnknownQueue
    <3>2. tries' = [tries EXCEPT ![a] = 0] /\ boundary' = [boundary EXCEPT ![a] = FALSE]
          /\ UNCHANGED <<rows, log, inFlight, seen, failing, running, asked, started>>
      BY <2>6 DEF CloseUnknown, Enqueue
    <3>3. AttemptsTyped'
      BY <1>0, <3>1, <3>2 DEF AttemptsTyped, Goto, Phases, Working
    <3> QED
      BY <2>a, <3>2, <3>3
  <2>7. CASE StartActions(a)
    <3>1. running' \in [Attempts -> SUBSET Nat]
      <4>1. PICK S : running' = [running EXCEPT ![a] = S] /\ S \subseteq Nat
        BY <2>7, StartActionsFacts
      <4> QED
        BY <1>0, <4>1 DEF AttemptsTyped
    <3>2. AttemptsTyped'
      BY <1>0, <2>7, <3>1 DEF StartActions, AttemptsTyped, Goto, Phases, Working
    <3>3. StartedTyped'
      BY <1>0, <2>7 DEF StartActions, StartedTyped
    <3> QED
      BY <1>0, <2>7, <3>2, <3>3, TypedOwn DEF StartActions
  <2>8. ASSUME NEW ok \in SUBSET running[a], FinishActions(a, ok) PROVE Typed'
    <3>1. PICK q \in Seq(Checkpts) : /\ queue' = [queue EXCEPT ![a] = q]
                                     /\ Goto(a, IF q = <<>> THEN "failed_action" ELSE "append")
      BY <2>8, FinishActionsQueue
    <3>2. /\ tries' = [tries EXCEPT ![a] = 0] /\ running' = [running EXCEPT ![a] = {}]
          /\ failing' = [failing EXCEPT ![a] = ok # running[a]]
          /\ UNCHANGED <<rows, log, inFlight, seen, boundary, asked, started>>
      BY <2>8 DEF FinishActions, Enqueue
    <3>3. AttemptsTyped'
      BY <1>0, <3>1, <3>2 DEF AttemptsTyped, Goto, Phases, Working
    <3> QED
      BY <2>a, <3>2, <3>3
  <2>9. CASE ReadSteering(a)
    <3>1. PICK q \in Seq(Checkpts) : /\ queue' = [queue EXCEPT ![a] = q]
                                     /\ Goto(a, IF q = <<>> THEN "model" ELSE "append")
      BY <2>9, ReadSteeringQueue
    <3>2. /\ tries' = [tries EXCEPT ![a] = 0] /\ boundary' = [boundary EXCEPT ![a] = FALSE]
          /\ asked' = [asked EXCEPT ![a] = Sent]
          /\ UNCHANGED <<rows, log, inFlight, seen, failing, running, started>>
      BY <2>9 DEF ReadSteering, Enqueue
    <3>3. Sent \subseteq Messages
      <4>1. steering \in Seq([msg : Messages, at : Nat]) /\ DOMAIN steering = 1..Len(steering)
        BY <1>0 DEF RowsTyped
      <4>2. \A i \in DOMAIN steering : steering[i] \in [msg : Messages, at : Nat]
        BY <4>1, ElementOfSeq
      <4> QED
        BY <4>2 DEF Sent
    <3>4. AttemptsTyped'
      BY <1>0, <3>1, <3>2, <3>3 DEF AttemptsTyped, Goto, Phases, Working
    <3> QED
      BY <2>a, <3>2, <3>4
  <2>10. ASSUME NEW from, NEW to \in {"thinking", "decided"}, CheckAuthority(a, from, to)
         PROVE  Typed'
    BY <1>0, <2>10, <2>a, TypedLeave DEF CheckAuthority, Phases, Working
  <2>11. CASE Decide(a)
    <3>1. PICK c \in Checkpts : queue' = [queue EXCEPT ![a] = <<c>>] /\ Goto(a, "append")
      BY <2>11, DecideQueue
    <3>2. /\ tries' = [tries EXCEPT ![a] = 0]
          /\ UNCHANGED <<rows, log, inFlight, seen, failing, boundary, running, asked, started>>
      BY <2>11 DEF Decide, Enqueue
    <3>3. <<c>> \in Seq(Checkpts)
      BY <3>1
    <3>4. AttemptsTyped'
      BY <1>0, <3>1, <3>2, <3>3 DEF AttemptsTyped, Goto, Phases, Working
    <3> QED
      BY <2>a, <3>2, <3>4
  <2>12. CASE AppendRefused(a)
    BY <1>0, <2>12, <2>a, TypedLeave DEF AppendRefused, Phases
  <2>13. CASE AppendExisting(a)
    <3>1. queue[a] # <<>>
      BY <1>0, <2>13 DEF AppendExisting, Shape, Storing
    <3>2. Accepted(a) \/ Leave(a, "invalid")
      BY <2>13 DEF AppendExisting
    <3>3. AttemptsTyped'
      BY <1>0, <3>1, <3>2, TypedLeave, TypedAccepted DEF Phases
    <3> QED
      BY <2>13, <2>a, <3>3 DEF AppendExisting
  <2>14. CASE AppendInsert(a)
    <3>1. queue[a] # <<>>
      BY <1>0, <2>14 DEF AppendInsert, Shape, Storing
    <3>2. Accepted(a) \/ Leave(a, "invalid") \/ Leave(a, "reconcile")
      BY <2>14 DEF AppendInsert
    <3>3. AttemptsTyped'
      BY <1>0, <3>1, <3>2, TypedLeave, TypedAccepted DEF Phases, Working
    <3>4. RowsTyped' /\ attemptNo' = attemptNo /\ UNCHANGED started
      BY <1>0, <2>14 DEF AppendInsert, RowsTyped, Authority, rows
    <3>5. LogTyped'
      <4>1. CASE log' = log
        BY <1>0, <3>4, <4>1 DEF LogTyped
      <4>2. CASE log' = Append(log, Write(a))
        <5>1. a <= attemptNo
          BY <1>0, <2>14 DEF AppendInsert, Authority, RowsTyped
        <5> QED
          BY <3>1, <3>4, <4>2, <5>1, WriteTyped
      <4> QED
        BY <2>14, <4>1, <4>2 DEF AppendInsert
    <3> QED
      BY <1>0, <3>3, <3>4, <3>5, TypedParts DEF StartedTyped
  <2>15. CASE Reconcile(a)
    <3>1. queue[a] # <<>> /\ tries[a] <= 1
      BY <1>0, <2>15 DEF Reconcile, Shape, Storing
    <3>2. CASE Accepted(a) \/ Leave(a, "invalid") \/ Leave(a, "stopped")
      BY <1>0, <2>15, <2>a, <3>1, <3>2, TypedLeave, TypedAccepted DEF Phases, Reconcile
    <3>3. CASE /\ tries' = [tries EXCEPT ![a] = @ + 1]
               /\ Goto(a, IF tries[a] = 0 THEN "append" ELSE "error")
               /\ UNCHANGED <<seen, queue, failing, boundary, running, asked>>
      <4>1. tries[a] + 1 \in 0..2
        <5>1. tries[a] \in 0..2
          BY <1>0 DEF AttemptsTyped
        <5> QED
          BY <3>1, <5>1
      <4>2. AttemptsTyped'
        BY <1>0, <3>3, <4>1 DEF AttemptsTyped, Goto, Phases, Working
      <4> QED
        BY <2>15, <2>a, <4>2 DEF Reconcile
    <3> QED
      BY <2>15, <3>2, <3>3 DEF Reconcile
  <2>16. ASSUME NEW commits \in BOOLEAN, Decided(a, commits) PROVE Typed'
    <3>1. AttemptsTyped' /\ StartedTyped' /\ attemptNo' = attemptNo
      BY <1>0, <2>16 DEF Decided, AttemptsTyped, StartedTyped, attempts, rows
    <3>2. CASE UNCHANGED <<rows, log>>
      <4>1. RowsTyped'
        BY <1>0, <2>16, <3>2 DEF Decided, RowsTyped, rows, NoWrite
      <4> QED
        BY <2>16, <2>b, <3>1, <3>2, <4>1 DEF Decided
    <3>3. CASE queue[a] # <<>> /\ log' = Append(log, Write(a)) /\ UNCHANGED rows
      <4>1. RowsTyped'
        BY <1>0, <2>16, <3>3 DEF Decided, RowsTyped, rows, NoWrite
      <4>2. a <= attemptNo
        BY <1>0, <2>16 DEF Decided, RowsTyped
      <4>3. LogTyped'
        BY <1>0, <3>1, <3>3, <4>2, WriteTyped
      <4> QED
        BY <3>1, <4>1, <4>3, TypedParts
    <3>4. CASE /\ HasFinal(log)
               /\ answer' = FinalOf(log)
               /\ End("completed")
               /\ UNCHANGED <<attemptNo, overdue, steering, log>>
      <4>1. FinalOf(log) \in 0..attemptNo
        BY <1>0, <3>4 DEF FinalOf, HasFinal, Positions, LogTyped
      <4>2. RowsTyped'
        BY <1>0, <2>16, <3>4, <4>1, RowsEnd DEF Decided, RowsTyped, NoWrite
      <4> QED
        BY <2>16, <2>b, <3>1, <3>4, <4>2 DEF Decided
    <3>5. queue[a] = <<>> => HasFinal(log)
      BY <1>0, <2>16 DEF IInv, Global, Flight, Decided, NoWrite, Attempts
    <3> QED
      BY <2>16, <3>2, <3>3, <3>4, <3>5 DEF Decided, FinalOf
  <2>17. ASSUME NEW where \in Exits, Interrupt(a, where) PROVE Typed'
    BY <1>0, <2>17, <2>a, TypedLeave DEF Interrupt, Exits, Phases
  <2>18. CASE FailRun(a)
    <3>1. RowsTyped'
      BY <1>0, <2>18 DEF FailRun, RowsTyped, End
    <3> QED
      BY <1>0, <2>18, <2>b, <3>1, TypedLeave DEF FailRun, Phases
  <2>19. CASE ReturnToolError(a)
    BY <1>0, <2>19, <2>a, TypedLeave DEF ReturnToolError, Phases
  <2>20. CASE Resolve(a)
    <3>1. CASE UNCHANGED <<run, lease, leaseLive>>
      <4>1. RowsTyped'
        BY <1>0, <2>20, <3>1 DEF Resolve, RowsTyped
      <4> QED
        BY <1>0, <2>20, <2>b, <4>1, TypedLeave DEF Resolve, Phases
    <3>2. CASE End("queued") \/ End("failed")
      <4>1. RowsTyped'
        BY <1>0, <2>20, <3>2, RowsEnd DEF Resolve, RowsTyped
      <4> QED
        BY <1>0, <2>20, <2>b, <4>1, TypedLeave DEF Resolve, Phases
    <3> QED
      BY <2>20, <3>1, <3>2 DEF Resolve
  <2> QED
    BY <1>6, <2>1, <2>2, <2>3, <2>4, <2>5, <2>6, <2>7, <2>8, <2>9, <2>10, <2>11, <2>12,
       <2>13, <2>14, <2>15, <2>16, <2>17, <2>18, <2>19, <2>20 DEF AttemptStep
<1>7. CASE UNCHANGED vars
  BY <1>0, <1>7, TypedParts
     DEF vars, rows, attempts, RowsTyped, LogTyped, AttemptsTyped, StartedTyped
<1> QED
  BY <1>1, <1>2, <1>3, <1>4, <1>5, <1>6, <1>7 DEF Next

\* Positions in which an Attempt does not store anything any more.
Dead == {"stopped", "invalid", "error", "failed_action", "terminal", "completed", "gone"}

\* An Attempt that gives up keeps its invariant.
LEMMA DeadLocal ==
    ASSUME IInv, NEW a \in Attempts, pc'[a] \in Dead, log' = log, started' = started,
           lease' = a => lease = a,
           seen'[a] = seen[a], queue'[a] = queue[a], asked'[a] = asked[a]
    PROVE  Local(a)'
<1>0. WellFormed(log) /\ Local(a)
  BY DEF IInv, Global, Log
<1>1. Shape(a)'
  BY <1>0 DEF Local, Shape, Dead, Knowing, Storing
<1>2. Known(a)'
  <2>1. WellFormed(seen[a])'
    BY <1>0 DEF Local, Known
  <2> QED
    BY <1>0, <2>1 DEF Local, Known
<1>3. Holder(a)' /\ Closed(a)'
  BY DEF Holder, Closed, Dead, Knowing, Storing
<1>4. Informed(a)'
  BY <1>0 DEF Local, Informed, Dead
<1>5. Mine(a)'
  BY <1>0 DEF Local, Mine, Past, Dead, Knowing, Storing
<1> QED
  BY <1>1, <1>2, <1>3, <1>4, <1>5 DEF Local

\* The others, when Attempt a steps.
Others(a) == \A b \in Attempts \ {a} : Same(b) /\ SameStarted(b)

\* A step of Attempt a that leaves the rows and the log alone.
LEMMA QuietStep ==
    ASSUME IInv, Typed', NEW a \in Attempts, Others(a), UNCHANGED <<rows, log, inFlight>>,
           pc[a] # "none", pc'[a] # "none",
           pc'[a] = "invalid" => lease # a,
           pc'[a] = "completed" => run = "completed",
           inFlight = a => /\ queue'[a] = queue[a]
                           /\ pc'[a] \notin Knowing \ {"publish", "reconcile_publish"}
                           /\ pc'[a] \notin {"load", "completed"},
           \A id \in DOMAIN started' :
              started'[id] > 0 => \E p \in Positions(log, "proposal") : log[p].decision = id[1],
           Local(a)'
    PROVE  IInv'
<1>0. Global /\ \A b \in Attempts : Local(b)
  BY DEF IInv
<1> USE DEF Others, rows
<1>1. Fence'
  <2>1. \A b \in Attempts : pc'[b] = "none" <=> pc[b] = "none"
    BY DEF Same
  <2> QED
    BY <1>0, <2>1 DEF Global, Fence
<1>2. Flight'
  <2> SUFFICES ASSUME inFlight # NoWrite PROVE Flight'
    BY DEF Flight
  <2>1. /\ inFlight = lease
        /\ pc[inFlight] \notin Knowing \ {"publish", "reconcile_publish"}
        /\ pc[inFlight] \notin {"load", "completed", "none"}
        /\ IF queue[inFlight] # <<>> THEN MayFollow(log, Write(inFlight)) ELSE HasFinal(log)
    BY <1>0 DEF Global, Flight
  <2>2. inFlight \in Attempts
    BY <1>0, CheckpointsAssumption DEF Global, Typed, TypeOK, Attempts, NoWrite
  <2>3. /\ queue'[inFlight] = queue[inFlight]
        /\ pc'[inFlight] \notin Knowing \ {"publish", "reconcile_publish"}
        /\ pc'[inFlight] \notin {"load", "completed", "none"}
    BY <2>1, <2>2 DEF Same
  <2>4. Write(inFlight)' = Write(inFlight)
    BY <2>3 DEF Write
  <2>5. IF queue'[inFlight] # <<>> THEN MayFollow(log', Write(inFlight)') ELSE HasFinal(log')
    BY <2>1, <2>3, <2>4
  <2> QED
    BY <2>1, <2>3, <2>5 DEF Flight
<1>3. Log'
  BY <1>0 DEF Global, Log
<1>4. AnswerIsAcceptedDraft'
  BY <1>0 DEF Global, AnswerIsAcceptedDraft
<1>5. NoFalseCompletion' /\ HolderNeverInvalid'
  BY <1>0 DEF Global, NoFalseCompletion, HolderNeverInvalid, Same
<1>6. \A b \in Attempts \ {a} : Local(b)'
  BY SameLocal
<1> QED
  BY <1>1, <1>2, <1>3, <1>4, <1>5, <1>6 DEF IInv, Global

\* An Attempt that gives up.
LEMMA LeaveStep ==
    ASSUME IInv, Typed', NEW a \in Attempts, NEW where \in Dead, Leave(a, where),
           UNCHANGED <<rows, log, inFlight, started>>, pc[a] # "none",
           where = "invalid" => lease # a,
           where = "completed" => run = "completed"
    PROVE  IInv'
<1>0. AttemptsTyped /\ Fence /\ Flight /\ Log /\ CheckpointsAssumption
  BY TypedParts, CheckpointsAssumption DEF IInv, Global
<1>1. pc'[a] = where /\ pc' = [pc EXCEPT ![a] = where]
      /\ UNCHANGED <<seen, queue, tries, failing, boundary, running, asked>>
  BY <1>0 DEF Leave, Goto, AttemptsTyped
<1>2. Others(a)
  BY <1>0, <1>1 DEF Others, Same, SameStarted, AttemptsTyped
<1>3. Local(a)'
  BY <1>1, DeadLocal DEF rows
<1>4. inFlight = a => where # "completed"
  BY <1>0 DEF Flight, Fence, Attempts, NoWrite, CheckpointsAssumption
<1>5. \A id \in DOMAIN started' :
         started'[id] > 0 => \E p \in Positions(log, "proposal") : log[p].decision = id[1]
  BY <1>0 DEF Log
<1> QED
  BY <1>0, <1>1, <1>2, <1>3, <1>4, <1>5, QuietStep DEF Dead, Knowing

\* The lease holder has nothing queued that may not be stored.
LEMMA HolderFits ==
    ASSUME IInv, NEW a \in Attempts, lease = a, pc[a] \in Storing
    PROVE  /\ queue[a] # <<>> /\ queue[a] \in Seq(Checkpts) /\ Write(a) \in Checkpts
           /\ Write(a) = queue[a][1] /\ 1 \in DOMAIN queue[a]
           /\ MayFollow(log, Write(a)) =>
                 Stored(Write(a)) = {} /\ Fits(Append(log, Write(a)), Tail(queue[a]))
           /\ \A i \in Stored(Write(a)) :
                 log[i] = Write(a) /\ Fits(log, Tail(queue[a]))
           /\ Stored(Write(a)) = {} => MayFollow(log, Write(a))
<1>0. WellFormed(log) /\ log \in Seq(Checkpts) /\ queue[a] \in Seq(Checkpts) /\ queue[a] # <<>>
  BY DEF IInv, Global, Log, WellFormed, Typed, Local, Shape
<1>1. /\ Write(a) \in Checkpts /\ Write(a) = Head(queue[a])
      /\ Write(a) = queue[a][1] /\ 1 \in DOMAIN queue[a]
  BY <1>0, HeadTailProperties, EmptySeq DEF Write
<1>2. MayFollow(log, Write(a)) => Stored(Write(a)) = {}
  BY <1>0, <1>1, FreshIdentity DEF Stored
<1>3. \/ Fits(log, queue[a])
      \/ /\ \E i \in DOMAIN log : log[i] = Write(a)
         /\ Fits(log, Tail(queue[a]))
  BY DEF IInv, Local, Holder
<1>4. CASE Fits(log, queue[a])
  <2>1. MayFollow(log, Write(a)) /\ Fits(Append(log, Write(a)), Tail(queue[a]))
    BY <1>0, <1>1, <1>4, FitsTail
  <2> QED
    BY <1>0, <1>1, <1>2, <2>1
<1>5. ASSUME NEW i \in DOMAIN log, log[i] = Write(a), Fits(log, Tail(queue[a]))
      PROVE  /\ Stored(Write(a)) # {}
             /\ \A j \in Stored(Write(a)) : log[j] = Write(a)
  <2>1. i \in Stored(Write(a))
    BY <1>5 DEF Stored
  <2>2. \A j \in Stored(Write(a)) : j = i
    BY <1>0, <1>5 DEF Stored, WellFormed
  <2> QED
    BY <1>5, <2>1, <2>2
<1> QED
  BY <1>0, <1>1, <1>2, <1>3, <1>4, <1>5

\* The tail of a queue has all but the first.
LEMMA TailFacts ==
    ASSUME NEW S, NEW q \in Seq(S), q # <<>>
    PROVE  /\ Tail(q) \in Seq(S)
           /\ 1 \in DOMAIN q /\ Head(q) = q[1]
           /\ \A k \in DOMAIN Tail(q) : k + 1 \in DOMAIN q /\ Tail(q)[k] = q[k + 1]
           /\ \A k \in DOMAIN q : k = 1 \/ (k - 1 \in DOMAIN Tail(q) /\ Tail(q)[k - 1] = q[k])
           /\ Tail(q) = <<>> <=> ~(Len(q) > 1)
<1>1. /\ Tail(q) \in Seq(S) /\ Len(Tail(q)) = Len(q) - 1
      /\ \A k \in 1..Len(Tail(q)) : Tail(q)[k] = q[k + 1]
  BY HeadTailProperties
<1>2. Len(q) \in Nat /\ Len(q) # 0 /\ DOMAIN q = 1..Len(q) /\ Head(q) = q[1]
  BY EmptySeq
<1>3. DOMAIN Tail(q) = 1..(Len(q) - 1)
  BY <1>1
<1>4. \A k \in DOMAIN Tail(q) : k + 1 \in DOMAIN q /\ Tail(q)[k] = q[k + 1]
  BY <1>1, <1>2, <1>3
<1>5. ASSUME NEW k \in DOMAIN q, k # 1 PROVE k - 1 \in DOMAIN Tail(q) /\ Tail(q)[k - 1] = q[k]
  <2>1. k - 1 \in DOMAIN Tail(q) /\ (k - 1) + 1 = k
    BY <1>2, <1>3, <1>5
  <2> QED
    BY <1>4, <2>1
<1>6. Tail(q) = <<>> <=> Len(Tail(q)) = 0
  BY <1>1, EmptySeq
<1> QED
  BY <1>1, <1>2, <1>4, <1>5, <1>6

\* The log after a step that leaves w, the first Attempt a has queued, stored.
Kept(a, w) ==
    /\ WellFormed(log') /\ Len(log) <= Len(log') /\ Len(log) \in Nat /\ Len(log') \in Nat
    /\ \A i \in DOMAIN log : i \in DOMAIN log' /\ log'[i] = log[i]
    /\ \E i \in DOMAIN log' : log'[i] = w
    /\ lease = a /\ pc[a] \in Storing => Fits(log', Tail(queue[a]))
    /\ \A i \in PendingActions(log') :
          \/ LastProposal(log').payload = a
          \/ /\ i \in PendingActions(log) /\ LastProposal(log') = LastProposal(log)
             /\ ~(/\ w.kind = "result" /\ w.decision = LastProposal(log).decision
                  /\ w.index = i)
    /\ \A d \in 1..MaxDecisions, i \in 1..MaxActions :
          Unsafe(log', a, d, i) => Unsafe(log, a, d, i) \/ started[<<d, i>>] = 0
    /\ \A d, i : HasResult(log, d, i) => HasResult(log', d, i)
    /\ w.kind = "result" => HasResult(log', w.decision, w.index)
    /\ Delivered(log) \subseteq Delivered(log')

LEMMA KeptBefore ==
    ASSUME IInv, NEW a \in Attempts, queue[a] # <<>>, log' = log,
           lease = a => pc[a] \in Storing,
           NEW n \in DOMAIN log, log[n] = Write(a)
    PROVE  Kept(a, Write(a))
<1> DEFINE w == Write(a)
<1>0. WellFormed(log) /\ Len(log) \in Nat
  BY DEF IInv, Global, Log, WellFormed
<1>1. lease = a => Fits(log, Tail(queue[a]))
  BY HolderFits DEF Stored
<1>2. w.kind = "result" => HasResult(log, w.decision, w.index)
  BY DEF HasResult, Positions
<1>3. ASSUME NEW i \in PendingActions(log), w.kind = "result",
             w.decision = LastProposal(log).decision, w.index = i
      PROVE  FALSE
  BY <1>2, <1>3 DEF PendingActions
<1> QED
  BY <1>0, <1>1, <1>2, <1>3 DEF Kept

LEMMA KeptNow ==
    ASSUME IInv, NEW a \in Attempts, lease = a, queue[a] # <<>>,
           MayFollow(log, Write(a)), log' = Append(log, Write(a))
    PROVE  Kept(a, Write(a)) /\ Extended(Write(a)) /\ Write(a).payload \in {0, a}
<1> DEFINE w == Write(a)
<1>0. /\ WellFormed(log) /\ log \in Seq(Checkpts) /\ Len(log) \in Nat /\ Len(log') \in Nat
      /\ queue[a] \in Seq(Checkpts)
      /\ \A k \in DOMAIN queue[a] : queue[a][k].payload \in {0, a}
  BY DEF IInv, Global, Log, WellFormed, Typed, Local, Shape
<1>1. w \in Checkpts /\ w = queue[a][1] /\ 1 \in DOMAIN queue[a]
  BY <1>0, TailFacts DEF Write
<1>2. w.payload \in {0, a} /\ (w.kind = "proposal" => w.payload = a)
  BY <1>0, <1>1 DEF Checkpts, Made
<1>3. /\ Len(log') = Len(log) + 1 /\ log'[Len(log) + 1] = w /\ Len(log) + 1 \in DOMAIN log'
      /\ \A i \in DOMAIN log : i \in DOMAIN log' /\ log'[i] = log[i]
  BY <1>0, <1>1, AppendFacts
<1>4. WellFormed(log')
  BY <1>0, <1>1, WellFormedAppend
<1>5. pc[a] \in Storing => Fits(log', Tail(queue[a]))
  BY HolderFits
<1>6. \A d, i : HasResult(log', d, i) <=>
         HasResult(log, d, i) \/ (w.kind = "result" /\ w.decision = d /\ w.index = i)
  BY <1>0, <1>1, HasResultAppend
<1>7. ASSUME NEW i \in PendingActions(log')
      PROVE  \/ LastProposal(log').payload = a
             \/ /\ i \in PendingActions(log) /\ LastProposal(log') = LastProposal(log)
                /\ ~(/\ w.kind = "result" /\ w.decision = LastProposal(log).decision
                     /\ w.index = i)
  <2>1. CASE w.kind = "proposal"
    BY <1>0, <1>1, <1>2, <2>1, LastProposalAppend
  <2>2. CASE w.kind # "proposal"
    <3>1. i \in PendingActions(log)
      BY <1>0, <1>1, <2>2, PendingAppend
    <3>2. Positions(log, "proposal") # {}
      BY <3>1 DEF PendingActions
    <3>3. LastProposal(log') = LastProposal(log)
      BY <1>0, <1>1, <2>2, <3>2, LastProposalAppend
    <3>4. ~HasResult(log', LastProposal(log).decision, i)
      BY <3>3 DEF PendingActions
    <3> QED
      BY <1>6, <3>1, <3>3, <3>4
  <2> QED
    BY <2>1, <2>2
<1>8. ASSUME NEW d \in 1..MaxDecisions, NEW i \in 1..MaxActions, Unsafe(log', a, d, i),
             ~Unsafe(log, a, d, i)
      PROVE  started[<<d, i>>] = 0
  <2>1. w.kind = "proposal" /\ w.decision = d
    BY <1>0, <1>1, <1>8, UnsafeAppend
  <2>2. d = AcceptedDecisions(log) + 1 /\ AcceptedDecisions(log) \in Nat
    BY <1>0, <2>1, AcceptedIsNat DEF MayFollow
  <2>3. ASSUME started[<<d, i>>] > 0 PROVE FALSE
    <3>1. <<d, i>> \in DOMAIN started /\ <<d, i>>[1] = d
      BY DEF IInv, Global, Typed
    <3>2. PICK p \in Positions(log, "proposal") : log[p].decision = d
      BY <2>3, <3>1 DEF IInv, Global, Log
    <3>3. log[p].decision <= AcceptedDecisions(log)
      BY <1>0, <3>2 DEF WellFormed
    <3> QED
      BY <2>2, <3>2, <3>3
  <2>4. started[<<d, i>>] \in Nat
    BY DEF IInv, Global, Typed
  <2> QED
    BY <2>3, <2>4
<1>9. Delivered(log) \subseteq Delivered(log')
  BY <1>0, <1>1, DeliveredAppend
<1> QED
  BY <1>0, <1>1, <1>2, <1>3, <1>4, <1>5, <1>6, <1>7, <1>8, <1>9 DEF Kept, Extended

\* What an Attempt has loaded stays a prefix of the log.
LEMMA KeptKnown ==
    ASSUME IInv, NEW a \in Attempts, NEW w, Kept(a, w), seen'[a] = seen[a]
    PROVE  Known(a)'
<1>0. Known(a)
  BY DEF IInv, Local
<1>1. DOMAIN seen[a] \subseteq DOMAIN log /\ Len(seen[a]) \in Nat
  BY <1>0 DEF Known, WellFormed, IInv, Global, Log
<1>2. WellFormed(seen[a])'
  BY <1>0 DEF Known
<1> QED
  BY <1>0, <1>1, <1>2 DEF Known, Kept

\* An Attempt that goes on past a stored checkpoint.
LEMMA AcceptedLocal ==
    ASSUME IInv, NEW a \in Attempts, pc[a] \in Storing, Accepted(a),
           Kept(a, Write(a)), lease' = lease, started' = started
    PROVE  Local(a)'
<1> DEFINE q == queue[a]
           t == Tail(q)
           w == Write(a)
<1>0. /\ AttemptsTyped /\ Local(a) /\ q \in Seq(Checkpts) /\ q # <<>>
      /\ ~boundary[a] /\ \A k \in DOMAIN q : q[k].payload \in {0, a}
  BY TypedParts DEF IInv, Global, AttemptsTyped, Local, Shape
<1>1. /\ t \in Seq(Checkpts) /\ 1 \in DOMAIN q /\ w = q[1]
      /\ \A k \in DOMAIN t : k + 1 \in DOMAIN q /\ t[k] = q[k + 1]
      /\ \A k \in DOMAIN q : k = 1 \/ (k - 1 \in DOMAIN t /\ t[k - 1] = q[k])
      /\ t = <<>> <=> ~(Len(q) > 1)
  BY <1>0, TailFacts DEF Write
<1>2. /\ queue'[a] = t /\ tries'[a] = 0
      /\ seen'[a] = seen[a] /\ failing'[a] = failing[a] /\ boundary'[a] = boundary[a]
      /\ running'[a] = running[a] /\ asked'[a] = asked[a]
      /\ pc'[a] = IF Len(q) > 1 THEN "append" ELSE IF failing[a] THEN "failed_action" ELSE "load"
  BY <1>0 DEF Accepted, Goto, AttemptsTyped
<1>3. \/ pc'[a] = "append" /\ t # <<>>
      \/ pc'[a] = "failed_action" /\ t = <<>>
      \/ pc'[a] = "load" /\ t = <<>> /\ ~failing[a]
  BY <1>1, <1>2
<1> HIDE DEF t
<1>4. Shape(a)'
  <2>1. \A k \in DOMAIN t : t[k].payload \in {0, a}
    BY <1>0, <1>1
  <2> QED
    BY <1>0, <1>2, <1>3, <2>1 DEF Shape, Knowing, Storing
<1>5. Known(a)'
  BY <1>2, KeptKnown
<1>6. Holder(a)'
  <2>1. lease = a => Fits(log', t)
    BY DEF Kept, t
  <2>2. Fits(log, queue[a])' <=> Fits(log', t)
    BY <1>2
  <2> QED
    BY <1>2, <1>3, <2>1, <2>2 DEF Holder, Knowing, Storing
<1>7. Informed(a)'
  <2> SUFFICES ASSUME lease = a PROVE Informed(a)'
    BY DEF Informed
  <2>1. Delivered(log) \subseteq Delivered(log')
    BY DEF Kept
  <2>2. \A k \in DOMAIN t : t[k].kind \in {"proposal", "final"} => asked[a] \subseteq Delivered(log)
    BY <1>0, <1>1 DEF Local, Informed
  <2> QED
    BY <1>2, <1>3, <2>1, <2>2 DEF Informed
<1>8. Closed(a)'
  <2> SUFFICES ASSUME lease = a, NEW i \in PendingActions(log')
               PROVE  \/ LastProposal(log').payload = a
                      \/ LastProposal(log').batch[i] \in ReplaySafe
                      \/ \E k \in DOMAIN t : /\ t[k].kind = "result"
                                             /\ t[k].decision = LastProposal(log').decision
                                             /\ t[k].index = i
    <3>1. t = <<>> => ~ \E k \in DOMAIN t : TRUE
      OBVIOUS
    <3> QED
      BY <1>2, <1>3, <3>1 DEF Closed, Knowing, Storing, NoneUnknown
  <2>1. CASE LastProposal(log').payload = a
    BY <2>1
  <2>2. CASE /\ i \in PendingActions(log) /\ LastProposal(log') = LastProposal(log)
             /\ ~(/\ w.kind = "result" /\ w.decision = LastProposal(log).decision
                  /\ w.index = i)
    <3>1. \/ LastProposal(log).payload = a
          \/ LastProposal(log).batch[i] \in ReplaySafe
          \/ \E k \in DOMAIN q : /\ q[k].kind = "result"
                                 /\ q[k].decision = LastProposal(log).decision
                                 /\ q[k].index = i
      BY <1>0, <2>2 DEF Local, Closed
    <3>2. ASSUME NEW k \in DOMAIN q, q[k].kind = "result",
                 q[k].decision = LastProposal(log).decision, q[k].index = i
          PROVE  k - 1 \in DOMAIN t /\ t[k - 1] = q[k]
      BY <1>1, <2>2, <3>2
    <3> QED
      BY <2>2, <3>1, <3>2
  <2> QED
    BY <2>1, <2>2 DEF Kept
<1>9. Mine(a)'
  <2> SUFFICES ASSUME NEW d \in 1..MaxDecisions, NEW i \in 1..MaxActions, Unsafe(log', a, d, i)
               PROVE  /\ started[<<d, i>>] <= 1
                      /\ started[<<d, i>>] = 1 => Past(a, d, i)'
    BY DEF Mine
  <2>1. CASE started[<<d, i>>] = 0
    BY <2>1
  <2>2. CASE Unsafe(log, a, d, i)
    <3>1. started[<<d, i>>] <= 1 /\ (started[<<d, i>>] = 1 => Past(a, d, i))
      BY <1>0, <2>2 DEF Local, Mine
    <3>2. ASSUME Past(a, d, i) PROVE Past(a, d, i)'
      <4>1. \/ failing[a]
            \/ HasResult(log, d, i)
            \/ \E k \in DOMAIN q : q[k].kind = "result" /\ q[k].decision = d /\ q[k].index = i
        BY <3>2 DEF Past
      <4>2. HasResult(log, d, i) => HasResult(log', d, i)
        BY DEF Kept
      <4>3. ASSUME NEW k \in DOMAIN q, q[k].kind = "result", q[k].decision = d, q[k].index = i
            PROVE  HasResult(log', d, i) \/ (k - 1 \in DOMAIN t /\ t[k - 1] = q[k])
        BY <1>1, <4>3 DEF Kept
      <4>4. \/ failing[a]
            \/ HasResult(log', d, i)
            \/ \E k \in DOMAIN t : t[k].kind = "result" /\ t[k].decision = d /\ t[k].index = i
        BY <4>1, <4>2, <4>3
      <4>5. t = <<>> => (failing[a] \/ HasResult(log', d, i))
        BY <4>4
      <4> QED
        BY <1>2, <1>3, <4>4, <4>5 DEF Past, Knowing, Storing
    <3> QED
      BY <3>1, <3>2
  <2> QED
    BY <2>1, <2>2 DEF Kept
<1> QED
  BY <1>4, <1>5, <1>6, <1>7, <1>8, <1>9 DEF Local

\* A checkpoint found in the log.
LEMMA FoundStep ==
    ASSUME IInv, Typed', NEW a \in Attempts, pc[a] \in Storing, Accepted(a),
           NEW i \in Stored(Write(a)), log[i] = Write(a),
           UNCHANGED <<rows, log, inFlight, started>>
    PROVE  IInv'
<1>0. /\ AttemptsTyped /\ queue[a] # <<>> /\ queue[a] \in Seq(Checkpts) /\ Log /\ Flight
      /\ i \in DOMAIN log /\ WellFormed(log)
  BY TypedParts DEF IInv, Global, Local, Shape, Log, AttemptsTyped, Stored
<1>1. Kept(a, Write(a))
  BY <1>0, KeptBefore
<1>2. Local(a)'
  BY <1>1, AcceptedLocal DEF rows
<1>3. Others(a)
  BY <1>0 DEF Accepted, Goto, Others, Same, SameStarted, AttemptsTyped
<1>4. inFlight # a
  <2> SUFFICES ASSUME inFlight = a PROVE FALSE
    OBVIOUS
  <2>1. MayFollow(log, Write(a))
    BY <1>0, CheckpointsAssumption DEF Flight, NoWrite, Attempts
  <2>2. Write(a) \in Checkpts
    BY <1>0, TailFacts DEF Write
  <2> QED
    BY <1>0, <2>1, <2>2, FreshIdentity
<1>5. pc'[a] \in {"append", "failed_action", "load"} /\ pc[a] # "none"
  BY <1>0 DEF Accepted, Goto, AttemptsTyped, Storing
<1>6. \A id \in DOMAIN started' :
         started'[id] > 0 => \E p \in Positions(log, "proposal") : log[p].decision = id[1]
  BY <1>0 DEF Log
<1> QED
  BY <1>2, <1>3, <1>4, <1>5, <1>6, QuietStep

LEMMA AppendExistingStep ==
    ASSUME IInv, Typed', NEW a \in Attempts, AppendExisting(a) PROVE IInv'
<1>1. /\ pc[a] = "append" /\ lease = a /\ pc[a] \in Storing /\ pc[a] # "none"
      /\ UNCHANGED <<rows, log, inFlight, started>>
  BY DEF AppendExisting, Authority, Storing
<1>2. PICK i \in Stored(Write(a)) : IF log[i] = Write(a) THEN Accepted(a) ELSE Leave(a, "invalid")
  BY DEF AppendExisting
<1>3. log[i] = Write(a)
  BY <1>1, HolderFits
<1> QED
  BY <1>1, <1>2, <1>3, FoundStep

\* Only the position and the tries change: a lost answer is tried once more.
LEMMA RetryStep ==
    ASSUME IInv, Typed', NEW a \in Attempts,
           \/ pc[a] = "reconcile" /\ Goto(a, IF tries[a] = 0 THEN "append" ELSE "error")
           \/ pc[a] = "reconcile_publish" /\ Goto(a, IF tries[a] = 0 THEN "publish" ELSE "error"),
           tries' = [tries EXCEPT ![a] = @ + 1],
           UNCHANGED <<seen, queue, failing, boundary, running, asked>>,
           UNCHANGED <<rows, log, inFlight, started>>
    PROVE  IInv'
<1>0. AttemptsTyped /\ Log /\ Local(a)
  BY TypedParts DEF IInv, Global
<1>1. /\ \/ pc[a] = "reconcile" /\ pc'[a] \in {"append", "error"}
         \/ pc[a] = "reconcile_publish" /\ pc'[a] \in {"publish", "error"}
      /\ pc'[a] # "error" => tries'[a] = 1
      /\ pc' = [pc EXCEPT ![a] = pc'[a]]
  BY <1>0 DEF Goto, AttemptsTyped
<1>2. Others(a)
  BY <1>0, <1>1 DEF Others, Same, SameStarted, AttemptsTyped
<1>3. Shape(a)'
  BY <1>0, <1>1 DEF Local, Shape, Knowing, Storing
<1>4. Known(a)'
  <2>1. WellFormed(seen[a])'
    BY <1>0 DEF Local, Known
  <2> QED
    BY <1>0, <2>1 DEF Local, Known
<1>5. Holder(a)'
  <2>1. UNCHANGED Write(a)
    BY DEF Write
  <2> QED
    BY <1>0, <1>1, <2>1 DEF Local, Holder, rows, Knowing, Storing
<1>6. Informed(a)'
  BY <1>0, <1>1 DEF Local, Informed, rows
<1>7. Closed(a)'
  BY <1>0, <1>1 DEF Local, Closed, rows, Knowing, Storing, Recovering
<1>8. Mine(a)'
  BY <1>0, <1>1 DEF Local, Mine, Past, Knowing, Storing
<1>9. \A id \in DOMAIN started' :
         started'[id] > 0 => \E p \in Positions(log, "proposal") : log[p].decision = id[1]
  BY <1>0 DEF Log
<1> QED
  BY <1>1, <1>2, <1>3, <1>4, <1>5, <1>6, <1>7, <1>8, <1>9, QuietStep DEF Local, Knowing

LEMMA ReconcileStep ==
    ASSUME IInv, Typed', NEW a \in Attempts, Reconcile(a) PROVE IInv'
<1>1. /\ pc[a] = "reconcile" /\ pc[a] \in Storing /\ pc[a] # "none"
      /\ UNCHANGED <<rows, log, inFlight, started>>
  BY DEF Reconcile, Storing
<1>2. ASSUME NEW i \in Stored(Write(a)),
             IF log[i] = Write(a) THEN Accepted(a) ELSE Leave(a, "invalid")
      PROVE  IInv'
  <2>1. CASE log[i] = Write(a)
    BY <1>1, <1>2, <2>1, FoundStep
  <2>2. CASE log[i] # Write(a)
    <3>1. lease # a
      BY <1>1, <2>2, HolderFits
    <3> QED
      BY <1>1, <1>2, <2>2, <3>1, LeaveStep DEF Dead
  <2> QED
    BY <2>1, <2>2
<1>3. CASE Leave(a, "stopped")
  BY <1>1, <1>3, LeaveStep DEF Dead
<1>4. CASE /\ tries' = [tries EXCEPT ![a] = @ + 1]
           /\ Goto(a, IF tries[a] = 0 THEN "append" ELSE "error")
           /\ UNCHANGED <<seen, queue, failing, boundary, running, asked>>
  BY <1>1, <1>4, RetryStep
<1> QED
  BY <1>2, <1>3, <1>4 DEF Reconcile

LEMMA ReconcilePublishStep ==
    ASSUME IInv, Typed', NEW a \in Attempts, ReconcilePublish(a) PROVE IInv'
<1>1. /\ pc[a] = "reconcile_publish" /\ pc[a] # "none"
      /\ UNCHANGED <<rows, log, inFlight, started>>
  BY DEF ReconcilePublish
<1>2. CASE run = "completed" /\ Leave(a, "completed")
  BY <1>1, <1>2, LeaveStep DEF Dead
<1>3. CASE Leave(a, "stopped")
  BY <1>1, <1>3, LeaveStep DEF Dead
<1>4. CASE /\ tries' = [tries EXCEPT ![a] = @ + 1]
           /\ Goto(a, IF tries[a] = 0 THEN "publish" ELSE "error")
           /\ UNCHANGED <<seen, queue, failing, boundary, running, asked>>
  BY <1>1, <1>4, RetryStep
<1> QED
  BY <1>2, <1>3, <1>4 DEF ReconcilePublish

\* Refusals, interruptions and returned errors only leave.
LEMMA GiveUpStep ==
    ASSUME IInv, Typed', NEW a \in Attempts,
           \/ AppendRefused(a) \/ PublishRefused(a) \/ ReturnToolError(a)
           \/ \E where \in Exits : Interrupt(a, where)
    PROVE  IInv'
<1>1. CASE AppendRefused(a)
  BY <1>1, LeaveStep DEF AppendRefused, Dead
<1>2. CASE PublishRefused(a)
  BY <1>2, LeaveStep DEF PublishRefused, Dead
<1>3. CASE ReturnToolError(a)
  BY <1>3, LeaveStep DEF ReturnToolError, Dead
<1>4. ASSUME NEW where \in Exits, Interrupt(a, where) PROVE IInv'
  BY <1>4, LeaveStep DEF Interrupt, Exits, Dead, Working
<1> QED
  BY <1>1, <1>2, <1>3, <1>4

\* The prefix an Attempt loads is the whole log.
LEMMA LoadStep ==
    ASSUME IInv, Typed', NEW a \in Attempts, Load(a) PROVE IInv'
<1>0. /\ AttemptsTyped /\ Log /\ Fence /\ Local(a) /\ WellFormed(log) /\ Len(log) \in Nat
      /\ pc[a] = "load" /\ inFlight # a /\ UNCHANGED <<rows, log, inFlight, started>>
  BY TypedParts, CheckpointsAssumption
     DEF IInv, Global, Load, Log, WellFormed, Unlocked, NoWrite, Attempts
<1>1. CASE ~Authority(a)
  <2>1. Leave(a, "stopped")
    BY <1>1 DEF Load, Leave
  <2> QED
    BY <1>0, <2>1, LeaveStep DEF Dead
<1>2. CASE Authority(a)
  <2>1. /\ lease = a /\ seen'[a] = log /\ pc'[a] = "decide"
        /\ seen' = [seen EXCEPT ![a] = log] /\ pc' = [pc EXCEPT ![a] = "decide"]
        /\ UNCHANGED <<queue, tries, failing, boundary, running, asked>>
    BY <1>0, <1>2 DEF Load, Goto, Authority, AttemptsTyped
  <2>2. Others(a)
    BY <1>0, <2>1 DEF Others, Same, SameStarted, AttemptsTyped
  <2>3. Shape(a)'
    BY <1>0, <2>1 DEF Local, Shape, Knowing, Storing
  <2>4. Known(a)'
    <3>1. a = attemptNo
      BY <1>0, <2>1, CheckpointsAssumption DEF Fence, Attempts
    <3>2. WellFormed(seen'[a])
      BY <1>0, <2>1
    <3>3. \A i \in DOMAIN log : log[i].payload <= a
      BY <1>0, <3>1 DEF Log
    <3> QED
      BY <1>0, <2>1, <3>2, <3>3 DEF Known
  <2>5. Holder(a)'
    BY <1>0, <2>1 DEF Holder, Knowing, Storing
  <2>6. Informed(a)'
    BY <1>0, <2>1 DEF Local, Informed, Shape, rows
  <2>7. Closed(a)'
    <3>1. ~Recovering(a) => NoneUnknown(log, a)
      BY <1>0, <2>1 DEF Local, Closed
    <3> QED
      BY <1>0, <2>1, <3>1 DEF Closed, Knowing, Storing, Recovering
  <2>8. Mine(a)'
    <3> SUFFICES ASSUME NEW d \in 1..MaxDecisions, NEW i \in 1..MaxActions, Unsafe(log, a, d, i)
                 PROVE  /\ started[<<d, i>>] <= 1
                        /\ started[<<d, i>>] = 1 => Past(a, d, i)'
      BY <1>0 DEF Mine
    <3>1. started[<<d, i>>] <= 1 /\ (started[<<d, i>>] = 1 => Past(a, d, i))
      BY <1>0 DEF Local, Mine
    <3>2. Past(a, d, i) => HasResult(log, d, i)
      BY <1>0 DEF Past
    <3>3. HasResult(log, d, i) => Past(a, d, i)'
      BY <2>1 DEF Past, Knowing, Storing
    <3> QED
      BY <3>1, <3>2, <3>3
  <2>9. \A id \in DOMAIN started' :
           started'[id] > 0 => \E p \in Positions(log, "proposal") : log[p].decision = id[1]
    BY <1>0 DEF Log
  <2> QED
    BY <1>0, <2>1, <2>2, <2>3, <2>4, <2>5, <2>6, <2>7, <2>8, <2>9, QuietStep DEF Local
<1> QED
  BY <1>1, <1>2

\* An Attempt that knows the log moves on, with nothing but its position and tries.
LEMMA AdvanceStep ==
    ASSUME IInv, Typed', NEW a \in Attempts,
           \/ pc[a] = "decide" /\ HasFinal(seen[a]) /\ Goto(a, "publish")
           \/ pc[a] = "model" /\ Goto(a, "thinking")
           \/ pc[a] = "thinking" /\ Goto(a, "decided"),
           inFlight # a,
           tries' = tries \/ tries' = [tries EXCEPT ![a] = 0],
           pc'[a] = "publish" => tries'[a] = 0,
           UNCHANGED <<seen, queue, failing, boundary, running, asked>>,
           UNCHANGED <<rows, log, inFlight, started>>
    PROVE  IInv'
<1>0. AttemptsTyped /\ Log /\ Local(a)
  BY TypedParts DEF IInv, Global
<1>1. /\ \/ pc[a] = "decide" /\ pc'[a] = "publish"
         \/ pc[a] = "model" /\ pc'[a] = "thinking"
         \/ pc[a] = "thinking" /\ pc'[a] = "decided"
      /\ pc' = [pc EXCEPT ![a] = pc'[a]]
  BY <1>0 DEF Goto, AttemptsTyped
<1>2. Others(a)
  BY <1>0, <1>1 DEF Others, Same, SameStarted, AttemptsTyped
<1>3. Shape(a)'
  BY <1>0, <1>1 DEF Local, Shape, Knowing, Storing
<1>4. Known(a)'
  <2>1. WellFormed(seen[a])'
    BY <1>0 DEF Local, Known
  <2> QED
    BY <1>0, <2>1 DEF Local, Known
<1>5. Holder(a)'
  BY <1>0, <1>1 DEF Local, Holder, rows, Knowing, Storing
<1>6. Informed(a)'
  BY <1>0, <1>1 DEF Local, Informed, rows
<1>7. Closed(a)'
  BY <1>0, <1>1 DEF Local, Closed, rows, Knowing, Storing, Recovering
<1>8. Mine(a)'
  BY <1>0, <1>1 DEF Local, Mine, Past, Knowing, Storing
<1>9. \A id \in DOMAIN started' :
         started'[id] > 0 => \E p \in Positions(log, "proposal") : log[p].decision = id[1]
  BY <1>0 DEF Log
<1> QED
  BY <1>1, <1>2, <1>3, <1>4, <1>5, <1>6, <1>7, <1>8, <1>9, QuietStep DEF Local, Knowing

\* No undecided commit is a's when it is at a position a commit does not leave it.
LEMMA NotInFlight ==
    ASSUME IInv, NEW a \in Attempts,
           pc[a] \in (Knowing \ {"publish", "reconcile_publish"}) \cup {"load"}
    PROVE  inFlight # a
  BY CheckpointsAssumption DEF IInv, Global, Flight, NoWrite, Attempts

LEMMA StartPublishStep ==
    ASSUME IInv, Typed', NEW a \in Attempts, StartPublish(a) PROVE IInv'
<1>1. AttemptsTyped
  BY TypedParts DEF IInv, Global
<1>2. inFlight # a
  BY NotInFlight DEF StartPublish, Knowing
<1>3. tries'[a] = 0
  BY <1>1 DEF StartPublish, AttemptsTyped
<1> QED
  BY <1>2, <1>3, AdvanceStep DEF StartPublish

LEMMA CheckAuthorityStep ==
    ASSUME IInv, Typed', NEW a \in Attempts,
           CheckAuthority(a, "model", "thinking") \/ CheckAuthority(a, "thinking", "decided")
    PROVE  IInv'
<1>1. AttemptsTyped /\ pc[a] \in {"model", "thinking"} /\ pc[a] # "none"
      /\ UNCHANGED <<rows, log, inFlight, started>>
  BY TypedParts DEF IInv, Global, CheckAuthority
<1>2. inFlight # a
  BY <1>1, NotInFlight DEF Knowing
<1>3. CASE Leave(a, "stopped")
  BY <1>1, <1>3, LeaveStep DEF Dead
<1>4. CASE \/ pc[a] = "model" /\ Leave(a, "thinking")
           \/ pc[a] = "thinking" /\ Leave(a, "decided")
  <2>1. pc'[a] # "publish"
    BY <1>1, <1>4 DEF Leave, Goto, AttemptsTyped
  <2> QED
    BY <1>1, <1>2, <1>4, <2>1, AdvanceStep DEF Leave
<1> QED
  BY <1>3, <1>4 DEF CheckAuthority

\* A result an Attempt has loaded is in the log.
LEMMA LoadedResult ==
    ASSUME IInv, NEW a \in Attempts, NEW d, NEW i, HasResult(seen[a], d, i)
    PROVE  HasResult(log, d, i)
<1>1. /\ Len(seen[a]) <= Len(log) /\ Len(seen[a]) \in Nat /\ Len(log) \in Nat
      /\ DOMAIN seen[a] = 1..Len(seen[a]) /\ DOMAIN log = 1..Len(log)
      /\ \A j \in DOMAIN seen[a] : seen[a][j] = log[j]
  BY DEF IInv, Global, Log, Local, Known, WellFormed
<1>2. PICK p \in DOMAIN seen[a] : /\ seen[a][p].kind = "result"
                                  /\ seen[a][p].decision = d /\ seen[a][p].index = i
  BY DEF HasResult, Positions
<1> QED
  BY <1>1, <1>2 DEF HasResult, Positions

\* Results of different pending Actions fit.
LEMMA FitsResults ==
    ASSUME NEW l, WellFormed(l), NEW S, S \subseteq PendingActions(l),
           S \in SUBSET Int, IsFiniteSet(S), NEW s \in InOrder(S),
           NEW q \in Seq(Checkpts), DOMAIN q = DOMAIN s,
           \A k \in DOMAIN q : /\ q[k].kind = "result" /\ q[k].index = s[k]
                               /\ q[k].decision = LastProposal(l).decision
    PROVE  Fits(l, q)
<1>1. /\ \A k \in DOMAIN s : s[k] \in S
      /\ \A j, k \in DOMAIN s : s[j] = s[k] => j = k
  BY InOrderFacts
<1>2. ASSUME NEW k \in DOMAIN q PROVE MayFollow(l, q[k])
  <2>1. q[k].index \in PendingActions(l)
    BY <1>1, <1>2
  <2>2. Positions(l, "final") = {} /\ Positions(l, "proposal") # {}
    BY <2>1 DEF WellFormed, PendingActions
  <2> QED
    BY <2>1, <2>2 DEF MayFollow
<1>3. ASSUME NEW k \in DOMAIN q, NEW j \in DOMAIN q \ {k} PROVE Identity(q[j]) # Identity(q[k])
  <2>1. q[j].index # q[k].index
    BY <1>1, <1>3
  <2> QED
    BY <2>1 DEF Identity
<1> QED
  BY <1>2, <1>3 DEF Fits

LEMMA CloseUnknownStep ==
    ASSUME IInv, Typed', NEW a \in Attempts, CloseUnknown(a) PROVE IInv'
<1> DEFINE d0 == LastProposal(seen[a]).decision
           U == UnknownActions(a)
<1>0. /\ AttemptsTyped /\ Log /\ Local(a) /\ pc[a] = "decide" /\ a > 1
      /\ WellFormed(seen[a]) /\ UNCHANGED <<rows, log, inFlight, started>>
  BY TypedParts DEF IInv, Global, Local, Known, CloseUnknown, Recovering
<1>1. PICK s \in InOrder(U), q \in Seq(Checkpts) :
         /\ queue' = [queue EXCEPT ![a] = q]
         /\ Goto(a, IF q = <<>> THEN "decide" ELSE "append")
         /\ q = <<>> <=> U = {}
         /\ DOMAIN q = DOMAIN s
         /\ \A k \in DOMAIN q : q[k] = Interrupted(d0, s[k])
         /\ U \in SUBSET Int /\ IsFiniteSet(U)
  BY CloseUnknownQueue
<1>2. /\ queue'[a] = q /\ tries'[a] = 0 /\ boundary'[a] = FALSE
      /\ pc'[a] = IF q = <<>> THEN "decide" ELSE "append"
      /\ pc' = [pc EXCEPT ![a] = pc'[a]]
      /\ tries' = [tries EXCEPT ![a] = 0] /\ boundary' = [boundary EXCEPT ![a] = FALSE]
      /\ UNCHANGED <<seen, failing, running, asked>>
  BY <1>0, <1>1 DEF CloseUnknown, Enqueue, Goto, AttemptsTyped
<1>3. \A k \in DOMAIN q : /\ q[k].kind = "result" /\ q[k].index = s[k]
                          /\ q[k].decision = d0 /\ q[k].payload = 0
  BY <1>1 DEF Interrupted, Checkpoint
<1>4. Others(a)
  BY <1>0, <1>1, <1>2 DEF Others, Same, SameStarted, AttemptsTyped
<1>5. Shape(a)'
  BY <1>0, <1>2, <1>3 DEF Local, Shape, Knowing, Storing
<1>6. Known(a)'
  <2>1. WellFormed(seen[a])'
    BY <1>0, <1>2
  <2> QED
    BY <1>0, <1>2, <2>1 DEF Local, Known
<1>7. lease = a => seen[a] = log
  BY <1>0 DEF Local, Holder, Knowing
<1>8. Holder(a)'
  <2>1. Fits(seen[a], q)
    BY <1>0, <1>1, <1>3, FitsResults DEF UnknownActions
  <2>2. lease = a /\ pc'[a] \in Storing => Fits(log', queue'[a])
    BY <1>0, <1>2, <1>7, <2>1
  <2>3. Fits(log, queue[a])' <=> Fits(log', queue'[a])
    OBVIOUS
  <2> QED
    BY <1>0, <1>2, <1>7, <2>2, <2>3 DEF Holder, rows
<1>9. Informed(a)'
  BY <1>2, <1>3 DEF Informed
<1>10. \A i \in PendingActions(seen[a]) :
          LastProposal(seen[a]).batch[i] \in ReplaySafe \/ i \in U
  BY DEF UnknownActions
<1>11. Closed(a)'
  <2>1. CASE q = <<>>
    <3>1. NoneUnknown(seen[a], a)
      BY <1>1, <1>10, <2>1 DEF NoneUnknown
    <3> QED
      BY <1>2, <2>1, <3>1 DEF Closed, Knowing, Storing
  <2>2. CASE q # <<>>
    <3>1. ASSUME NEW i \in U
          PROVE  \E k \in DOMAIN q : /\ q[k].kind = "result" /\ q[k].decision = d0
                                     /\ q[k].index = i
      BY <1>1, <1>3, <3>1, InOrderFacts
    <3>2. \A i \in PendingActions(seen[a]) :
             \/ LastProposal(seen[a]).batch[i] \in ReplaySafe
             \/ \E k \in DOMAIN q : /\ q[k].kind = "result" /\ q[k].decision = d0
                                    /\ q[k].index = i
      BY <1>10, <3>1
    <3> QED
      BY <1>0, <1>2, <1>7, <2>2, <3>2 DEF Closed, Knowing, Storing, rows
  <2> QED
    BY <2>1, <2>2
<1>12. Mine(a)'
  <2> SUFFICES ASSUME NEW d \in 1..MaxDecisions, NEW i \in 1..MaxActions, Unsafe(log, a, d, i)
               PROVE  /\ started[<<d, i>>] <= 1
                      /\ started[<<d, i>>] = 1 => Past(a, d, i)'
    BY <1>0 DEF Mine
  <2>1. started[<<d, i>>] <= 1 /\ (started[<<d, i>>] = 1 => Past(a, d, i))
    BY <1>0 DEF Local, Mine
  <2>2. Past(a, d, i) => HasResult(seen[a], d, i)
    BY <1>0 DEF Past, Knowing
  <2>3. HasResult(seen[a], d, i) => Past(a, d, i)'
    BY <1>0, <1>2, LoadedResult DEF Past, Knowing, Storing
  <2> QED
    BY <2>1, <2>2, <2>3
<1>13. inFlight # a
  BY <1>0, NotInFlight DEF Knowing
<1>14. \A id \in DOMAIN started' :
          started'[id] > 0 => \E p \in Positions(log, "proposal") : log[p].decision = id[1]
  BY <1>0 DEF Log
<1> QED
  BY <1>0, <1>2, <1>4, <1>5, <1>6, <1>8, <1>9, <1>11, <1>12, <1>13, <1>14, QuietStep DEF Local

\* What an Attempt has loaded does not change with its other variables.
LEMMA SameKnown ==
    ASSUME IInv, NEW a \in Attempts, log' = log, seen'[a] = seen[a]
    PROVE  Known(a)'
<1>0. Local(a)
  BY DEF IInv
<1>1. WellFormed(seen[a])'
  BY <1>0 DEF Local, Known
<1> QED
  BY <1>0, <1>1 DEF Local, Known

LEMMA FinishActionsStep ==
    ASSUME IInv, Typed', NEW a \in Attempts, NEW ok \in SUBSET running[a], FinishActions(a, ok)
    PROVE  IInv'
<1> DEFINE d0 == LastProposal(seen[a]).decision
<1>0. /\ AttemptsTyped /\ Log /\ Local(a) /\ pc[a] = "executing" /\ ~boundary[a]
      /\ running[a] \subseteq PendingActions(seen[a])
      /\ WellFormed(seen[a]) /\ UNCHANGED <<rows, log, inFlight, started>>
  BY TypedParts DEF IInv, Global, Local, Known, Shape, FinishActions
<1>1. PICK s \in InOrder(ok), q \in Seq(Checkpts) :
         /\ queue' = [queue EXCEPT ![a] = q]
         /\ Goto(a, IF q = <<>> THEN "failed_action" ELSE "append")
         /\ q = <<>> <=> ok = {}
         /\ DOMAIN q = DOMAIN s
         /\ \A k \in DOMAIN q : q[k] = Result(d0, s[k], a)
         /\ ok \in SUBSET Int /\ IsFiniteSet(ok)
  BY FinishActionsQueue
<1>2. /\ queue'[a] = q /\ tries'[a] = 0 /\ failing'[a] = (ok # running[a])
      /\ pc'[a] = IF q = <<>> THEN "failed_action" ELSE "append"
      /\ pc' = [pc EXCEPT ![a] = pc'[a]]
      /\ tries' = [tries EXCEPT ![a] = 0]
      /\ failing' = [failing EXCEPT ![a] = ok # running[a]]
      /\ running' = [running EXCEPT ![a] = {}]
      /\ UNCHANGED <<seen, boundary, asked>>
  BY <1>0, <1>1 DEF FinishActions, Enqueue, Goto, AttemptsTyped
<1>3. \A k \in DOMAIN q : /\ q[k].kind = "result" /\ q[k].index = s[k]
                          /\ q[k].decision = d0 /\ q[k].payload = a
  BY <1>1 DEF Result, Checkpoint
<1>4. Others(a)
  BY <1>0, <1>1, <1>2 DEF Others, Same, SameStarted, AttemptsTyped
<1>5. Shape(a)'
  BY <1>0, <1>2, <1>3 DEF Local, Shape, Knowing, Storing
<1>6. Known(a)'
  BY <1>0, <1>2, SameKnown
<1>7. lease = a => seen[a] = log
  BY <1>0 DEF Local, Holder, Knowing
<1>8. Holder(a)'
  <2>1. Fits(seen[a], q)
    <3>1. ok \subseteq PendingActions(seen[a])
      BY <1>0
    <3>2. WellFormed(seen[a]) /\ ok \in SUBSET Int /\ IsFiniteSet(ok) /\ DOMAIN q = DOMAIN s
      BY <1>0, <1>1
    <3>3. \A k \in DOMAIN q : /\ q[k].kind = "result" /\ q[k].index = s[k]
                              /\ q[k].decision = LastProposal(seen[a]).decision
      BY <1>3
    <3> QED
      BY <3>1, <3>2, <3>3, FitsResults
  <2>2. lease = a /\ pc'[a] \in Storing => Fits(log', queue'[a])
    BY <1>0, <1>2, <1>7, <2>1
  <2>3. Fits(log, queue[a])' <=> Fits(log', queue'[a])
    OBVIOUS
  <2> QED
    BY <1>0, <1>2, <1>7, <2>2, <2>3 DEF Holder, Knowing, rows
<1>9. Informed(a)'
  BY <1>2, <1>3 DEF Informed
<1>10. Closed(a)'
  <2>1. NoneUnknown(seen[a], a)
    BY <1>0 DEF Local, Closed, Knowing, Recovering
  <2> QED
    BY <1>0, <1>2, <1>7, <2>1 DEF Closed, Knowing, Storing, rows, NoneUnknown
<1>11. Mine(a)'
  <2> SUFFICES ASSUME NEW d \in 1..MaxDecisions, NEW i \in 1..MaxActions, Unsafe(log, a, d, i)
               PROVE  /\ started[<<d, i>>] <= 1
                      /\ started[<<d, i>>] = 1 => Past(a, d, i)'
    BY <1>0 DEF Mine
  <2>1. started[<<d, i>>] <= 1 /\ (started[<<d, i>>] = 1 => Past(a, d, i))
    BY <1>0 DEF Local, Mine
  <2>2. Past(a, d, i) => HasResult(seen[a], d, i) \/ (i \in running[a] /\ d0 = d)
    BY <1>0 DEF Past, Knowing
  <2>3. HasResult(seen[a], d, i) => Past(a, d, i)'
    BY <1>0, <1>2, LoadedResult DEF Past, Knowing, Storing
  <2>4. ASSUME i \in running[a], d0 = d PROVE Past(a, d, i)'
    <3>1. CASE ok # running[a]
      BY <1>2, <3>1 DEF Past, Knowing, Storing
    <3>2. CASE ok = running[a]
      <4>1. \E k \in DOMAIN q : q[k].kind = "result" /\ q[k].decision = d /\ q[k].index = i
        <5>1. PICK k \in DOMAIN s : s[k] = i
          BY <1>1, <2>4, <3>2, InOrderFacts
        <5> QED
          BY <1>1, <1>3, <2>4, <5>1
      <4> QED
        BY <1>2, <4>1 DEF Past, Knowing, Storing
    <3> QED
      BY <3>1, <3>2
  <2> QED
    BY <2>1, <2>2, <2>3, <2>4
<1>12. inFlight # a
  BY <1>0, NotInFlight DEF Knowing
<1>13. \A id \in DOMAIN started' :
          started'[id] > 0 => \E p \in Positions(log, "proposal") : log[p].decision = id[1]
  BY <1>0 DEF Log
<1> QED
  BY <1>0, <1>2, <1>4, <1>5, <1>6, <1>8, <1>9, <1>10, <1>11, <1>12, <1>13, QuietStep DEF Local

LEMMA ReadSteeringStep ==
    ASSUME IInv, Typed', NEW a \in Attempts, ReadSteering(a) PROVE IInv'
<1> DEFINE d0 == AcceptedDecisions(seen[a]) + 1
<1>0. /\ AttemptsTyped /\ Log /\ Local(a) /\ pc[a] = "decide"
      /\ ~HasFinal(seen[a]) /\ PendingActions(seen[a]) = {}
      /\ UNCHANGED <<rows, log, inFlight, started>>
      /\ \A i, j \in DOMAIN steering : steering[i].msg = steering[j].msg => i = j
  BY TypedParts DEF IInv, Global, ReadSteering, Typed
<1>1. PICK s \in InOrder(Undelivered), q \in Seq(Checkpts) :
         /\ queue' = [queue EXCEPT ![a] = q]
         /\ Goto(a, IF q = <<>> THEN "model" ELSE "append")
         /\ q = <<>> <=> Undelivered = {}
         /\ DOMAIN q = DOMAIN s
         /\ \A k \in DOMAIN q : q[k] = Steer(d0, steering[s[k]].msg)
         /\ Undelivered \in SUBSET Int /\ IsFiniteSet(Undelivered)
  BY ReadSteeringQueue
<1>2. /\ queue'[a] = q /\ tries'[a] = 0 /\ boundary'[a] = FALSE /\ asked'[a] = Sent
      /\ pc'[a] = IF q = <<>> THEN "model" ELSE "append"
      /\ pc' = [pc EXCEPT ![a] = pc'[a]]
      /\ tries' = [tries EXCEPT ![a] = 0] /\ boundary' = [boundary EXCEPT ![a] = FALSE]
      /\ asked' = [asked EXCEPT ![a] = Sent]
      /\ UNCHANGED <<seen, failing, running>>
  BY <1>0, <1>1 DEF ReadSteering, Enqueue, Goto, AttemptsTyped
<1>3. \A k \in DOMAIN q : /\ q[k].kind = "steering" /\ q[k].msg = steering[s[k]].msg
                          /\ q[k].decision = d0 /\ q[k].payload = 0
  BY <1>1 DEF Steer, Checkpoint
<1>4. Others(a)
  BY <1>0, <1>1, <1>2 DEF Others, Same, SameStarted, AttemptsTyped
<1>5. Shape(a)'
  BY <1>0, <1>2, <1>3 DEF Local, Shape, Knowing, Storing
<1>6. Known(a)'
  BY <1>0, <1>2, SameKnown
<1>7. lease = a => seen[a] = log
  BY <1>0 DEF Local, Holder, Knowing
<1>8. /\ \A k \in DOMAIN s : s[k] \in DOMAIN steering /\ steering[s[k]].msg \notin Delivered(log)
      /\ \A j, k \in DOMAIN s : s[j] = s[k] => j = k
  BY <1>1, InOrderFacts DEF Undelivered
<1>9. ASSUME lease = a PROVE Fits(log, q)
  <2>1. ASSUME NEW k \in DOMAIN q PROVE MayFollow(log, q[k])
    BY <1>0, <1>1, <1>3, <1>7, <1>8, <1>9, <2>1 DEF MayFollow, HasFinal
  <2>2. ASSUME NEW k \in DOMAIN q, NEW j \in DOMAIN q \ {k} PROVE Identity(q[j]) # Identity(q[k])
    <3>1. q[j].msg # q[k].msg
      BY <1>0, <1>1, <1>3, <1>8, <2>2
    <3> QED
      BY <3>1 DEF Identity
  <2> QED
    BY <1>3, <2>1, <2>2 DEF Fits
<1>10. Holder(a)'
  <2>1. Fits(log, queue[a])' <=> Fits(log', queue'[a])
    OBVIOUS
  <2> QED
    BY <1>0, <1>2, <1>7, <1>9, <2>1 DEF Holder, Knowing, rows
<1>11. Informed(a)'
  <2>1. ASSUME q = <<>> PROVE Sent \subseteq Delivered(log)
    BY <1>1, <2>1 DEF Undelivered, Sent
  <2> QED
    BY <1>0, <1>2, <1>3, <2>1 DEF Informed
<1>12. Closed(a)'
  BY <1>0, <1>2, <1>7 DEF Closed, Knowing, Storing, rows, NoneUnknown
<1>13. Mine(a)'
  <2> SUFFICES ASSUME NEW d \in 1..MaxDecisions, NEW i \in 1..MaxActions, Unsafe(log, a, d, i)
               PROVE  /\ started[<<d, i>>] <= 1
                      /\ started[<<d, i>>] = 1 => Past(a, d, i)'
    BY <1>0 DEF Mine
  <2>1. started[<<d, i>>] <= 1 /\ (started[<<d, i>>] = 1 => Past(a, d, i))
    BY <1>0 DEF Local, Mine
  <2>2. Past(a, d, i) => HasResult(seen[a], d, i)
    BY <1>0 DEF Past, Knowing
  <2>3. HasResult(seen[a], d, i) => Past(a, d, i)'
    BY <1>0, <1>2, LoadedResult DEF Past, Knowing, Storing
  <2> QED
    BY <2>1, <2>2, <2>3
<1>14. inFlight # a
  BY <1>0, NotInFlight DEF Knowing
<1>15. \A id \in DOMAIN started' :
          started'[id] > 0 => \E p \in Positions(log, "proposal") : log[p].decision = id[1]
  BY <1>0 DEF Log
<1> QED
  BY <1>0, <1>2, <1>4, <1>5, <1>6, <1>10, <1>11, <1>12, <1>13, <1>14, <1>15, QuietStep DEF Local

LEMMA DecideStep ==
    ASSUME IInv, Typed', NEW a \in Attempts, Decide(a) PROVE IInv'
<1>0. /\ AttemptsTyped /\ Log /\ Local(a) /\ pc[a] = "decided" /\ ~boundary[a]
      /\ ~HasFinal(seen[a]) /\ PendingActions(seen[a]) = {}
      /\ UNCHANGED <<rows, log, inFlight, started>>
  BY TypedParts DEF IInv, Global, Decide, Local, Shape
<1>1. PICK c \in Checkpts :
         /\ queue' = [queue EXCEPT ![a] = <<c>>]
         /\ Goto(a, "append")
         /\ c.kind \in {"proposal", "final"} /\ c.payload = a
         /\ c.decision = AcceptedDecisions(seen[a]) + 1
  BY DecideQueue
<1>2. /\ queue'[a] = <<c>> /\ tries'[a] = 0 /\ pc'[a] = "append"
      /\ pc' = [pc EXCEPT ![a] = "append"] /\ tries' = [tries EXCEPT ![a] = 0]
      /\ UNCHANGED <<seen, failing, boundary, running, asked>>
  BY <1>0, <1>1 DEF Decide, Enqueue, Goto, AttemptsTyped
<1>3. <<c>> # <<>> /\ DOMAIN <<c>> = {1} /\ <<c>>[1] = c
  OBVIOUS
<1>4. Others(a)
  BY <1>0, <1>1, <1>2 DEF Others, Same, SameStarted, AttemptsTyped
<1>5. Shape(a)'
  BY <1>0, <1>1, <1>2, <1>3 DEF Local, Shape, Knowing, Storing
<1>6. Known(a)'
  BY <1>0, <1>2, SameKnown
<1>7. lease = a => seen[a] = log
  BY <1>0 DEF Local, Holder, Knowing
<1>8. Holder(a)'
  <2>1. ASSUME lease = a PROVE Fits(log, <<c>>)
    <3>1. MayFollow(log, c)
      BY <1>0, <1>1, <1>7, <2>1 DEF MayFollow, HasFinal
    <3> QED
      BY <1>3, <3>1 DEF Fits
  <2>2. Fits(log, queue[a])' <=> Fits(log', queue'[a])
    OBVIOUS
  <2> QED
    BY <1>0, <1>2, <2>1, <2>2 DEF Holder, Knowing, rows
<1>9. Informed(a)'
  BY <1>0, <1>2 DEF Local, Informed, rows
<1>10. Closed(a)'
  BY <1>0, <1>2, <1>7 DEF Closed, Knowing, Storing, rows
<1>11. Mine(a)'
  <2> SUFFICES ASSUME NEW d \in 1..MaxDecisions, NEW i \in 1..MaxActions, Unsafe(log, a, d, i)
               PROVE  /\ started[<<d, i>>] <= 1
                      /\ started[<<d, i>>] = 1 => Past(a, d, i)'
    BY <1>0 DEF Mine
  <2>1. started[<<d, i>>] <= 1 /\ (started[<<d, i>>] = 1 => Past(a, d, i))
    BY <1>0 DEF Local, Mine
  <2>2. Past(a, d, i) => HasResult(seen[a], d, i)
    BY <1>0 DEF Past, Knowing
  <2>3. HasResult(seen[a], d, i) => Past(a, d, i)'
    BY <1>0, <1>2, LoadedResult DEF Past, Knowing, Storing
  <2> QED
    BY <2>1, <2>2, <2>3
<1>12. inFlight # a
  BY <1>0, NotInFlight DEF Knowing
<1>13. \A id \in DOMAIN started' :
          started'[id] > 0 => \E p \in Positions(log, "proposal") : log[p].decision = id[1]
  BY <1>0 DEF Log
<1> QED
  BY <1>0, <1>2, <1>4, <1>5, <1>6, <1>8, <1>9, <1>10, <1>11, <1>12, <1>13, QuietStep DEF Local

\* The unsafe Actions an Attempt starts are its own, and were never started.
LEMMA StartActionsOwn ==
    ASSUME IInv, NEW a \in Attempts, StartActions(a),
           NEW i \in PendingActions(seen[a]), NEW b \in Attempts,
           Unsafe(log, b, LastProposal(seen[a]).decision, i)
    PROVE  b = a /\ started[<<LastProposal(seen[a]).decision, i>>] = 0
<1> DEFINE d == LastProposal(seen[a]).decision
<1>0. /\ Log /\ Local(a) /\ WellFormed(seen[a]) /\ WellFormed(log) /\ pc[a] = "decide"
      /\ ~Recovering(a)
  BY DEF IInv, Global, Log, Local, Known, StartActions
<1>1. PICK p \in Positions(seen[a], "proposal") : LastProposal(seen[a]) = seen[a][p]
  BY <1>0, LastProposalIs DEF PendingActions
<1>2. p \in Positions(log, "proposal") /\ log[p] = seen[a][p]
  <2>1. /\ Len(seen[a]) <= Len(log) /\ Len(seen[a]) \in Nat /\ Len(log) \in Nat
        /\ DOMAIN seen[a] = 1..Len(seen[a]) /\ DOMAIN log = 1..Len(log)
        /\ \A j \in DOMAIN seen[a] : seen[a][j] = log[j]
    BY <1>0 DEF Local, Known, WellFormed
  <2> QED
    BY <1>1, <2>1 DEF Positions
<1>3. PICK q \in Positions(log, "proposal") :
         /\ log[q].payload = b /\ log[q].decision = d
         /\ i \in DOMAIN log[q].batch /\ log[q].batch[i] \notin ReplaySafe
  BY DEF Unsafe
<1>4. p = q
  BY <1>0, <1>1, <1>2, <1>3 DEF WellFormed
<1>5. LastProposal(seen[a]) = log[q]
  BY <1>1, <1>2, <1>4
<1>6. b = a
  <2>1. NoneUnknown(seen[a], a)
    BY <1>0 DEF Local, Closed, Knowing
  <2> QED
    BY <1>3, <1>5, <2>1 DEF NoneUnknown
<1>7. d \in 1..MaxDecisions /\ i \in 1..MaxActions
  BY <1>0, PendingFacts
<1>8. /\ started[<<d, i>>] <= 1 /\ started[<<d, i>>] \in Nat
      /\ started[<<d, i>>] = 1 => Past(a, d, i)
  BY <1>0, <1>6, <1>7 DEF Local, Mine, IInv, Global, Typed
<1>9. ~Past(a, d, i)
  BY <1>0 DEF Past, Knowing, PendingActions
<1> QED
  BY <1>6, <1>8, <1>9

LEMMA StartActionsStep ==
    ASSUME IInv, Typed', NEW a \in Attempts, StartActions(a) PROVE IInv'
<1> DEFINE d0 == LastProposal(seen[a]).decision
<1>0. /\ AttemptsTyped /\ StartedTyped /\ Log /\ Local(a) /\ pc[a] = "decide"
      /\ ~HasFinal(seen[a]) /\ PendingActions(seen[a]) # {} /\ ~Recovering(a)
      /\ WellFormed(seen[a]) /\ UNCHANGED <<rows, log, inFlight>>
  BY TypedParts DEF IInv, Global, Local, Known, StartActions
<1>1. PICK S \in SUBSET PendingActions(seen[a]) :
         /\ running' = [running EXCEPT ![a] = S]
         /\ started' = [id \in DOMAIN started |->
                           IF id \in {<<d0, i>> : i \in S}
                           THEN started[id] + 1 ELSE started[id]]
  BY StartActionsFacts
<1>2. /\ running'[a] = S /\ boundary'[a] = FALSE /\ pc'[a] = "executing"
      /\ pc' = [pc EXCEPT ![a] = "executing"]
      /\ boundary' = [boundary EXCEPT ![a] = FALSE]
      /\ UNCHANGED <<seen, queue, tries, failing, asked>>
  BY <1>0, <1>1 DEF StartActions, Goto, AttemptsTyped
<1>3. \A d \in 1..MaxDecisions, i \in 1..MaxActions :
         /\ <<d, i>> \in DOMAIN started
         /\ d = d0 /\ i \in S => started'[<<d, i>>] = started[<<d, i>>] + 1
         /\ ~(d = d0 /\ i \in S) => started'[<<d, i>>] = started[<<d, i>>]
  <2> SUFFICES ASSUME NEW d \in 1..MaxDecisions, NEW i \in 1..MaxActions
               PROVE  /\ <<d, i>> \in DOMAIN started
                      /\ d = d0 /\ i \in S => started'[<<d, i>>] = started[<<d, i>>] + 1
                      /\ ~(d = d0 /\ i \in S) => started'[<<d, i>>] = started[<<d, i>>]
    OBVIOUS
  <2>1. <<d, i>> \in DOMAIN started
    BY <1>0 DEF StartedTyped
  <2>2. <<d, i>> \in {<<d0, j>> : j \in S} <=> d = d0 /\ i \in S
    OBVIOUS
  <2> QED
    BY <1>1, <2>1, <2>2
<1>4. Others(a)
  <2>1. ASSUME NEW b \in Attempts \ {a} PROVE SameStarted(b)
    <3> SUFFICES ASSUME NEW d \in 1..MaxDecisions, NEW i \in 1..MaxActions, Unsafe(log, b, d, i)
                 PROVE  started'[<<d, i>>] = started[<<d, i>>]
      BY DEF SameStarted
    <3>1. ASSUME d = d0, i \in S PROVE FALSE
      <4>1. i \in PendingActions(seen[a]) /\ Unsafe(log, b, d0, i)
        BY <1>1, <3>1
      <4>2. b = a
        BY <4>1, StartActionsOwn
      <4> QED
        BY <2>1, <4>2
    <3> QED
      BY <1>3, <3>1
  <2>2. ASSUME NEW b \in Attempts \ {a} PROVE Same(b)
    BY <1>0, <1>1, <1>2 DEF Same, AttemptsTyped
  <2> QED
    BY <2>1, <2>2 DEF Others
<1>5. Shape(a)'
  BY <1>0, <1>2 DEF Local, Shape, Knowing, Storing
<1>6. Known(a)'
  BY <1>0, <1>2, SameKnown
<1>7. Holder(a)'
  BY <1>0, <1>2 DEF Local, Holder, Knowing, Storing, rows
<1>8. Informed(a)'
  BY <1>0, <1>2 DEF Local, Informed, rows
<1>9. Closed(a)'
  <2>1. NoneUnknown(seen[a], a)
    BY <1>0 DEF Local, Closed, Knowing
  <2> QED
    BY <1>2, <2>1 DEF Closed, Knowing, Storing
<1>10. Mine(a)'
  <2> SUFFICES ASSUME NEW d \in 1..MaxDecisions, NEW i \in 1..MaxActions, Unsafe(log, a, d, i)
               PROVE  /\ started'[<<d, i>>] <= 1
                      /\ started'[<<d, i>>] = 1 => Past(a, d, i)'
    BY <1>0 DEF Mine
  <2>1. CASE d = d0 /\ i \in S
    <3>1. started[<<d, i>>] = 0
      BY <1>1, <2>1, StartActionsOwn
    <3>2. started'[<<d, i>>] = 1
      BY <1>3, <2>1, <3>1
    <3>3. Past(a, d, i)'
      BY <1>2, <2>1 DEF Past, Knowing, Storing
    <3> QED
      BY <3>2, <3>3
  <2>2. CASE ~(d = d0 /\ i \in S)
    <3>1. started[<<d, i>>] <= 1 /\ (started[<<d, i>>] = 1 => Past(a, d, i))
      BY <1>0 DEF Local, Mine
    <3>2. Past(a, d, i) => HasResult(seen[a], d, i)
      BY <1>0 DEF Past, Knowing
    <3>3. HasResult(seen[a], d, i) => Past(a, d, i)'
      BY <1>2 DEF Past, Knowing, Storing
    <3> QED
      BY <1>3, <2>2, <3>1, <3>2, <3>3
  <2> QED
    BY <2>1, <2>2
<1>11. inFlight # a
  BY <1>0, NotInFlight DEF Knowing
<1>12. ASSUME NEW id \in DOMAIN started', started'[id] > 0
       PROVE  \E p \in Positions(log, "proposal") : log[p].decision = id[1]
  <2>1. id \in DOMAIN started
    BY <1>1
  <2>2. CASE started[id] > 0
    BY <1>0, <2>1, <2>2 DEF Log
  <2>3. CASE ~(started[id] > 0)
    <3>1. id \in {<<d0, i>> : i \in S}
      BY <1>1, <1>12, <2>1, <2>3
    <3>2. id[1] = d0
      BY <3>1
    <3>3. PICK p \in Positions(seen[a], "proposal") : LastProposal(seen[a]) = seen[a][p]
      BY <1>0, LastProposalIs DEF PendingActions
    <3>4. p \in Positions(log, "proposal") /\ log[p] = seen[a][p]
      <4>1. /\ Len(seen[a]) <= Len(log) /\ Len(seen[a]) \in Nat /\ Len(log) \in Nat
            /\ DOMAIN seen[a] = 1..Len(seen[a]) /\ DOMAIN log = 1..Len(log)
            /\ \A j \in DOMAIN seen[a] : seen[a][j] = log[j]
        BY <1>0 DEF Local, Known, WellFormed, Log
      <4> QED
        BY <3>3, <4>1 DEF Positions
    <3> QED
      BY <3>2, <3>3, <3>4
  <2> QED
    BY <2>2, <2>3
<1> QED
  BY <1>0, <1>2, <1>4, <1>5, <1>6, <1>7, <1>8, <1>9, <1>10, <1>11, <1>12, QuietStep DEF Local

\* An Attempt leaves, without an invalid checkpoint.
Dies(b) ==
    /\ pc[b] # "none" /\ pc'[b] \in Dead \ {"invalid"}
    /\ seen'[b] = seen[b] /\ queue'[b] = queue[b] /\ asked'[b] = asked[b]

\* A step that changes the rows but not the log, and grants no lease.
LEMMA RowsStep ==
    ASSUME IInv, Typed', UNCHANGED <<log, started, attemptNo>>, lease' \in {0, lease},
           \A b \in Attempts : Same(b) \/ Dies(b),
           run' = "running" <=> lease' # 0, leaseLive' => lease' # 0,
           answer' # 0 <=> run' = "completed",
           inFlight' # NoWrite => /\ inFlight' = inFlight /\ lease' = lease
                                  /\ Same(inFlight),
           AnswerIsAcceptedDraft', NoFalseCompletion'
    PROVE  IInv'
<1>0. Global /\ \A b \in Attempts : Local(b)
  BY DEF IInv
<1>1. Fence'
  <2>1. \A b \in Attempts : pc'[b] = "none" <=> pc[b] = "none"
    BY DEF Same, Dies, Dead
  <2> QED
    BY <1>0, <2>1 DEF Global, Fence
<1>2. Flight'
  <2> SUFFICES ASSUME inFlight' # NoWrite PROVE Flight'
    BY DEF Flight
  <2>1. inFlight' = inFlight /\ lease' = lease /\ Same(inFlight) /\ inFlight # NoWrite
    OBVIOUS
  <2>2. UNCHANGED Write(inFlight)
    BY <2>1 DEF Write, Same
  <2> QED
    BY <1>0, <2>1, <2>2 DEF Global, Flight, Same
<1>3. Log'
  BY <1>0 DEF Global, Log
<1>4. HolderNeverInvalid'
  BY <1>0, CheckpointsAssumption DEF Global, HolderNeverInvalid, Same, Dies, Attempts
<1>5. ASSUME NEW b \in Attempts PROVE Local(b)'
  <2>0. lease' = b => lease = b
    BY CheckpointsAssumption DEF Attempts
  <2>1. CASE Same(b)
    BY <2>0, <2>1, SameLocal DEF SameStarted
  <2>2. CASE Dies(b)
    BY <2>0, <2>2, DeadLocal DEF Dies
  <2> QED
    BY <2>1, <2>2
<1> QED
  BY <1>1, <1>2, <1>3, <1>4, <1>5 DEF IInv, Global

LEMMA ClockStep ==
    ASSUME IInv, Typed', ExpireLease \/ PassDeadline \/ (\E m \in Messages : SendSteering(m))
    PROVE  IInv'
<1>0. /\ Fence /\ AnswerIsAcceptedDraft /\ NoFalseCompletion
  BY DEF IInv, Global
<1>1. /\ UNCHANGED <<run, attemptNo, lease, answer, log, inFlight, attempts, started>>
      /\ leaseLive' = leaseLive \/ leaseLive' = FALSE
  BY DEF ExpireLease, PassDeadline, SendSteering
<1>2. \A b \in Attempts \cup {inFlight} : Same(b)
  BY <1>1 DEF Same, attempts
<1>3. AnswerIsAcceptedDraft' /\ NoFalseCompletion'
  BY <1>0, <1>1 DEF AnswerIsAcceptedDraft, NoFalseCompletion, attempts
<1> QED
  BY <1>0, <1>1, <1>2, <1>3, RowsStep DEF Fence

LEMMA StopStep ==
    ASSUME IInv, Typed', NEW status \in {"cancelled", "failed"}, Stop(status)
    PROVE  IInv'
<1>0. /\ Fence /\ AnswerIsAcceptedDraft /\ NoFalseCompletion
  BY DEF IInv, Global
<1>1. /\ UNCHANGED <<attemptNo, answer, log, inFlight, attempts, started>>
      /\ run' = status /\ lease' = 0 /\ leaseLive' = FALSE /\ inFlight = NoWrite
      /\ run \in {"queued", "running"}
  BY DEF Stop, End, Unlocked
<1>2. answer = 0 /\ answer' = 0 /\ run' \notin {"running", "completed"}
  BY <1>0, <1>1 DEF Fence
<1>3. \A b \in Attempts : Same(b)
  BY <1>1 DEF Same, attempts
<1>4. \A b \in Attempts : pc'[b] # "completed"
  BY <1>0, <1>1 DEF NoFalseCompletion, attempts
<1>5. AnswerIsAcceptedDraft' /\ NoFalseCompletion'
  BY <1>2, <1>4 DEF AnswerIsAcceptedDraft, NoFalseCompletion
<1> QED
  BY <1>1, <1>2, <1>3, <1>5, RowsStep

\* Controller.fail, and the worker giving the Job back.
LEMMA FailRunStep ==
    ASSUME IInv, Typed', NEW a \in Attempts, FailRun(a) \/ Resolve(a)
    PROVE  IInv'
<1>0. /\ AttemptsTyped /\ Fence /\ AnswerIsAcceptedDraft /\ NoFalseCompletion
  BY TypedParts DEF IInv, Global
<1>1. /\ UNCHANGED <<attemptNo, overdue, answer, steering, log, inFlight, started>>
      /\ Leave(a, "gone") /\ pc[a] # "none" /\ inFlight = NoWrite
  BY DEF FailRun, Resolve, Unlocked
<1>2. Dies(a) /\ \A b \in Attempts \ {a} : Same(b)
  BY <1>0, <1>1 DEF Leave, Goto, Dies, Dead, Same, AttemptsTyped
<1>3. \A b \in Attempts : pc'[b] = "completed" => pc[b] = "completed"
  BY <1>0, <1>1, <1>2 DEF Same, Leave, Goto, AttemptsTyped
<1>4. CASE UNCHANGED <<run, lease, leaseLive>>
  <2>1. AnswerIsAcceptedDraft' /\ NoFalseCompletion'
    BY <1>0, <1>1, <1>3, <1>4 DEF AnswerIsAcceptedDraft, NoFalseCompletion
  <2> QED
    BY <1>0, <1>1, <1>2, <1>4, <2>1, RowsStep DEF Fence
<1>5. CASE /\ run = "running" /\ lease' = 0 /\ leaseLive' = FALSE
           /\ run' \in {"failed", "queued"}
  <2>1. answer = 0 /\ answer' = 0 /\ run' \notin {"running", "completed"}
    BY <1>0, <1>1, <1>5 DEF Fence
  <2>2. AnswerIsAcceptedDraft' /\ NoFalseCompletion'
    BY <1>0, <1>3, <1>5, <2>1 DEF AnswerIsAcceptedDraft, NoFalseCompletion
  <2> QED
    BY <1>1, <1>2, <1>5, <2>1, <2>2, RowsStep
<1>6. \/ UNCHANGED <<run, lease, leaseLive>>
      \/ /\ run = "running" /\ lease' = 0 /\ leaseLive' = FALSE
         /\ run' \in {"failed", "queued"}
  <2>1. lease = a => run = "running"
    BY <1>0, CheckpointsAssumption DEF Fence, Attempts
  <2> QED
    BY <2>1 DEF FailRun, Resolve, End
<1> QED
  BY <1>4, <1>5, <1>6

\* What is published is the Final Draft of the log.
LEMMA PublishStep ==
    ASSUME IInv, Typed', NEW a \in Attempts, HasFinal(log), answer = 0, lease = a,
           answer' = FinalOf(log), End("completed"),
           UNCHANGED <<attemptNo, log, started>>, inFlight' = NoWrite,
           \A b \in Attempts : Same(b) \/ Dies(b)
    PROVE  IInv'
<1>0. WellFormed(log) /\ log \in Seq(Checkpts)
  BY DEF IInv, Global, Log, WellFormed
<1>1. Positions(log, "final") = {Len(log)}
  BY <1>0 DEF WellFormed, HasFinal
<1>2. FinalOf(log) = log[Len(log)].payload
  BY <1>1 DEF FinalOf
<1>3. FinalOf(log) # 0
  <2>1. Len(log) \in DOMAIN log /\ log[Len(log)].kind = "final"
    BY <1>1 DEF Positions
  <2>2. log[Len(log)] \in Checkpts
    BY <1>0, <2>1
  <2> QED
    BY <1>2, <2>1, <2>2 DEF Checkpts, Made
<1>4. AnswerIsAcceptedDraft' /\ NoFalseCompletion'
  BY <1>1, <1>2 DEF AnswerIsAcceptedDraft, NoFalseCompletion, End
<1> QED
  BY <1>3, <1>4, RowsStep DEF End

\* A commit whose answer is lost.
LEMMA LostStep ==
    ASSUME IInv, Typed', NEW a \in Attempts, lease = a, inFlight = NoWrite, inFlight' = a,
           UNCHANGED <<rows, log, started>>,
           \/ pc[a] = "append" /\ Leave(a, "reconcile") /\ MayFollow(log, Write(a))
           \/ pc[a] = "publish" /\ Leave(a, "reconcile_publish") /\ HasFinal(log)
    PROVE  IInv'
<1>0. Global /\ (\A b \in Attempts : Local(b)) /\ AttemptsTyped
  BY TypedParts DEF IInv, Global
<1>1. /\ \/ pc[a] = "append" /\ pc'[a] = "reconcile" /\ MayFollow(log, Write(a)) /\ queue[a] # <<>>
         \/ pc[a] = "publish" /\ pc'[a] = "reconcile_publish" /\ HasFinal(log) /\ queue[a] = <<>>
      /\ pc' = [pc EXCEPT ![a] = pc'[a]]
      /\ UNCHANGED <<seen, queue, tries, failing, boundary, running, asked>>
  BY <1>0 DEF Leave, Goto, AttemptsTyped, Local, Shape, Knowing, Storing
<1>2. Others(a)
  BY <1>0, <1>1 DEF Others, Same, SameStarted, AttemptsTyped
<1>3. Shape(a)'
  BY <1>0, <1>1 DEF Local, Shape, Knowing, Storing
<1>4. Known(a)'
  BY <1>1, SameKnown
<1>5. UNCHANGED Write(a)
  BY <1>1 DEF Write
<1>6. Holder(a)'
  BY <1>0, <1>1, <1>5 DEF Local, Holder, rows, Knowing, Storing
<1>7. Informed(a)'
  BY <1>0, <1>1 DEF Local, Informed, rows
<1>8. Closed(a)'
  BY <1>0, <1>1 DEF Local, Closed, rows, Knowing, Storing, Recovering
<1>9. Mine(a)'
  BY <1>0, <1>1 DEF Local, Mine, Past, Knowing, Storing
<1>10. \A b \in Attempts \ {a} : Local(b)'
  BY <1>2, SameLocal DEF Others, rows
<1>11. Fence'
  <2>1. \A b \in Attempts : pc'[b] = "none" <=> pc[b] = "none"
    BY <1>1, <1>2 DEF Others, Same
  <2> QED
    BY <1>0, <2>1 DEF Global, Fence, rows
<1>12. Flight'
  BY <1>1, <1>5 DEF Flight, Knowing, rows
<1>13. Log' /\ AnswerIsAcceptedDraft'
  BY <1>0 DEF Global, Log, AnswerIsAcceptedDraft, rows
<1>14. NoFalseCompletion' /\ HolderNeverInvalid'
  BY <1>0, <1>1, <1>2 DEF Global, NoFalseCompletion, HolderNeverInvalid, Others, Same, rows
<1> QED
  BY <1>3, <1>4, <1>6, <1>7, <1>8, <1>9, <1>10, <1>11, <1>12, <1>13, <1>14
     DEF IInv, Global, Local

\* A checkpoint is stored.
LEMMA StoreStep ==
    ASSUME IInv, Typed', NEW a \in Attempts, lease = a, queue[a] # <<>>,
           MayFollow(log, Write(a)), log' = Append(log, Write(a)),
           UNCHANGED <<rows, started>>, inFlight' = NoWrite, Others(a),
           pc[a] # "none", pc'[a] \notin {"none", "invalid"},
           pc'[a] = "completed" => pc[a] = "completed",
           Local(a)'
    PROVE  IInv'
<1>0. Global /\ (\A b \in Attempts : Local(b)) /\ log \in Seq(Checkpts)
  BY DEF IInv, Global, Log, WellFormed
<1>1. Kept(a, Write(a)) /\ Extended(Write(a)) /\ Write(a).payload \in {0, a}
  BY KeptNow
<1>2. Write(a).kind = "proposal" => Write(a).payload = a
  BY <1>1 DEF Extended, Checkpts, Made
<1>3. Fence'
  <2>1. \A b \in Attempts : pc'[b] = "none" <=> pc[b] = "none"
    BY DEF Others, Same
  <2> QED
    BY <1>0, <2>1 DEF Global, Fence, rows
<1>4. Flight'
  BY DEF Flight
<1>5. Log'
  <2>1. ASSUME NEW i \in DOMAIN log' PROVE log'[i].payload <= attemptNo
    <3>1. (i \in DOMAIN log /\ log'[i] = log[i]) \/ log'[i] = Write(a)
      BY <1>0, <1>1, AppendFacts DEF Extended
    <3>2. a <= attemptNo /\ 0 <= attemptNo
      BY <1>0, CheckpointsAssumption DEF Global, Typed, TypeOK
    <3> QED
      BY <1>0, <1>1, <3>1, <3>2 DEF Global, Log
  <2>2. \A p \in Positions(log, "proposal") : p \in Positions(log', "proposal") /\ log'[p] = log[p]
    BY <1>1 DEF Kept, Positions
  <2>3. WellFormed(log')
    BY <1>1 DEF Kept
  <2>4. \A id \in DOMAIN started' :
           started'[id] > 0 => \E p \in Positions(log', "proposal") : log'[p].decision = id[1]
    BY <1>0, <2>2 DEF Global, Log
  <2> QED
    BY <2>1, <2>3, <2>4 DEF Log, rows
<1>6. AnswerIsAcceptedDraft'
  <2>1. answer' = 0
    BY <1>0, CheckpointsAssumption DEF Global, Fence, rows, Attempts
  <2> QED
    BY <2>1 DEF AnswerIsAcceptedDraft
<1>7. NoFalseCompletion' /\ HolderNeverInvalid'
  BY <1>0 DEF Global, NoFalseCompletion, HolderNeverInvalid, Others, Same, rows
<1>8. ASSUME NEW b \in Attempts \ {a} PROVE Local(b)'
  <2>1. Same(b) /\ SameStarted(b) /\ lease' # b
    BY DEF Others, rows
  <2> QED
    BY <1>1, <1>2, <2>1, SameLocal
<1> QED
  BY <1>3, <1>4, <1>5, <1>6, <1>7, <1>8 DEF IInv, Global

LEMMA AppendInsertStep ==
    ASSUME IInv, Typed', NEW a \in Attempts, AppendInsert(a) PROVE IInv'
<1>0. /\ pc[a] = "append" /\ pc[a] \in Storing /\ pc[a] # "none" /\ lease = a /\ inFlight = NoWrite
      /\ Stored(Write(a)) = {} /\ UNCHANGED <<rows, started>>
      /\ AttemptsTyped
  BY TypedParts DEF AppendInsert, Storing, Authority, Unlocked, IInv, Global
<1>1. MayFollow(log, Write(a)) /\ queue[a] # <<>>
  BY <1>0, HolderFits
<1>2. CASE inFlight' = a /\ Leave(a, "reconcile") /\ UNCHANGED log
  BY <1>0, <1>1, <1>2, LostStep
<1>3. CASE log' = Append(log, Write(a)) /\ Accepted(a) /\ UNCHANGED inFlight
  <2>1. Kept(a, Write(a))
    BY <1>0, <1>1, <1>3, KeptNow
  <2>2. Local(a)'
    BY <1>0, <1>3, <2>1, AcceptedLocal DEF rows
  <2>3. Others(a)
    BY <1>0, <1>3 DEF Accepted, Goto, Others, Same, SameStarted, AttemptsTyped
  <2>4. pc'[a] \in {"append", "failed_action", "load"}
    BY <1>0, <1>3 DEF Accepted, Goto, AttemptsTyped
  <2> QED
    BY <1>0, <1>1, <1>3, <2>2, <2>3, <2>4, StoreStep
<1> QED
  BY <1>1, <1>2, <1>3 DEF AppendInsert

\* The lost commit lands: the Attempt has not learned of it.
LEMMA DecidedLocal ==
    ASSUME IInv, NEW a \in Attempts, lease = a, queue[a] # <<>>, Same(a),
           Kept(a, Write(a)), lease' = lease, started' = started
    PROVE  Local(a)'
<1>0. Local(a) /\ pc[a] \notin Knowing \cup {"load"}
  BY DEF IInv, Local, Shape
<1> USE DEF Same
<1>1. Shape(a)'
  BY <1>0 DEF Local, Shape
<1>2. Known(a)'
  BY KeptKnown
<1>3. Holder(a)'
  <2>1. /\ \E i \in DOMAIN log' : log'[i] = Write(a)
        /\ pc[a] \in Storing => Fits(log', Tail(queue[a]))
    BY DEF Kept
  <2>2. Write(a)' = Write(a) /\ (Fits(log, Tail(queue[a]))' <=> Fits(log', Tail(queue[a])))
    BY DEF Write
  <2> QED
    BY <1>0, <2>1, <2>2 DEF Holder
<1>4. Informed(a)'
  <2>1. Delivered(log) \subseteq Delivered(log')
    BY DEF Kept
  <2> QED
    BY <1>0, <2>1 DEF Local, Informed, Knowing
<1>5. Closed(a)'
  <2> SUFFICES ASSUME pc[a] \in Storing, NEW i \in PendingActions(log')
               PROVE  \/ LastProposal(log').payload = a
                      \/ LastProposal(log').batch[i] \in ReplaySafe
                      \/ \E k \in DOMAIN queue[a] :
                            /\ queue[a][k].kind = "result"
                            /\ queue[a][k].decision = LastProposal(log').decision
                            /\ queue[a][k].index = i
    BY <1>0 DEF Closed
  <2>1. CASE LastProposal(log').payload = a
    BY <2>1
  <2>2. CASE i \in PendingActions(log) /\ LastProposal(log') = LastProposal(log)
    BY <1>0, <2>2 DEF Local, Closed
  <2> QED
    BY <2>1, <2>2 DEF Kept
<1>6. Mine(a)'
  <2> SUFFICES ASSUME NEW d \in 1..MaxDecisions, NEW i \in 1..MaxActions, Unsafe(log', a, d, i)
               PROVE  /\ started[<<d, i>>] <= 1
                      /\ started[<<d, i>>] = 1 => Past(a, d, i)'
    BY DEF Mine
  <2>1. CASE started[<<d, i>>] = 0
    BY <2>1
  <2>2. CASE Unsafe(log, a, d, i)
    <3>1. started[<<d, i>>] <= 1 /\ (started[<<d, i>>] = 1 => Past(a, d, i))
      BY <1>0, <2>2 DEF Local, Mine
    <3>2. HasResult(log, d, i) => HasResult(log', d, i)
      BY DEF Kept
    <3>3. Past(a, d, i) => Past(a, d, i)'
      BY <1>0, <3>2 DEF Past
    <3> QED
      BY <3>1, <3>3
  <2> QED
    BY <2>1, <2>2 DEF Kept
<1> QED
  BY <1>1, <1>2, <1>3, <1>4, <1>5, <1>6 DEF Local

LEMMA DecidedStep ==
    ASSUME IInv, Typed', NEW a \in Attempts, NEW commits \in BOOLEAN, Decided(a, commits)
    PROVE  IInv'
<1>0. /\ inFlight = a /\ inFlight' = NoWrite /\ inFlight # NoWrite
      /\ UNCHANGED <<attempts, started>>
      /\ Fence /\ Flight /\ AnswerIsAcceptedDraft /\ NoFalseCompletion /\ HolderNeverInvalid
  BY CheckpointsAssumption DEF Decided, IInv, Global, NoWrite, Attempts
<1>1. /\ lease = a /\ pc[a] # "none"
      /\ IF queue[a] # <<>> THEN MayFollow(log, Write(a)) ELSE HasFinal(log)
  BY <1>0 DEF Flight
<1>2. \A b \in Attempts : Same(b)
  BY <1>0 DEF Same, attempts
<1>3. CASE UNCHANGED <<rows, log>>
  <2>1. AnswerIsAcceptedDraft' /\ NoFalseCompletion'
    BY <1>0, <1>3 DEF AnswerIsAcceptedDraft, NoFalseCompletion, rows, attempts
  <2> QED
    BY <1>0, <1>2, <1>3, <2>1, RowsStep DEF rows, Fence
<1>4. CASE queue[a] # <<>> /\ log' = Append(log, Write(a)) /\ UNCHANGED rows
  <2>1. Kept(a, Write(a))
    BY <1>1, <1>4, KeptNow
  <2>2. Local(a)'
    BY <1>0, <1>1, <1>2, <1>4, <2>1, DecidedLocal DEF rows
  <2>3. Others(a)
    BY <1>0, <1>2 DEF Others, SameStarted
  <2>4. pc'[a] = pc[a] /\ pc[a] # "invalid"
    BY <1>0, <1>1 DEF attempts, HolderNeverInvalid
  <2> QED
    BY <1>0, <1>1, <1>4, <2>2, <2>3, <2>4, StoreStep
<1>5. CASE /\ queue[a] = <<>> /\ answer' = FinalOf(log) /\ End("completed")
           /\ UNCHANGED <<attemptNo, overdue, steering, log>>
  <2>1. answer = 0
    BY <1>0, <1>1, CheckpointsAssumption DEF Fence, Attempts
  <2> QED
    BY <1>0, <1>1, <1>2, <1>5, <2>1, PublishStep
<1> QED
  BY <1>3, <1>4, <1>5 DEF Decided, FinalOf

LEMMA PublishTxStep ==
    ASSUME IInv, Typed', NEW a \in Attempts, PublishTx(a) PROVE IInv'
<1>0. /\ pc[a] = "publish" /\ pc[a] # "none" /\ inFlight = NoWrite /\ lease = a /\ answer = 0
      /\ UNCHANGED started /\ Local(a) /\ AttemptsTyped
  BY TypedParts DEF PublishTx, Unlocked, Authority, IInv, Global
<1>1. seen[a] = log
  BY <1>0 DEF Local, Holder, Knowing
<1>2. CASE HasFinal(log)
  <2>1. CASE /\ answer' = FinalOf(log) /\ End("completed") /\ Leave(a, "completed")
             /\ UNCHANGED <<attemptNo, overdue, steering, log, inFlight>>
    <3>1. Dies(a) /\ \A b \in Attempts \ {a} : Same(b)
      BY <1>0, <2>1 DEF Dies, Dead, Leave, Goto, Same, AttemptsTyped
    <3> QED
      BY <1>0, <1>2, <2>1, <3>1, PublishStep
  <2>2. CASE inFlight' = a /\ Leave(a, "reconcile_publish") /\ UNCHANGED <<rows, log>>
    BY <1>0, <1>2, <2>2, LostStep
  <2> QED
    BY <1>1, <1>2, <2>1, <2>2 DEF PublishTx
<1>3. CASE ~HasFinal(log)
  <2>1. HasFinal(seen[a])
    BY <1>0 DEF Local, Shape
  <2> QED
    BY <1>1, <1>3, <2>1
<1> QED
  BY <1>2, <1>3

\* A new lease starts a fresh Attempt.
LEMMA ClaimStep ==
    ASSUME IInv, Typed', Claim PROVE IInv'
<1>n. PICK n \in Attempts : n = attemptNo + 1
  <2>1. attemptNo \in 0..MaxAttempts /\ attemptNo < MaxAttempts /\ MaxAttempts \in Nat
    BY TypedParts, CheckpointsAssumption DEF IInv, Global, RowsTyped, Claim
  <2> QED
    BY <2>1 DEF Attempts
<1>0. /\ Global /\ (\A b \in Attempts : Local(b)) /\ AttemptsTyped /\ attemptNo \in Nat
      /\ attemptNo < MaxAttempts /\ inFlight = NoWrite /\ MaxAttempts \in Nat
      /\ run \in {"queued", "running"}
      /\ run' = "running" /\ attemptNo' = n /\ lease' = n /\ leaseLive' = TRUE
      /\ Goto(n, "load")
      /\ UNCHANGED <<overdue, answer, steering, log, inFlight, seen, queue, tries, failing,
                     boundary, running, asked, started>>
  BY <1>n, TypedParts, CheckpointsAssumption DEF IInv, Global, RowsTyped, Claim, Unlocked
<1>1. n \in Attempts /\ n \in Nat /\ n # 0 /\ n = attemptNo + 1
  BY <1>n, CheckpointsAssumption DEF Attempts
<1>2. /\ pc'[n] = "load" /\ \A b \in Attempts \ {n} : pc'[b] = pc[b]
      /\ pc[n] = "none"
  BY <1>0, <1>1 DEF Goto, AttemptsTyped, Global, Fence
<1>3. /\ queue[n] = <<>> /\ boundary[n] /\ ~failing[n] /\ asked[n] = {}
  BY <1>0, <1>1, <1>2 DEF Local, Shape
<1>4. ASSUME NEW b \in Attempts \ {n} PROVE Local(b)'
  <2>1. Same(b) /\ SameStarted(b) /\ lease' # b /\ log' = log
    BY <1>0, <1>2, <1>4 DEF Same, SameStarted
  <2> QED
    BY <2>1, SameLocal
<1>5. \A p \in Positions(log, "proposal") : log[p].payload # 0 /\ log[p].payload < n
  <2>1. ASSUME NEW p \in Positions(log, "proposal")
        PROVE  log[p].payload # 0 /\ log[p].payload < n
    <3>1. p \in DOMAIN log /\ log[p] \in Checkpts /\ log[p].kind = "proposal"
      BY <1>0 DEF Global, Log, WellFormed, Positions
    <3>2. log[p].payload <= attemptNo /\ log[p].payload \in Nat
      BY <1>0, <3>1, CheckpointsAssumption DEF Global, Log, Checkpts, AnyCheckpoint
    <3> QED
      BY <1>0, <1>1, <3>1, <3>2 DEF Checkpts, Made
  <2> QED
    BY <2>1
<1>6. Local(n)'
  <2>1. Shape(n)'
    BY <1>0, <1>2, <1>3 DEF Shape, Knowing, Storing
  <2>2. Known(n)'
    BY <1>0, <1>1, SameKnown
  <2>3. Holder(n)' /\ Informed(n)'
    BY <1>0, <1>2, <1>3 DEF Holder, Informed, Knowing, Storing
  <2>4. Closed(n)'
    <3>1. ASSUME ~(n > 1) PROVE NoneUnknown(log, n)
      <4>1. Positions(log, "proposal") = {}
        <5>1. ASSUME NEW p \in Positions(log, "proposal") PROVE FALSE
          <6>1. log[p].payload \in Nat
            BY <1>0, CheckpointsAssumption
               DEF Global, Log, WellFormed, Positions, Checkpts, AnyCheckpoint
          <6> QED
            BY <1>0, <1>1, <1>5, <3>1, <6>1
        <5> QED
          BY <5>1
      <4> QED
        BY <4>1 DEF NoneUnknown, PendingActions
    <3>2. boundary'[n]
      BY <1>0, <1>3
    <3> QED
      BY <1>0, <1>2, <3>1, <3>2 DEF Closed, Recovering, Knowing, Storing
  <2>5. Mine(n)'
    <3>1. \A d, i : ~Unsafe(log, n, d, i)
      BY <1>0, <1>1, <1>5 DEF Unsafe
    <3> QED
      BY <1>0, <3>1 DEF Mine
  <2> QED
    BY <2>1, <2>2, <2>3, <2>4, <2>5 DEF Local
<1>7. Fence'
  <2>1. answer' = 0
    BY <1>0 DEF Global, Fence
  <2>2. \A b \in Attempts : pc'[b] = "none" <=> b > n
    <3> SUFFICES ASSUME NEW b \in Attempts PROVE pc'[b] = "none" <=> b > n
      OBVIOUS
    <3>1. pc[b] = "none" <=> b > attemptNo
      BY <1>0 DEF Global, Fence
    <3>2. b \in Nat
      BY DEF Attempts
    <3> QED
      BY <1>0, <1>1, <1>2, <3>1, <3>2
  <2> QED
    BY <1>0, <1>1, <2>1, <2>2 DEF Fence
<1>8. Flight'
  BY <1>0 DEF Flight
<1>9. Log'
  <2>1. \A i \in DOMAIN log : log[i].payload <= n
    <3> SUFFICES ASSUME NEW i \in DOMAIN log PROVE log[i].payload <= n
      OBVIOUS
    <3>1. log[i].payload <= attemptNo /\ log[i].payload \in Nat
      BY <1>0, CheckpointsAssumption DEF Global, Log, WellFormed, Checkpts, AnyCheckpoint
    <3> QED
      BY <1>0, <1>1, <3>1
  <2> QED
    BY <1>0, <2>1 DEF Global, Log
<1>10. AnswerIsAcceptedDraft' /\ NoFalseCompletion' /\ HolderNeverInvalid'
  <2>1. answer' = 0
    BY <1>0 DEF Global, Fence
  <2>2. \A b \in Attempts : pc'[b] # "completed"
    BY <1>0, <1>2 DEF Global, NoFalseCompletion
  <2>3. \A b \in Attempts : pc'[b] = "invalid" => lease' # b
    BY <1>0, <1>2
  <2> QED
    BY <2>1, <2>2, <2>3 DEF AnswerIsAcceptedDraft, NoFalseCompletion, HolderNeverInvalid
<1> QED
  BY <1>4, <1>6, <1>7, <1>8, <1>9, <1>10 DEF IInv, Global

----------------------------------------------------------------------------
(* The theorems.                                                           *)

LEMMA InitIInv == Init => IInv
<1> SUFFICES ASSUME Init PROVE IInv
  OBVIOUS
<1> USE CheckpointsAssumption DEF Init, Attempts
<1>0. log = <<>> /\ WellFormed(log) /\ WellFormed(<<>>) /\ PendingActions(<<>>) = {}
  BY WellFormedEmpty
<1>1. Typed
  <2>1. /\ pc \in [Attempts -> Phases] /\ tries \in [Attempts -> 0..2]
        /\ boundary \in [Attempts -> BOOLEAN] /\ failing \in [Attempts -> BOOLEAN]
    BY DEF Phases, Working
  <2>2. /\ queue \in [Attempts -> Seq(Checkpts)] /\ seen \in [Attempts -> Seq(Checkpts)]
        /\ running \in [Attempts -> SUBSET Nat] /\ asked \in [Attempts -> SUBSET Messages]
        /\ started \in [(1..MaxDecisions) \X (1..MaxActions) -> Nat]
    OBVIOUS
  <2>3. steering \in Seq([msg : Messages, at : Nat]) /\ DOMAIN steering = {} /\ DOMAIN log = {}
    OBVIOUS
  <2>4. /\ run \in {"queued", "running", "completed", "failed", "cancelled"}
        /\ attemptNo \in 0..MaxAttempts /\ lease \in 0..attemptNo /\ leaseLive \in BOOLEAN
        /\ overdue \in BOOLEAN /\ answer \in 0..attemptNo /\ inFlight \in 0..attemptNo
    <3>1. run \in {"queued", "running", "completed", "failed", "cancelled"}
      OBVIOUS
    <3>2. attemptNo \in 0..MaxAttempts
      OBVIOUS
    <3>3. lease \in 0..attemptNo /\ answer \in 0..attemptNo
      OBVIOUS
    <3>4. inFlight \in 0..attemptNo
      BY DEF NoWrite
    <3>5. leaseLive \in BOOLEAN /\ overdue \in BOOLEAN
      OBVIOUS
    <3> HIDE DEF Init
    <3> QED
      BY <3>1, <3>2, <3>3, <3>4, <3>5
  <2>5. RowsTyped
    BY <2>3, <2>4 DEF RowsTyped
  <2>6. LogTyped /\ AttemptsTyped /\ StartedTyped
    BY <2>1, <2>2, <2>3 DEF LogTyped, AttemptsTyped, StartedTyped
  <2> QED
    BY <2>5, <2>6, TypedParts
<1>2. Fence /\ Flight /\ AnswerIsAcceptedDraft /\ NoFalseCompletion /\ HolderNeverInvalid
  BY DEF Fence, Flight, AnswerIsAcceptedDraft, NoFalseCompletion, HolderNeverInvalid
<1>3. Log
  BY <1>0 DEF Log
<1>4. ASSUME NEW a \in Attempts PROVE Local(a)
  <2>1. /\ pc[a] = "none" /\ queue[a] = <<>> /\ seen[a] = <<>> /\ boundary[a] = TRUE
        /\ failing[a] = FALSE /\ asked[a] = {} /\ lease # a /\ DOMAIN queue[a] = {}
        /\ DOMAIN seen[a] = {} /\ Len(seen[a]) = 0 /\ Len(log) = 0
    OBVIOUS
  <2>2. Shape(a) /\ Holder(a) /\ Informed(a) /\ Closed(a)
    BY <2>1 DEF Shape, Holder, Informed, Closed, Knowing, Storing
  <2>3. Known(a)
    BY <1>0, <2>1 DEF Known
  <2>4. Mine(a)
    BY <1>0 DEF Mine, Unsafe, Positions
  <2> QED
    BY <2>2, <2>3, <2>4 DEF Local
<1> QED
  BY <1>1, <1>2, <1>3, <1>4 DEF IInv, Global

\* No step of the Run's Attempts, of the queue, the clock or the Member breaks the
\* inductive invariant.
LEMMA NextIInv == IInv /\ [Next]_vars => IInv'
<1> SUFFICES ASSUME IInv, [Next]_vars PROVE IInv'
  OBVIOUS
<1>0. Typed'
  BY TypedStep
<1>1. CASE Claim
  BY <1>0, <1>1, ClaimStep
<1>2. CASE ExpireLease \/ PassDeadline \/ (\E m \in Messages : SendSteering(m))
  BY <1>0, <1>2, ClockStep
<1>3. ASSUME NEW status \in {"cancelled", "failed"}, Stop(status) PROVE IInv'
  BY <1>0, <1>3, StopStep
<1>4. ASSUME NEW a \in Attempts, AttemptStep(a) PROVE IInv'
  <2>1. ASSUME NEW ok \in SUBSET running[a], FinishActions(a, ok) PROVE IInv'
    BY <1>0, <2>1, FinishActionsStep
  <2>2. ASSUME NEW commits \in BOOLEAN, Decided(a, commits) PROVE IInv'
    BY <1>0, <2>2, DecidedStep
  <2> QED
    BY <1>0, <1>4, <2>1, <2>2, LoadStep, StartPublishStep, PublishTxStep, GiveUpStep,
       ReconcilePublishStep, CloseUnknownStep, StartActionsStep, ReadSteeringStep,
       CheckAuthorityStep, DecideStep, AppendExistingStep, AppendInsertStep, ReconcileStep,
       FailRunStep DEF AttemptStep
<1>5. CASE UNCHANGED vars
  <2>1. \A b \in Attempts \cup {inFlight} : Same(b)
    BY <1>5 DEF vars, attempts, Same
  <2>2. AnswerIsAcceptedDraft' /\ NoFalseCompletion'
    BY <1>5 DEF vars, rows, attempts, IInv, Global, AnswerIsAcceptedDraft, NoFalseCompletion
  <2> QED
    BY <1>0, <1>5, <2>1, <2>2, RowsStep DEF vars, rows, IInv, Global, Fence
<1> QED
  BY <1>1, <1>2, <1>3, <1>4, <1>5 DEF Next

\* Every reachable state satisfies the inductive invariant.
THEOREM Invariance == Spec => []IInv
<1> QED
  BY InitIInv, NextIInv, PTL DEF Spec


\* Rows and Attempts stay within their types; an append or a publication is tried
\* at most twice.
THEOREM TypeCorrect == Spec => []TypeOK
<1>1. IInv => TypeOK
  BY DEF IInv, Global, Typed
<1> QED
  BY <1>1, Invariance, PTL

\* An Action that is not safe to replay is started at most once, over all Attempts
\* of the Run, stragglers included.
THEOREM UnsafeRunsOnce == Spec => []UnsafeAtMostOnce
<1>1. IInv => UnsafeAtMostOnce
  <2> SUFFICES ASSUME IInv, NEW p \in Positions(log, "proposal"), NEW i \in DOMAIN log[p].batch,
                      log[p].batch[i] \notin ReplaySafe
               PROVE  started[<<log[p].decision, i>>] <= 1
    BY DEF UnsafeAtMostOnce
  <2>1. log[p] \in Checkpts /\ log[p].kind = "proposal"
    BY AppendFacts DEF IInv, Global, Log, WellFormed, Positions
  <2>2. log[p].batch \in Batches /\ log[p].decision \in 1..MaxDecisions
        /\ log[p].payload \in Attempts
    BY <2>1, CheckpointsAssumption DEF Checkpts, AnyCheckpoint, Made, Attempts
  <2>3. i \in 1..MaxActions
    BY <2>2, CheckpointsAssumption
  <2>4. Mine(log[p].payload)
    BY <2>2 DEF IInv, Local
  <2>5. Unsafe(log, log[p].payload, log[p].decision, i)
    BY DEF Unsafe
  <2> QED
    BY <2>2, <2>3, <2>4, <2>5 DEF Mine
<1> QED
  BY <1>1, Invariance, PTL

\* What is published is the one accepted Final Draft, a success is reported only of
\* a completed Run, and the lease holder meets no invalid checkpoint.
THEOREM PublicationIsAccepted == Spec => []PublicationHolds
<1>1. IInv => PublicationHolds
  BY DEF IInv, Global, PublicationHolds
<1> QED
  BY <1>1, Invariance, PTL

\* The step formula of AcceptedIsStored for Attempt a.
PastStored(a) ==
    (queue[a] # <<>> /\ queue'[a] = Tail(queue[a])) => \E i \in DOMAIN log' : log'[i] = Write(a)

\* A queue shrinks only when its first checkpoint was found, or was appended; it is
\* filled only when it is empty.
LEMMA StepPastStored == IInv /\ [Next]_vars => \A a \in Attempts : PastStored(a)
<1> SUFFICES ASSUME IInv, [Next]_vars, NEW a \in Attempts PROVE PastStored(a)
  OBVIOUS
<1>0. /\ queue \in [Attempts -> Seq(Checkpts)] /\ queue[a] \in Seq(Checkpts)
      /\ log \in Seq(Checkpts)
      /\ \A b \in Attempts : pc[b] \in Knowing => queue[b] = <<>>
  BY DEF IInv, Global, Typed, Log, WellFormed, Local, Shape
<1>1. ASSUME queue'[a] = queue[a] PROVE PastStored(a)
  <2>1. ASSUME queue[a] # <<>> PROVE Tail(queue[a]) # queue[a]
    <3>1. Len(Tail(queue[a])) = Len(queue[a]) - 1 /\ Len(queue[a]) \in Nat
      BY <1>0, <2>1, HeadTailProperties
    <3>2. Len(Tail(queue[a])) # Len(queue[a])
      BY <3>1
    <3> QED
      BY <3>2, Zenon
  <2> QED
    BY <1>1, <2>1 DEF PastStored
<1>2. ASSUME NEW b \in Attempts, NEW s, NEW where, Enqueue(b, s, where), queue[b] = <<>>
      PROVE  PastStored(a)
  <2>1. CASE b = a
    BY <1>2, <2>1 DEF PastStored
  <2>2. CASE b # a
    BY <1>0, <1>1, <1>2, <2>2 DEF Enqueue
  <2> QED
    BY <2>1, <2>2
<1>3. ASSUME NEW b \in Attempts, Accepted(b), \E i \in DOMAIN log' : log'[i] = Write(b)
      PROVE  PastStored(a)
  <2>1. CASE b = a
    BY <1>3, <2>1 DEF PastStored
  <2>2. CASE b # a
    BY <1>0, <1>1, <1>3, <2>2 DEF Accepted
  <2> QED
    BY <2>1, <2>2
<1>4. CASE Claim \/ ExpireLease \/ PassDeadline \/ (\E m \in Messages : SendSteering(m))
           \/ (\E status \in {"cancelled", "failed"} : Stop(status)) \/ UNCHANGED vars
  BY <1>1, <1>4 DEF Claim, ExpireLease, PassDeadline, SendSteering, Stop, vars, attempts
<1>5. ASSUME NEW b \in Attempts, AttemptStep(b) PROVE PastStored(a)
  <2>1. CASE Load(b) \/ StartPublish(b) \/ StartActions(b)
             \/ (\E commits \in BOOLEAN : Decided(b, commits))
    BY <1>1, <2>1 DEF Load, StartPublish, StartActions, Decided, attempts
  <2>2. CASE PublishTx(b) \/ PublishRefused(b)
             \/ CheckAuthority(b, "model", "thinking") \/ CheckAuthority(b, "thinking", "decided")
             \/ AppendRefused(b) \/ FailRun(b) \/ ReturnToolError(b) \/ Resolve(b)
             \/ (\E where \in Exits : Interrupt(b, where))
    BY <1>1, <2>2 DEF PublishTx, PublishRefused, CheckAuthority, AppendRefused, FailRun,
       ReturnToolError, Resolve, Interrupt, Leave
  <2>3. CASE ReconcilePublish(b)
    BY <1>1, <2>3 DEF ReconcilePublish, Leave
  <2>4. CASE CloseUnknown(b)
    BY <1>0, <1>2, <2>4 DEF CloseUnknown, Knowing
  <2>5. ASSUME NEW ok \in SUBSET running[b], FinishActions(b, ok) PROVE PastStored(a)
    BY <1>0, <1>2, <2>5 DEF FinishActions, Knowing
  <2>6. CASE ReadSteering(b)
    BY <1>0, <1>2, <2>6 DEF ReadSteering, Knowing
  <2>7. CASE Decide(b)
    BY <1>0, <1>2, <2>7 DEF Decide, Knowing
  <2>8. CASE AppendExisting(b)
    BY <1>1, <1>3, <2>8 DEF AppendExisting, Leave, Stored
  <2>9. CASE AppendInsert(b)
    <3>1. CASE log' = Append(log, Write(b)) /\ Accepted(b)
      <4>1. log'[Len(log) + 1] = Write(b) /\ Len(log) + 1 \in DOMAIN log'
        BY <1>0, <3>1
      <4> QED
        BY <1>3, <3>1, <4>1
    <3>2. CASE Leave(b, "invalid") \/ Leave(b, "reconcile")
      BY <1>1, <3>2 DEF Leave
    <3> QED
      BY <2>9, <3>1, <3>2 DEF AppendInsert
  <2>10. CASE Reconcile(b)
    BY <1>1, <1>3, <2>10 DEF Reconcile, Leave, Stored
  <2> QED
    BY <1>5, <2>1, <2>2, <2>3, <2>4, <2>5, <2>6, <2>7, <2>8, <2>9, <2>10 DEF AttemptStep
<1> QED
  BY <1>4, <1>5 DEF Next

\* The step formula of AcceptedActionsNotRepeated for Attempt a.
NotRepeated(a) ==
    (lease = a /\ pc[a] = "decide" /\ pc'[a] = "executing")
        => \A i \in running'[a] : ~HasResult(log, LastProposal(log).decision, i)

\* Only StartActions starts Actions, of the pending ones; the holder knows the log.
LEMMA StepNotRepeated == IInv /\ [Next]_vars => \A a \in Attempts : NotRepeated(a)
<1> SUFFICES ASSUME IInv, [Next]_vars, NEW a \in Attempts,
                    lease = a, pc[a] = "decide", pc'[a] = "executing"
             PROVE  \A i \in running'[a] : ~HasResult(log, LastProposal(log).decision, i)
  BY DEF NotRepeated
<1>0. /\ pc \in [Attempts -> Phases] /\ running \in [Attempts -> SUBSET Nat]
      /\ seen[a] = log
  BY DEF IInv, Global, Typed, TypeOK, Local, Holder, Knowing
<1>1. StartActions(a)
  <2>1. CASE Claim
    BY <1>0, <2>1 DEF Claim, Goto
  <2>2. CASE ExpireLease \/ PassDeadline \/ (\E m \in Messages : SendSteering(m))
             \/ (\E status \in {"cancelled", "failed"} : Stop(status)) \/ UNCHANGED vars
    BY <2>2 DEF ExpireLease, PassDeadline, SendSteering, Stop, vars, attempts
  <2>3. ASSUME NEW b \in Attempts, AttemptStep(b) PROVE StartActions(a)
    <3>1. ~(Load(b) \/ StartPublish(b))
      BY <1>0 DEF Load, StartPublish, Goto
    <3>2. ~(PublishTx(b) \/ PublishRefused(b) \/ AppendRefused(b) \/ FailRun(b)
            \/ ReturnToolError(b) \/ Resolve(b)
            \/ (\E where \in Exits : Interrupt(b, where)))
      BY <1>0 DEF PublishTx, PublishRefused, AppendRefused, FailRun, ReturnToolError, Resolve,
         Interrupt, Exits, Leave, Goto
    <3>3. ~(CheckAuthority(b, "model", "thinking") \/ CheckAuthority(b, "thinking", "decided"))
      BY <1>0 DEF CheckAuthority, Leave, Goto
    <3>4. ~ReconcilePublish(b)
      BY <1>0 DEF ReconcilePublish, Leave, Goto
    <3>5. ~(CloseUnknown(b) \/ ReadSteering(b) \/ Decide(b))
      BY <1>0 DEF CloseUnknown, ReadSteering, Decide, Enqueue, Goto
    <3>6. ~(\E ok \in SUBSET running[b] : FinishActions(b, ok))
      BY <1>0 DEF FinishActions, Enqueue, Goto
    <3>7. ~(AppendExisting(b) \/ AppendInsert(b))
      BY <1>0 DEF AppendExisting, AppendInsert, Accepted, Leave, Goto
    <3>8. ~Reconcile(b)
      BY <1>0 DEF Reconcile, Accepted, Leave, Goto
    <3>9. ~(\E commits \in BOOLEAN : Decided(b, commits))
      BY DEF Decided, attempts
    <3>10. StartActions(b)
      BY <2>3, <3>1, <3>2, <3>3, <3>4, <3>5, <3>6, <3>7, <3>8, <3>9 DEF AttemptStep
    <3> QED
      BY <1>0, <3>10 DEF StartActions, Goto
  <2> QED
    BY <2>1, <2>2, <2>3 DEF Next
<1>2. PICK S \in SUBSET PendingActions(log) : running' = [running EXCEPT ![a] = S]
  BY <1>0, <1>1, StartActionsFacts
<1> QED
  BY <1>0, <1>2 DEF PendingActions

\* The Controller goes on only past a stored checkpoint, and the Attempt with the
\* lease repeats no Action whose result is accepted.
THEOREM LogIsKept == Spec => LogHolds
<1>1. IInv /\ [Next]_vars =>
        [\A a \in Attempts :
          (queue[a] # <<>> /\ queue'[a] = Tail(queue[a]))
              => \E i \in DOMAIN log' : log'[i] = Write(a)]_vars
  BY StepPastStored DEF PastStored
<1>2. IInv /\ [Next]_vars =>
        [\A a \in Attempts :
          (lease = a /\ pc[a] = "decide" /\ pc'[a] = "executing")
              => \A i \in running'[a] :
                    ~HasResult(log, LastProposal(log).decision, i)]_vars
  BY StepNotRepeated DEF NotRepeated
<1> QED
  BY <1>1, <1>2, Invariance, PTL DEF Spec, LogHolds, AcceptedIsStored, AcceptedActionsNotRepeated

\* The step formula of SteeringPrecedesDecision.
Precedes ==
    \A i \in DOMAIN log' \ DOMAIN log :
        log'[i].kind \in {"proposal", "final"} => asked[log'[i].payload] \subseteq Delivered(log)

\* The log grows by what the lease holder has first in its queue; a decision there
\* is its own, and it made it knowing the messages it has delivered.
LEMMA StepPrecedes == IInv /\ [Next]_vars => Precedes
<1> SUFFICES ASSUME IInv, [Next]_vars PROVE Precedes
  OBVIOUS
<1>0. log \in Seq(Checkpts) /\ queue \in [Attempts -> Seq(Checkpts)]
  BY DEF IInv, Global, Typed, Log, WellFormed
<1>1. ASSUME log' = log PROVE Precedes
  BY <1>1 DEF Precedes
<1>2. ASSUME NEW b \in Attempts, lease = b, queue[b] # <<>>, log' = Append(log, Write(b))
      PROVE  Precedes
  <2>1. /\ queue[b] \in Seq(Checkpts) /\ 1 \in DOMAIN queue[b] /\ Write(b) = queue[b][1]
        /\ Write(b) \in Checkpts
    BY <1>0, <1>2, TailFacts, HeadTailProperties DEF Write
  <2>2. /\ Write(b).payload \in {0, b}
        /\ Write(b).kind \in {"proposal", "final"} => asked[b] \subseteq Delivered(log)
    BY <1>2, <2>1 DEF IInv, Local, Shape, Informed
  <2>3. Write(b).kind \in {"proposal", "final"} => Write(b).payload = b
    BY <2>1, <2>2 DEF Checkpts, Made
  <2>4. ASSUME NEW i \in DOMAIN log' \ DOMAIN log PROVE log'[i] = Write(b)
    BY <1>0, <1>2, <2>1, AppendFacts
  <2> QED
    BY <2>2, <2>3, <2>4 DEF Precedes
<1>3. CASE Claim \/ ExpireLease \/ PassDeadline \/ (\E m \in Messages : SendSteering(m))
           \/ (\E status \in {"cancelled", "failed"} : Stop(status)) \/ UNCHANGED vars
  BY <1>1, <1>3 DEF Claim, ExpireLease, PassDeadline, SendSteering, Stop, vars
<1>4. ASSUME NEW b \in Attempts, AttemptStep(b) PROVE Precedes
  <2>1. CASE AppendInsert(b)
    <3>1. queue[b] # <<>> /\ lease = b
      BY <2>1 DEF AppendInsert, Authority, IInv, Local, Shape, Storing
    <3> QED
      BY <1>1, <1>2, <2>1, <3>1 DEF AppendInsert
  <2>2. CASE \E commits \in BOOLEAN : Decided(b, commits)
    <3>1. lease = b
      BY <2>2 DEF Decided, IInv, Global, Flight, NoWrite, Attempts
    <3> QED
      BY <1>1, <1>2, <2>2, <3>1 DEF Decided
  <2>3. CASE Load(b) \/ StartPublish(b) \/ StartActions(b) \/ CloseUnknown(b) \/ ReadSteering(b)
             \/ Decide(b) \/ (\E ok \in SUBSET running[b] : FinishActions(b, ok))
    BY <1>1, <2>3 DEF Load, StartPublish, StartActions, CloseUnknown, ReadSteering, Decide,
       FinishActions
  <2>4. CASE PublishTx(b) \/ PublishRefused(b) \/ AppendRefused(b) \/ FailRun(b)
             \/ ReturnToolError(b) \/ Resolve(b) \/ ReconcilePublish(b)
             \/ (\E where \in Exits : Interrupt(b, where))
             \/ CheckAuthority(b, "model", "thinking") \/ CheckAuthority(b, "thinking", "decided")
    BY <1>1, <2>4 DEF PublishTx, PublishRefused, AppendRefused, FailRun, ReturnToolError,
       Resolve, ReconcilePublish, Interrupt, CheckAuthority
  <2>5. CASE AppendExisting(b) \/ Reconcile(b)
    BY <1>1, <2>5 DEF AppendExisting, Reconcile
  <2> QED
    BY <1>4, <2>1, <2>2, <2>3, <2>4, <2>5 DEF AttemptStep
<1> QED
  BY <1>3, <1>4 DEF Next

\* A message sent before the Attempt passed the steering boundary is delivered before
\* the decision that follows.
THEOREM SteeringIsHeard == Spec => SteeringPrecedesDecision
<1>1. IInv /\ [Next]_vars =>
        [\A i \in DOMAIN log' \ DOMAIN log :
          log'[i].kind \in {"proposal", "final"}
              => asked[log'[i].payload] \subseteq Delivered(log)]_vars
  BY StepPrecedes DEF Precedes
<1> QED
  BY <1>1, Invariance, PTL DEF Spec, SteeringPrecedesDecision
============================================================================
