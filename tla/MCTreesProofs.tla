--------------------------- MODULE MCTreesProofs ----------------------------
(***************************************************************************)
(* The properties the trees of Runs are checked for, from the theorems     *)
(* about their components.  In each scene the component that acts keeps    *)
(* its own inductive invariant, whatever values its constants have there,  *)
(* and the rows of the others do not change.                               *)
(***************************************************************************)
EXTENDS MCTrees, FiniteSetTheorems, TLAPS

(* Induction up to a limit, on a set: its least exception is no exception. *)
LEMMA Induction ==
    ASSUME NEW N \in Nat, NEW S, 0 \in S, \A n \in 1..N : n - 1 \in S => n \in S
    PROVE  0..N \subseteq S
<1> SUFFICES ASSUME (0..N) \ S # {} PROVE FALSE
  OBVIOUS
<1>1. PICK i \in (0..N) \ S : \A j \in (0..N) \ S : i <= j
  <2>1. (0..N) \ S \in SUBSET Int /\ IsFiniteSet((0..N) \ S)
    <3>1. IsFiniteSet(0..N) /\ (0..N) \ S \subseteq 0..N
      BY FS_Interval
    <3>2. (0..N) \ S \in SUBSET Int
      OBVIOUS
    <3> QED
      BY <3>1, <3>2, FS_Subset
  <2> QED
    BY <2>1, Waits!LeastOfFinite, TreesAssumption DEF Waits!IsFiniteSet, IsFiniteSet
<1>2. i \in 1..N /\ i - 1 \in 0..N /\ ~(i <= i - 1)
  BY <1>1
<1> QED
  BY <1>1, <1>2

(* A function whose values are given, each by the one before.              *)
Folded(N, V, v, F, f) ==
    f \in [0..N -> V] /\ f[0] = v /\ \A n \in 1..N : f[n] = F[n][f[n - 1]]

(* It exists.                                                              *)
LEMMA Folding ==
    ASSUME NEW N \in Nat, NEW V, NEW v \in V, NEW F \in [1..N -> [V -> V]]
    PROVE  \E f : Folded(N, V, v, F, f)
<1> DEFINE Folds(m, f) == f[0] = v /\ \A n \in 1..m : f[n] = F[n][f[n - 1]]
           S == {m \in 0..N : \E f \in [0..m -> V] : Folds(m, f)}
<1>1. 0 \in S
  <2>1. PICK f : f = [n \in 0..0 |-> v]
    OBVIOUS
  <2>2. f \in [0..0 -> V] /\ Folds(0, f)
    BY <2>1
  <2>3. 0 \in 0..N
    OBVIOUS
  <2> HIDE DEF Folds
  <2> QED
    BY <2>2, <2>3
<1>2. ASSUME NEW m \in 1..N, m - 1 \in S PROVE m \in S
  <2>1. PICK f \in [0..(m - 1) -> V] : Folds(m - 1, f)
    BY <1>2
  <2>2. PICK w : w = F[m][f[m - 1]]
    OBVIOUS
  <2>3. w \in V
    <3>1. m - 1 \in 0..(m - 1)
      OBVIOUS
    <3>2. f[m - 1] \in V
      BY <3>1
    <3> QED
      BY <2>2, <3>2
  <2>4. PICK g : g = [n \in 0..m |-> IF n = m THEN w ELSE f[n]]
    OBVIOUS
  <2>5. g \in [0..m -> V]
    <3>1. \A n \in 0..m : n # m => n \in 0..(m - 1)
      OBVIOUS
    <3> QED
      BY <2>3, <2>4, <3>1
  <2>6. \A n \in 0..(m - 1) : g[n] = f[n]
    BY <2>4
  <2>7. ASSUME NEW n \in 1..m PROVE g[n] = F[n][g[n - 1]]
    <3>1. CASE n = m
      <4>1. m - 1 \in 0..(m - 1) /\ m \in 0..m
        OBVIOUS
      <4>2. g[m - 1] = f[m - 1] /\ g[m] = w
        BY <2>4, <2>6, <4>1
      <4> QED
        BY <2>2, <3>1, <4>2
    <3>2. CASE n \in 1..(m - 1)
      <4>1. f[n] = F[n][f[n - 1]]
        BY <2>1, <3>2
      <4>2. g[n] = f[n] /\ g[n - 1] = f[n - 1]
        BY <2>6, <3>2
      <4> QED
        BY <4>1, <4>2
    <3> QED
      BY <3>1, <3>2
  <2>8. g[0] = v
    BY <2>1, <2>6
  <2>9. m \in 0..N /\ Folds(m, g)
    BY <2>7, <2>8
  <2> QED
    BY <2>5, <2>9
<1> HIDE DEF S
<1>3. 0..N \subseteq S
  BY <1>1, <1>2, Induction
<1>4. N \in S
  BY <1>3
<1>5. PICK f \in [0..N -> V] : Folds(N, f)
  BY <1>4 DEF S
<1> QED
  BY <1>5 DEF Folded

(* Instances count as FiniteSets does.                                     *)
LEMMA Counting == \A k, S : Reads(k)!Cardinality(S) = Cardinality(S)
BY DEF Reads!Cardinality, Cardinality

-----------------------------------------------------------------------------
(* Reading.  The instance has its constants as parameter.                  *)

ReadTyped(k) ==
    /\ rd_log \in Seq(Seq(Reads(k)!Entries)) /\ Len(rd_log) <= k.decisions
    /\ \A d \in 1..Len(rd_log) : Len(rd_log[d]) <= k.batch
    /\ rd_children \in Seq(Reads(k)!ChildRows)
    /\ rd_ledger \in [k.urls -> Reads(k)!LedgerRows]
    /\ rd_started \in BOOLEAN /\ rd_crashes \in Nat /\ rd_published \subseteq k.urls

(* Nothing happens before the Run starts.  Every decision but the last is  *)
(* complete, and only the last is due, once it is.                         *)
ReadOrder ==
    /\ ~rd_started => rd_log = <<>> /\ rd_children = <<>> /\ rd_due = {} /\ rd_published = {}
    /\ \A d \in 1..(Len(rd_log) - 1) : \A i \in DOMAIN rd_log[d] : rd_log[d][i].result # "none"
    /\ \A d \in rd_due : /\ d = Len(rd_log) /\ d > 0
                         /\ \A i \in DOMAIN rd_log[d] : rd_log[d][i].result # "none"
    /\ rd_late \subseteq 1..Len(rd_log)
    /\ rd_published # {} => rd_due = {}

(* Text is the outcome of read_url only, and of readers.                   *)
Text == {"text", "excerpt"}
ReadOutcomes ==
    /\ \A d \in DOMAIN rd_log : \A i \in DOMAIN rd_log[d] :
          rd_log[d][i].done \in Text \/ rd_log[d][i].result \in Text => rd_log[d][i].call.tool = "read_url"
    /\ \A c \in DOMAIN rd_children :
          /\ rd_children[c].due => rd_children[c].result # "none"
          /\ rd_children[c].result # "none" => rd_children[c].task = "reader"

LedgerShown(k) == \A u \in k.urls : rd_ledger[u].status = "read" => u \in Reads(k)!Shown

(* While nothing died, what was shown is read or about to be recorded.     *)
LedgerKeeps ==
    rd_crashes = 0 =>
       /\ rd_late = {}
       /\ \A d \in DOMAIN rd_log : \A i \in DOMAIN rd_log[d] :
             rd_log[d][i].result \in Text =>
                \/ d \in rd_due
                \/ d = Len(rd_log) /\ \E j \in DOMAIN rd_log[d] : rd_log[d][j].result = "none"
                \/ rd_ledger[rd_log[d][i].call.url].status = "read"
       /\ \A c \in DOMAIN rd_children :
             rd_children[c].result = "text" =>
                rd_children[c].due \/ rd_ledger[rd_children[c].url].status = "read"

ReadIInv(k) ==
    /\ ReadTyped(k) /\ ReadOrder /\ ReadOutcomes
    /\ Reads(k)!OneReaderPerDocument /\ LedgerShown(k) /\ Reads(k)!LinksWereRead /\ LedgerKeeps

(* Rows of sequences.                                                      *)
LEMMA SequencesAre ==
    ASSUME NEW S, NEW s \in Seq(S)
    PROVE  DOMAIN s = 1..Len(s) /\ Len(s) \in Nat /\ \A i \in 1..Len(s) : s[i] \in S
OBVIOUS

LEMMA Appended ==
    ASSUME NEW S, NEW s \in Seq(S), NEW e \in S, NEW t, t = Append(s, e)
    PROVE  /\ t \in Seq(S) /\ Len(t) = Len(s) + 1 /\ DOMAIN t = 1..(Len(s) + 1)
           /\ \A i \in 1..Len(s) : t[i] = s[i]
           /\ t[Len(s) + 1] = e
OBVIOUS

LEMMA Replaced ==
    ASSUME NEW S, NEW s \in Seq(S), NEW i \in 1..Len(s), NEW e \in S, NEW t, t = [s EXCEPT ![i] = e]
    PROVE  /\ t \in Seq(S) /\ Len(t) = Len(s) /\ DOMAIN t = DOMAIN s
           /\ \A j \in 1..Len(s) : t[j] = IF j = i THEN e ELSE s[j]
OBVIOUS

(* What may be read of an instance's constants.                            *)
LEMMA LimitsAre ==
    ASSUME NEW k, Reads(k)!ResearchReadingAssumption
    PROVE  /\ k.urls # {} /\ k.final \in [k.urls -> k.urls] /\ DOMAIN k.document = k.urls
           /\ {k.scouts, k.decisions, k.batch, k.active, k.total, k.recommended, k.crashes} \subseteq Nat
BY DEF Reads!ResearchReadingAssumption

LEMMA ReadInit == ASSUME NEW k, Reads(k)!ResearchReadingAssumption, Reads(k)!Init PROVE ReadIInv(k)
<1>1. /\ rd_log = <<>> /\ rd_started = FALSE /\ rd_children = <<>> /\ rd_due = {} /\ rd_late = {}
      /\ rd_crashes = 0 /\ rd_published = {} /\ rd_ledger = [u \in k.urls |-> Reads(k)!NoRow]
  BY DEF Reads!Init
<1>2. Reads(k)!NoRow \in Reads(k)!LedgerRows /\ Reads(k)!NoRow.status # "read"
  BY DEF Reads!NoRow, Reads!LedgerRows
<1>3. ReadTyped(k)
  <2>1. rd_log \in Seq(Seq(Reads(k)!Entries)) /\ rd_children \in Seq(Reads(k)!ChildRows)
        /\ Len(rd_log) = 0
    BY <1>1
  <2>2. k.decisions \in Nat
    BY LimitsAre
  <2>3. rd_ledger \in [k.urls -> Reads(k)!LedgerRows]
    BY <1>1, <1>2
  <2>4. 0 <= k.decisions /\ \A d \in 1..0 : Len(rd_log[d]) <= k.batch
    BY <2>2
  <2> QED
    BY <1>1, <2>1, <2>3, <2>4 DEF ReadTyped
<1>4. ReadOrder /\ ReadOutcomes /\ LedgerKeeps
  BY <1>1 DEF ReadOrder, ReadOutcomes, LedgerKeeps
<1>5. LedgerShown(k)
  BY <1>1, <1>2 DEF LedgerShown
<1>6. Reads(k)!OneReaderPerDocument /\ Reads(k)!LinksWereRead
  BY <1>1 DEF Reads!OneReaderPerDocument, Reads!Readers, Reads!LinksWereRead
<1> QED
  BY <1>3, <1>4, <1>5, <1>6 DEF ReadIInv

-----------------------------------------------------------------------------
(* The log. *)

(* What the rows are.                                                      *)
LEMMA RowsAre ==
    ASSUME NEW k, ReadTyped(k)
    PROVE  /\ Len(rd_log) \in Nat /\ Len(rd_children) \in Nat
           /\ DOMAIN rd_log = 1..Len(rd_log) /\ DOMAIN rd_children = 1..Len(rd_children)
           /\ \A d \in 1..Len(rd_log) :
                 /\ rd_log[d] \in Seq(Reads(k)!Entries) /\ DOMAIN rd_log[d] = 1..Len(rd_log[d])
                 /\ Len(rd_log[d]) \in Nat /\ Len(rd_log[d]) <= k.batch
                 /\ \A i \in DOMAIN rd_log[d] : rd_log[d][i] \in Reads(k)!Entries
           /\ \A c \in 1..Len(rd_children) : rd_children[c] \in Reads(k)!ChildRows
<1>1. rd_log \in Seq(Seq(Reads(k)!Entries)) /\ rd_children \in Seq(Reads(k)!ChildRows)
      /\ \A d \in 1..Len(rd_log) : Len(rd_log[d]) <= k.batch
  BY DEF ReadTyped
<1>2. \A d \in 1..Len(rd_log) : rd_log[d] \in Seq(Reads(k)!Entries)
  BY <1>1, SequencesAre
<1> QED
  BY <1>1, <1>2, SequencesAre

(* Whose text the log or a reader has was shown.                           *)
LEMMA ShownIf ==
    ASSUME NEW k, Reads(k)!ResearchReadingAssumption, ReadTyped(k), ReadOutcomes
    PROVE  /\ \A d \in DOMAIN rd_log : \A i \in DOMAIN rd_log[d] :
                 rd_log[d][i].result \in Text => rd_log[d][i].call.url \in Reads(k)!Shown
           /\ \A c \in DOMAIN rd_children :
                 rd_children[c].result = "text" => rd_children[c].url \in Reads(k)!Shown
<1>1. ASSUME NEW d \in DOMAIN rd_log, NEW i \in DOMAIN rd_log[d], rd_log[d][i].result \in Text
      PROVE  rd_log[d][i].call.url \in Reads(k)!Shown
  <2>1. d \in 1..Len(rd_log) /\ i \in 1..Len(rd_log[d]) /\ Len(rd_log[d]) \in Nat
        /\ Len(rd_log[d]) <= k.batch /\ k.batch \in Nat
    BY RowsAre, LimitsAre
  <2>2. i \in 1..k.batch
    BY <2>1
  <2>3. <<d, i>> \in (1..Len(rd_log)) \X (1..k.batch) /\ <<d, i>>[1] = d /\ <<d, i>>[2] = i
    BY <2>1, <2>2
  <2> QED
    BY <1>1, <2>3 DEF Reads!Shown, Reads!Now, Text
<1>2. ASSUME NEW c \in DOMAIN rd_children, rd_children[c].result = "text"
      PROVE  rd_children[c].url \in Reads(k)!Shown
  BY <1>2 DEF Reads!Shown, Reads!Readers, ReadOutcomes
<1> QED
  BY <1>1, <1>2

(* And only that.                                                          *)
LEMMA ShownOnly ==
    ASSUME NEW k, NEW u \in Reads(k)!Shown
    PROVE  \/ \E d \in 1..Len(rd_log) : \E i \in DOMAIN rd_log[d] :
                 i \in 1..k.batch /\ rd_log[d][i].result \in Text /\ rd_log[d][i].call.url = u
           \/ \E c \in DOMAIN rd_children :
                 /\ rd_children[c].result = "text" /\ rd_children[c].task = "reader"
                 /\ rd_children[c].url = u
<1>1. CASE \E x \in (1..Len(rd_log)) \X (1..k.batch) :
              /\ x[2] \in DOMAIN rd_log[x[1]] /\ rd_log[x[1]][x[2]].result \in Text
              /\ u = rd_log[x[1]][x[2]].call.url
  BY <1>1
<1>2. CASE \E c \in Reads(k)!Readers(rd_children) : rd_children[c].result = "text" /\ u = rd_children[c].url
  BY <1>2 DEF Reads!Readers
<1> QED
  BY <1>1, <1>2 DEF Reads!Shown, Reads!Now, Text

(* Nothing that was shown is taken back.                                   *)
LEMMA ShownStays ==
    ASSUME NEW k,
           \A d \in 1..Len(rd_log) : \A i \in DOMAIN rd_log[d] :
              rd_log[d][i].result \in Text =>
                 /\ d \in 1..Len(rd_log') /\ i \in DOMAIN rd_log'[d]
                 /\ rd_log'[d][i].result = rd_log[d][i].result /\ rd_log'[d][i].call = rd_log[d][i].call,
           \A c \in DOMAIN rd_children :
              rd_children[c].result = "text" =>
                 /\ c \in DOMAIN rd_children' /\ rd_children'[c].result = "text"
                 /\ rd_children'[c].task = rd_children[c].task /\ rd_children'[c].url = rd_children[c].url
    PROVE  \A u \in Reads(k)!Shown : u \in Reads(k)!Shown'
<1> SUFFICES ASSUME NEW u \in Reads(k)!Shown PROVE u \in Reads(k)!Shown'
  OBVIOUS
<1>1. CASE \E d \in 1..Len(rd_log) : \E i \in DOMAIN rd_log[d] :
              i \in 1..k.batch /\ rd_log[d][i].result \in Text /\ rd_log[d][i].call.url = u
  <2>1. PICK d \in 1..Len(rd_log) : \E i \in DOMAIN rd_log[d] :
              i \in 1..k.batch /\ rd_log[d][i].result \in Text /\ rd_log[d][i].call.url = u
    BY <1>1
  <2>2. PICK i \in DOMAIN rd_log[d] :
              i \in 1..k.batch /\ rd_log[d][i].result \in Text /\ rd_log[d][i].call.url = u
    BY <2>1
  <2>3. /\ d \in 1..Len(rd_log') /\ i \in DOMAIN rd_log'[d]
        /\ rd_log'[d][i].result \in Text /\ rd_log'[d][i].call.url = u
    BY <2>2
  <2>4. <<d, i>> \in (1..Len(rd_log')) \X (1..k.batch) /\ <<d, i>>[1] = d /\ <<d, i>>[2] = i
    BY <2>2, <2>3
  <2> QED
    BY <2>3, <2>4 DEF Reads!Shown, Reads!Now, Text
<1>2. CASE \E c \in DOMAIN rd_children :
              /\ rd_children[c].result = "text" /\ rd_children[c].task = "reader"
              /\ rd_children[c].url = u
  BY <1>2 DEF Reads!Shown, Reads!Readers
<1> QED
  BY <1>1, <1>2, ShownOnly
-----------------------------------------------------------------------------
(* What steps do to the rows. *)

(* The log keeps its calls and Results; the children keep theirs, and new  *)
(* ones have none and are of documents nobody reads.                       *)
LogMoves(k) ==
    /\ rd_log' \in Seq(Seq(Reads(k)!Entries)) /\ Len(rd_log') = Len(rd_log)
    /\ \A d \in 1..Len(rd_log) :
          /\ Len(rd_log'[d]) = Len(rd_log[d])
          /\ \A i \in 1..Len(rd_log[d]) :
                /\ rd_log'[d][i].call = rd_log[d][i].call /\ rd_log'[d][i].result = rd_log[d][i].result
                /\ rd_log'[d][i].done \in Text => rd_log[d][i].call.tool = "read_url"

Single(k, cs) ==
    \A c, e \in Reads(k)!Readers(cs) : k.document[cs[c].url] = k.document[cs[e].url] => c = e

Grown(k, cs) ==
    /\ cs \in Seq(Reads(k)!ChildRows) /\ Len(rd_children) <= Len(cs)
    /\ \A c \in 1..Len(rd_children) : cs[c] = rd_children[c]
    /\ \A c \in 1..Len(cs) : c > Len(rd_children) => cs[c].result = "none" /\ ~cs[c].due
    /\ Single(k, cs)

LEMMA GrownAlready == ASSUME NEW k, ReadIInv(k) PROVE Grown(k, rd_children)
<1>1. Len(rd_children) \in Nat /\ rd_children \in Seq(Reads(k)!ChildRows)
  BY RowsAre DEF ReadIInv, ReadTyped
<1>2. Single(k, rd_children)
  BY DEF ReadIInv, Single, Reads!OneReaderPerDocument
<1> QED
  BY <1>1, <1>2 DEF Grown

(* A step that stores no Result and writes no ledger.                      *)
LEMMA QuietKeeps ==
    ASSUME NEW k, Reads(k)!ResearchReadingAssumption, ReadIInv(k), LogMoves(k), Grown(k, rd_children'),
           UNCHANGED <<rd_started, rd_ledger, rd_published>>,
           rd_started \/ UNCHANGED <<rd_log, rd_children>>,
           \/ UNCHANGED <<rd_due, rd_late, rd_crashes>>
           \/ rd_due' = {} /\ rd_late' \subseteq 1..Len(rd_log) /\ rd_crashes' \in Nat /\ rd_crashes' # 0
    PROVE  ReadIInv(k)'
<1>1. Len(rd_log') = Len(rd_log) /\ Len(rd_log) \in Nat /\ Len(rd_children) \in Nat
      /\ DOMAIN rd_log = 1..Len(rd_log) /\ DOMAIN rd_children = 1..Len(rd_children)
  BY RowsAre DEF ReadIInv, LogMoves
<1>2. \A d \in 1..Len(rd_log) : rd_log'[d] \in Seq(Reads(k)!Entries)
  <2>1. PICK l : l = rd_log'
    OBVIOUS
  <2>2. \A d \in 1..Len(l) : l[d] \in Seq(Reads(k)!Entries)
    BY <2>1, SequencesAre DEF LogMoves
  <2> QED
    BY <1>1, <2>1, <2>2
<1>3. \A d \in 1..Len(rd_log) : DOMAIN rd_log'[d] = DOMAIN rd_log[d] /\ DOMAIN rd_log[d] = 1..Len(rd_log[d])
  <2> TAKE d \in 1..Len(rd_log)
  <2>1. DOMAIN rd_log[d] = 1..Len(rd_log[d])
    BY RowsAre DEF ReadIInv
  <2>2. PICK s : s = rd_log'[d]
    OBVIOUS
  <2>3. s \in Seq(Reads(k)!Entries) /\ Len(s) = Len(rd_log[d])
    BY <1>2, <2>2 DEF LogMoves
  <2>4. DOMAIN s = 1..Len(s)
    BY <2>3
  <2> QED
    BY <2>1, <2>2, <2>3, <2>4
<1>4. DOMAIN rd_log' = 1..Len(rd_log)
  <2>1. PICK l : l = rd_log'
    OBVIOUS
  <2>2. DOMAIN l = 1..Len(l)
    BY <2>1 DEF LogMoves
  <2> QED
    BY <1>1, <2>1, <2>2
<1>5. rd_children' \in Seq(Reads(k)!ChildRows) /\ DOMAIN rd_children' = 1..Len(rd_children')
      /\ Len(rd_children) <= Len(rd_children') /\ Len(rd_children') \in Nat
  <2>1. PICK cs : cs = rd_children'
    OBVIOUS
  <2>2. DOMAIN cs = 1..Len(cs) /\ Len(cs) \in Nat
    BY <2>1 DEF Grown
  <2> QED
    BY <2>1, <2>2 DEF Grown
<1>6. \A d \in 1..Len(rd_log) : \A i \in DOMAIN rd_log[d] :
         /\ rd_log'[d][i].call = rd_log[d][i].call /\ rd_log'[d][i].result = rd_log[d][i].result
         /\ rd_log'[d][i].done \in Text => rd_log[d][i].call.tool = "read_url"
  BY <1>3 DEF LogMoves
<1>7. /\ \A c \in 1..Len(rd_children) : rd_children'[c] = rd_children[c]
      /\ \A c \in 1..Len(rd_children') :
            c \in 1..Len(rd_children) \/ (rd_children'[c].result = "none" /\ ~rd_children'[c].due)
  BY <1>1, <1>5 DEF Grown
<1>8. ReadTyped(k)'
  <2>1. \A d \in 1..Len(rd_log') : Len(rd_log'[d]) <= k.batch
    BY <1>1 DEF ReadIInv, ReadTyped, LogMoves
  <2>2. Len(rd_log') <= k.decisions /\ rd_log' \in Seq(Seq(Reads(k)!Entries))
    BY <1>1 DEF ReadIInv, ReadTyped, LogMoves
  <2> QED
    BY <1>5, <2>1, <2>2 DEF ReadIInv, ReadTyped
<1>9. ReadOutcomes'
  <2>1. ASSUME NEW d \in 1..Len(rd_log), NEW i \in DOMAIN rd_log[d],
               rd_log'[d][i].done \in Text \/ rd_log'[d][i].result \in Text
        PROVE  rd_log'[d][i].call.tool = "read_url"
    BY <1>1, <1>6, <2>1 DEF ReadIInv, ReadOutcomes
  <2>2. ASSUME NEW c \in 1..Len(rd_children')
        PROVE  /\ rd_children'[c].due => rd_children'[c].result # "none"
               /\ rd_children'[c].result # "none" => rd_children'[c].task = "reader"
    BY <1>1, <1>7 DEF ReadIInv, ReadOutcomes
  <2> QED
    BY <1>3, <1>4, <1>5, <2>1, <2>2 DEF ReadOutcomes
<1>10. ReadOrder'
  <2>1. \A d \in 1..(Len(rd_log') - 1) : \A i \in DOMAIN rd_log'[d] : rd_log'[d][i].result # "none"
    <3> TAKE d \in 1..(Len(rd_log') - 1)
    <3>1. d \in 1..(Len(rd_log) - 1) /\ d \in 1..Len(rd_log)
      BY <1>1
    <3>2. \A i \in DOMAIN rd_log[d] : rd_log[d][i].result # "none"
      BY <3>1 DEF ReadIInv, ReadOrder
    <3> QED
      BY <1>3, <1>6, <3>1, <3>2
  <2>2. ~rd_started' => rd_log' = <<>> /\ rd_children' = <<>> /\ rd_due' = {} /\ rd_published' = {}
    BY DEF ReadIInv, ReadOrder
  <2>3. rd_late' \subseteq 1..Len(rd_log') /\ (rd_published' # {} => rd_due' = {}) /\ rd_due' \subseteq rd_due
    BY <1>1 DEF ReadIInv, ReadOrder
  <2>4. \A d \in rd_due : d \in 1..Len(rd_log)
    BY <1>1 DEF ReadIInv, ReadOrder
  <2>5. ASSUME NEW d \in rd_due'
        PROVE  d = Len(rd_log') /\ d > 0 /\ \A i \in DOMAIN rd_log'[d] : rd_log'[d][i].result # "none"
    <3>1. d \in rd_due /\ d \in 1..Len(rd_log)
      BY <2>3, <2>4
    <3> QED
      BY <1>1, <1>3, <1>6, <3>1 DEF ReadIInv, ReadOrder
  <2> QED
    BY <2>1, <2>2, <2>3, <2>5 DEF ReadOrder
<1>11. \A u \in Reads(k)!Shown : u \in Reads(k)!Shown'
  <2>1. \A d \in 1..Len(rd_log) : \A i \in DOMAIN rd_log[d] :
           rd_log[d][i].result \in Text =>
              /\ d \in 1..Len(rd_log') /\ i \in DOMAIN rd_log'[d]
              /\ rd_log'[d][i].result = rd_log[d][i].result /\ rd_log'[d][i].call = rd_log[d][i].call
    BY <1>1, <1>3, <1>6
  <2>2. \A c \in DOMAIN rd_children :
           rd_children[c].result = "text" =>
              /\ c \in DOMAIN rd_children' /\ rd_children'[c].result = "text"
              /\ rd_children'[c].task = rd_children[c].task /\ rd_children'[c].url = rd_children[c].url
    BY <1>1, <1>5, <1>7
  <2> QED
    BY <2>1, <2>2, ShownStays
<1>12. LedgerShown(k)' /\ Reads(k)!LinksWereRead'
  BY <1>11 DEF ReadIInv, LedgerShown, Reads!LinksWereRead
<1>13. Reads(k)!OneReaderPerDocument'
  BY DEF Grown, Single, Reads!OneReaderPerDocument, Reads!Readers
<1>14. LedgerKeeps'
  <2> SUFFICES ASSUME rd_crashes' = 0 PROVE LedgerKeeps'
    BY DEF LedgerKeeps
  <2>1. rd_crashes = 0 /\ UNCHANGED <<rd_due, rd_late>>
    OBVIOUS
  <2>2. rd_late' = {}
    BY <2>1 DEF ReadIInv, LedgerKeeps
  <2>3. ASSUME NEW d \in 1..Len(rd_log), NEW i \in DOMAIN rd_log[d], rd_log'[d][i].result \in Text
        PROVE  \/ d \in rd_due'
               \/ d = Len(rd_log') /\ \E j \in DOMAIN rd_log'[d] : rd_log'[d][j].result = "none"
               \/ rd_ledger'[rd_log'[d][i].call.url].status = "read"
    <3>1. \/ d \in rd_due
          \/ d = Len(rd_log) /\ \E j \in DOMAIN rd_log[d] : rd_log[d][j].result = "none"
          \/ rd_ledger[rd_log[d][i].call.url].status = "read"
      BY <1>1, <1>6, <2>1, <2>3 DEF ReadIInv, LedgerKeeps
    <3> QED
      BY <1>1, <1>3, <1>6, <2>1, <3>1
  <2>4. ASSUME NEW c \in 1..Len(rd_children'), rd_children'[c].result = "text"
        PROVE  rd_children'[c].due \/ rd_ledger'[rd_children'[c].url].status = "read"
    BY <1>1, <1>7, <2>1, <2>4 DEF ReadIInv, LedgerKeeps
  <2> QED
    BY <1>3, <1>4, <1>5, <2>2, <2>3, <2>4 DEF LedgerKeeps
<1> QED
  BY <1>8, <1>9, <1>10, <1>12, <1>13, <1>14 DEF ReadIInv

-----------------------------------------------------------------------------
(* Children. *)

LEMMA CallsAre ==
    ASSUME NEW k, Reads(k)!ResearchReadingAssumption, NEW e \in Reads(k)!Entries
    PROVE  e.call \in Reads(k)!Calls /\ e.call.url \in k.urls /\ e.done \in Reads(k)!Outcomes
           /\ e.result \in Reads(k)!Outcomes /\ e = [call |-> e.call, done |-> e.done, result |-> e.result]
<1>1. e.call \in Reads(k)!Calls /\ e.done \in Reads(k)!Outcomes /\ e.result \in Reads(k)!Outcomes
      /\ e = [call |-> e.call, done |-> e.done, result |-> e.result]
  BY DEF Reads!Entries
<1>2. \A call \in Reads(k)!Calls : call.url \in k.urls
  <2>1. (CHOOSE u \in k.urls : TRUE) \in k.urls
    BY LimitsAre
  <2> QED
    BY <2>1 DEF Reads!Calls, Reads!Read, Reads!Other
<1> QED
  BY <1>1, <1>2

(* A reader of a document nobody reads.                                    *)
LEMMA ChildAdded ==
    ASSUME NEW k, Reads(k)!ResearchReadingAssumption, ReadTyped(k), NEW cs, Grown(k, cs),
           NEW u \in k.urls, NEW by \in (0..k.decisions) \X (0..(k.batch + k.scouts)),
           k.document[u] \notin Reads(k)!Reading(cs),
           NEW t, t = Append(cs, Reads(k)!Child("reader", u, by))
    PROVE  Grown(k, t)
<1>1. PICK e : e = Reads(k)!Child("reader", u, by)
  OBVIOUS
<1>2. e \in Reads(k)!ChildRows /\ e.result = "none" /\ ~e.due /\ e.task = "reader" /\ e.url = u
  BY <1>1 DEF Reads!Child, Reads!ChildRows
<1>3. cs \in Seq(Reads(k)!ChildRows) /\ Len(cs) \in Nat /\ DOMAIN cs = 1..Len(cs)
  BY DEF Grown
<1>4. /\ t \in Seq(Reads(k)!ChildRows) /\ Len(t) = Len(cs) + 1 /\ DOMAIN t = 1..(Len(cs) + 1)
      /\ \A i \in 1..Len(cs) : t[i] = cs[i]
      /\ t[Len(cs) + 1] = e
  BY <1>1, <1>2, <1>3, Appended
<1>5. Len(rd_children) \in Nat /\ Len(rd_children) <= Len(cs)
  BY RowsAre DEF Grown
<1>6. \A c \in 1..Len(t) : c \in 1..Len(cs) \/ c = Len(cs) + 1
  BY <1>3, <1>4
<1>7. \A c \in 1..Len(rd_children) : t[c] = rd_children[c]
  <2> TAKE c \in 1..Len(rd_children)
  <2>1. c \in 1..Len(cs)
    BY <1>3, <1>5
  <2> QED
    BY <1>4, <2>1 DEF Grown
<1>8. \A c \in 1..Len(t) : c > Len(rd_children) => t[c].result = "none" /\ ~t[c].due
  <2> TAKE c \in 1..Len(t)
  <2>1. CASE c \in 1..Len(cs)
    BY <1>4, <2>1 DEF Grown
  <2>2. CASE c = Len(cs) + 1
    BY <1>2, <1>4, <2>2
  <2> QED
    BY <1>6, <2>1, <2>2
<1>9. Single(k, t)
  <2>1. \A c \in Reads(k)!Readers(cs) : k.document[cs[c].url] # k.document[u]
    BY DEF Reads!Reading
  <2>2. \A c \in Reads(k)!Readers(t) :
           \/ c \in Reads(k)!Readers(cs) /\ t[c] = cs[c]
           \/ c = Len(cs) + 1 /\ t[c].url = u
    BY <1>2, <1>3, <1>4, <1>6 DEF Reads!Readers
  <2>3. \A c, e2 \in Reads(k)!Readers(cs) : k.document[cs[c].url] = k.document[cs[e2].url] => c = e2
    BY DEF Grown, Single
  <2>4. ASSUME NEW c \in Reads(k)!Readers(t), NEW e2 \in Reads(k)!Readers(t),
               k.document[t[c].url] = k.document[t[e2].url]
        PROVE  c = e2
    <3>1. CASE c \in Reads(k)!Readers(cs) /\ t[c] = cs[c]
      BY <2>1, <2>2, <2>3, <2>4, <3>1
    <3>2. CASE c = Len(cs) + 1 /\ t[c].url = u
      BY <2>1, <2>2, <2>4, <3>2
    <3> QED
      BY <2>2, <3>1, <3>2
  <2> QED
    BY <2>4 DEF Single
<1> QED
  BY <1>3, <1>4, <1>5, <1>7, <1>8, <1>9 DEF Grown

(* loadResearchQueuedReads has a first one.                                *)
LEMMA NextQueuedIs ==
    ASSUME NEW k, Reads(k)!ResearchReadingAssumption, ReadTyped(k), NEW cs, Reads(k)!Queued(cs) # {}
    PROVE  /\ Reads(k)!NextQueued(cs) \in Reads(k)!Queued(cs)
           /\ \A x \in Reads(k)!Queued(cs) :
                 /\ Reads(k)!UrlAt(x) \in k.urls
                 /\ x \in (0..k.decisions) \X (0..(k.batch + k.scouts))
                 /\ k.document[Reads(k)!UrlAt(x)] \notin Reads(k)!Reading(cs)
<1>1. PICK Q : Q = Reads(k)!Queued(cs)
  OBVIOUS
<1>2. Q \subseteq (1..Len(rd_log)) \X (1..k.batch) /\ Q # {}
  BY <1>1 DEF Reads!Queued, Reads!Excerpts, Reads!Now
<1>3. \A x \in Q : x[2] \in DOMAIN rd_log[x[1]] /\ k.document[Reads(k)!UrlAt(x)] \notin Reads(k)!Reading(cs)
  BY <1>1 DEF Reads!Queued, Reads!Excerpts
<1>4. Len(rd_log) \in Nat /\ Len(rd_log) <= k.decisions
      /\ {k.decisions, k.batch, k.scouts} \subseteq Nat
  BY RowsAre, LimitsAre DEF ReadTyped
<1>5. \A N \in Nat : \A T : T \subseteq 1..N /\ T # {} => \E i \in T : \A j \in T : i <= j
  <2> TAKE N \in Nat
  <2> TAKE T
  <2> HAVE T \subseteq 1..N /\ T # {}
  <2>1. IsFiniteSet(1..N) /\ 1..N \subseteq Int
    BY FS_Interval
  <2>2. IsFiniteSet(T) /\ T \in SUBSET Int
    BY <2>1, FS_Subset
  <2> QED
    BY <2>2, Waits!LeastOfFinite, TreesAssumption DEF Waits!IsFiniteSet, IsFiniteSet
<1>6. PICK a \in {x[1] : x \in Q} : \A b \in {x[1] : x \in Q} : a <= b
  <2>1. PICK T : T = {x[1] : x \in Q}
    OBVIOUS
  <2>2. T \subseteq 1..Len(rd_log) /\ T # {}
    BY <1>2, <2>1
  <2> QED
    BY <1>4, <1>5, <2>1, <2>2
<1>7. PICK b \in {x[2] : x \in {x \in Q : x[1] = a}} : \A d \in {x[2] : x \in {x \in Q : x[1] = a}} : b <= d
  <2>1. PICK T : T = {x[2] : x \in {x \in Q : x[1] = a}}
    OBVIOUS
  <2>2. T \subseteq 1..k.batch
    BY <1>2, <2>1
  <2>3. T # {}
    BY <1>6, <2>1
  <2> QED
    BY <1>4, <1>5, <2>1, <2>2, <2>3
<1>8. PICK x \in Q : x[1] = a /\ x[2] = b
  BY <1>7
<1>9. \A y \in Q : ~Reads(k)!Sooner(y, x)
  <2> TAKE y \in Q
  <2>1. a <= y[1] /\ (y[1] = a => b <= y[2])
    BY <1>6, <1>7
  <2>2. {x[1], y[1]} \subseteq Int /\ {x[2], y[2]} \subseteq Int
    BY <1>2
  <2> QED
    BY <1>8, <2>1, <2>2 DEF Reads!Sooner
<1>10. Reads(k)!NextQueued(cs) \in Q
  BY <1>1, <1>9 DEF Reads!NextQueued
<1>11. ASSUME NEW y \in Q
       PROVE  Reads(k)!UrlAt(y) \in k.urls /\ y \in (0..k.decisions) \X (0..(k.batch + k.scouts))
  <2>1. y[1] \in 1..Len(rd_log) /\ y[2] \in 1..k.batch /\ y = <<y[1], y[2]>> /\ y[2] \in DOMAIN rd_log[y[1]]
    BY <1>2, <1>3
  <2>2. rd_log[y[1]][y[2]] \in Reads(k)!Entries
    BY <2>1, RowsAre
  <2>3. y[1] \in 0..k.decisions /\ y[2] \in 0..(k.batch + k.scouts)
    BY <1>4, <2>1
  <2> QED
    BY <2>1, <2>2, <2>3, CallsAre DEF Reads!UrlAt
<1> QED
  BY <1>1, <1>3, <1>10, <1>11

(* dispatchQueuedResearchReadsInTx: one reader after another.              *)
LEMMA QueuedGrows ==
    ASSUME NEW k, Reads(k)!ResearchReadingAssumption, ReadTyped(k), NEW cs, Grown(k, cs)
    PROVE  Grown(k, Reads(k)!DispatchQueued(cs))
<1> DEFINE V == {x \in Seq(Reads(k)!ChildRows) : Grown(k, x)}
           Go(now) == IF Reads(k)!Queued(now) = {} \/ ~Reads(k)!Free(now) THEN now
                      ELSE Append(now, Reads(k)!Child("reader", Reads(k)!UrlAt(Reads(k)!NextQueued(now)),
                                                      Reads(k)!NextQueued(now)))
           N == Reads(k)!Cardinality(Reads(k)!Excerpts)
           Step(f) == [n \in 0..N |-> IF n = 0 THEN cs ELSE Go(f[n - 1])]
           more == CHOOSE f : f = Step(f)
<1>1. N \in Nat
  <2>1. IsFiniteSet((1..Len(rd_log)) \X (1..k.batch))
    <3>1. Len(rd_log) \in Nat /\ k.batch \in Nat
      BY RowsAre, LimitsAre
    <3>2. IsFiniteSet(1..Len(rd_log)) /\ IsFiniteSet(1..k.batch)
      BY <3>1, FS_Interval
    <3> QED
      BY <3>2, FS_Product
  <2>2. Reads(k)!Excerpts \subseteq (1..Len(rd_log)) \X (1..k.batch)
    BY DEF Reads!Excerpts, Reads!Now
  <2>3. Cardinality(Reads(k)!Excerpts) \in Nat
    BY <2>1, <2>2, FS_Subset, FS_CardinalityType
  <2> QED
    BY <2>3, Counting
<1>2. cs \in V
  BY DEF Grown
<1>3. ASSUME NEW x \in V PROVE Go(x) \in V
  <2>1. CASE Reads(k)!Queued(x) = {} \/ ~Reads(k)!Free(x)
    BY <2>1
  <2>2. CASE ~(Reads(k)!Queued(x) = {} \/ ~Reads(k)!Free(x))
    <3>1. PICK y : y = Reads(k)!NextQueued(x)
      OBVIOUS
    <3>2. y \in Reads(k)!Queued(x) /\ Reads(k)!UrlAt(y) \in k.urls
          /\ y \in (0..k.decisions) \X (0..(k.batch + k.scouts))
          /\ k.document[Reads(k)!UrlAt(y)] \notin Reads(k)!Reading(x)
      BY <2>2, <3>1, NextQueuedIs
    <3>3. PICK t : t = Append(x, Reads(k)!Child("reader", Reads(k)!UrlAt(y), y))
      OBVIOUS
    <3>4. Grown(k, t)
      BY <3>2, <3>3, ChildAdded
    <3>5. t \in V
      BY <3>4 DEF Grown
    <3> QED
      BY <2>2, <3>1, <3>3, <3>5
  <2> QED
    BY <2>1, <2>2
<1>4. Reads(k)!DispatchQueued(cs) = more[N]
  BY DEF Reads!DispatchQueued
<1> HIDE DEF Go, V, N
<1>5. PICK F : F = [n \in 1..N |-> [y \in V |-> Go(y)]]
  OBVIOUS
<1>6. F \in [1..N -> [V -> V]]
  BY <1>3, <1>5
<1>7. PICK f \in [0..N -> V] : f[0] = cs /\ \A n \in 1..N : f[n] = F[n][f[n - 1]]
  <2>1. PICK M, W : M = N /\ W = V
    OBVIOUS
  <2>2. M \in Nat /\ cs \in W /\ F \in [1..M -> [W -> W]]
    BY <1>1, <1>2, <1>6, <2>1
  <2>3. PICK f : Folded(M, W, cs, F, f)
    BY <2>2, Folding
  <2> QED
    BY <2>1, <2>3 DEF Folded
<1>8. f = Step(f)
  <2>1. ASSUME NEW n \in 1..N PROVE f[n] = Go(f[n - 1])
    <3>1. n - 1 \in 0..N
      BY <1>1
    <3>2. f[n - 1] \in V
      BY <1>7, <3>1
    <3> QED
      BY <1>5, <1>7, <3>2
  <2>2. \A n \in 0..N : n = 0 \/ (n # 0 /\ n \in 1..N)
    BY <1>1
  <2>3. \A n \in 0..N : f[n] = IF n = 0 THEN cs ELSE Go(f[n - 1])
    BY <1>7, <2>1, <2>2
  <2> QED
    BY <1>7, <2>3
<1>9. more = Step(more)
  BY <1>8
<1> HIDE DEF more
<1>10. more[0] = cs /\ \A n \in 1..N : more[n] = Go(more[n - 1])
  <2>1. \A n \in 0..N : more[n] = IF n = 0 THEN cs ELSE Go(more[n - 1])
    BY <1>9
  <2>2. 0 \in 0..N /\ \A n \in 1..N : n # 0 /\ n \in 0..N
    BY <1>1
  <2> QED
    BY <2>1, <2>2
<1>11. 0..N \subseteq {n \in 0..N : more[n] \in V}
  <2>1. PICK S : S = {n \in 0..N : more[n] \in V}
    OBVIOUS
  <2>2. 0 \in S
    BY <1>1, <1>2, <1>10, <2>1
  <2>3. \A n \in 1..N : n - 1 \in S => n \in S
    BY <1>1, <1>3, <1>10, <2>1
  <2> QED
    BY <1>1, <2>1, <2>2, <2>3, Induction
<1>12. more[N] \in V
  BY <1>1, <1>11
<1> QED
  BY <1>4, <1>12 DEF V

(* dispatchRecommendedResearchReadsInTx, in whatever order.                *)
LEMMA RecommendedGrows ==
    ASSUME NEW k, Reads(k)!ResearchReadingAssumption, ReadTyped(k), NEW cs, Grown(k, cs)
    PROVE  \A x \in Reads(k)!DispatchRecommended(cs) : Grown(k, x)
<1> DEFINE W == {x \in Seq(Reads(k)!ChildRows) : Grown(k, x)}
           V == SUBSET W
           Go(X) == UNION {Reads(k)!OneRecommended(now) : now \in X}
           N == k.recommended
           Step(f) == [n \in 0..N |-> IF n = 0 THEN {cs} ELSE Go(f[n - 1])]
           more == CHOOSE f : f = Step(f)
<1>1. N \in Nat
  BY LimitsAre
<1>2. {cs} \in V
  BY DEF Grown
<1>3. ASSUME NEW x \in W, NEW y \in Reads(k)!OneRecommended(x) PROVE y \in W
  <2>1. CASE Reads(k)!Recommends(x) = {}
    BY <1>3, <2>1 DEF Reads!OneRecommended
  <2>2. CASE Reads(k)!Recommends(x) # {}
    <3>1. PICK u \in Reads(k)!Recommends(x) : y = Append(x, Reads(k)!Child("reader", u, <<0, 0>>))
      BY <1>3, <2>2 DEF Reads!OneRecommended
    <3>2. u \in k.urls /\ k.document[u] \notin Reads(k)!Reading(x)
      BY <3>1 DEF Reads!Recommends, Reads!Lead
    <3>3. <<0, 0>> \in (0..k.decisions) \X (0..(k.batch + k.scouts))
      <4>1. {k.decisions, k.batch, k.scouts} \subseteq Nat
        BY LimitsAre
      <4>2. 0 \in 0..k.decisions /\ 0 \in 0..(k.batch + k.scouts)
        BY <4>1
      <4> QED
        BY <4>2
    <3>4. Grown(k, y)
      BY <3>1, <3>2, <3>3, ChildAdded
    <3> QED
      BY <3>4 DEF Grown
  <2> QED
    BY <2>1, <2>2
<1> HIDE DEF W
<1>4. ASSUME NEW X \in V PROVE Go(X) \in V
  BY <1>3
<1>5. Reads(k)!DispatchRecommended(cs) = more[N]
  BY DEF Reads!DispatchRecommended
<1> HIDE DEF Go, V, N
<1>6. PICK F : F = [n \in 1..N |-> [X \in V |-> Go(X)]]
  OBVIOUS
<1>7. PICK f : Folded(N, V, {cs}, F, f)
  <2>1. PICK M, U, v : M = N /\ U = V /\ v = {cs}
    OBVIOUS
  <2>2. M \in Nat /\ v \in U /\ F \in [1..M -> [U -> U]]
    BY <1>1, <1>2, <1>4, <1>6, <2>1
  <2>3. PICK f : Folded(M, U, v, F, f)
    BY <2>2, Folding
  <2> QED
    BY <2>1, <2>3
<1>8. f \in [0..N -> V] /\ f[0] = {cs} /\ \A n \in 1..N : f[n] = F[n][f[n - 1]]
  BY <1>7 DEF Folded
<1>9. f = Step(f)
  <2>1. ASSUME NEW n \in 1..N PROVE f[n] = Go(f[n - 1])
    <3>1. n - 1 \in 0..N
      BY <1>1
    <3>2. f[n - 1] \in V
      BY <1>8, <3>1
    <3> QED
      BY <1>6, <1>8, <3>2
  <2>2. \A n \in 0..N : n = 0 \/ (n # 0 /\ n \in 1..N)
    BY <1>1
  <2>3. \A n \in 0..N : f[n] = IF n = 0 THEN {cs} ELSE Go(f[n - 1])
    BY <1>8, <2>1, <2>2
  <2> QED
    BY <1>8, <2>3
<1>10. more = Step(more)
  BY <1>9
<1> HIDE DEF more
<1>11. more[0] = {cs} /\ \A n \in 1..N : more[n] = Go(more[n - 1])
  <2>1. \A n \in 0..N : more[n] = IF n = 0 THEN {cs} ELSE Go(more[n - 1])
    BY <1>10
  <2>2. 0 \in 0..N /\ \A n \in 1..N : n # 0 /\ n \in 0..N
    BY <1>1
  <2> QED
    BY <2>1, <2>2
<1>12. 0..N \subseteq {n \in 0..N : more[n] \in V}
  <2>1. PICK S : S = {n \in 0..N : more[n] \in V}
    OBVIOUS
  <2>2. 0 \in S
    BY <1>1, <1>2, <1>11, <2>1
  <2>3. \A n \in 1..N : n - 1 \in S => n \in S
    BY <1>1, <1>4, <1>11, <2>1
  <2> QED
    BY <1>1, <2>1, <2>2, <2>3, Induction
<1>13. more[N] \in V
  BY <1>1, <1>12
<1> QED
  BY <1>5, <1>13 DEF V, W

-----------------------------------------------------------------------------
(* Decisions and tools. *)

(* A row of the last decision is replaced.                                 *)
RowIs(n, i, e, l) == l = [rd_log EXCEPT ![n] = [rd_log[n] EXCEPT ![i] = e]]

LEMMA EntryReplaced ==
    ASSUME NEW k, ReadTyped(k), NEW n, n = Len(rd_log), n > 0, NEW i \in DOMAIN rd_log[n],
           NEW e \in Reads(k)!Entries, NEW l, RowIs(n, i, e, l)
    PROVE  /\ l \in Seq(Seq(Reads(k)!Entries)) /\ Len(l) = Len(rd_log) /\ DOMAIN l = DOMAIN rd_log
           /\ \A d \in 1..Len(rd_log) :
                 /\ Len(l[d]) = Len(rd_log[d]) /\ DOMAIN l[d] = DOMAIN rd_log[d]
                 /\ \A j \in DOMAIN rd_log[d] : l[d][j] = IF d = n /\ j = i THEN e ELSE rd_log[d][j]
<1>1. n \in 1..Len(rd_log)
  BY RowsAre
<1>2. rd_log[n] \in Seq(Reads(k)!Entries) /\ DOMAIN rd_log[n] = 1..Len(rd_log[n])
      /\ rd_log \in Seq(Seq(Reads(k)!Entries))
  BY <1>1, RowsAre DEF ReadTyped
<1>3. PICK s : s = [rd_log[n] EXCEPT ![i] = e]
  OBVIOUS
<1>4. s \in Seq(Reads(k)!Entries) /\ Len(s) = Len(rd_log[n]) /\ DOMAIN s = DOMAIN rd_log[n]
      /\ \A j \in 1..Len(rd_log[n]) : s[j] = IF j = i THEN e ELSE rd_log[n][j]
  BY <1>3, <1>2, Replaced
<1>5. l = [rd_log EXCEPT ![n] = s]
  BY <1>3 DEF RowIs
<1>6. l \in Seq(Seq(Reads(k)!Entries)) /\ Len(l) = Len(rd_log) /\ DOMAIN l = DOMAIN rd_log
      /\ \A d \in 1..Len(rd_log) : l[d] = IF d = n THEN s ELSE rd_log[d]
  BY <1>3, <1>1, <1>2, <1>4, <1>5, Replaced
<1>7. ASSUME NEW d \in 1..Len(rd_log)
      PROVE  /\ Len(l[d]) = Len(rd_log[d]) /\ DOMAIN l[d] = DOMAIN rd_log[d]
             /\ \A j \in DOMAIN rd_log[d] : l[d][j] = IF d = n /\ j = i THEN e ELSE rd_log[d][j]
  <2>1. CASE d = n
    BY <1>2, <1>4, <1>6, <2>1
  <2>2. CASE d # n
    BY <1>6, <2>2
  <2> QED
    BY <2>1, <2>2
<1> QED
  BY <1>6, <1>7

(* A call of the last decision has run: what it yields is not stored yet.  *)
LEMMA RanMoves ==
    ASSUME NEW k, Reads(k)!ResearchReadingAssumption, ReadIInv(k), NEW i, Reads(k)!Pending(i),
           NEW outcome \in Reads(k)!Outcomes, Reads(k)!Ran(i, outcome),
           outcome \in Text => rd_log[Len(rd_log)][i].call.tool = "read_url"
    PROVE  LogMoves(k) /\ rd_started
<1>1. /\ Len(rd_log) > 0 /\ i \in DOMAIN rd_log[Len(rd_log)] /\ rd_started
      /\ rd_log' = [rd_log EXCEPT ![Len(rd_log)][i].done = outcome]
  BY DEF Reads!Pending, Reads!Ran, Reads!Now, Reads!Running
<1>2. PICK n \in 1..Len(rd_log) : n = Len(rd_log)
  BY <1>1, RowsAre DEF ReadIInv
<1>3. PICK o : o = rd_log[n][i]
  OBVIOUS
<1>4. o \in Reads(k)!Entries
  BY <1>1, <1>2, <1>3, RowsAre DEF ReadIInv
<1>5. PICK e : e = [o EXCEPT !.done = outcome]
  OBVIOUS
<1>6. e \in Reads(k)!Entries /\ e.call = o.call /\ e.result = o.result /\ e.done = outcome
  BY <1>4, <1>5 DEF Reads!Entries
<1>7. PICK l : l = [rd_log EXCEPT ![n] = [rd_log[n] EXCEPT ![i] = e]]
  OBVIOUS
<1>8. /\ rd_log' \in Seq(Seq(Reads(k)!Entries)) /\ Len(rd_log') = Len(rd_log)
      /\ \A d \in 1..Len(rd_log) :
            /\ Len(rd_log'[d]) = Len(rd_log[d])
            /\ \A j \in DOMAIN rd_log[d] : rd_log'[d][j] = IF d = n /\ j = i THEN e ELSE rd_log[d][j]
  <2>1. rd_log' = l
    BY <1>1, <1>2, <1>3, <1>5, <1>7
  <2>2. n > 0 /\ i \in DOMAIN rd_log[n] /\ ReadTyped(k) /\ RowIs(n, i, e, l)
    BY <1>1, <1>2, <1>7 DEF ReadIInv, RowIs
  <2>3. /\ l \in Seq(Seq(Reads(k)!Entries)) /\ Len(l) = Len(rd_log)
        /\ \A d \in 1..Len(rd_log) :
              /\ Len(l[d]) = Len(rd_log[d])
              /\ \A j \in DOMAIN rd_log[d] : l[d][j] = IF d = n /\ j = i THEN e ELSE rd_log[d][j]
    BY <1>2, <1>6, <2>2, EntryReplaced
  <2> QED
    BY <2>1, <2>3
<1>9. ASSUME NEW d \in 1..Len(rd_log), NEW j \in 1..Len(rd_log[d])
      PROVE  /\ rd_log'[d][j].call = rd_log[d][j].call /\ rd_log'[d][j].result = rd_log[d][j].result
             /\ rd_log'[d][j].done \in Text => rd_log[d][j].call.tool = "read_url"
  <2>1. d \in DOMAIN rd_log /\ j \in DOMAIN rd_log[d]
    BY RowsAre DEF ReadIInv
  <2>2. CASE d = n /\ j = i
    <3>1. rd_log'[d][j] = e
      BY <1>8, <2>1, <2>2
    <3> QED
      BY <1>2, <1>3, <1>6, <2>2, <3>1
  <2>3. CASE ~(d = n /\ j = i)
    <3>1. rd_log'[d][j] = rd_log[d][j]
      BY <1>8, <2>1, <2>3
    <3> QED
      BY <2>1, <3>1 DEF ReadIInv, ReadOutcomes
  <2> QED
    BY <2>2, <2>3
<1> QED
  BY <1>1, <1>8, <1>9 DEF LogMoves

(* The children are those there were, or more.                             *)
LEMMA RanKeeps ==
    ASSUME NEW k, Reads(k)!ResearchReadingAssumption, ReadIInv(k), NEW i, Reads(k)!Pending(i),
           NEW outcome \in Reads(k)!Outcomes, Reads(k)!Ran(i, outcome),
           outcome \in Text => rd_log[Len(rd_log)][i].call.tool = "read_url",
           Grown(k, rd_children'),
           UNCHANGED <<rd_started, rd_ledger, rd_due, rd_late, rd_crashes, rd_published>>
    PROVE  ReadIInv(k)'
<1>1. LogMoves(k) /\ rd_started
  BY RanMoves
<1> QED
  BY <1>1, QuietKeeps

LEMMA RefuseKeeps ==
    ASSUME NEW k, Reads(k)!ResearchReadingAssumption, ReadIInv(k), NEW i, Reads(k)!Refuse(i)
    PROVE  ReadIInv(k)'
<1>1. Reads(k)!Pending(i) /\ Grown(k, rd_children')
      /\ UNCHANGED <<rd_started, rd_ledger, rd_due, rd_late, rd_crashes, rd_published>>
  BY GrownAlready DEF Reads!Refuse
<1>2. Reads(k)!Ran(i, "paused") \/ Reads(k)!Ran(i, "duplicate")
  BY DEF Reads!Refuse
<1>3. {"paused", "duplicate"} \subseteq Reads(k)!Outcomes /\ {"paused", "duplicate"} \intersect Text = {}
  BY DEF Reads!Outcomes, Text
<1> QED
  BY <1>1, <1>2, <1>3, RanKeeps

LEMMA ToolsKeep ==
    ASSUME NEW k, Reads(k)!ResearchReadingAssumption, ReadIInv(k), NEW i,
           \/ Reads(k)!Search(i) \/ Reads(k)!RecordClaim(i) \/ Reads(k)!FetchFails(i) \/ Reads(k)!Fetch(i)
    PROVE  ReadIInv(k)'
<1>1. Reads(k)!Pending(i) /\ Grown(k, rd_children')
      /\ UNCHANGED <<rd_started, rd_ledger, rd_due, rd_late, rd_crashes, rd_published>>
  BY GrownAlready DEF Reads!Search, Reads!RecordClaim, Reads!FetchFails, Reads!Fetch, Reads!Passes
<1>2. \/ \E outcome \in {"found", "noted", "failed", "pdf"} : Reads(k)!Ran(i, outcome)
      \/ Reads(k)!Ran(i, "text") /\ rd_log[Len(rd_log)][i].call.tool = "read_url"
  BY DEF Reads!Search, Reads!RecordClaim, Reads!FetchFails, Reads!Fetch, Reads!Passes, Reads!Now
<1>3. {"found", "noted", "failed", "pdf", "text"} \subseteq Reads(k)!Outcomes
      /\ {"found", "noted", "failed", "pdf"} \intersect Text = {}
  BY DEF Reads!Outcomes, Text
<1> QED
  BY <1>1, <1>2, <1>3, RanKeeps

(* The reader is of a document that has none.                              *)
LEMMA DelegateKeeps ==
    ASSUME NEW k, Reads(k)!ResearchReadingAssumption, ReadIInv(k), NEW i, Reads(k)!Delegate(i)
    PROVE  ReadIInv(k)'
<1>1. PICK u : u = rd_log[Len(rd_log)][i].call.url
  OBVIOUS
<1>2. Reads(k)!Pending(i) /\ rd_log[Len(rd_log)][i].call.tool = "read_url"
      /\ UNCHANGED <<rd_started, rd_ledger, rd_due, rd_late, rd_crashes, rd_published>>
  BY DEF Reads!Delegate, Reads!Passes, Reads!Now
<1>3. /\ Reads(k)!Ran(i, "delegated") \/ Reads(k)!Ran(i, "excerpt")
      /\ \/ UNCHANGED rd_children
         \/ /\ k.document[u] \notin Reads(k)!Reading(rd_children)
            /\ rd_children' = Append(rd_children, Reads(k)!Child("reader", u, <<Len(rd_log), i>>))
  BY <1>1 DEF Reads!Delegate, Reads!Now
<1>4. Len(rd_log) > 0 /\ i \in DOMAIN rd_log[Len(rd_log)]
  BY <1>2 DEF Reads!Pending, Reads!Now
<1>5. /\ Len(rd_log) \in 1..Len(rd_log) /\ Len(rd_log) \in 0..k.decisions
      /\ i \in 0..(k.batch + k.scouts)
  <2>1. {k.decisions, k.batch, k.scouts} \subseteq Nat
    BY LimitsAre
  <2>2. Len(rd_log) \in Nat /\ Len(rd_log) <= k.decisions
    BY RowsAre DEF ReadIInv, ReadTyped
  <2>3. PICK n \in 1..Len(rd_log) : n = Len(rd_log)
    BY <1>4, <2>2
  <2>4. i \in 1..Len(rd_log[n]) /\ Len(rd_log[n]) \in Nat /\ Len(rd_log[n]) <= k.batch
    BY <1>4, <2>3, RowsAre DEF ReadIInv
  <2> QED
    BY <2>1, <2>2, <2>3, <2>4
<1>6. u \in k.urls
  <2>1. rd_log[Len(rd_log)][i] \in Reads(k)!Entries
    BY <1>4, <1>5, RowsAre DEF ReadIInv
  <2> QED
    BY <1>1, <2>1, CallsAre
<1>7. Grown(k, rd_children')
  <2>1. CASE UNCHANGED rd_children
    BY <2>1, GrownAlready
  <2>2. CASE /\ k.document[u] \notin Reads(k)!Reading(rd_children)
             /\ rd_children' = Append(rd_children, Reads(k)!Child("reader", u, <<Len(rd_log), i>>))
    <3>1. PICK by, cs : by = <<Len(rd_log), i>> /\ cs = Append(rd_children, Reads(k)!Child("reader", u, by))
      OBVIOUS
    <3>2. by \in (0..k.decisions) \X (0..(k.batch + k.scouts))
      BY <1>5, <3>1
    <3>3. Grown(k, cs)
      BY <1>6, <2>2, <3>1, <3>2, GrownAlready, ChildAdded DEF ReadIInv
    <3> QED
      BY <2>2, <3>1, <3>3
  <2> QED
    BY <1>3, <2>1, <2>2
<1>8. {"delegated", "excerpt"} \subseteq Reads(k)!Outcomes
  BY DEF Reads!Outcomes
<1> QED
  BY <1>2, <1>3, <1>7, <1>8, RanKeeps

LEMMA WaitAgentKeeps ==
    ASSUME NEW k, Reads(k)!ResearchReadingAssumption, ReadIInv(k), NEW i, Reads(k)!WaitAgent(i)
    PROVE  ReadIInv(k)'
<1>1. /\ Reads(k)!Pending(i)
      /\ rd_children' \in Reads(k)!DispatchRecommended(Reads(k)!DispatchQueued(rd_children))
      /\ Reads(k)!Ran(i, "waited") \/ UNCHANGED rd_log
      /\ UNCHANGED <<rd_started, rd_ledger, rd_due, rd_late, rd_crashes, rd_published>>
  BY DEF Reads!WaitAgent
<1>2. Grown(k, rd_children')
  <2>1. PICK cs : cs = Reads(k)!DispatchQueued(rd_children)
    OBVIOUS
  <2>2. Grown(k, cs)
    BY <2>1, GrownAlready, QueuedGrows DEF ReadIInv
  <2>3. PICK x : x = rd_children'
    OBVIOUS
  <2>4. Grown(k, x)
    BY <1>1, <2>1, <2>2, <2>3, RecommendedGrows DEF ReadIInv
  <2> QED
    BY <2>3, <2>4
<1>3. "waited" \in Reads(k)!Outcomes /\ "waited" \notin Text
  BY DEF Reads!Outcomes, Text
<1>4. CASE Reads(k)!Ran(i, "waited")
  BY <1>1, <1>2, <1>3, <1>4, RanKeeps
<1>5. CASE UNCHANGED rd_log
  <2>1. LogMoves(k)
    BY <1>5, RowsAre DEF LogMoves, ReadIInv, ReadTyped, ReadOutcomes
  <2>2. rd_started
    BY <1>1 DEF Reads!Pending, Reads!Running
  <2> QED
    BY <1>1, <1>2, <2>1, <2>2, QuietKeeps
<1> QED
  BY <1>1, <1>4, <1>5

(* What the Attempt had not stored is lost; Results stay.                  *)
LEMMA CrashKeeps ==
    ASSUME NEW k, Reads(k)!ResearchReadingAssumption, ReadIInv(k), Reads(k)!Crash
    PROVE  ReadIInv(k)'
<1>1. PICK n : n = Len(rd_log)
  OBVIOUS
<1>2. /\ rd_started /\ rd_crashes' = rd_crashes + 1 /\ rd_due' = {}
      /\ rd_late' \subseteq rd_late \union rd_due
      /\ UNCHANGED <<rd_started, rd_children, rd_ledger, rd_published>>
      /\ rd_log' = IF n = 0 THEN rd_log
                   ELSE [rd_log EXCEPT ![n] = [i \in DOMAIN rd_log[n] |->
                                                 [rd_log[n][i] EXCEPT !.done = rd_log[n][i].result]]]
  BY <1>1 DEF Reads!Crash, Reads!Running, Reads!Now
<1>3. n \in Nat /\ n = Len(rd_log) /\ rd_log \in Seq(Seq(Reads(k)!Entries))
  BY <1>1, RowsAre DEF ReadIInv, ReadTyped
<1>4. LogMoves(k)
  <2>1. CASE n = 0
    BY <1>1, <1>2, <2>1, RowsAre DEF LogMoves, ReadIInv, ReadTyped, ReadOutcomes
  <2>2. CASE n # 0
    <3>1. n \in 1..Len(rd_log)
      BY <1>3, <2>2
    <3>2. rd_log[n] \in Seq(Reads(k)!Entries) /\ DOMAIN rd_log[n] = 1..Len(rd_log[n])
          /\ Len(rd_log[n]) \in Nat
          /\ \A i \in DOMAIN rd_log[n] : rd_log[n][i] \in Reads(k)!Entries
      BY <3>1, RowsAre DEF ReadIInv
    <3>3. PICK s : s = [i \in DOMAIN rd_log[n] |-> [rd_log[n][i] EXCEPT !.done = rd_log[n][i].result]]
      OBVIOUS
    <3>4. ASSUME NEW i \in DOMAIN rd_log[n]
          PROVE  /\ s[i] \in Reads(k)!Entries /\ s[i].call = rd_log[n][i].call
                 /\ s[i].result = rd_log[n][i].result /\ s[i].done = rd_log[n][i].result
      <4>1. PICK o : o = rd_log[n][i]
        OBVIOUS
      <4>2. o \in Reads(k)!Entries
        BY <3>2, <4>1
      <4>3. PICK e : e = [o EXCEPT !.done = o.result]
        OBVIOUS
      <4>4. e \in Reads(k)!Entries /\ e.call = o.call /\ e.result = o.result /\ e.done = o.result
        BY <4>2, <4>3 DEF Reads!Entries
      <4> QED
        BY <3>3, <4>1, <4>3, <4>4
    <3>5. DOMAIN s = 1..Len(rd_log[n])
      BY <3>2, <3>3
    <3>6. s \in Seq(Reads(k)!Entries) /\ Len(s) = Len(rd_log[n])
      <4>1. s \in [1..Len(rd_log[n]) -> Reads(k)!Entries]
        <5>1. s = [i \in 1..Len(rd_log[n]) |-> s[i]]
          BY <3>2, <3>3
        <5> QED
          BY <3>2, <3>4, <5>1
      <4> QED
        BY <3>2, <4>1
    <3>7. PICK l : l = [rd_log EXCEPT ![n] = s]
      OBVIOUS
    <3>8. rd_log' = l
      BY <1>2, <2>2, <3>3, <3>7
    <3>9. l \in Seq(Seq(Reads(k)!Entries)) /\ Len(l) = Len(rd_log)
          /\ \A d \in 1..Len(rd_log) : l[d] = IF d = n THEN s ELSE rd_log[d]
      BY <1>3, <3>1, <3>6, <3>7, Replaced
    <3>10. ASSUME NEW d \in 1..Len(rd_log)
           PROVE  /\ Len(l[d]) = Len(rd_log[d])
                  /\ \A i \in 1..Len(rd_log[d]) :
                        /\ l[d][i].call = rd_log[d][i].call /\ l[d][i].result = rd_log[d][i].result
                        /\ l[d][i].done \in Text => rd_log[d][i].call.tool = "read_url"
      <4>1. DOMAIN rd_log[d] = 1..Len(rd_log[d]) /\ d \in DOMAIN rd_log
        BY RowsAre DEF ReadIInv
      <4>2. \A i \in DOMAIN rd_log[d] :
               rd_log[d][i].done \in Text \/ rd_log[d][i].result \in Text => rd_log[d][i].call.tool = "read_url"
        BY <4>1 DEF ReadIInv, ReadOutcomes
      <4>3. CASE d = n
        <5>1. l[d] = s
          BY <3>9, <4>3
        <5> QED
          BY <3>4, <3>6, <4>1, <4>2, <4>3, <5>1
      <4>4. CASE d # n
        BY <3>9, <4>1, <4>2, <4>4
      <4> QED
        BY <4>3, <4>4
    <3> QED
      BY <3>8, <3>9, <3>10 DEF LogMoves
  <2> QED
    BY <2>1, <2>2
<1>5. rd_crashes' \in Nat /\ rd_crashes' # 0
  BY <1>2 DEF ReadIInv, ReadTyped
<1>6. rd_late' \subseteq 1..Len(rd_log)
  BY <1>2, <1>3 DEF ReadIInv, ReadOrder
<1>7. Grown(k, rd_children')
  BY <1>2, GrownAlready
<1> QED
  BY <1>2, <1>4, <1>5, <1>6, <1>7, QuietKeeps

(* The decision before is complete and recorded.                           *)
LEMMA ProposeKeeps ==
    ASSUME NEW k, Reads(k)!ResearchReadingAssumption, ReadIInv(k),
           NEW calls \in Reads(k)!Batches, Reads(k)!Propose(calls)
    PROVE  ReadIInv(k)'
<1>1. PICK n, s : n = Len(rd_log) /\ s = [i \in DOMAIN calls |-> Reads(k)!Entry(calls[i])]
  OBVIOUS
<1>2. /\ rd_started /\ rd_published = {} /\ n < k.decisions /\ rd_due = {}
      /\ n > 0 => \A i \in DOMAIN rd_log[n] : rd_log[n][i].result # "none"
      /\ rd_log' = Append(rd_log, s)
      /\ UNCHANGED <<rd_started, rd_children, rd_ledger, rd_due, rd_late, rd_crashes, rd_published>>
  BY <1>1 DEF Reads!Propose, Reads!Running, Reads!Now, Reads!Complete
<1>3. n \in Nat /\ rd_log \in Seq(Seq(Reads(k)!Entries)) /\ DOMAIN rd_log = 1..n /\ k.decisions \in Nat
  BY <1>1, RowsAre, LimitsAre DEF ReadIInv, ReadTyped
<1>4. PICK m \in 1..k.batch : calls \in [1..m -> Reads(k)!Calls]
  BY DEF Reads!Batches
<1>5. m \in Nat /\ m <= k.batch
  BY LimitsAre
<1>6. \A i \in 1..m : /\ s[i] \in Reads(k)!Entries /\ s[i].call = calls[i]
                      /\ s[i].result = "none" /\ s[i].done = "none"
  <2> TAKE i \in 1..m
  <2>1. s[i] = [call |-> calls[i], done |-> "none", result |-> "none"] /\ calls[i] \in Reads(k)!Calls
    BY <1>1, <1>4 DEF Reads!Entry
  <2>2. "none" \in Reads(k)!Outcomes
    BY DEF Reads!Outcomes
  <2> QED
    BY <2>1, <2>2 DEF Reads!Entries
<1>7. s \in Seq(Reads(k)!Entries) /\ Len(s) = m /\ DOMAIN s = 1..m
  <2>1. s = [i \in 1..m |-> s[i]]
    BY <1>1, <1>4
  <2>2. s \in [1..m -> Reads(k)!Entries]
    BY <1>6, <2>1
  <2> QED
    BY <1>5, <2>2
<1>8. PICK l : l = Append(rd_log, s)
  OBVIOUS
<1>9. /\ l \in Seq(Seq(Reads(k)!Entries)) /\ Len(l) = n + 1 /\ DOMAIN l = 1..(n + 1)
      /\ \A d \in 1..n : l[d] = rd_log[d]
      /\ l[n + 1] = s
  BY <1>1, <1>3, <1>7, <1>8, Appended
<1>10. rd_log' = l
  BY <1>2, <1>8
<1>11. \A d \in 1..(n + 1) : d \in 1..n \/ d = n + 1
  BY <1>3
<1>12. \A d \in 1..n : \A i \in DOMAIN rd_log[d] : rd_log[d][i].result # "none"
  <2> TAKE d \in 1..n
  <2>1. CASE d = n
    BY <1>2, <1>3, <2>1
  <2>2. CASE d # n
    <3>1. d \in 1..(n - 1)
      BY <1>3, <2>2
    <3> QED
      BY <1>1, <3>1 DEF ReadIInv, ReadOrder
  <2> QED
    BY <2>1, <2>2
<1>13. ReadTyped(k)'
  <2>1. ASSUME NEW d \in 1..Len(l) PROVE Len(l[d]) <= k.batch
    <3>1. CASE d \in 1..n
      BY <1>1, <1>9, <3>1, RowsAre DEF ReadIInv
    <3>2. CASE d = n + 1
      BY <1>5, <1>7, <1>9, <3>2
    <3> QED
      BY <1>9, <1>11, <3>1, <3>2
  <2>2. Len(l) <= k.decisions
    BY <1>2, <1>3, <1>9
  <2> QED
    BY <1>2, <1>9, <1>10, <2>1, <2>2 DEF ReadIInv, ReadTyped
<1>14. ReadOrder'
  <2>1. \A d \in 1..(Len(l) - 1) : \A i \in DOMAIN l[d] : l[d][i].result # "none"
    BY <1>3, <1>9, <1>12
  <2>2. rd_late \subseteq 1..Len(l)
    BY <1>1, <1>3, <1>9 DEF ReadIInv, ReadOrder
  <2> QED
    BY <1>2, <1>10, <2>1, <2>2 DEF ReadOrder
<1>15. ReadOutcomes'
  <2>1. ASSUME NEW d \in 1..(n + 1), NEW i \in DOMAIN l[d],
               l[d][i].done \in Text \/ l[d][i].result \in Text
        PROVE  l[d][i].call.tool = "read_url"
    <3>1. CASE d \in 1..n
      BY <1>3, <1>9, <2>1, <3>1 DEF ReadIInv, ReadOutcomes
    <3>2. CASE d = n + 1
      BY <1>6, <1>7, <1>9, <2>1, <3>2 DEF Text
    <3> QED
      BY <1>11, <3>1, <3>2
  <2> QED
    BY <1>2, <1>9, <1>10, <2>1 DEF ReadIInv, ReadOutcomes
<1>16. \A u \in Reads(k)!Shown : u \in Reads(k)!Shown'
  <2>1. \A d \in 1..Len(rd_log) : d \in 1..Len(l)
    BY <1>1, <1>3, <1>9
  <2>2. \A d \in 1..Len(rd_log) : \A i \in DOMAIN rd_log[d] :
           rd_log[d][i].result \in Text =>
              /\ d \in 1..Len(rd_log') /\ i \in DOMAIN rd_log'[d]
              /\ rd_log'[d][i].result = rd_log[d][i].result /\ rd_log'[d][i].call = rd_log[d][i].call
    BY <1>1, <1>9, <1>10, <2>1
  <2>3. \A c \in DOMAIN rd_children :
           rd_children[c].result = "text" =>
              /\ c \in DOMAIN rd_children' /\ rd_children'[c].result = "text"
              /\ rd_children'[c].task = rd_children[c].task /\ rd_children'[c].url = rd_children[c].url
    BY <1>2
  <2> QED
    BY <2>2, <2>3, ShownStays
<1>17. LedgerShown(k)' /\ Reads(k)!LinksWereRead' /\ Reads(k)!OneReaderPerDocument'
  BY <1>2, <1>16
  DEF ReadIInv, LedgerShown, Reads!LinksWereRead, Reads!OneReaderPerDocument, Reads!Readers
<1>18. LedgerKeeps'
  <2> SUFFICES ASSUME rd_crashes' = 0 PROVE LedgerKeeps'
    BY DEF LedgerKeeps
  <2>1. rd_crashes = 0
    BY <1>2
  <2>2. ASSUME NEW d \in 1..(n + 1), NEW i \in DOMAIN l[d], l[d][i].result \in Text
        PROVE  rd_ledger[l[d][i].call.url].status = "read"
    <3>1. CASE d \in 1..n
      <4>1. l[d] = rd_log[d]
        BY <1>9, <3>1
      <4>2. \/ d \in rd_due
            \/ d = Len(rd_log) /\ \E j \in DOMAIN rd_log[d] : rd_log[d][j].result = "none"
            \/ rd_ledger[rd_log[d][i].call.url].status = "read"
        BY <1>3, <2>1, <2>2, <3>1, <4>1 DEF ReadIInv, LedgerKeeps
      <4> QED
        BY <1>2, <1>12, <3>1, <4>1, <4>2
    <3>2. CASE d = n + 1
      BY <1>6, <1>7, <1>9, <2>2, <3>2 DEF Text
    <3> QED
      BY <1>11, <3>1, <3>2
  <2> QED
    BY <1>2, <1>9, <1>10, <2>1, <2>2 DEF ReadIInv, LedgerKeeps
<1> QED
  BY <1>13, <1>14, <1>15, <1>17, <1>18 DEF ReadIInv

LEMMA StartRunKeeps ==
    ASSUME NEW k, Reads(k)!ResearchReadingAssumption, ReadIInv(k), Reads(k)!StartRun
    PROVE  ReadIInv(k)'
<1>1. PICK cs : cs = [s \in 1..k.scouts |-> Reads(k)!Child("scout", CHOOSE u \in k.urls : TRUE, <<0, s>>)]
  OBVIOUS
<1>2. /\ ~rd_started /\ rd_started' = TRUE /\ rd_children' = cs
      /\ UNCHANGED <<rd_log, rd_ledger, rd_due, rd_late, rd_crashes, rd_published>>
  BY <1>1 DEF Reads!StartRun
<1>3. rd_log = <<>> /\ rd_children = <<>> /\ rd_due = {} /\ rd_published = {}
  BY <1>2 DEF ReadIInv, ReadOrder
<1>4. {k.decisions, k.batch, k.scouts} \subseteq Nat /\ (CHOOSE u \in k.urls : TRUE) \in k.urls
  BY LimitsAre
<1>5. \A s \in 1..k.scouts : /\ cs[s] \in Reads(k)!ChildRows /\ cs[s].task = "scout"
                             /\ cs[s].result = "none" /\ cs[s].due = FALSE
  <2> TAKE s \in 1..k.scouts
  <2>1. <<0, s>> \in (0..k.decisions) \X (0..(k.batch + k.scouts))
    <3>1. 0 \in 0..k.decisions /\ s \in 0..(k.batch + k.scouts)
      BY <1>4
    <3> QED
      BY <3>1
  <2>2. PICK by : by = <<0, s>>
    OBVIOUS
  <2>3. PICK u \in k.urls : u = (CHOOSE w \in k.urls : TRUE)
    BY <1>4
  <2>4. cs[s] = [task |-> "scout", url |-> u, by |-> by, status |-> "running", result |-> "none", due |-> FALSE]
    BY <1>1, <2>2, <2>3 DEF Reads!Child
  <2> QED
    BY <2>1, <2>2, <2>4 DEF Reads!ChildRows
<1>6. cs \in Seq(Reads(k)!ChildRows) /\ DOMAIN cs = 1..k.scouts
  <2>1. cs = [s \in 1..k.scouts |-> cs[s]]
    BY <1>1
  <2>2. cs \in [1..k.scouts -> Reads(k)!ChildRows]
    BY <1>5, <2>1
  <2> QED
    BY <1>4, <2>2
<1>7. ReadTyped(k)'
  BY <1>2, <1>6 DEF ReadIInv, ReadTyped
<1>8. ReadOrder' /\ LedgerKeeps'
  <2>1. ReadOrder'
    BY <1>2, <1>3 DEF ReadIInv, ReadOrder
  <2>2. \A c \in DOMAIN cs : cs[c].result # "text"
    BY <1>5, <1>6
  <2>3. LedgerKeeps'
    BY <1>2, <1>3, <2>2 DEF ReadIInv, LedgerKeeps
  <2> QED
    BY <2>1, <2>3
<1>9. ReadOutcomes'
  BY <1>2, <1>3, <1>5, <1>6 DEF ReadIInv, ReadOutcomes
<1>10. \A u \in Reads(k)!Shown : u \in Reads(k)!Shown'
  <2>1. \A d \in 1..Len(rd_log) : FALSE
    BY <1>3
  <2>2. \A c \in DOMAIN rd_children : FALSE
    BY <1>3
  <2> QED
    BY <2>1, <2>2, ShownStays
<1>11. LedgerShown(k)' /\ Reads(k)!LinksWereRead'
  BY <1>2, <1>3, <1>10 DEF ReadIInv, LedgerShown, Reads!LinksWereRead
<1>12. Reads(k)!OneReaderPerDocument'
  BY <1>2, <1>5, <1>6 DEF Reads!OneReaderPerDocument, Reads!Readers
<1> QED
  BY <1>7, <1>8, <1>9, <1>11, <1>12 DEF ReadIInv

(* What is read was shown.                                                 *)
LEMMA PublishKeeps ==
    ASSUME NEW k, Reads(k)!ResearchReadingAssumption, ReadIInv(k), Reads(k)!PublishFinal
    PROVE  ReadIInv(k)'
<1>1. PICK links \in SUBSET k.urls : rd_published' = links \intersect Reads(k)!Eligible
  BY DEF Reads!PublishFinal
<1>2. /\ rd_started /\ rd_due = {}
      /\ UNCHANGED <<rd_log, rd_started, rd_children, rd_ledger, rd_due, rd_late, rd_crashes>>
  BY DEF Reads!PublishFinal, Reads!Running
<1>3. Reads(k)!Shown' = Reads(k)!Shown
  BY <1>2 DEF Reads!Shown, Reads!Now, Reads!Readers
<1>4. Reads(k)!Eligible \subseteq Reads(k)!Shown \union {k.final[u] : u \in Reads(k)!Shown}
  BY DEF Reads!Eligible, ReadIInv, LedgerShown
<1>5. Reads(k)!LinksWereRead'
  BY <1>1, <1>3, <1>4 DEF Reads!LinksWereRead
<1>6. LedgerShown(k)' /\ Reads(k)!OneReaderPerDocument'
  BY <1>2, <1>3 DEF ReadIInv, LedgerShown, Reads!OneReaderPerDocument, Reads!Readers
<1>7. ReadTyped(k)'
  BY <1>1, <1>2 DEF ReadIInv, ReadTyped
<1>8. ReadOrder'
  BY <1>2 DEF ReadIInv, ReadOrder
<1>9. ReadOutcomes' /\ LedgerKeeps'
  BY <1>2 DEF ReadIInv, ReadOutcomes, LedgerKeeps
<1> QED
  BY <1>5, <1>6, <1>7, <1>8, <1>9 DEF ReadIInv

(* With the last Result the decision is due.                               *)
LEMMA AppendKeeps ==
    ASSUME NEW k, Reads(k)!ResearchReadingAssumption, ReadIInv(k), NEW i, Reads(k)!AppendCheckpoint(i)
    PROVE  ReadIInv(k)'
<1>1. PICK n, o : n = Len(rd_log) /\ o = rd_log[n][i]
  OBVIOUS
<1>2. PICK e : e = [o EXCEPT !.result = o.done]
  OBVIOUS
<1>3. /\ rd_started /\ rd_published = {} /\ n > 0 /\ i \in DOMAIN rd_log[n]
      /\ o.result = "none" /\ o.done # "none"
      /\ rd_log' = [rd_log EXCEPT ![n] = [rd_log[n] EXCEPT ![i] = e]]
      /\ rd_due' = IF \A j \in DOMAIN rd_log[n] \ {i} : rd_log[n][j].result # "none" THEN {n} ELSE {}
      /\ UNCHANGED <<rd_started, rd_children, rd_ledger, rd_late, rd_crashes, rd_published>>
  BY <1>1, <1>2 DEF Reads!AppendCheckpoint, Reads!Running, Reads!Now
<1>4. n \in Nat /\ n \in 1..Len(rd_log) /\ DOMAIN rd_log = 1..n
      /\ \A d \in 1..n : DOMAIN rd_log[d] = 1..Len(rd_log[d])
  BY <1>1, <1>3, RowsAre DEF ReadIInv
<1>5. o \in Reads(k)!Entries
  BY <1>1, <1>3, <1>4, RowsAre DEF ReadIInv
<1>6. e \in Reads(k)!Entries /\ e.call = o.call /\ e.result = o.done /\ e.done = o.done
  BY <1>2, <1>5 DEF Reads!Entries
<1>7. PICK l : l = [rd_log EXCEPT ![n] = [rd_log[n] EXCEPT ![i] = e]]
  OBVIOUS
<1>8. /\ l \in Seq(Seq(Reads(k)!Entries)) /\ Len(l) = Len(rd_log) /\ DOMAIN l = DOMAIN rd_log
      /\ \A d \in 1..Len(rd_log) :
            /\ Len(l[d]) = Len(rd_log[d]) /\ DOMAIN l[d] = DOMAIN rd_log[d]
            /\ \A j \in DOMAIN rd_log[d] : l[d][j] = IF d = n /\ j = i THEN e ELSE rd_log[d][j]
  <2>1. ReadTyped(k) /\ RowIs(n, i, e, l)
    BY <1>7 DEF ReadIInv, RowIs
  <2> QED
    BY <1>1, <1>3, <1>6, <2>1, EntryReplaced
<1>9. rd_log' = l /\ Len(l) = n
  BY <1>1, <1>3, <1>7, <1>8
<1>10. /\ l[n][i] = e
       /\ \A d \in 1..n : \A j \in DOMAIN rd_log[d] : d # n \/ j # i => l[d][j] = rd_log[d][j]
  BY <1>1, <1>3, <1>4, <1>8
<1>11. rd_due = {}
  BY <1>1, <1>3 DEF ReadIInv, ReadOrder
<1>12. ReadTyped(k)'
  <2>1. \A d \in 1..Len(l) : Len(l[d]) <= k.batch
    BY <1>1, <1>8, <1>9, RowsAre DEF ReadIInv
  <2>2. Len(l) <= k.decisions
    BY <1>1, <1>9 DEF ReadIInv, ReadTyped
  <2> QED
    BY <1>3, <1>8, <1>9, <2>1, <2>2 DEF ReadIInv, ReadTyped
<1>13. ReadOutcomes'
  <2>1. ASSUME NEW d \in 1..n, NEW j \in DOMAIN l[d],
               l[d][j].done \in Text \/ l[d][j].result \in Text
        PROVE  l[d][j].call.tool = "read_url"
    <3>1. j \in DOMAIN rd_log[d] /\ d \in DOMAIN rd_log
      BY <1>1, <1>4, <1>8
    <3>2. rd_log[d][j].done \in Text \/ rd_log[d][j].result \in Text => rd_log[d][j].call.tool = "read_url"
      BY <3>1 DEF ReadIInv, ReadOutcomes
    <3>3. CASE d = n /\ j = i
      BY <1>1, <1>6, <1>10, <2>1, <3>2, <3>3
    <3>4. CASE ~(d = n /\ j = i)
      BY <1>10, <2>1, <3>1, <3>2, <3>4
    <3> QED
      BY <3>3, <3>4
  <2> QED
    BY <1>3, <1>4, <1>8, <1>9, <2>1 DEF ReadIInv, ReadOutcomes
<1>14. ReadOrder'
  <2>1. ASSUME NEW d \in 1..(Len(l) - 1), NEW j \in DOMAIN l[d] PROVE l[d][j].result # "none"
    <3>1. d \in 1..n /\ d # n
      BY <1>4, <1>9
    <3>2. j \in DOMAIN rd_log[d] /\ l[d][j] = rd_log[d][j]
      BY <1>1, <1>8, <1>10, <3>1
    <3> QED
      BY <1>1, <1>9, <3>2 DEF ReadIInv, ReadOrder
  <2>2. ASSUME NEW d \in rd_due'
        PROVE  d = Len(l) /\ d > 0 /\ \A j \in DOMAIN l[d] : l[d][j].result # "none"
    <3>1. d = n /\ \A j \in DOMAIN rd_log[n] \ {i} : rd_log[n][j].result # "none"
      BY <1>3, <2>2
    <3>2. ASSUME NEW j \in DOMAIN l[n] PROVE l[n][j].result # "none"
      <4>1. j \in DOMAIN rd_log[n]
        BY <1>4, <1>8
      <4>2. CASE j = i
        BY <1>3, <1>6, <1>10, <4>2
      <4>3. CASE j # i
        BY <1>1, <1>10, <1>4, <3>1, <4>1, <4>3
      <4> QED
        BY <4>2, <4>3
    <3> QED
      BY <1>3, <1>9, <3>1, <3>2
  <2>3. rd_late \subseteq 1..Len(l)
    BY <1>1, <1>9 DEF ReadIInv, ReadOrder
  <2> QED
    BY <1>3, <1>9, <2>1, <2>2, <2>3 DEF ReadOrder
<1>15. \A u \in Reads(k)!Shown : u \in Reads(k)!Shown'
  <2>1. ASSUME NEW d \in 1..Len(rd_log), NEW j \in DOMAIN rd_log[d], rd_log[d][j].result \in Text
        PROVE  /\ d \in 1..Len(l) /\ j \in DOMAIN l[d]
               /\ l[d][j].result = rd_log[d][j].result /\ l[d][j].call = rd_log[d][j].call
    <3>1. d # n \/ j # i
      BY <1>1, <1>3, <2>1 DEF Text
    <3> QED
      BY <1>1, <1>8, <1>10, <3>1
  <2>2. \A d \in 1..Len(rd_log) : \A j \in DOMAIN rd_log[d] :
           rd_log[d][j].result \in Text =>
              /\ d \in 1..Len(rd_log') /\ j \in DOMAIN rd_log'[d]
              /\ rd_log'[d][j].result = rd_log[d][j].result /\ rd_log'[d][j].call = rd_log[d][j].call
    BY <1>9, <2>1
  <2>3. \A c \in DOMAIN rd_children :
           rd_children[c].result = "text" =>
              /\ c \in DOMAIN rd_children' /\ rd_children'[c].result = "text"
              /\ rd_children'[c].task = rd_children[c].task /\ rd_children'[c].url = rd_children[c].url
    BY <1>3
  <2> QED
    BY <2>2, <2>3, ShownStays
<1>16. LedgerShown(k)' /\ Reads(k)!LinksWereRead' /\ Reads(k)!OneReaderPerDocument'
  BY <1>3, <1>15
  DEF ReadIInv, LedgerShown, Reads!LinksWereRead, Reads!OneReaderPerDocument, Reads!Readers
<1>17. LedgerKeeps'
  <2> SUFFICES ASSUME rd_crashes' = 0 PROVE LedgerKeeps'
    BY DEF LedgerKeeps
  <2>1. rd_crashes = 0
    BY <1>3
  <2>2. ASSUME NEW d \in 1..n, NEW j \in DOMAIN l[d], l[d][j].result \in Text
        PROVE  \/ d \in rd_due'
               \/ d = Len(l) /\ \E m \in DOMAIN l[d] : l[d][m].result = "none"
               \/ rd_ledger[l[d][j].call.url].status = "read"
    <3>1. j \in DOMAIN rd_log[d] /\ d \in DOMAIN rd_log /\ d \in 1..Len(rd_log)
      BY <1>1, <1>4, <1>8
    <3>2. CASE d = n
      <4>1. CASE \A m \in DOMAIN rd_log[n] \ {i} : rd_log[n][m].result # "none"
        BY <1>3, <3>2, <4>1
      <4>2. CASE \E m \in DOMAIN rd_log[n] \ {i} : rd_log[n][m].result = "none"
        <5>1. PICK m \in DOMAIN rd_log[n] \ {i} : rd_log[n][m].result = "none"
          BY <4>2
        <5>2. m \in DOMAIN l[n] /\ l[n][m] = rd_log[n][m]
          BY <1>1, <1>4, <1>8, <1>10, <5>1
        <5> QED
          BY <1>9, <3>2, <5>1, <5>2
      <4> QED
        BY <4>1, <4>2
    <3>3. CASE d # n
      <4>1. l[d][j] = rd_log[d][j]
        BY <1>10, <3>1, <3>3
      <4>2. d \in rd_due \/ d = Len(rd_log) \/ rd_ledger[rd_log[d][j].call.url].status = "read"
        BY <2>1, <2>2, <3>1, <4>1 DEF ReadIInv, LedgerKeeps
      <4> QED
        BY <1>1, <1>11, <3>3, <4>1, <4>2
    <3> QED
      BY <3>2, <3>3
  <2> QED
    BY <1>3, <1>4, <1>8, <1>9, <2>1, <2>2 DEF ReadIInv, LedgerKeeps
<1> QED
  BY <1>12, <1>13, <1>14, <1>16, <1>17 DEF ReadIInv

-----------------------------------------------------------------------------
(* The ledger. *)

(* A row that is read stays so, and becomes so by a text only.             *)
LEMMA RowsRead ==
    ASSUME NEW k, NEW r \in Reads(k)!LedgerRows, NEW result, NEW cached \in BOOLEAN,
           NEW s, s = Reads(k)!Row(r, result, cached)
    PROVE  /\ s \in Reads(k)!LedgerRows
           /\ r.status = "read" => s.status = "read"
           /\ s.status = "read" => r.status = "read" \/ result \in Text
           /\ result \in Text => s.status = "read"
<1>1. /\ r.status \in {"none", "discovered", "read", "failed"} /\ r.final \in BOOLEAN /\ r.recommended \in BOOLEAN
      /\ r = [status |-> r.status, final |-> r.final, recommended |-> r.recommended]
  BY DEF Reads!LedgerRows
<1>2. PICK st, fi : /\ st \in {"none", "discovered", "read", "failed"} /\ fi \in BOOLEAN
                    /\ s = [status |-> st, final |-> fi, recommended |-> r.recommended]
                    /\ r.status = "read" => st = "read"
                    /\ st = "read" => r.status = "read" \/ result \in Text
                    /\ result \in Text => st = "read"
  <2>1. CASE result \in {"text", "excerpt"}
    <3>1. s = [status |-> "read", final |-> (r.final \/ cached), recommended |-> r.recommended]
      BY <1>1, <2>1 DEF Reads!Row
    <3>2. (r.final \/ cached) \in BOOLEAN
      OBVIOUS
    <3> QED
      BY <2>1, <3>1, <3>2 DEF Text
  <2>2. CASE result = "failed"
    <3>1. s = [status |-> IF r.status = "read" THEN "read" ELSE "failed",
               final |-> r.final, recommended |-> r.recommended]
      BY <1>1, <2>2 DEF Reads!Row
    <3> QED
      BY <1>1, <2>2, <3>1 DEF Text
  <2>3. CASE result = "pdf"
    <3>1. s = [status |-> IF r.status = "read" THEN "read" ELSE "discovered",
               final |-> TRUE, recommended |-> r.recommended]
      BY <1>1, <2>3 DEF Reads!Row
    <3> QED
      BY <1>1, <2>3, <3>1 DEF Text
  <2>4. CASE result = "delegated"
    <3>1. s = [status |-> IF r.status = "none" THEN "discovered" ELSE r.status,
               final |-> TRUE, recommended |-> r.recommended]
      BY <1>1, <2>4 DEF Reads!Row
    <3> QED
      BY <1>1, <2>4, <3>1 DEF Text
  <2>5. CASE result \notin {"text", "excerpt", "failed", "pdf", "delegated"}
    <3>1. s = r
      BY <2>5 DEF Reads!Row
    <3> QED
      BY <1>1, <2>5, <3>1 DEF Text
  <2> QED
    BY <2>1, <2>2, <2>3, <2>4, <2>5
<1> QED
  BY <1>1, <1>2 DEF Reads!LedgerRows

LEMMA RecordedRead ==
    ASSUME NEW k, Reads(k)!ResearchReadingAssumption, NEW rows \in [k.urls -> Reads(k)!LedgerRows],
           NEW e \in Reads(k)!Entries, e.result \in Text => e.call.tool = "read_url",
           NEW cached \in BOOLEAN, NEW now, now = Reads(k)!Recorded(rows, e, cached)
    PROVE  /\ now \in [k.urls -> Reads(k)!LedgerRows]
           /\ \A u \in k.urls : rows[u].status = "read" => now[u].status = "read"
           /\ \A u \in k.urls : now[u].status = "read" =>
                 rows[u].status = "read" \/ (e.result \in Text /\ e.call.url = u)
           /\ e.result \in Text => now[e.call.url].status = "read"
<1>1. e.call.url \in k.urls
  BY CallsAre
<1>2. PICK result : result = Reads(k)!Evidence(e.result)
  OBVIOUS
<1>3. result \in Text <=> e.result \in Text
  BY <1>2 DEF Reads!Evidence, Text
<1>4. CASE e.call.tool = "read_url"
  <2>1. PICK v, r, s : v = e.call.url /\ r = rows[v] /\ s = Reads(k)!Row(r, result, cached)
    OBVIOUS
  <2>2. now = [rows EXCEPT ![v] = s]
    BY <1>2, <1>4, <2>1 DEF Reads!Recorded
  <2>3. r \in Reads(k)!LedgerRows /\ v \in k.urls
    BY <1>1, <2>1
  <2>4. /\ s \in Reads(k)!LedgerRows
        /\ r.status = "read" => s.status = "read"
        /\ s.status = "read" => r.status = "read" \/ result \in Text
        /\ result \in Text => s.status = "read"
    BY <2>1, <2>3, RowsRead
  <2>5. now \in [k.urls -> Reads(k)!LedgerRows] /\ now[v] = s /\ \A u \in k.urls : u # v => now[u] = rows[u]
    BY <2>2, <2>3, <2>4
  <2> QED
    BY <1>3, <2>1, <2>3, <2>4, <2>5
<1>5. CASE e.call.tool = "web_search" /\ e.result = "found"
  <2>1. now = [u \in k.urls |-> Reads(k)!Discovered(rows[u])]
    BY <1>5 DEF Reads!Recorded
  <2>2. ASSUME NEW u \in k.urls
        PROVE  /\ Reads(k)!Discovered(rows[u]) \in Reads(k)!LedgerRows
               /\ rows[u].status = "read" <=> Reads(k)!Discovered(rows[u]).status = "read"
    <3>1. PICK r : r = rows[u]
      OBVIOUS
    <3>2. r \in Reads(k)!LedgerRows
      BY <3>1
    <3>3. PICK s : s = [r EXCEPT !.status = IF r.status = "read" THEN "read" ELSE "discovered"]
      OBVIOUS
    <3>4. s \in Reads(k)!LedgerRows /\ (r.status = "read" <=> s.status = "read")
      BY <3>2, <3>3 DEF Reads!LedgerRows
    <3> QED
      BY <3>1, <3>3, <3>4 DEF Reads!Discovered
  <2> QED
    BY <1>5, <2>1, <2>2
<1>6. CASE e.call.tool # "read_url" /\ ~(e.call.tool = "web_search" /\ e.result = "found")
  <2>1. now = rows
    BY <1>6 DEF Reads!Recorded
  <2> QED
    BY <1>6, <2>1
<1> QED
  BY <1>4, <1>5, <1>6

(* A decision is recorded Result by Result.                                *)
LEMMA MaterializedRead ==
    ASSUME NEW k, Reads(k)!ResearchReadingAssumption, ReadTyped(k), ReadOutcomes,
           NEW d \in 1..Len(rd_log), NEW cached \in BOOLEAN, NEW now, now = Reads(k)!Materialized(d, cached)
    PROVE  /\ now \in [k.urls -> Reads(k)!LedgerRows]
           /\ \A u \in k.urls : rd_ledger[u].status = "read" => now[u].status = "read"
           /\ \A u \in k.urls : now[u].status = "read" =>
                 \/ rd_ledger[u].status = "read"
                 \/ \E i \in DOMAIN rd_log[d] : rd_log[d][i].result \in Text /\ rd_log[d][i].call.url = u
           /\ \A i \in DOMAIN rd_log[d] :
                 rd_log[d][i].result \in Text => now[rd_log[d][i].call.url].status = "read"
<1> DEFINE V == [k.urls -> Reads(k)!LedgerRows]
           N == Len(rd_log[d])
           Go(i, rows) == Reads(k)!Recorded(rows, rd_log[d][i], cached)
           Step(f) == [i \in 0..N |-> IF i = 0 THEN rd_ledger ELSE Go(i, f[i - 1])]
           more == CHOOSE f : f = Step(f)
<1>1. N \in Nat /\ DOMAIN rd_log[d] = 1..N /\ rd_ledger \in V
      /\ \A i \in 1..N : /\ rd_log[d][i] \in Reads(k)!Entries
                         /\ rd_log[d][i].result \in Text => rd_log[d][i].call.tool = "read_url"
                         /\ rd_log[d][i].call.url \in k.urls
  <2>1. N \in Nat /\ DOMAIN rd_log[d] = 1..N /\ rd_ledger \in V /\ d \in DOMAIN rd_log
        /\ \A i \in 1..N : rd_log[d][i] \in Reads(k)!Entries
    BY RowsAre DEF ReadTyped
  <2>2. \A i \in 1..N : rd_log[d][i].result \in Text => rd_log[d][i].call.tool = "read_url"
    BY <2>1 DEF ReadOutcomes
  <2> QED
    BY <2>1, <2>2, CallsAre
<1>2. now = more[N]
  BY DEF Reads!Materialized
<1>3. ASSUME NEW i \in 1..N, NEW rows \in V
      PROVE  /\ Go(i, rows) \in V
             /\ \A u \in k.urls : rows[u].status = "read" => Go(i, rows)[u].status = "read"
             /\ \A u \in k.urls : Go(i, rows)[u].status = "read" =>
                   rows[u].status = "read" \/ (rd_log[d][i].result \in Text /\ rd_log[d][i].call.url = u)
             /\ rd_log[d][i].result \in Text => Go(i, rows)[rd_log[d][i].call.url].status = "read"
  <2>1. PICK e, g : e = rd_log[d][i] /\ g = Reads(k)!Recorded(rows, e, cached)
    OBVIOUS
  <2>2. e \in Reads(k)!Entries /\ (e.result \in Text => e.call.tool = "read_url")
    BY <1>1, <2>1
  <2>3. /\ g \in V
        /\ \A u \in k.urls : rows[u].status = "read" => g[u].status = "read"
        /\ \A u \in k.urls : g[u].status = "read" =>
              rows[u].status = "read" \/ (e.result \in Text /\ e.call.url = u)
        /\ e.result \in Text => g[e.call.url].status = "read"
    BY <2>1, <2>2, RecordedRead
  <2> QED
    BY <2>1, <2>3
<1> HIDE DEF Go, V, N
<1>4. PICK F : F = [i \in 1..N |-> [rows \in V |-> Go(i, rows)]]
  OBVIOUS
<1>5. PICK f : Folded(N, V, rd_ledger, F, f)
  <2>1. PICK M, U, v : M = N /\ U = V /\ v = rd_ledger
    OBVIOUS
  <2>2. M \in Nat /\ v \in U /\ F \in [1..M -> [U -> U]]
    BY <1>1, <1>3, <1>4, <2>1
  <2>3. PICK f : Folded(M, U, v, F, f)
    BY <2>2, Folding
  <2> QED
    BY <2>1, <2>3
<1>6. f \in [0..N -> V] /\ f[0] = rd_ledger /\ \A n \in 1..N : f[n] = F[n][f[n - 1]]
  BY <1>5 DEF Folded
<1>7. f = Step(f)
  <2>1. ASSUME NEW n \in 1..N PROVE f[n] = Go(n, f[n - 1])
    <3>1. n - 1 \in 0..N
      BY <1>1
    <3>2. f[n - 1] \in V
      BY <1>6, <3>1
    <3> QED
      BY <1>4, <1>6, <3>2
  <2>2. \A n \in 0..N : n = 0 \/ (n # 0 /\ n \in 1..N)
    BY <1>1
  <2>3. \A n \in 0..N : f[n] = IF n = 0 THEN rd_ledger ELSE Go(n, f[n - 1])
    BY <1>6, <2>1, <2>2
  <2> QED
    BY <1>6, <2>3
<1>8. more = Step(more)
  BY <1>7
<1> HIDE DEF more
<1>9. more[0] = rd_ledger /\ \A n \in 1..N : more[n] = Go(n, more[n - 1])
  <2>1. \A n \in 0..N : more[n] = IF n = 0 THEN rd_ledger ELSE Go(n, more[n - 1])
    BY <1>8
  <2>2. 0 \in 0..N /\ \A n \in 1..N : n # 0 /\ n \in 0..N
    BY <1>1
  <2> QED
    BY <2>1, <2>2
<1> DEFINE Reached(n) ==
             /\ more[n] \in V
             /\ \A u \in k.urls : rd_ledger[u].status = "read" => more[n][u].status = "read"
             /\ \A u \in k.urls : more[n][u].status = "read" =>
                   \/ rd_ledger[u].status = "read"
                   \/ \E i \in 1..n : rd_log[d][i].result \in Text /\ rd_log[d][i].call.url = u
             /\ \A i \in 1..n :
                   rd_log[d][i].result \in Text => more[n][rd_log[d][i].call.url].status = "read"
<1>10. Reached(0)
  BY <1>1, <1>9
<1>11. ASSUME NEW n \in 1..N, Reached(n - 1) PROVE Reached(n)
  <2>1. /\ more[n] = Go(n, more[n - 1]) /\ more[n - 1] \in V
        /\ \A i \in 1..n : i \in 1..(n - 1) \/ i = n
        /\ \A i \in 1..(n - 1) : i \in 1..n
        /\ n \in 1..n /\ \A i \in 1..n : i \in 1..N
    BY <1>1, <1>9, <1>11
  <2>2. /\ more[n] \in V
        /\ \A u \in k.urls : more[n - 1][u].status = "read" => more[n][u].status = "read"
        /\ \A u \in k.urls : more[n][u].status = "read" =>
              more[n - 1][u].status = "read" \/ (rd_log[d][n].result \in Text /\ rd_log[d][n].call.url = u)
        /\ rd_log[d][n].result \in Text => more[n][rd_log[d][n].call.url].status = "read"
    BY <1>3, <2>1
  <2>3. \A u \in k.urls : rd_ledger[u].status = "read" => more[n][u].status = "read"
    BY <1>11, <2>2
  <2>4. ASSUME NEW u \in k.urls, more[n][u].status = "read"
        PROVE  \/ rd_ledger[u].status = "read"
               \/ \E i \in 1..n : rd_log[d][i].result \in Text /\ rd_log[d][i].call.url = u
    BY <1>11, <2>1, <2>2, <2>4
  <2>5. ASSUME NEW i \in 1..n, rd_log[d][i].result \in Text
        PROVE  more[n][rd_log[d][i].call.url].status = "read"
    <3>1. rd_log[d][i].call.url \in k.urls
      BY <1>1, <2>1
    <3>2. CASE i = n
      BY <2>2, <2>5, <3>2
    <3>3. CASE i \in 1..(n - 1)
      BY <1>11, <2>2, <2>5, <3>1, <3>3
    <3> QED
      BY <2>1, <3>2, <3>3
  <2> QED
    BY <2>2, <2>3, <2>4, <2>5
<1> HIDE DEF Reached
<1>12. 0..N \subseteq {n \in 0..N : Reached(n)}
  <2>1. PICK S : S = {n \in 0..N : Reached(n)}
    OBVIOUS
  <2>2. 0 \in S
    BY <1>1, <1>10, <2>1
  <2>3. \A n \in 1..N : n - 1 \in S => n \in S
    BY <1>1, <1>11, <2>1
  <2> QED
    BY <1>1, <2>1, <2>2, <2>3, Induction
<1>13. Reached(N)
  BY <1>1, <1>12
<1> QED
  BY <1>1, <1>2, <1>13 DEF Reached, V

(* A decision is recorded: what was due of it is read.                     *)
LEMMA MaterializeKeeps ==
    ASSUME NEW k, Reads(k)!ResearchReadingAssumption, ReadIInv(k), NEW d, NEW cached \in BOOLEAN,
           Reads(k)!Materialize(d, cached)
    PROVE  ReadIInv(k)'
<1>1. /\ d \in rd_due \union rd_late
      /\ rd_due' = rd_due \ {d} /\ rd_late' = rd_late \ {d}
      /\ UNCHANGED <<rd_log, rd_started, rd_children, rd_crashes, rd_published>>
      /\ rd_ledger' = IF Reads(k)!Running THEN Reads(k)!Materialized(d, cached) ELSE rd_ledger
  BY DEF Reads!Materialize
<1>2. DOMAIN rd_log = 1..Len(rd_log) /\ Len(rd_log) \in Nat
  BY RowsAre DEF ReadIInv
<1>3. d \in 1..Len(rd_log)
  <2>1. \A x \in rd_due : x = Len(rd_log) /\ x > 0
    BY DEF ReadIInv, ReadOrder
  <2>2. rd_late \subseteq 1..Len(rd_log)
    BY DEF ReadIInv, ReadOrder
  <2>3. CASE d \in rd_due
    <3>1. d = Len(rd_log) /\ Len(rd_log) > 0
      BY <2>1, <2>3
    <3> QED
      BY <1>2, <3>1
  <2>4. CASE d \in rd_late
    BY <2>2, <2>4
  <2> QED
    BY <1>1, <2>3, <2>4
<1>4. PICK now : now = Reads(k)!Materialized(d, cached)
  OBVIOUS
<1>5. /\ now \in [k.urls -> Reads(k)!LedgerRows]
      /\ \A u \in k.urls : rd_ledger[u].status = "read" => now[u].status = "read"
      /\ \A u \in k.urls : now[u].status = "read" =>
            \/ rd_ledger[u].status = "read"
            \/ \E i \in DOMAIN rd_log[d] : rd_log[d][i].result \in Text /\ rd_log[d][i].call.url = u
      /\ \A i \in DOMAIN rd_log[d] :
            rd_log[d][i].result \in Text => now[rd_log[d][i].call.url].status = "read"
  BY <1>3, <1>4, MaterializedRead DEF ReadIInv
<1>6. rd_ledger' = now \/ rd_ledger' = rd_ledger
  BY <1>1, <1>4
<1>7. Reads(k)!Shown' = Reads(k)!Shown
  BY <1>1 DEF Reads!Shown, Reads!Now, Reads!Readers
<1>8. LedgerShown(k)'
  <2>1. \A u \in k.urls : now[u].status = "read" => u \in Reads(k)!Shown
    BY <1>2, <1>3, <1>5, ShownIf DEF ReadIInv, LedgerShown
  <2> QED
    BY <1>6, <1>7, <2>1 DEF ReadIInv, LedgerShown
<1>9. ReadTyped(k)'
  BY <1>1, <1>5, <1>6 DEF ReadIInv, ReadTyped
<1>10. ReadOrder' /\ ReadOutcomes' /\ Reads(k)!OneReaderPerDocument' /\ Reads(k)!LinksWereRead'
  <2>1. ReadOrder'
    BY <1>1 DEF ReadIInv, ReadOrder
  <2>2. ReadOutcomes'
    BY <1>1 DEF ReadIInv, ReadOutcomes
  <2>3. Reads(k)!OneReaderPerDocument' /\ Reads(k)!LinksWereRead'
    BY <1>1, <1>7 DEF ReadIInv, Reads!OneReaderPerDocument, Reads!Readers, Reads!LinksWereRead
  <2> QED
    BY <2>1, <2>2, <2>3
<1>11. LedgerKeeps'
  <2> SUFFICES ASSUME rd_crashes' = 0 PROVE LedgerKeeps'
    BY DEF LedgerKeeps
  <2>1. rd_crashes = 0 /\ rd_late = {} /\ d \in rd_due
    BY <1>1 DEF ReadIInv, LedgerKeeps
  <2>2. Reads(k)!Running
    BY <2>1 DEF ReadIInv, ReadOrder, Reads!Running
  <2>3. rd_ledger' = now
    BY <1>1, <1>4, <2>2
  <2>4. ASSUME NEW g \in DOMAIN rd_log, NEW i \in DOMAIN rd_log[g], rd_log[g][i].result \in Text
        PROVE  \/ g \in rd_due'
               \/ g = Len(rd_log) /\ \E j \in DOMAIN rd_log[g] : rd_log[g][j].result = "none"
               \/ now[rd_log[g][i].call.url].status = "read"
    <3>1. \/ g \in rd_due
          \/ g = Len(rd_log) /\ \E j \in DOMAIN rd_log[g] : rd_log[g][j].result = "none"
          \/ rd_ledger[rd_log[g][i].call.url].status = "read"
      BY <2>1, <2>4 DEF ReadIInv, LedgerKeeps
    <3>2. rd_log[g][i].call.url \in k.urls
      BY <1>2, <2>4, RowsAre, CallsAre DEF ReadIInv
    <3> QED
      BY <1>1, <1>5, <2>4, <3>1, <3>2
  <2>5. ASSUME NEW c \in DOMAIN rd_children, rd_children[c].result = "text"
        PROVE  rd_children[c].due \/ now[rd_children[c].url].status = "read"
    <3>1. rd_children[c].due \/ rd_ledger[rd_children[c].url].status = "read"
      BY <2>1, <2>5 DEF ReadIInv, LedgerKeeps
    <3>2. rd_children[c].url \in k.urls
      BY RowsAre DEF ReadIInv, Reads!ChildRows
    <3> QED
      BY <1>5, <3>1, <3>2
  <2> QED
    BY <1>1, <2>1, <2>3, <2>4, <2>5 DEF LedgerKeeps
<1> QED
  BY <1>8, <1>9, <1>10, <1>11 DEF ReadIInv

-----------------------------------------------------------------------------
(* A reader reads its document; a scout recommends. *)

ChildIs(c, e, cs) == cs = [rd_children EXCEPT ![c] = e]

(* A child moves on, and its ledger.                                       *)
LEMMA ChildKeeps ==
    ASSUME NEW k, Reads(k)!ResearchReadingAssumption, ReadIInv(k), rd_started,
           NEW c \in DOMAIN rd_children, NEW e \in Reads(k)!ChildRows, ChildIs(c, e, rd_children'),
           /\ e.task = rd_children[c].task /\ e.url = rd_children[c].url
           /\ rd_children[c].result = "none" \/ e.result = rd_children[c].result
           /\ e.due => e.result # "none"
           /\ e.result # "none" => e.task = "reader",
           /\ rd_ledger' \in [k.urls -> Reads(k)!LedgerRows]
           /\ \A u \in k.urls : rd_ledger[u].status = "read" => rd_ledger'[u].status = "read"
           /\ \A u \in k.urls : rd_ledger'[u].status = "read" =>
                 rd_ledger[u].status = "read" \/ (e.result = "text" /\ e.url = u),
           UNCHANGED <<rd_log, rd_started, rd_due, rd_late, rd_published>>,
           rd_crashes' \in Nat,
           rd_crashes' = 0 => /\ rd_crashes = 0
                              /\ e.result = "text" => e.due \/ rd_ledger'[e.url].status = "read"
    PROVE  ReadIInv(k)'
<1>1. PICK cs : cs = rd_children'
  OBVIOUS
<1>2. rd_children \in Seq(Reads(k)!ChildRows) /\ DOMAIN rd_children = 1..Len(rd_children)
  BY RowsAre DEF ReadIInv, ReadTyped
<1>3. cs \in Seq(Reads(k)!ChildRows) /\ Len(cs) = Len(rd_children) /\ DOMAIN cs = DOMAIN rd_children
      /\ \A x \in 1..Len(rd_children) : cs[x] = IF x = c THEN e ELSE rd_children[x]
  BY <1>1, <1>2, Replaced DEF ChildIs
<1>4. /\ cs[c] = e /\ \A x \in DOMAIN rd_children : x # c => cs[x] = rd_children[x]
      /\ DOMAIN cs = DOMAIN rd_children
  BY <1>2, <1>3
<1>5. ReadTyped(k)'
  BY <1>1, <1>3 DEF ReadIInv, ReadTyped
<1>6. ReadOrder'
  BY DEF ReadIInv, ReadOrder
<1>7. ReadOutcomes'
  <2>1. \A x \in DOMAIN cs : /\ cs[x].due => cs[x].result # "none"
                             /\ cs[x].result # "none" => cs[x].task = "reader"
    BY <1>4 DEF ReadIInv, ReadOutcomes
  <2> QED
    BY <1>1, <2>1 DEF ReadIInv, ReadOutcomes
<1>8. \A u \in Reads(k)!Shown : u \in Reads(k)!Shown'
  <2>1. \A x \in DOMAIN rd_children :
           rd_children[x].result = "text" =>
              /\ x \in DOMAIN rd_children' /\ rd_children'[x].result = "text"
              /\ rd_children'[x].task = rd_children[x].task /\ rd_children'[x].url = rd_children[x].url
    BY <1>1, <1>4
  <2>2. \A d \in 1..Len(rd_log) : \A i \in DOMAIN rd_log[d] :
           rd_log[d][i].result \in Text =>
              /\ d \in 1..Len(rd_log') /\ i \in DOMAIN rd_log'[d]
              /\ rd_log'[d][i].result = rd_log[d][i].result /\ rd_log'[d][i].call = rd_log[d][i].call
    OBVIOUS
  <2> QED
    BY <2>1, <2>2, ShownStays
<1>9. LedgerShown(k)'
  <2>1. e.result = "text" => e.url \in Reads(k)!Shown'
    BY <1>1, <1>4 DEF Reads!Shown, Reads!Readers
  <2> QED
    BY <1>8, <2>1 DEF ReadIInv, LedgerShown
<1>10. Reads(k)!LinksWereRead'
  BY <1>8 DEF ReadIInv, Reads!LinksWereRead
<1>11. Reads(k)!OneReaderPerDocument'
  <2>1. \A x \in DOMAIN cs : cs[x].task = rd_children[x].task /\ cs[x].url = rd_children[x].url
    BY <1>4
  <2> QED
    BY <1>1, <1>4, <2>1 DEF ReadIInv, Reads!OneReaderPerDocument, Reads!Readers
<1>12. LedgerKeeps'
  <2> SUFFICES ASSUME rd_crashes' = 0 PROVE LedgerKeeps'
    BY DEF LedgerKeeps
  <2>1. rd_crashes = 0 /\ (e.result = "text" => e.due \/ rd_ledger'[e.url].status = "read")
    OBVIOUS
  <2>2. rd_late' = {}
    BY <2>1 DEF ReadIInv, LedgerKeeps
  <2>3. ASSUME NEW d \in DOMAIN rd_log, NEW i \in DOMAIN rd_log[d], rd_log[d][i].result \in Text
        PROVE  \/ d \in rd_due
               \/ d = Len(rd_log) /\ \E j \in DOMAIN rd_log[d] : rd_log[d][j].result = "none"
               \/ rd_ledger'[rd_log[d][i].call.url].status = "read"
    <3>1. rd_log[d][i].call.url \in k.urls
      BY RowsAre, CallsAre DEF ReadIInv
    <3> QED
      BY <2>1, <2>3, <3>1 DEF ReadIInv, LedgerKeeps
  <2>4. ASSUME NEW x \in DOMAIN cs, cs[x].result = "text"
        PROVE  cs[x].due \/ rd_ledger'[cs[x].url].status = "read"
    <3>1. CASE x = c
      BY <1>4, <2>1, <2>4, <3>1
    <3>2. CASE x # c
      <4>1. x \in DOMAIN rd_children /\ cs[x] = rd_children[x] /\ rd_children[x].url \in k.urls
        BY <1>2, <1>4, <3>2, RowsAre DEF ReadIInv, Reads!ChildRows
      <4> QED
        BY <2>1, <2>4, <4>1 DEF ReadIInv, LedgerKeeps
    <3> QED
      BY <3>1, <3>2
  <2> QED
    BY <1>1, <2>2, <2>3, <2>4 DEF LedgerKeeps
<1> QED
  BY <1>5, <1>6, <1>7, <1>9, <1>10, <1>11, <1>12 DEF ReadIInv

LEMMA ReaderReads ==
    ASSUME NEW k, Reads(k)!ResearchReadingAssumption, ReadIInv(k), NEW c \in DOMAIN rd_children,
           NEW result \in {"text", "failed"}, Reads(k)!ChildReads(c, result)
    PROVE  ReadIInv(k)'
<1>1. PICK o : o = rd_children[c]
  OBVIOUS
<1>2. PICK e : e = [o EXCEPT !.result = result, !.due = TRUE]
  OBVIOUS
<1>3. o \in Reads(k)!ChildRows
  BY <1>1, RowsAre DEF ReadIInv
<1>4. /\ rd_started /\ o.task = "reader" /\ o.result = "none"
      /\ rd_children' = [rd_children EXCEPT ![c] = e]
      /\ UNCHANGED <<rd_log, rd_started, rd_ledger, rd_due, rd_late, rd_crashes, rd_published>>
  BY <1>1, <1>2 DEF Reads!ChildReads, Reads!ChildIs, Reads!Running
<1>5. /\ e \in Reads(k)!ChildRows /\ e.task = o.task /\ e.url = o.url
      /\ e.result = result /\ e.due
  BY <1>2, <1>3 DEF Reads!ChildRows
<1>6. ChildIs(c, e, rd_children')
  BY <1>4 DEF ChildIs
<1>7. rd_crashes \in Nat /\ rd_ledger \in [k.urls -> Reads(k)!LedgerRows]
  BY DEF ReadIInv, ReadTyped
<1> QED
  BY <1>1, <1>4, <1>5, <1>6, <1>7, ChildKeeps

(* Its read is recorded, unless it dies before.                            *)
LEMMA ReaderMaterializes ==
    ASSUME NEW k, Reads(k)!ResearchReadingAssumption, ReadIInv(k), NEW c \in DOMAIN rd_children,
           NEW cached \in BOOLEAN, Reads(k)!ChildMaterializes(c, cached)
    PROVE  ReadIInv(k)'
<1>1. PICK o : o = rd_children[c]
  OBVIOUS
<1>2. PICK e : e = [o EXCEPT !.due = FALSE]
  OBVIOUS
<1>3. o \in Reads(k)!ChildRows /\ (o.result # "none" => o.task = "reader")
  BY <1>1, RowsAre DEF ReadIInv, ReadOutcomes
<1>4. PICK r : r = rd_ledger[o.url]
  OBVIOUS
<1>5. PICK s : s = Reads(k)!Row(r, o.result, cached)
  OBVIOUS
<1>6. /\ rd_started
      /\ rd_children' = [rd_children EXCEPT ![c] = e]
      /\ rd_ledger' = [rd_ledger EXCEPT ![o.url] = s]
      /\ UNCHANGED <<rd_log, rd_started, rd_due, rd_late, rd_crashes, rd_published>>
  BY <1>1, <1>2, <1>4, <1>5 DEF Reads!ChildMaterializes, Reads!Running
<1>7. /\ e \in Reads(k)!ChildRows /\ e.task = o.task /\ e.url = o.url
      /\ e.result = o.result /\ ~e.due /\ o.url \in k.urls
      /\ o.result \in {"none", "text", "failed"}
  BY <1>2, <1>3 DEF Reads!ChildRows
<1>8. rd_crashes \in Nat /\ rd_ledger \in [k.urls -> Reads(k)!LedgerRows]
  BY DEF ReadIInv, ReadTyped
<1>9. r \in Reads(k)!LedgerRows
  BY <1>4, <1>7, <1>8
<1>10. /\ s \in Reads(k)!LedgerRows
       /\ r.status = "read" => s.status = "read"
       /\ s.status = "read" => r.status = "read" \/ o.result = "text"
       /\ o.result = "text" => s.status = "read"
  <2>1. /\ s \in Reads(k)!LedgerRows
        /\ r.status = "read" => s.status = "read"
        /\ s.status = "read" => r.status = "read" \/ o.result \in Text
        /\ o.result \in Text => s.status = "read"
    BY <1>5, <1>9, RowsRead
  <2> QED
    BY <1>7, <2>1 DEF Text
<1>11. PICK now : now = [rd_ledger EXCEPT ![o.url] = s]
  OBVIOUS
<1>12. /\ now \in [k.urls -> Reads(k)!LedgerRows]
       /\ \A u \in k.urls : rd_ledger[u].status = "read" => now[u].status = "read"
       /\ \A u \in k.urls : now[u].status = "read" =>
             rd_ledger[u].status = "read" \/ (e.result = "text" /\ e.url = u)
       /\ e.result = "text" => now[e.url].status = "read"
  BY <1>4, <1>7, <1>8, <1>10, <1>11
<1>13. ChildIs(c, e, rd_children') /\ rd_ledger' = now
  BY <1>6, <1>11 DEF ChildIs
<1> QED
  BY <1>1, <1>3, <1>6, <1>7, <1>8, <1>12, <1>13, ChildKeeps

LEMMA ReaderCrashes ==
    ASSUME NEW k, Reads(k)!ResearchReadingAssumption, ReadIInv(k), NEW c \in DOMAIN rd_children,
           Reads(k)!ChildCrashes(c)
    PROVE  ReadIInv(k)'
<1>1. PICK o : o = rd_children[c]
  OBVIOUS
<1>2. PICK e : e = [o EXCEPT !.due = FALSE]
  OBVIOUS
<1>3. o \in Reads(k)!ChildRows /\ (o.result # "none" => o.task = "reader")
  BY <1>1, RowsAre DEF ReadIInv, ReadOutcomes
<1>4. /\ rd_started /\ rd_crashes' = rd_crashes + 1
      /\ rd_children' = [rd_children EXCEPT ![c] = e]
      /\ UNCHANGED <<rd_log, rd_started, rd_ledger, rd_due, rd_late, rd_published>>
  BY <1>1, <1>2 DEF Reads!ChildCrashes, Reads!Running
<1>5. e \in Reads(k)!ChildRows /\ e.task = o.task /\ e.url = o.url /\ e.result = o.result /\ ~e.due
  BY <1>2, <1>3 DEF Reads!ChildRows
<1>6. ChildIs(c, e, rd_children')
  BY <1>4 DEF ChildIs
<1>7. rd_crashes' \in Nat /\ rd_crashes' # 0 /\ rd_ledger \in [k.urls -> Reads(k)!LedgerRows]
  BY <1>4 DEF ReadIInv, ReadTyped
<1> QED
  BY <1>1, <1>3, <1>4, <1>5, <1>6, <1>7, ChildKeeps

(* A child ends; leads are not reads.                                      *)
LEMMA ChildEnds ==
    ASSUME NEW k, Reads(k)!ResearchReadingAssumption, ReadIInv(k), NEW c \in DOMAIN rd_children,
           NEW leads, Reads(k)!ChildCompletes(c, leads) \/ Reads(k)!ChildFails(c)
    PROVE  ReadIInv(k)'
<1>1. PICK o : o = rd_children[c]
  OBVIOUS
<1>2. PICK st \in {"completed", "failed"} :
         /\ rd_children' = [rd_children EXCEPT ![c].status = st]
         /\ \/ rd_ledger' = [u \in k.urls |-> IF u \in leads THEN Reads(k)!Recommended(rd_ledger[u]) ELSE rd_ledger[u]]
            \/ UNCHANGED rd_ledger
         /\ rd_started /\ ~o.due
         /\ UNCHANGED <<rd_log, rd_started, rd_due, rd_late, rd_crashes, rd_published>>
  <2>1. CASE Reads(k)!ChildCompletes(c, leads)
    BY <1>1, <2>1 DEF Reads!ChildCompletes, Reads!ChildIs, Reads!Running
  <2>2. CASE Reads(k)!ChildFails(c)
    BY <1>1, <2>2 DEF Reads!ChildFails, Reads!ChildIs, Reads!Running
  <2> QED
    BY <2>1, <2>2
<1>3. PICK e : e = [o EXCEPT !.status = st]
  OBVIOUS
<1>4. o \in Reads(k)!ChildRows /\ (o.result # "none" => o.task = "reader")
  BY <1>1, RowsAre DEF ReadIInv, ReadOutcomes
<1>5. e \in Reads(k)!ChildRows /\ e.task = o.task /\ e.url = o.url /\ e.result = o.result /\ ~e.due
  BY <1>2, <1>3, <1>4 DEF Reads!ChildRows
<1>6. ChildIs(c, e, rd_children')
  BY <1>1, <1>2, <1>3 DEF ChildIs
<1>7. rd_crashes \in Nat /\ rd_ledger \in [k.urls -> Reads(k)!LedgerRows] /\ o.url \in k.urls
  BY <1>4 DEF ReadIInv, ReadTyped, Reads!ChildRows
<1>8. PICK now : now = rd_ledger'
  OBVIOUS
<1>9. ASSUME NEW u \in k.urls
      PROVE  /\ Reads(k)!Recommended(rd_ledger[u]) \in Reads(k)!LedgerRows
             /\ rd_ledger[u].status = "read" <=> Reads(k)!Recommended(rd_ledger[u]).status = "read"
  <2>1. PICK r : r = rd_ledger[u]
    OBVIOUS
  <2>2. r \in Reads(k)!LedgerRows
    BY <1>7, <2>1
  <2>3. PICK s : s = [r EXCEPT !.status = IF r.status = "none" THEN "discovered" ELSE r.status, !.recommended = TRUE]
    OBVIOUS
  <2>4. s \in Reads(k)!LedgerRows /\ (r.status = "read" <=> s.status = "read")
    BY <2>2, <2>3 DEF Reads!LedgerRows
  <2> QED
    BY <2>1, <2>3, <2>4 DEF Reads!Recommended
<1>10. now \in [k.urls -> Reads(k)!LedgerRows]
       /\ \A u \in k.urls : now[u].status = "read" <=> rd_ledger[u].status = "read"
  <2>1. CASE UNCHANGED rd_ledger
    BY <1>7, <1>8, <2>1
  <2>2. CASE now = [u \in k.urls |-> IF u \in leads THEN Reads(k)!Recommended(rd_ledger[u]) ELSE rd_ledger[u]]
    BY <1>7, <1>9, <2>2
  <2> QED
    BY <1>2, <1>8, <2>1, <2>2
<1>11. rd_crashes = 0 /\ e.result = "text" => now[e.url].status = "read"
  BY <1>1, <1>2, <1>5, <1>7, <1>10 DEF ReadIInv, LedgerKeeps
<1> QED
  BY <1>1, <1>2, <1>4, <1>5, <1>6, <1>7, <1>8, <1>10, <1>11, ChildKeeps

-----------------------------------------------------------------------------
(* Its steps keep it. *)
LEMMA ReadStep ==
    ASSUME NEW k, Reads(k)!ResearchReadingAssumption, ReadIInv(k), Reads(k)!Next
    PROVE  ReadIInv(k)'
<1>1. CASE Reads(k)!StartRun
  BY <1>1, StartRunKeeps
<1>2. CASE \E calls \in Reads(k)!Batches : Reads(k)!Propose(calls)
  BY <1>2, ProposeKeeps
<1>3. ASSUME NEW i \in 1..k.batch,
             \/ Reads(k)!Refuse(i) \/ Reads(k)!Search(i) \/ Reads(k)!RecordClaim(i)
             \/ Reads(k)!FetchFails(i) \/ Reads(k)!Fetch(i) \/ Reads(k)!Delegate(i)
             \/ Reads(k)!WaitAgent(i) \/ Reads(k)!AppendCheckpoint(i)
      PROVE  ReadIInv(k)'
  BY <1>3, RefuseKeeps, ToolsKeep, DelegateKeeps, WaitAgentKeeps, AppendKeeps
<1>4. CASE Reads(k)!Crash
  BY <1>4, CrashKeeps
<1>5. CASE \E d \in 1..k.decisions, cached \in BOOLEAN : Reads(k)!Materialize(d, cached)
  BY <1>5, MaterializeKeeps
<1>6. ASSUME NEW c \in DOMAIN rd_children,
             \/ \E result \in {"text", "failed"} : Reads(k)!ChildReads(c, result)
             \/ \E cached \in BOOLEAN : Reads(k)!ChildMaterializes(c, cached)
             \/ Reads(k)!ChildCrashes(c)
             \/ \E leads \in SUBSET k.urls : Reads(k)!ChildCompletes(c, leads)
             \/ Reads(k)!ChildFails(c)
      PROVE  ReadIInv(k)'
  BY <1>6, ReaderReads, ReaderMaterializes, ReaderCrashes, ChildEnds
<1>7. CASE Reads(k)!PublishFinal
  BY <1>7, PublishKeeps
<1> QED
  BY <1>1, <1>2, <1>3, <1>4, <1>5, <1>6, <1>7 DEF Reads!Next

LEMMA ReadStutters ==
    ASSUME NEW k, ReadIInv(k), UNCHANGED rd_vars
    PROVE  ReadIInv(k)'
<1>1. Reads(k)!Shown' = Reads(k)!Shown
  BY DEF rd_vars, Reads!Shown, Reads!Now, Reads!Readers
<1>2. ReadTyped(k)' /\ ReadOrder'
  BY DEF rd_vars, ReadIInv, ReadTyped, ReadOrder
<1>3. ReadOutcomes' /\ LedgerKeeps'
  BY DEF rd_vars, ReadIInv, ReadOutcomes, LedgerKeeps
<1>4. LedgerShown(k)' /\ Reads(k)!OneReaderPerDocument' /\ Reads(k)!LinksWereRead'
  BY <1>1
  DEF rd_vars, ReadIInv, LedgerShown, Reads!OneReaderPerDocument, Reads!Readers, Reads!LinksWereRead
<1> QED
  BY <1>2, <1>3, <1>4 DEF ReadIInv

(* And imply what is promised.                                             *)
LEMMA ReadPromised ==
    ASSUME NEW k, Reads(k)!ResearchReadingAssumption, ReadIInv(k)
    PROVE  /\ Reads(k)!TypeOK /\ Reads(k)!OneReaderPerDocument
           /\ Reads(k)!LedgerTellsReads /\ Reads(k)!LinksWereRead
<1>1. Reads(k)!TypeOK
  <2>1. /\ DOMAIN rd_log = 1..Len(rd_log) /\ DOMAIN rd_children = 1..Len(rd_children)
        /\ \A d \in 1..Len(rd_log) : \A i \in DOMAIN rd_log[d] : rd_log[d][i] \in Reads(k)!Entries
        /\ \A c \in 1..Len(rd_children) : rd_children[c] \in Reads(k)!ChildRows
    BY RowsAre DEF ReadIInv
  <2> QED
    BY <2>1 DEF Reads!TypeOK, ReadIInv, ReadTyped
<1>2. Reads(k)!LedgerTellsReads
  <2> SUFFICES ASSUME rd_crashes = 0, rd_due = {}, Reads(k)!Now > 0 => Reads(k)!Complete(Reads(k)!Now),
                      \A c \in DOMAIN rd_children : ~rd_children[c].due,
                      NEW u \in Reads(k)!Shown
               PROVE  rd_ledger[u].status = "read"
    BY DEF Reads!LedgerTellsReads
  <2>1. CASE \E d \in 1..Len(rd_log) : \E i \in DOMAIN rd_log[d] :
                i \in 1..k.batch /\ rd_log[d][i].result \in Text /\ rd_log[d][i].call.url = u
    <3>1. PICK d \in 1..Len(rd_log) : \E i \in DOMAIN rd_log[d] :
                i \in 1..k.batch /\ rd_log[d][i].result \in Text /\ rd_log[d][i].call.url = u
      BY <2>1
    <3>2. PICK i \in DOMAIN rd_log[d] : rd_log[d][i].result \in Text /\ rd_log[d][i].call.url = u
      BY <3>1
    <3>3. d \in DOMAIN rd_log /\ Len(rd_log) > 0 /\ Len(rd_log) \in Nat
      BY RowsAre DEF ReadIInv
    <3>4. d = Len(rd_log) => \A j \in DOMAIN rd_log[d] : rd_log[d][j].result # "none"
      BY <3>3 DEF Reads!Now, Reads!Complete
    <3> QED
      BY <3>2, <3>3, <3>4 DEF ReadIInv, LedgerKeeps
  <2>2. CASE \E c \in DOMAIN rd_children :
                /\ rd_children[c].result = "text" /\ rd_children[c].task = "reader"
                /\ rd_children[c].url = u
    BY <2>2 DEF ReadIInv, LedgerKeeps
  <2> QED
    BY <2>1, <2>2, ShownOnly
<1> QED
  BY <1>1, <1>2 DEF ReadIInv

-----------------------------------------------------------------------------
(* Releases.  The instance has its constants as parameter.                 *)
Statuses == {"free", "queued", "running", "completed", "failed"}
Unfinished == {"queued", "running"}
Phases == {"down", "prompts", "skills", "agents", "ready", "configuration",
           "serving", "executors", "working"}
Agreed == {"ready", "configuration", "serving", "executors", "working"}
Row(e) == e = [status |-> e.status, pin |-> e.pin, worker |-> e.worker, lost |-> e.lost]

PinTyped(k) ==
    /\ ro_proc \in [Pins(k)!Procs -> [phase : Phases, build : k.builds \cup {Pins(k)!NoBuild}]]
    /\ ro_runs = [r \in k.runs |-> ro_runs[r]]
    /\ \A r \in k.runs : Row(ro_runs[r]) /\ ro_runs[r].status \in Statuses
    /\ Len(ro_configurations) \in Nat /\ DOMAIN ro_configurations = 1..Len(ro_configurations)

(* What a process that came this far found: the versions its catalog       *)
(* embeds are those that are registered, and the catalog loads.            *)
PassedBy(k, p) ==
    LET b == ro_proc[p].build IN
    /\ ro_proc[p].phase # "down" => b \in k.builds
    /\ ro_proc[p].phase \in Agreed => Pins(k)!Same(ro_registered, b, Pins(k)!AgentKinds)
    /\ ro_proc[p].phase \in Agreed => Pins(k)!Loads(b)
    /\ p \in k.workers /\ ro_proc[p].phase = "agents" => Pins(k)!Loads(b)
    /\ ro_proc[p].phase = "ready" => p \notin k.workers
    /\ ro_proc[p].phase \in Agreed \ {"ready"} => k.release[b] \in DOMAIN k.embeds[b]
    /\ ro_proc[p].phase = "working" => p \in k.workers /\ Pins(k)!Binds(b)

(* The Runs of the earlier runtime that are left can be executed.          *)
ExecutesFormer(k, p) ==
    ro_proc[p].phase \in {"executors", "working"} =>
       \A r \in k.legacy : ro_runs[r].status \in Unfinished =>
          k.config[ro_proc[p].build].executor = Pins(k)!Former.executor

(* The unique policy of agent_model_context_policy_versions.               *)
OneContext(k) ==
    \A x, y \in DOMAIN ro_registered \cap k.contexts :
       ro_registered[x].policy = ro_registered[y].policy => x = y

(* The pin of a Run is of what is registered.                              *)
PinStands(k, pin) ==
    /\ pin.definition \in DOMAIN ro_registered \cap k.definitions
    /\ pin.policy \in DOMAIN ro_registered \cap k.policies
    /\ pin.context \in DOMAIN ro_registered \cap k.contexts
    /\ ro_registered[pin.definition].body = pin.body
    /\ ro_registered[pin.definition].executor = pin.executor
    /\ ro_registered[pin.definition].policy = pin.policy
    /\ ro_registered[pin.policy].body = pin.model
    /\ ro_registered[pin.context].policy = pin.policy
RowStands(k, r, e) ==
    /\ e.status = "free" => e.pin = Pins(k)!NoPin /\ e.lost = Pins(k)!NoBuild /\ r \notin k.legacy
    /\ r \in k.legacy => e.pin = Pins(k)!NoPin /\ e.lost = Pins(k)!NoBuild
    /\ r \notin k.legacy /\ e.status # "free" => PinStands(k, e.pin)
    /\ e.status = "running" =>
          /\ e.worker \in k.workers /\ ro_proc[e.worker].phase = "working"
          /\ r \notin k.legacy => e.pin.definition \in DOMAIN k.embeds[ro_proc[e.worker].build]
    /\ e.lost # Pins(k)!NoBuild => e.pin.definition \notin DOMAIN k.embeds[e.lost]

PinIInv(k) ==
    /\ PinTyped(k) /\ OneContext(k)
    /\ \A p \in Pins(k)!Procs : PassedBy(k, p) /\ ExecutesFormer(k, p)
    /\ \A r \in k.runs : RowStands(k, r, ro_runs[r])

LEMMA PinInit == ASSUME NEW k, Pins(k)!RolloutAssumption, Pins(k)!Init PROVE PinIInv(k)
<1>1. /\ ro_registered = <<>> /\ DOMAIN ro_registered = {}
      /\ \A p \in Pins(k)!Procs : ro_proc[p] = [phase |-> "down", build |-> Pins(k)!NoBuild]
  BY DEF Pins!Init
<1>2. ASSUME NEW r \in k.runs
      PROVE  /\ Row(ro_runs[r]) /\ ro_runs[r].pin = Pins(k)!NoPin /\ ro_runs[r].lost = Pins(k)!NoBuild
             /\ ro_runs[r].status = IF r \in k.legacy THEN "queued" ELSE "free"
  <2>1. CASE r \in k.legacy
    <3>1. ro_runs[r] = [Pins(k)!Idle EXCEPT !.status = "queued"]
      BY <2>1 DEF Pins!Init
    <3> QED
      BY <2>1, <3>1 DEF Pins!Idle, Row
  <2>2. CASE r \notin k.legacy
    BY <2>2 DEF Pins!Init, Pins!Idle, Row
  <2> QED
    BY <2>1, <2>2
<1>3. PinTyped(k)
  <2>1. ro_proc \in [Pins(k)!Procs -> [phase : Phases, build : k.builds \cup {Pins(k)!NoBuild}]]
    BY DEF Pins!Init, Phases
  <2>2. ro_runs = [r \in k.runs |-> ro_runs[r]]
    BY DEF Pins!Init
  <2>3. \A r \in k.runs : Row(ro_runs[r]) /\ ro_runs[r].status \in Statuses
    BY <1>2 DEF Statuses
  <2>4. Len(ro_configurations) \in Nat /\ DOMAIN ro_configurations = 1..Len(ro_configurations)
    <3>1. ro_configurations = <<>> \/ ro_configurations = <<Pins(k)!Former>>
      BY DEF Pins!Init
    <3> QED
      BY <3>1
  <2> QED
    BY <2>1, <2>2, <2>3, <2>4 DEF PinTyped
<1>4. OneContext(k)
  BY <1>1 DEF OneContext
<1>5. \A p \in Pins(k)!Procs : PassedBy(k, p) /\ ExecutesFormer(k, p)
  BY <1>1 DEF PassedBy, ExecutesFormer, Agreed
<1>6. \A r \in k.runs : RowStands(k, r, ro_runs[r])
  BY <1>2 DEF RowStands
<1> QED
  BY <1>3, <1>4, <1>5, <1>6 DEF PinIInv

(* What is registered stays.                                               *)
Grows == \A x \in DOMAIN ro_registered : x \in DOMAIN ro_registered' /\ ro_registered'[x] = ro_registered[x]

LEMMA PinsStay ==
    ASSUME NEW k, NEW pin, Grows, PinStands(k, pin) PROVE PinStands(k, pin)'
BY DEF Grows, PinStands

LEMMA SameStays ==
    ASSUME NEW k, NEW b, NEW kinds, Grows, Pins(k)!Same(ro_registered, b, kinds)
    PROVE  Pins(k)!Same(ro_registered', b, kinds)
BY DEF Grows, Pins!Same, Pins!Verified

(* A process gets further. *)
LEMMA ProcMoves ==
    ASSUME NEW k, Pins(k)!RolloutAssumption, PinIInv(k), NEW p \in Pins(k)!Procs,
           NEW e \in [phase : Phases, build : k.builds \cup {Pins(k)!NoBuild}],
           ro_proc' = [ro_proc EXCEPT ![p] = e], ro_proc[p].phase # "working",
           ro_runs' = ro_runs, Grows, OneContext(k)',
           Len(ro_configurations') \in Nat /\ DOMAIN ro_configurations' = 1..Len(ro_configurations'),
           PassedBy(k, p)', ExecutesFormer(k, p)'
    PROVE  PinIInv(k)'
<1>1. ro_proc \in [Pins(k)!Procs -> [phase : Phases, build : k.builds \cup {Pins(k)!NoBuild}]]
  BY DEF PinIInv, PinTyped
<1>2. /\ \A q \in Pins(k)!Procs \ {p} : ro_proc'[q] = ro_proc[q]
      /\ ro_proc' \in [Pins(k)!Procs -> [phase : Phases, build : k.builds \cup {Pins(k)!NoBuild}]]
  BY <1>1
<1>3. PinTyped(k)'
  BY <1>2 DEF PinIInv, PinTyped
<1>4. ASSUME NEW q \in Pins(k)!Procs PROVE PassedBy(k, q)' /\ ExecutesFormer(k, q)'
  <2>1. CASE q = p
    BY <2>1
  <2>2. CASE q # p
    <3>1. ro_proc'[q] = ro_proc[q] /\ PassedBy(k, q) /\ ExecutesFormer(k, q)
      BY <1>2, <2>2 DEF PinIInv
    <3>2. ExecutesFormer(k, q)'
      BY <3>1 DEF ExecutesFormer
    <3> QED
      BY <3>1, <3>2, SameStays DEF PassedBy
  <2> QED
    BY <2>1, <2>2
<1>5. ASSUME NEW r \in k.runs PROVE RowStands(k, r, ro_runs[r])'
  <2>1. RowStands(k, r, ro_runs[r]) /\ ro_runs'[r] = ro_runs[r]
    BY DEF PinIInv
  <2>2. ro_runs[r].status = "running" => ro_proc'[ro_runs[r].worker] = ro_proc[ro_runs[r].worker]
    BY <2>1, <1>2 DEF RowStands, Pins!Procs
  <2>3. PinStands(k, ro_runs[r].pin) => PinStands(k, ro_runs[r].pin)'
    BY PinsStay
  <2> QED
    BY <2>1, <2>2, <2>3 DEF RowStands
<1> QED
  BY <1>3, <1>4, <1>5 DEF PinIInv

(* A process exits. *)
LEMMA ExitKeeps ==
    ASSUME NEW k, Pins(k)!RolloutAssumption, PinIInv(k), NEW p \in Pins(k)!Procs, Pins(k)!Exit(p)
    PROVE  PinIInv(k)'
<1>1. /\ ro_proc \in [Pins(k)!Procs -> [phase : Phases, build : k.builds \cup {Pins(k)!NoBuild}]]
      /\ ro_proc' = [ro_proc EXCEPT ![p] = [ro_proc[p] EXCEPT !.phase = "down"]]
  BY DEF PinIInv, PinTyped, Pins!Exit, Pins!Enters
<1>2. /\ ro_proc'[p].phase = "down" /\ \A q \in Pins(k)!Procs \ {p} : ro_proc'[q] = ro_proc[q]
      /\ ro_proc' \in [Pins(k)!Procs -> [phase : Phases, build : k.builds \cup {Pins(k)!NoBuild}]]
  BY <1>1 DEF Phases
<1>3. ro_registered' = ro_registered /\ ro_configurations' = ro_configurations
  BY DEF Pins!Exit
<1>4. ASSUME NEW r \in k.runs
      PROVE  /\ Row(ro_runs'[r]) /\ ro_runs'[r].pin = ro_runs[r].pin /\ ro_runs'[r].lost = ro_runs[r].lost
             /\ \/ ro_runs'[r] = ro_runs[r] /\ (ro_runs[r].status = "running" => ro_runs[r].worker # p)
                \/ ro_runs'[r].status = "queued" /\ ro_runs[r].status = "running"
  <2>1. Row(ro_runs[r])
    BY DEF PinIInv, PinTyped
  <2>2. CASE ro_runs[r].status = "running" /\ ro_runs[r].worker = p
    <3>1. ro_runs'[r] = [ro_runs[r] EXCEPT !.status = "queued", !.worker = "none"]
      BY <2>2 DEF Pins!Exit, Pins!Released
    <3> QED
      BY <2>1, <2>2, <3>1 DEF Row
  <2>3. CASE ~(ro_runs[r].status = "running" /\ ro_runs[r].worker = p)
    <3>1. ro_runs'[r] = ro_runs[r]
      BY <2>3 DEF Pins!Exit, Pins!Released
    <3> QED
      BY <2>1, <2>3, <3>1
  <2> QED
    BY <2>2, <2>3
<1>5. PinTyped(k)'
  <2>1. ro_runs' = [r \in k.runs |-> ro_runs'[r]]
    BY DEF Pins!Exit, Pins!Released
  <2>2. \A r \in k.runs : Row(ro_runs'[r]) /\ ro_runs'[r].status \in Statuses
    BY <1>4 DEF PinIInv, PinTyped, Statuses
  <2>3. \A r \in k.runs : Row(ro_runs[r])'
    BY <2>2 DEF Row
  <2> QED
    BY <1>2, <1>3, <2>1, <2>2, <2>3 DEF PinIInv, PinTyped
<1>6. OneContext(k)'
  BY <1>3 DEF PinIInv, OneContext
<1>7. ASSUME NEW q \in Pins(k)!Procs PROVE PassedBy(k, q)' /\ ExecutesFormer(k, q)'
  <2>1. CASE q = p
    BY <2>1, <1>2 DEF PassedBy, ExecutesFormer, Agreed
  <2>2. CASE q # p
    <3>1. ro_proc'[q] = ro_proc[q] /\ PassedBy(k, q) /\ ExecutesFormer(k, q)
      BY <1>2, <2>2 DEF PinIInv
    <3>2. \A r \in k.runs : ro_runs'[r].status \in Unfinished => ro_runs[r].status \in Unfinished
      BY <1>4 DEF Unfinished
    <3> QED
      BY <1>3, <3>1, <3>2 DEF PassedBy, ExecutesFormer, Pins!RolloutAssumption
  <2> QED
    BY <2>1, <2>2
<1>8. ASSUME NEW r \in k.runs PROVE RowStands(k, r, ro_runs[r])'
  <2>1. RowStands(k, r, ro_runs[r])
    BY DEF PinIInv
  <2>2. PinStands(k, ro_runs[r].pin) => PinStands(k, ro_runs[r].pin)'
    BY <1>3, <1>4 DEF PinStands
  <2>3. ro_runs'[r].status = "running" =>
           ro_runs'[r] = ro_runs[r] /\ ro_proc'[ro_runs[r].worker] = ro_proc[ro_runs[r].worker]
    BY <1>4, <2>1, <1>2 DEF RowStands, Pins!Procs
  <2> QED
    BY <1>4, <2>1, <2>2, <2>3 DEF RowStands
<1> QED
  BY <1>5, <1>6, <1>7, <1>8 DEF PinIInv

(* A row of agent_runs changes. *)
LEMMA RowChanges ==
    ASSUME NEW k, Pins(k)!RolloutAssumption, PinIInv(k), NEW r \in k.runs, NEW e,
           ro_runs' = [ro_runs EXCEPT ![r] = e], Row(e), e.status \in Statuses, RowStands(k, r, e),
           r \in k.legacy /\ e.status \in Unfinished => ro_runs[r].status \in Unfinished,
           UNCHANGED <<ro_registered, ro_configurations, ro_proc>>
    PROVE  PinIInv(k)'
<1>1. /\ ro_runs' = [s \in k.runs |-> ro_runs'[s]] /\ ro_runs'[r] = e
      /\ \A s \in k.runs \ {r} : ro_runs'[s] = ro_runs[s]
  BY DEF PinIInv, PinTyped
<1>2. PinTyped(k)'
  <2>1. \A s \in k.runs : Row(ro_runs'[s]) /\ ro_runs'[s].status \in Statuses
    BY <1>1 DEF PinIInv, PinTyped
  <2>2. \A s \in k.runs : Row(ro_runs[s])'
    BY <2>1 DEF Row
  <2> QED
    BY <1>1, <2>1, <2>2 DEF PinIInv, PinTyped
<1>3. OneContext(k)' /\ \A p \in Pins(k)!Procs : PassedBy(k, p)'
  BY DEF PinIInv, OneContext, PassedBy
<1>4. ASSUME NEW p \in Pins(k)!Procs PROVE ExecutesFormer(k, p)'
  <2>1. \A s \in k.legacy : ro_runs'[s].status \in Unfinished => ro_runs[s].status \in Unfinished
    BY <1>1 DEF Pins!RolloutAssumption
  <2> QED
    BY <2>1 DEF PinIInv, ExecutesFormer
<1>5. ASSUME NEW s \in k.runs PROVE RowStands(k, s, ro_runs[s])'
  <2>1. RowStands(k, s, ro_runs'[s])
    BY <1>1 DEF PinIInv
  <2> QED
    BY <2>1 DEF RowStands, PinStands
<1> QED
  BY <1>2, <1>3, <1>4, <1>5 DEF PinIInv

LEMMA EntersIs ==
    ASSUME NEW k, PinIInv(k), NEW p \in Pins(k)!Procs, NEW next \in Phases, Pins(k)!Enters(p, next)
    PROVE  \E e \in [phase : Phases, build : k.builds \cup {Pins(k)!NoBuild}] :
              /\ ro_proc' = [ro_proc EXCEPT ![p] = e] /\ ro_proc'[p] = e
              /\ e.phase = next /\ e.build = ro_proc[p].build
<1>1. /\ ro_proc \in [Pins(k)!Procs -> [phase : Phases, build : k.builds \cup {Pins(k)!NoBuild}]]
      /\ ro_proc' = [ro_proc EXCEPT ![p] = [ro_proc[p] EXCEPT !.phase = next]]
  BY DEF PinIInv, PinTyped, Pins!Enters
<1>2. PICK e : e = [ro_proc[p] EXCEPT !.phase = next]
  OBVIOUS
<1>3. /\ e \in [phase : Phases, build : k.builds \cup {Pins(k)!NoBuild}]
      /\ e.phase = next /\ e.build = ro_proc[p].build
  BY <1>1, <1>2
<1>4. ro_proc' = [ro_proc EXCEPT ![p] = e] /\ ro_proc'[p] = e
  BY <1>1, <1>2
<1> QED
  BY <1>3, <1>4

(* It gets further and nothing else changes. *)
LEMMA Proceeds ==
    ASSUME NEW k, Pins(k)!RolloutAssumption, PinIInv(k), NEW p \in Pins(k)!Procs, NEW next \in Phases,
           Pins(k)!Enters(p, next), ro_proc[p].phase # "working",
           UNCHANGED <<ro_registered, ro_runs>>,
           Len(ro_configurations') \in Nat /\ DOMAIN ro_configurations' = 1..Len(ro_configurations'),
           PassedBy(k, p)', ExecutesFormer(k, p)'
    PROVE  PinIInv(k)'
<1>1. PICK e \in [phase : Phases, build : k.builds \cup {Pins(k)!NoBuild}] : ro_proc' = [ro_proc EXCEPT ![p] = e]
  BY EntersIs
<1>2. Grows /\ OneContext(k)'
  BY DEF Grows, PinIInv, OneContext
<1> QED
  BY <1>1, <1>2, ProcMoves

LEMMA StartKeeps ==
    ASSUME NEW k, Pins(k)!RolloutAssumption, PinIInv(k), NEW p \in Pins(k)!Procs, NEW b \in k.builds,
           Pins(k)!Start(p, b)
    PROVE  PinIInv(k)'
<1>1. PICK e : e = [phase |-> "prompts", build |-> b]
  OBVIOUS
<1>2. /\ e \in [phase : Phases, build : k.builds \cup {Pins(k)!NoBuild}]
      /\ e.phase = "prompts" /\ e.build = b
  BY <1>1 DEF Phases
<1>3. ro_proc' = [ro_proc EXCEPT ![p] = e] /\ ro_proc'[p] = e
  BY <1>1 DEF Pins!Start, PinIInv, PinTyped
<1>4. PassedBy(k, p)' /\ ExecutesFormer(k, p)'
  BY <1>2, <1>3 DEF PassedBy, ExecutesFormer, Agreed
<1>5. Grows /\ OneContext(k)'
  BY DEF Pins!Start, Grows, PinIInv, OneContext
<1>6. ro_configurations' = ro_configurations /\ ro_runs' = ro_runs /\ ro_proc[p].phase # "working"
  BY DEF Pins!Start, Pins!Is
<1> QED
  BY <1>2, <1>3, <1>4, <1>5, <1>6, ProcMoves DEF PinIInv, PinTyped

-----------------------------------------------------------------------------
(* Registration. *)
LEMMA WithIs ==
    ASSUME NEW k, NEW b, NEW kinds, ro_registered' = Pins(k)!With(ro_registered, b, kinds)
    PROVE  /\ Grows
           /\ DOMAIN ro_registered' = DOMAIN ro_registered \cup Pins(k)!Of(b, kinds)
           /\ \A x \in Pins(k)!Of(b, kinds) \ DOMAIN ro_registered : ro_registered'[x] = k.embeds[b][x]
BY DEF Pins!With, Grows

LEMMA ContextsStayUnique ==
    ASSUME NEW k, OneContext(k), NEW b, NEW kinds, ~Pins(k)!Duplicates(b, kinds),
           kinds \cap k.contexts = {} \/ Pins(k)!Loads(b),
           ro_registered' = Pins(k)!With(ro_registered, b, kinds)
    PROVE  OneContext(k)'
<1> SUFFICES ASSUME NEW x \in DOMAIN ro_registered' \cap k.contexts,
                    NEW y \in DOMAIN ro_registered' \cap k.contexts,
                    ro_registered'[x].policy = ro_registered'[y].policy
             PROVE  x = y
  BY DEF OneContext
<1>1. ASSUME NEW z \in DOMAIN ro_registered' \cap k.contexts, z \notin DOMAIN ro_registered
      PROVE  /\ z \in Pins(k)!Of(b, kinds \cap k.contexts) \ DOMAIN ro_registered
             /\ z \in Pins(k)!Of(b, k.contexts) /\ ro_registered'[z] = k.embeds[b][z]
             /\ Pins(k)!ContextsOf(ro_registered, k.embeds[b][z].policy) = {}
  <2>1. z \in Pins(k)!Of(b, kinds) \ DOMAIN ro_registered
    BY <1>1 DEF Pins!With
  <2>2. z \in Pins(k)!Of(b, kinds \cap k.contexts) /\ z \in Pins(k)!Of(b, k.contexts)
    BY <2>1 DEF Pins!Of
  <2>3. Pins(k)!ContextsOf(ro_registered, k.embeds[b][z].policy) = {}
    BY <1>1, <2>2 DEF Pins!Duplicates
  <2>4. ro_registered'[z] = k.embeds[b][z]
    BY <2>1 DEF Pins!With, Pins!Of
  <2> QED
    BY <1>1, <2>2, <2>3, <2>4
<1>2. ASSUME NEW z \in DOMAIN ro_registered \cap k.contexts
      PROVE  z \in Pins(k)!ContextsOf(ro_registered, ro_registered'[z].policy) /\ ro_registered'[z] = ro_registered[z]
  BY WithIs DEF Pins!ContextsOf, Grows
<1>3. CASE x \in DOMAIN ro_registered /\ y \in DOMAIN ro_registered
  BY <1>2, <1>3 DEF OneContext
<1>4. CASE x \in DOMAIN ro_registered /\ y \notin DOMAIN ro_registered
  BY <1>1, <1>2, <1>4
<1>5. CASE x \notin DOMAIN ro_registered /\ y \in DOMAIN ro_registered
  BY <1>1, <1>2, <1>5
<1>6. CASE x \notin DOMAIN ro_registered /\ y \notin DOMAIN ro_registered
  <2>1. /\ x \in Pins(k)!Of(b, k.contexts) /\ y \in Pins(k)!Of(b, k.contexts)
        /\ k.embeds[b][x].policy = k.embeds[b][y].policy /\ Pins(k)!Loads(b)
    <3>1. x \in Pins(k)!Of(b, kinds \cap k.contexts)
      BY <1>1, <1>6
    <3> QED
      BY <1>1, <1>6, <3>1 DEF Pins!Of
  <2>2. k.embeds[b][x].policy \in Pins(k)!Of(b, k.policies)
    BY <2>1 DEF Pins!Loads, Pins!ContextValid
  <2>3. PICK z : Pins(k)!ContextsOf(k.embeds[b], k.embeds[b][x].policy) = {z}
    BY <2>1, <2>2 DEF Pins!Loads
  <2>4. /\ x \in Pins(k)!ContextsOf(k.embeds[b], k.embeds[b][x].policy)
        /\ y \in Pins(k)!ContextsOf(k.embeds[b], k.embeds[b][x].policy)
    BY <2>1 DEF Pins!ContextsOf, Pins!Of
  <2> QED
    BY <2>3, <2>4
<1> QED
  BY <1>3, <1>4, <1>5, <1>6

LEMMA RegisterKeeps ==
    ASSUME NEW k, Pins(k)!RolloutAssumption, PinIInv(k), NEW p \in k.controls,
           NEW phase \in {"prompts", "skills", "agents"}, NEW next \in {"skills", "agents", "ready"}, NEW kinds,
           next = "ready" => kinds = Pins(k)!AgentKinds,
           next = "ready" \/ kinds \cap k.contexts # {} => Pins(k)!Loads(ro_proc[p].build),
           Pins(k)!Register(p, phase, kinds, next)
    PROVE  PinIInv(k)'
<1>1. p \in Pins(k)!Procs /\ p \notin k.workers /\ next \in Phases /\ ro_proc[p].phase = phase
  BY DEF Pins!Procs, Pins!RolloutAssumption, Phases, Pins!Register, Pins!Is
<1>2. CASE Pins(k)!Exit(p)
  BY <1>1, <1>2, ExitKeeps
<1>3. CASE ~Pins(k)!Exit(p)
  <2>1. /\ Pins(k)!Accepts(ro_proc[p].build, kinds) /\ Pins(k)!Enters(p, next)
        /\ ro_registered' = Pins(k)!With(ro_registered, ro_proc[p].build, kinds)
        /\ UNCHANGED <<ro_configurations, ro_runs>>
    BY <1>3 DEF Pins!Register, Pins!Build
  <2>2. /\ Pins(k)!Same(ro_registered', ro_proc[p].build, kinds)
        /\ Grows /\ OneContext(k)'
    BY <2>1, WithIs, ContextsStayUnique DEF Pins!Accepts, PinIInv
  <2>3. PICK e \in [phase : Phases, build : k.builds \cup {Pins(k)!NoBuild}] :
             /\ ro_proc' = [ro_proc EXCEPT ![p] = e] /\ ro_proc'[p] = e
             /\ e.phase = next /\ e.build = ro_proc[p].build
    BY <1>1, <2>1, EntersIs
  <2>4. PassedBy(k, p)' /\ ExecutesFormer(k, p)'
    <3>1. ro_proc[p].build \in k.builds
      BY <1>1 DEF PinIInv, PassedBy
    <3> QED
      BY <1>1, <2>2, <2>3, <3>1 DEF PassedBy, ExecutesFormer, Agreed
  <2> QED
    BY <1>1, <2>1, <2>2, <2>3, <2>4, ProcMoves DEF PinIInv, PinTyped
<1> QED
  BY <1>2, <1>3

LEMMA ControlKeeps ==
    ASSUME NEW k, Pins(k)!RolloutAssumption, PinIInv(k), NEW p \in k.controls,
           \/ Pins(k)!RegisterPrompts(p) \/ Pins(k)!RegisterSkills(p) \/ Pins(k)!RegisterAgents(p)
           \/ Pins(k)!ControlReady(p) \/ Pins(k)!RegisterAgentConfiguration(p)
    PROVE  PinIInv(k)'
<1>1. p \in Pins(k)!Procs /\ p \notin k.workers
  BY DEF Pins!Procs, Pins!RolloutAssumption
<1>2. CASE Pins(k)!Exit(p)
  BY <1>1, <1>2, ExitKeeps
<1>3. k.prompts \cap k.contexts = {} /\ k.skills \cap k.contexts = {}
  BY DEF Pins!RolloutAssumption
<1>4. CASE Pins(k)!RegisterPrompts(p)
  BY <1>3, <1>4, RegisterKeeps DEF Pins!RegisterPrompts
<1>5. CASE Pins(k)!RegisterSkills(p)
  BY <1>3, <1>5, RegisterKeeps DEF Pins!RegisterSkills
<1>6. CASE Pins(k)!RegisterAgents(p) /\ ~Pins(k)!Exit(p)
  <2>1. Pins(k)!Loads(ro_proc[p].build) /\ Pins(k)!Register(p, "agents", Pins(k)!AgentKinds, "ready")
    BY <1>6 DEF Pins!RegisterAgents, Pins!Build
  <2> QED
    BY <2>1, RegisterKeeps
<1>7. CASE Pins(k)!ControlReady(p) /\ ~Pins(k)!Exit(p)
  <2>1. /\ ro_proc[p].phase = "ready" /\ Pins(k)!Ready(ro_proc[p].build) /\ Pins(k)!Enters(p, "configuration")
        /\ UNCHANGED <<ro_registered, ro_configurations, ro_runs>>
    BY <1>7 DEF Pins!ControlReady, Pins!Build, Pins!Is
  <2>2. ro_proc'[p].phase = "configuration" /\ ro_proc'[p].build = ro_proc[p].build /\ "configuration" \in Phases
    BY <1>1, <2>1, EntersIs DEF Phases
  <2>3. PassedBy(k, p)' /\ ExecutesFormer(k, p)'
    <3>1. PassedBy(k, p)
      BY <1>1 DEF PinIInv
    <3> QED
      BY <1>1, <2>1, <2>2, <3>1 DEF PassedBy, ExecutesFormer, Agreed, Pins!Ready
  <2> QED
    BY <1>1, <2>1, <2>2, <2>3, Proceeds DEF PinIInv, PinTyped
<1>8. CASE Pins(k)!RegisterAgentConfiguration(p) /\ ~Pins(k)!Exit(p)
  <2>1. /\ ro_proc[p].phase = "configuration" /\ Pins(k)!Enters(p, "serving")
        /\ UNCHANGED <<ro_registered, ro_runs>>
        /\ \/ ro_configurations' = ro_configurations
           \/ ro_configurations' = Append(ro_configurations, k.config[ro_proc[p].build])
    BY <1>8 DEF Pins!RegisterAgentConfiguration, Pins!Build, Pins!Is
  <2>2. ro_proc'[p].phase = "serving" /\ ro_proc'[p].build = ro_proc[p].build /\ "serving" \in Phases
    BY <1>1, <2>1, EntersIs DEF Phases
  <2>3. PassedBy(k, p)' /\ ExecutesFormer(k, p)'
    <3>1. PassedBy(k, p)
      BY <1>1 DEF PinIInv
    <3> QED
      BY <1>1, <2>1, <2>2, <3>1 DEF PassedBy, ExecutesFormer, Agreed
  <2>4. Len(ro_configurations') \in Nat /\ DOMAIN ro_configurations' = 1..Len(ro_configurations')
    BY <2>1 DEF PinIInv, PinTyped
  <2> QED
    BY <1>1, <2>1, <2>2, <2>3, <2>4, Proceeds
<1> QED
  BY <1>2, <1>4, <1>5, <1>6, <1>7, <1>8

-----------------------------------------------------------------------------
(* A worker starts. *)
LEMMA NewestIs ==
    ASSUME NEW k, NEW N \in Nat, NEW S \in SUBSET (1..N), S # {} PROVE Pins(k)!Newest(S) \in S
<1> DEFINE P == {n \in 0..N : (\E i \in S : i <= n) => \E i \in S : i <= n /\ \A j \in S : j <= n => j <= i}
<1>1. 0 \in P
  OBVIOUS
<1>2. ASSUME NEW n \in 1..N, n - 1 \in P PROVE n \in P
  <2>1. CASE n \in S
    <3>1. n <= n /\ \A j \in S : j <= n => j <= n
      OBVIOUS
    <3> QED
      BY <2>1, <3>1
  <2>2. CASE n \notin S
    <3>1. \A i \in S : i <= n <=> i <= n - 1
      BY <2>2
    <3> QED
      BY <1>2, <3>1
  <2> QED
    BY <2>1, <2>2
<1>3. 0..N \subseteq P
  <2> HIDE DEF P
  <2> QED
    BY <1>1, <1>2, Induction
<1>4. \E i \in S : \A j \in S : j <= i
  <2>1. N \in P /\ \A j \in S : j <= N
    BY <1>3
  <2> QED
    BY <2>1
<1> QED
  BY <1>4 DEF Pins!Newest

LEMMA WorkerKeeps ==
    ASSUME NEW k, Pins(k)!RolloutAssumption, PinIInv(k), NEW w \in k.workers,
           \/ Pins(k)!VerifyPrompts(w) \/ Pins(k)!VerifySkills(w) \/ Pins(k)!VerifyAgents(w)
           \/ Pins(k)!VerifyConfiguration(w) \/ Pins(k)!BindExecutors(w)
    PROVE  PinIInv(k)'
<1> DEFINE b == ro_proc[w].build
<1>1. w \in Pins(k)!Procs /\ PassedBy(k, w) /\ ExecutesFormer(k, w)
  BY DEF Pins!Procs, PinIInv
<1>2. CASE Pins(k)!Exit(w)
  BY <1>1, <1>2, ExitKeeps
<1>3. ASSUME NEW next \in Phases, Pins(k)!Enters(w, next), ro_proc[w].phase # "working",
             UNCHANGED <<ro_registered, ro_configurations, ro_runs>>,
             ro_proc'[w].phase = next /\ ro_proc'[w].build = b => PassedBy(k, w)' /\ ExecutesFormer(k, w)'
      PROVE  PinIInv(k)'
  <2>1. ro_proc'[w].phase = next /\ ro_proc'[w].build = b
    BY <1>1, <1>3, EntersIs
  <2> QED
    BY <1>1, <1>3, <2>1, Proceeds DEF PinIInv, PinTyped
<1>4. CASE Pins(k)!VerifyPrompts(w) /\ ~Pins(k)!Exit(w)
  <2>1. /\ ro_proc[w].phase = "prompts" /\ Pins(k)!Enters(w, "skills")
        /\ UNCHANGED <<ro_registered, ro_configurations, ro_runs>>
    BY <1>4 DEF Pins!VerifyPrompts, Pins!Looks, Pins!Is
  <2>2. ro_proc'[w].phase = "skills" /\ ro_proc'[w].build = b => PassedBy(k, w)' /\ ExecutesFormer(k, w)'
    BY <1>1, <2>1 DEF PassedBy, ExecutesFormer, Agreed
  <2> QED
    BY <1>3, <2>1, <2>2 DEF Phases
<1>5. CASE Pins(k)!VerifySkills(w) /\ ~Pins(k)!Exit(w)
  <2>1. /\ ro_proc[w].phase = "skills" /\ Pins(k)!Enters(w, "agents") /\ Pins(k)!Loads(b)
        /\ UNCHANGED <<ro_registered, ro_configurations, ro_runs>>
    BY <1>5 DEF Pins!VerifySkills, Pins!Looks, Pins!Is, Pins!Build
  <2>2. ro_proc'[w].phase = "agents" /\ ro_proc'[w].build = b => PassedBy(k, w)' /\ ExecutesFormer(k, w)'
    BY <1>1, <2>1 DEF PassedBy, ExecutesFormer, Agreed
  <2> QED
    BY <1>3, <2>1, <2>2 DEF Phases
<1>6. CASE Pins(k)!VerifyAgents(w) /\ ~Pins(k)!Exit(w)
  <2>1. /\ ro_proc[w].phase = "agents" /\ Pins(k)!Enters(w, "configuration") /\ Pins(k)!Ready(b)
        /\ UNCHANGED <<ro_registered, ro_configurations, ro_runs>>
    BY <1>6 DEF Pins!VerifyAgents, Pins!Looks, Pins!Is, Pins!Build
  <2>2. ro_proc'[w].phase = "configuration" /\ ro_proc'[w].build = b => PassedBy(k, w)' /\ ExecutesFormer(k, w)'
    BY <1>1, <2>1 DEF PassedBy, ExecutesFormer, Agreed, Pins!Ready
  <2> QED
    BY <1>3, <2>1, <2>2 DEF Phases
<1>7. CASE Pins(k)!VerifyConfiguration(w) /\ ~Pins(k)!Exit(w)
  <2>1. /\ ro_proc[w].phase = "configuration" /\ Pins(k)!Enters(w, "executors") /\ Pins(k)!Carries(k.config[b])
        /\ UNCHANGED <<ro_registered, ro_configurations, ro_runs>>
    BY <1>7 DEF Pins!VerifyConfiguration, Pins!Is, Pins!Build
  <2>2. ASSUME NEW r \in k.legacy, ro_runs[r].status \in Unfinished
        PROVE  k.config[b].executor = Pins(k)!Former.executor
    <3> DEFINE S == Pins(k)!Compatible(k.config[b])
    <3>1. S # {} /\ ro_configurations[Pins(k)!Newest(S)] = Pins(k)!Former
      BY <2>1, <2>2 DEF Pins!Carries, Unfinished
    <3>2. S \in SUBSET (1..Len(ro_configurations)) /\ Len(ro_configurations) \in Nat
      BY DEF Pins!Compatible, PinIInv, PinTyped
    <3>3. Pins(k)!Newest(S) \in S
      <4> HIDE DEF S
      <4> QED
        BY <3>1, <3>2, NewestIs
    <3>4. \A i \in S : ro_configurations[i].executor = k.config[b].executor
      BY DEF Pins!Compatible
    <3> QED
      BY <3>1, <3>3, <3>4
  <2>3. ro_proc'[w].phase = "executors" /\ ro_proc'[w].build = b => PassedBy(k, w)' /\ ExecutesFormer(k, w)'
    BY <1>1, <2>1, <2>2 DEF PassedBy, ExecutesFormer, Agreed
  <2> QED
    BY <1>3, <2>1, <2>3 DEF Phases
<1>8. CASE Pins(k)!BindExecutors(w) /\ ~Pins(k)!Exit(w)
  <2>1. /\ ro_proc[w].phase = "executors" /\ Pins(k)!Enters(w, "working") /\ Pins(k)!Binds(b)
        /\ UNCHANGED <<ro_registered, ro_configurations, ro_runs>>
    BY <1>8 DEF Pins!BindExecutors, Pins!Is, Pins!Build
  <2>2. ro_proc'[w].phase = "working" /\ ro_proc'[w].build = b => PassedBy(k, w)' /\ ExecutesFormer(k, w)'
    BY <1>1, <2>1 DEF PassedBy, ExecutesFormer, Agreed
  <2> QED
    BY <1>3, <2>1, <2>2 DEF Phases
<1> QED
  BY <1>2, <1>4, <1>5, <1>6, <1>7, <1>8

-----------------------------------------------------------------------------
(* Pins. *)
LEMMA ContextForIs ==
    ASSUME NEW k, NEW b, Pins(k)!Loads(b), NEW p \in Pins(k)!Of(b, k.policies)
    PROVE  /\ Pins(k)!ContextsOf(k.embeds[b], p) = {Pins(k)!ContextFor(b, p)}
           /\ Pins(k)!ContextFor(b, p) \in Pins(k)!Of(b, k.contexts)
           /\ k.embeds[b][Pins(k)!ContextFor(b, p)].policy = p
<1>1. \E x \in k.contexts : Pins(k)!ContextsOf(k.embeds[b], p) = {x}
  BY DEF Pins!Loads
<1>2. Pins(k)!ContextsOf(k.embeds[b], p) = {Pins(k)!ContextFor(b, p)}
  BY <1>1 DEF Pins!ContextFor
<1>3. Pins(k)!ContextFor(b, p) \in Pins(k)!ContextsOf(k.embeds[b], p)
  BY <1>2
<1> QED
  BY <1>2, <1>3 DEF Pins!ContextsOf, Pins!Of

LEMMA SameIs ==
    ASSUME NEW k, NEW b, Pins(k)!Same(ro_registered, b, Pins(k)!AgentKinds),
           NEW x \in Pins(k)!Of(b, k.definitions) \cup Pins(k)!Of(b, k.policies) \cup Pins(k)!Of(b, k.contexts)
    PROVE  x \in DOMAIN ro_registered /\ ro_registered[x] = k.embeds[b][x]
BY DEF Pins!Same, Pins!Verified, Pins!AgentKinds, Pins!Of

(* What is admitted by a process that agrees with what is registered.      *)
LEMMA AdmittedStands ==
    ASSUME NEW k, NEW b, Pins(k)!Same(ro_registered, b, Pins(k)!AgentKinds), Pins(k)!Loads(b),
           NEW ref \in Pins(k)!Of(b, k.definitions)
    PROVE  PinStands(k, Pins(k)!Pin(b, ref))
<1> DEFINE d == k.embeds[b][ref]
<1>1. d.policy \in Pins(k)!Of(b, k.policies)
  BY DEF Pins!Loads, Pins!DefinitionValid
<1>2. /\ Pins(k)!ContextFor(b, d.policy) \in Pins(k)!Of(b, k.contexts)
      /\ k.embeds[b][Pins(k)!ContextFor(b, d.policy)].policy = d.policy
  <2> HIDE DEF d
  <2> QED
    BY <1>1, ContextForIs
<1>3. /\ ref \in DOMAIN ro_registered \cap k.definitions /\ ro_registered[ref] = d
      /\ d.policy \in DOMAIN ro_registered \cap k.policies
      /\ ro_registered[d.policy] = k.embeds[b][d.policy]
      /\ Pins(k)!ContextFor(b, d.policy) \in DOMAIN ro_registered \cap k.contexts
      /\ ro_registered[Pins(k)!ContextFor(b, d.policy)].policy = d.policy
  BY <1>1, <1>2, SameIs DEF Pins!Of
<1>4. PICK pin : pin = Pins(k)!Pin(b, ref)
  OBVIOUS
<1>5. /\ pin.definition = ref /\ pin.body = d.body /\ pin.executor = d.executor
      /\ pin.policy = d.policy /\ pin.model = k.embeds[b][d.policy].body
      /\ pin.context = Pins(k)!ContextFor(b, d.policy)
  BY <1>4 DEF Pins!Pin
<1>6. PinStands(k, pin)
  <2> HIDE DEF d
  <2>1. ro_registered[ref].policy = d.policy /\ ro_registered[ref].body = d.body
        /\ ro_registered[ref].executor = d.executor
    BY <1>3
  <2> QED
    BY <1>3, <1>5, <2>1 DEF PinStands
<1> QED
  BY <1>4, <1>6

LEMMA AdmitsKeeps ==
    ASSUME NEW k, Pins(k)!RolloutAssumption, PinIInv(k), NEW p \in Pins(k)!Procs, ro_proc[p].phase \in Agreed,
           NEW r \in k.runs, NEW ref \in Pins(k)!Of(ro_proc[p].build, k.definitions),
           Pins(k)!Admits(r, ro_proc[p].build, ref)
    PROVE  PinIInv(k)'
<1> DEFINE b == ro_proc[p].build
<1>1. PICK e : e = Pins(k)!Admitted(b, ref)
  OBVIOUS
<1>2. /\ e.status = "queued" /\ e.pin = Pins(k)!Pin(b, ref) /\ e.lost = Pins(k)!NoBuild /\ Row(e)
  BY <1>1 DEF Pins!Admitted, Row
<1>3. PinStands(k, Pins(k)!Pin(b, ref))
  BY AdmittedStands DEF PinIInv, PassedBy
<1>4. r \notin k.legacy
  <2>1. ro_runs[r].status = "free" /\ RowStands(k, r, ro_runs[r])
    BY DEF Pins!Admits, Pins!Idle, PinIInv
  <2> QED
    BY <2>1 DEF RowStands
<1>5. RowStands(k, r, e)
  BY <1>2, <1>3, <1>4 DEF RowStands
<1>6. ro_runs' = [ro_runs EXCEPT ![r] = e] /\ UNCHANGED <<ro_registered, ro_configurations, ro_proc>>
  BY <1>1 DEF Pins!Admits
<1> QED
  BY <1>2, <1>4, <1>5, <1>6, RowChanges DEF Statuses

LEMMA CreateKeeps ==
    ASSUME NEW k, Pins(k)!RolloutAssumption, PinIInv(k), NEW p \in k.controls, NEW r \in k.runs,
           Pins(k)!CreateConfiguredChatQueued(p, r)
    PROVE  PinIInv(k)'
<1> DEFINE b == ro_proc[p].build
<1>1. p \in Pins(k)!Procs /\ ro_proc[p].phase = "serving"
  BY DEF Pins!Procs, Pins!CreateConfiguredChatQueued, Pins!Is
<1>2. PassedBy(k, p) /\ ro_proc[p].phase \in Agreed \ {"ready"} /\ ro_proc[p].phase # "down"
  BY <1>1 DEF PinIInv, Agreed
<1>3. PICK ref \in k.embeds[b][k.release[b]].roots : Pins(k)!Admits(r, b, ref)
  BY DEF Pins!CreateConfiguredChatQueued, Pins!Build
<1>4. k.release[b] \in Pins(k)!Of(b, k.releases)
  BY <1>2 DEF PassedBy, Pins!Of, Pins!RolloutAssumption
<1>5. ref \in Pins(k)!Of(b, k.definitions)
  BY <1>2, <1>3, <1>4 DEF PassedBy, Pins!Loads
<1> QED
  BY <1>1, <1>2, <1>3, <1>5, AdmitsKeeps

(* Of a Run at work, its worker. *)
LEMMA AtWork ==
    ASSUME NEW k, PinIInv(k), NEW w \in k.workers, ro_proc[w].phase = "working"
    PROVE  /\ w \in Pins(k)!Procs /\ ro_proc[w].phase \in Agreed
           /\ Pins(k)!Same(ro_registered, ro_proc[w].build, Pins(k)!AgentKinds)
           /\ Pins(k)!Loads(ro_proc[w].build) /\ Pins(k)!Binds(ro_proc[w].build)
           /\ ExecutesFormer(k, w)
BY DEF PinIInv, PassedBy, Agreed, Pins!Procs

LEMMA DelegatePins ==
    ASSUME NEW k, Pins(k)!RolloutAssumption, PinIInv(k), NEW w \in k.workers, NEW r \in k.runs, NEW child \in k.runs,
           Pins(k)!Delegate(w, r, child)
    PROVE  PinIInv(k)'
<1> DEFINE b == ro_proc[w].build
           def == ro_runs[r].pin.definition
<1>1. /\ RowStands(k, r, ro_runs[r]) /\ ro_runs[r].status = "running"
      /\ ro_runs[r].worker = w /\ r \notin k.legacy
  BY DEF Pins!Delegate, PinIInv
<1>2. /\ ro_proc[w].phase = "working" /\ def \in DOMAIN k.embeds[b] /\ def \in k.definitions
  BY <1>1 DEF RowStands, PinStands
<1>3. def \in Pins(k)!Of(b, k.definitions)
  BY <1>2 DEF Pins!Of
<1>4. ro_registered[def] = k.embeds[b][def] /\ Pins(k)!DefinitionValid(b, k.embeds[b][def])
  <2> HIDE DEF b, def
  <2>1. Pins(k)!Same(ro_registered, b, Pins(k)!AgentKinds) /\ Pins(k)!Loads(b)
    BY <1>2, AtWork DEF b
  <2> QED
    BY <1>3, <2>1, SameIs DEF Pins!Loads
<1>5. PICK ref \in ro_registered[def].children : Pins(k)!Admits(child, b, ref)
  BY DEF Pins!Delegate, Pins!Build
<1>6. ref \in Pins(k)!Of(b, k.definitions)
  BY <1>4, <1>5 DEF Pins!DefinitionValid
<1> QED
  BY <1>2, <1>5, <1>6, AtWork, AdmitsKeeps

(* A worker that has the definition of a Run executes it as it was pinned. *)
LEMMA PinResolves ==
    ASSUME NEW k, PinIInv(k), NEW w \in k.workers, ro_proc[w].phase = "working",
           NEW pin, PinStands(k, pin), pin.definition \in DOMAIN k.embeds[ro_proc[w].build]
    PROVE  /\ Pins(k)!Resolves(ro_proc[w].build, pin)
           /\ Pins(k)!ContextFor(ro_proc[w].build, pin.policy) = pin.context
<1> DEFINE b == ro_proc[w].build
           d == k.embeds[b][pin.definition]
<1>1. /\ Pins(k)!Same(ro_registered, b, Pins(k)!AgentKinds) /\ Pins(k)!Loads(b) /\ Pins(k)!Binds(b)
  BY AtWork
<1>2. pin.definition \in Pins(k)!Of(b, k.definitions)
  BY DEF PinStands, Pins!Of
<1>3. /\ Pins(k)!Supported(b, d) /\ d.policy \in Pins(k)!Of(b, k.policies)
      /\ ro_registered[pin.definition] = d
  <2> HIDE DEF b
  <2> QED
    BY <1>1, <1>2, SameIs DEF Pins!Binds, Pins!Loads, Pins!DefinitionValid
<1>4. d.body = pin.body /\ d.executor = pin.executor /\ d.policy = pin.policy
  <2> HIDE DEF d
  <2> QED
    BY <1>3 DEF PinStands
<1>5. k.embeds[b][pin.policy].body = pin.model
  <2> HIDE DEF b, d
  <2>1. ro_registered[pin.policy] = k.embeds[b][pin.policy]
    BY <1>1, <1>3, <1>4, SameIs
  <2> QED
    BY <2>1 DEF PinStands
<1>6. Pins(k)!Resolves(b, pin)
  <2>1. d.executor \in DOMAIN k.executors[b] /\ d.skills \subseteq DOMAIN k.embeds[b]
    BY <1>3 DEF Pins!Supported, Pins!Of
  <2> QED
    BY <1>4, <1>5, <2>1 DEF Pins!Resolves
<1>7. Pins(k)!ContextFor(b, pin.policy) = pin.context
  <2> HIDE DEF b, d
  <2> DEFINE x == Pins(k)!ContextFor(b, pin.policy)
  <2>1. x \in Pins(k)!Of(b, k.contexts) /\ k.embeds[b][x].policy = pin.policy
    BY <1>1, <1>3, <1>4, ContextForIs
  <2>2. x \in DOMAIN ro_registered \cap k.contexts /\ ro_registered[x].policy = pin.policy
    <3> HIDE DEF x
    <3>1. x \in DOMAIN ro_registered /\ ro_registered[x] = k.embeds[b][x]
      BY <1>1, <2>1, SameIs
    <3> QED
      BY <2>1, <3>1 DEF Pins!Of
  <2> QED
    BY <2>2 DEF PinIInv, OneContext, PinStands
<1> QED
  BY <1>6, <1>7

LEMMA ExecuteKeeps ==
    ASSUME NEW k, Pins(k)!RolloutAssumption, PinIInv(k), NEW w \in k.workers, NEW r \in k.runs,
           Pins(k)!ExecuteAttempt(w, r)
    PROVE  PinIInv(k)'
<1> DEFINE b == ro_proc[w].build
<1>1. /\ ro_proc[w].phase = "working" /\ ro_runs[r].status = "queued"
      /\ RowStands(k, r, ro_runs[r]) /\ Row(ro_runs[r])
      /\ UNCHANGED <<ro_registered, ro_configurations, ro_proc>>
  BY DEF Pins!ExecuteAttempt, Pins!Is, PinIInv, PinTyped
<1>2. CASE Pins(k)!Executes(b, r)
  <2>1. PICK e : e = [ro_runs[r] EXCEPT !.status = "running", !.worker = w]
    OBVIOUS
  <2>2. /\ Row(e) /\ e.status = "running" /\ e.worker = w
        /\ e.pin = ro_runs[r].pin /\ e.lost = ro_runs[r].lost
    BY <1>1, <2>1 DEF Row
  <2>3. r \notin k.legacy => e.pin.definition \in DOMAIN k.embeds[b]
    BY <1>2, <2>2 DEF Pins!Executes, Pins!Resolves
  <2>4. RowStands(k, r, e)
    BY <1>1, <2>2, <2>3 DEF RowStands
  <2>5. ro_runs' = [ro_runs EXCEPT ![r] = e]
    BY <1>2, <2>1 DEF Pins!ExecuteAttempt, Pins!Build
  <2> QED
    BY <1>1, <2>2, <2>4, <2>5, RowChanges DEF Statuses, Unfinished
<1>3. CASE ~Pins(k)!Executes(b, r)
  <2>1. PICK e : e = [ro_runs[r] EXCEPT !.status = "failed", !.lost = b]
    OBVIOUS
  <2>2. /\ Row(e) /\ e.status = "failed" /\ e.pin = ro_runs[r].pin /\ e.lost = b
    BY <1>1, <2>1 DEF Row
  <2>3. r \notin k.legacy
    <3>1. ExecutesFormer(k, w)
      BY <1>1, AtWork
    <3> QED
      BY <1>1, <1>3, <3>1 DEF ExecutesFormer, Pins!Executes, Unfinished
  <2>4. e.pin.definition \notin DOMAIN k.embeds[b]
    <3>1. PinStands(k, ro_runs[r].pin)
      BY <1>1, <2>3 DEF RowStands
    <3> QED
      BY <1>1, <1>3, <2>2, <2>3, <3>1, PinResolves DEF Pins!Executes
  <2>5. RowStands(k, r, e)
    BY <1>1, <2>2, <2>3, <2>4 DEF RowStands
  <2>6. ro_runs' = [ro_runs EXCEPT ![r] = e]
    BY <1>3, <2>1 DEF Pins!ExecuteAttempt, Pins!Build
  <2> QED
    BY <1>1, <2>2, <2>3, <2>5, <2>6, RowChanges DEF Statuses
<1> QED
  BY <1>2, <1>3

LEMMA FinishKeeps ==
    ASSUME NEW k, Pins(k)!RolloutAssumption, PinIInv(k), NEW w \in k.workers, NEW r \in k.runs,
           NEW s \in {"completed", "failed"}, Pins(k)!FinishAttempt(w, r, s)
    PROVE  PinIInv(k)'
<1>1. /\ ro_runs[r].status = "running" /\ RowStands(k, r, ro_runs[r]) /\ Row(ro_runs[r])
      /\ UNCHANGED <<ro_registered, ro_configurations, ro_proc>>
  BY DEF Pins!FinishAttempt, PinIInv, PinTyped
<1>2. PICK e : e = [ro_runs[r] EXCEPT !.status = s, !.worker = "none"]
  OBVIOUS
<1>3. /\ Row(e) /\ e.status = s /\ e.pin = ro_runs[r].pin /\ e.lost = ro_runs[r].lost
  BY <1>1, <1>2 DEF Row
<1>4. RowStands(k, r, e)
  BY <1>1, <1>3 DEF RowStands
<1>5. ro_runs' = [ro_runs EXCEPT ![r] = e]
  BY <1>2 DEF Pins!FinishAttempt, PinIInv, PinTyped
<1> QED
  BY <1>1, <1>3, <1>4, <1>5, RowChanges DEF Statuses, Unfinished

-----------------------------------------------------------------------------
(* Its steps keep it. *)
LEMMA PinStep ==
    ASSUME NEW k, Pins(k)!RolloutAssumption, PinIInv(k), Pins(k)!Next
    PROVE  PinIInv(k)'
<1>1. CASE \E p \in Pins(k)!Procs, b \in k.builds : Pins(k)!Start(p, b)
  BY <1>1, StartKeeps
<1>2. CASE \E p \in Pins(k)!Procs : Pins(k)!Crash(p)
  BY <1>2, ExitKeeps DEF Pins!Crash
<1>3. ASSUME NEW p \in k.controls,
             \/ Pins(k)!RegisterPrompts(p) \/ Pins(k)!RegisterSkills(p) \/ Pins(k)!RegisterAgents(p)
             \/ Pins(k)!ControlReady(p) \/ Pins(k)!RegisterAgentConfiguration(p)
      PROVE  PinIInv(k)'
  BY <1>3, ControlKeeps
<1>4. ASSUME NEW w \in k.workers,
             \/ Pins(k)!VerifyPrompts(w) \/ Pins(k)!VerifySkills(w) \/ Pins(k)!VerifyAgents(w)
             \/ Pins(k)!VerifyConfiguration(w) \/ Pins(k)!BindExecutors(w)
      PROVE  PinIInv(k)'
  BY <1>4, WorkerKeeps
<1>5. CASE \E p \in k.controls, r \in k.runs : Pins(k)!CreateConfiguredChatQueued(p, r)
  BY <1>5, CreateKeeps
<1>6. CASE \E p \in k.controls, r, again \in k.runs : Pins(k)!RetryConfiguredQueued(p, r, again)
  BY <1>6, CreateKeeps DEF Pins!RetryConfiguredQueued
<1>7. CASE \E w \in k.workers, r, child \in k.runs : Pins(k)!Delegate(w, r, child)
  BY <1>7, DelegatePins
<1>8. CASE \E w \in k.workers, r \in k.runs : Pins(k)!ExecuteAttempt(w, r)
  BY <1>8, ExecuteKeeps
<1>9. CASE \E w \in k.workers, r \in k.runs, s \in {"completed", "failed"} : Pins(k)!FinishAttempt(w, r, s)
  BY <1>9, FinishKeeps
<1> QED
  BY <1>1, <1>2, <1>3, <1>4, <1>5, <1>6, <1>7, <1>8, <1>9 DEF Pins!Next

LEMMA PinStutters ==
    ASSUME NEW k, PinIInv(k), UNCHANGED ro_vars
    PROVE  PinIInv(k)'
<1>1. PinTyped(k)' /\ OneContext(k)'
  BY DEF ro_vars, PinIInv, PinTyped, OneContext
<1>2. \A p \in Pins(k)!Procs : PassedBy(k, p)' /\ ExecutesFormer(k, p)'
  BY DEF ro_vars, PinIInv, PassedBy, ExecutesFormer
<1>3. \A r \in k.runs : RowStands(k, r, ro_runs[r])'
  BY DEF ro_vars, PinIInv, RowStands, PinStands
<1> QED
  BY <1>1, <1>2, <1>3 DEF PinIInv

(* And imply what is promised.                                             *)
LEMMA PinPromised ==
    ASSUME NEW k, Pins(k)!RolloutAssumption, PinIInv(k)
    PROVE  Pins(k)!PinsResolve
<1>1. ASSUME NEW r \in Pins(k)!Pinned, NEW w \in k.workers, Pins(k)!Is(w, "working"),
             ro_runs[r].pin.definition \in DOMAIN k.embeds[Pins(k)!Build(w)]
      PROVE  /\ Pins(k)!Resolves(Pins(k)!Build(w), ro_runs[r].pin)
             /\ Pins(k)!ContextFor(Pins(k)!Build(w), ro_runs[r].pin.policy) = ro_runs[r].pin.context
  <2>1. r \in k.runs /\ ro_runs[r].pin # Pins(k)!NoPin /\ RowStands(k, r, ro_runs[r])
    BY DEF Pins!Pinned, PinIInv
  <2>2. PinStands(k, ro_runs[r].pin)
    BY <2>1 DEF RowStands
  <2> QED
    BY <1>1, <2>2, PinResolves DEF Pins!Is, Pins!Build
<1>2. ASSUME NEW r \in k.runs, ro_runs[r].lost # Pins(k)!NoBuild
      PROVE  r \notin k.legacy /\ ro_runs[r].pin.definition \notin DOMAIN k.embeds[ro_runs[r].lost]
  BY <1>2 DEF PinIInv, RowStands
<1> QED
  BY <1>1, <1>2 DEF Pins!PinsResolve

-----------------------------------------------------------------------------
(* The suite. *)
IInv ==
    /\ scene = "waits" => Waits!IInv
    /\ scene = "full" => Full!IInv
    /\ scene = "delegation" => Hires!IInv
    /\ scene = "legacy" => Legacy!IInv
    /\ scene = "repeats" => ReadIInv(Repeating)
    /\ scene = "batches" => ReadIInv(Batching)
    /\ scene = "readers" => ReadIInv(Crashing)
    /\ scene = "rolling" => PinIInv(Rolling)
    /\ scene = "upgrade" => PinIInv(Upgrading)
    /\ scene = "mistakes" => PinIInv(Mistaken)

-----------------------------------------------------------------------------
(* A step is one of the component the scene names.                         *)
LEMMA SceneSteps ==
    ASSUME [Next]_vars
    PROVE  /\ scene' = scene
           /\ scene = "waits" => [Waits!Next]_(Waits!vars)
           /\ scene = "full" => [Full!Next]_(Full!vars)
           /\ scene = "delegation" => [Hires!Next]_(Hires!vars)
           /\ scene = "legacy" => [Legacy!Next]_(Legacy!vars)
           /\ scene = "repeats" => [Reads(Repeating)!Next]_rd_vars
           /\ scene = "batches" => [Reads(Batching)!Next]_rd_vars
           /\ scene = "readers" => [Reads(Crashing)!Next]_rd_vars
           /\ scene = "rolling" => [Pins(Rolling)!Next]_ro_vars
           /\ scene = "upgrade" => [Pins(Upgrading)!Next]_ro_vars
           /\ scene = "mistakes" => [Pins(Mistaken)!Next]_ro_vars
           /\ scene \notin {"waits", "full"} => UNCHANGED sa_vars
           /\ scene \notin {"delegation", "legacy"} => UNCHANGED dl_vars
<1>1. UNCHANGED sa_vars => UNCHANGED Waits!vars /\ UNCHANGED Full!vars
  BY DEF sa_vars, Waits!vars, Waits!rows, Waits!root, Waits!locks, Waits!txs,
         Full!vars, Full!rows, Full!root, Full!locks, Full!txs
<1>2. UNCHANGED dl_vars => UNCHANGED Hires!vars /\ UNCHANGED Legacy!vars
  BY DEF dl_vars, Hires!vars, Hires!rows, Hires!link, Hires!log,
         Legacy!vars, Legacy!rows, Legacy!link, Legacy!log
<1>3. CASE Next
  BY <1>3 DEF Next
<1>4. CASE UNCHANGED vars
  <2>1. UNCHANGED <<scene, sa_vars, dl_vars, rd_vars, ro_vars>>
    BY <1>4 DEF vars
  <2> QED
    BY <2>1, <1>1, <1>2
<1> QED
  BY <1>3, <1>4

LEMMA InitIInv == Init => IInv
<1> SUFFICES ASSUME Init PROVE IInv
  OBVIOUS
<1>1. scene = "waits" => Waits!IInv
  BY Waits!InitIInv, TreesAssumption DEF Init
<1>2. scene = "full" => Full!IInv
  BY Full!InitIInv, TreesAssumption DEF Init
<1>3. scene = "delegation" => Hires!IInv
  BY Hires!InitIInv, TreesAssumption DEF Init
<1>4. scene = "legacy" => Legacy!IInv
  BY Legacy!InitIInv, TreesAssumption DEF Init
<1>5. /\ scene = "repeats" => ReadIInv(Repeating)
      /\ scene = "batches" => ReadIInv(Batching)
      /\ scene = "readers" => ReadIInv(Crashing)
  BY ReadInit, TreesAssumption DEF Init
<1>6. /\ scene = "rolling" => PinIInv(Rolling)
      /\ scene = "upgrade" => PinIInv(Upgrading)
      /\ scene = "mistakes" => PinIInv(Mistaken)
  BY PinInit, TreesAssumption DEF Init
<1> QED
  BY <1>1, <1>2, <1>3, <1>4, <1>5, <1>6 DEF IInv

LEMMA NextIInv == IInv /\ [Next]_vars => IInv'
<1> SUFFICES ASSUME IInv, [Next]_vars PROVE IInv'
  OBVIOUS
<1>1. scene = "waits" => Waits!IInv'
  BY SceneSteps, Waits!NextIInv, TreesAssumption DEF IInv
<1>2. scene = "full" => Full!IInv'
  BY SceneSteps, Full!NextIInv, TreesAssumption DEF IInv
<1>3. scene = "delegation" => Hires!IInv'
  BY SceneSteps, Hires!NextIInv, TreesAssumption DEF IInv
<1>4. scene = "legacy" => Legacy!IInv'
  BY SceneSteps, Legacy!NextIInv, TreesAssumption DEF IInv
<1>5. ASSUME NEW k, k \in {Repeating, Batching, Crashing}, ReadIInv(k), [Reads(k)!Next]_rd_vars
      PROVE  ReadIInv(k)'
  BY <1>5, ReadStep, ReadStutters, TreesAssumption
<1>6. /\ scene = "repeats" => ReadIInv(Repeating)'
      /\ scene = "batches" => ReadIInv(Batching)'
      /\ scene = "readers" => ReadIInv(Crashing)'
  BY <1>5, SceneSteps DEF IInv
<1>7. ASSUME NEW k, k \in {Rolling, Upgrading, Mistaken}, PinIInv(k), [Pins(k)!Next]_ro_vars
      PROVE  PinIInv(k)'
  BY <1>7, PinStep, PinStutters, TreesAssumption
<1>8. /\ scene = "rolling" => PinIInv(Rolling)'
      /\ scene = "upgrade" => PinIInv(Upgrading)'
      /\ scene = "mistakes" => PinIInv(Mistaken)'
  BY <1>7, SceneSteps DEF IInv
<1> QED
  BY <1>1, <1>2, <1>3, <1>4, <1>6, <1>8, SceneSteps DEF IInv

-----------------------------------------------------------------------------
(* Every component keeps its inductive invariant in the scenes it acts in. *)
THEOREM Invariance == Spec => []IInv
  BY InitIInv, NextIInv, PTL DEF Spec

(* However many spawns, replayed spawns and dispatched readers a tree      *)
(* sees, its children stay within runtimeSubagentMaxActive and             *)
(* runtimeSubagentMaxTotal, and each belongs to one Action.                *)
THEOREM CapacityHolds == Spec => []WithinCapacity
<1>1. IInv => WithinCapacity
  BY Waits!Consequences, Full!Consequences, TreesAssumption DEF IInv, WithinCapacity
<1> QED
  BY <1>1, Invariance, PTL

(* Neither an ended root leaves a subagent at work nor an ended parent the *)
(* child it delegated to, over cancellations, expiries and lost leases.    *)
THEOREM NoChildIsOrphaned == Spec => []NoOrphans
<1>1. IInv => NoOrphans
  BY Waits!Consequences, Full!Consequences, Hires!Consequences, Legacy!Consequences,
     TreesAssumption DEF IInv, NoOrphans
<1> QED
  BY <1>1, Invariance, PTL

(* The wakeup of a wait is not lost, whichever of the two transactions is  *)
(* first; and a root resumes for the children of the wait it yields in, or *)
(* at its deadline.                                                        *)
THEOREM WakeupsAreKept == Spec => WakeupsHold
<1>1. IInv => (scene = "waits" => Waits!NoLostWakeup)
  BY Waits!Consequences, TreesAssumption DEF IInv
<1>2. IInv /\ [Next]_vars =>
        [(sa_parked /\ ~sa_parked') =>
            \/ sa_waits[sa_act.no].deadline <= sa_now
            \/ \E c \in sa_act.agents : sa_status[c] \in Waits!Terminal]_(Waits!vars)
  <2> SUFFICES ASSUME IInv, [Next]_vars, sa_parked, ~sa_parked'
               PROVE  \/ sa_waits[sa_act.no].deadline <= sa_now
                      \/ \E c \in sa_act.agents : sa_status[c] \in Waits!Terminal
    OBVIOUS
  <2>1. CASE scene = "waits"
    BY <2>1, SceneSteps, Waits!ResumesStep, TreesAssumption DEF IInv
  <2>2. CASE scene = "full"
    BY <2>2, SceneSteps, Full!ResumesStep, TreesAssumption DEF IInv, Waits!Terminal, Full!Terminal
  <2>3. CASE scene \notin {"waits", "full"}
    BY <2>3, SceneSteps DEF sa_vars
  <2> QED
    BY <2>1, <2>2, <2>3
<1> QED
  BY <1>1, <1>2, Invariance, PTL DEF Spec, WakeupsHold, Waits!ResumesForItsWait

(* A parent waits without a lease only for a child at work, sees how it    *)
(* ended, and consumes the delegation once, with its own end; and the end  *)
(* of either Run is final.                                                 *)
THEOREM DelegationIsHeld == Spec => DelegationHolds
<1>1. IInv => /\ scene = "delegation" =>
                   Hires!WaitsOnlyForActiveChild /\ Hires!DelegationTellsChild
              /\ scene = "legacy" => Legacy!DelegationTellsChild
  BY Hires!Consequences, Legacy!Consequences, TreesAssumption DEF IInv
<1>2. IInv /\ [Next]_vars =>
        [/\ dl_consumed => dl_consumed' /\ dl_delegation' = dl_delegation
         /\ (~dl_consumed /\ dl_consumed') =>
              /\ dl_delegation \in {"succeeded", "failed", "cancelled"}
              /\ dl_run["parent"] = "running" /\ dl_run'["parent"] \in {"completed", "failed"}
              /\ (dl_run'["parent"] = "completed") <=> (dl_delegation = "succeeded")]_(Hires!vars)
  <2>1. CASE scene = "delegation"
    BY <2>1, SceneSteps, Hires!ConsumedStep DEF IInv
  <2>2. CASE scene = "legacy"
    BY <2>2, SceneSteps, Legacy!ConsumedStep DEF IInv
  <2>3. CASE scene \notin {"delegation", "legacy"}
    BY <2>3, SceneSteps DEF dl_vars
  <2> QED
    BY <2>1, <2>2, <2>3
<1>3. IInv /\ [Next]_vars =>
        [\A r \in Hires!Runs : dl_run[r] \in Hires!Ended =>
              dl_run'[r] = dl_run[r] /\ dl_job'[r] = dl_job[r]]_(Hires!vars)
  <2>1. CASE scene = "delegation"
    BY <2>1, SceneSteps, Hires!EndsStep DEF IInv
  <2>2. CASE scene = "legacy"
    BY <2>2, SceneSteps, Legacy!EndsStep DEF IInv, Hires!Runs, Legacy!Runs, Hires!Ended, Legacy!Ended
  <2>3. CASE scene \notin {"delegation", "legacy"}
    BY <2>3, SceneSteps DEF dl_vars
  <2> QED
    BY <2>1, <2>2, <2>3
<1> QED
  BY <1>1, <1>2, <1>3, Invariance, PTL
  DEF Spec, DelegationHolds, Hires!ConsumedWithParent, Hires!EndsAreFinal

(* A document has one reader, whoever starts it and under whatever URL;    *)
(* and, while no Attempt dies, a page the root or a reader was shown is    *)
(* read in the ledger once that is written, whatever fails, is repeated or *)
(* recommended; a report links only to pages that were shown.              *)
THEOREM ReadsAreHeld == Spec => []ReadsHold
<1>1. IInv => ReadsHold
  BY ReadPromised, TreesAssumption DEF IInv, ReadsHold
<1> QED
  BY <1>1, Invariance, PTL

(* What a Run is pinned to means the same to every process at work: a      *)
(* worker whose build embeds the definition executes the Run as it was     *)
(* pinned and within the context policy it was pinned with, and ends it as *)
(* impossible only where its build lacks the definition, through           *)
(* deployments, crashes and catalogs that edit what is registered.         *)
THEOREM PinsAreResolved == Spec => []PinsResolve
<1>1. IInv => PinsResolve
  BY PinPromised, TreesAssumption DEF IInv, PinsResolve
<1> QED
  BY <1>1, Invariance, PTL
=============================================================================
