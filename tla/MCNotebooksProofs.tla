------------------------- MODULE MCNotebooksProofs --------------------------
(***************************************************************************)
(* What holds of a Notebook for any Users, offers and transfers, any       *)
(* messages, senders and limits of the mail outbox, any pages, keys and    *)
(* handlers of the imports of pages, any workers, keys and claims of a     *)
(* search, and any Sources a research Run imports.                         *)
(***************************************************************************)
EXTENDS MCNotebooks, FiniteSetTheorems, TLAPS

-----------------------------------------------------------------------------
(* MailOutbox. *)

MailRows == [state : Mails!MailStates, attempt : 0..MailAttempts, lapsed : BOOLEAN, token : BOOLEAN]
Deliveries == [pc : {"send", "complete", "release"}, msg : MailMessages, lease : Nat]

(* Senders that have the lease of an attempt, and have not handed the mail *)
(* to SMTP.                                                                *)
Sending(m) == {s \in MailSenders : mo_holds[s].pc = "send" /\ mo_holds[s].msg = m}

MailTyped ==
    /\ mo_row \in [MailMessages -> MailRows]
    /\ mo_holds \in [MailSenders -> Deliveries \cup {Mails!Idle}]
    /\ mo_mailed \in [MailMessages -> Nat]
    /\ mo_crashes \in 0..MailCrashes

(* Attempts that are left, or spent, by the state of a row.                *)
MailSpent ==
    \A m \in MailMessages :
        /\ mo_row[m].state = "pending" => mo_row[m].attempt < MailAttempts
        /\ mo_row[m].state = "failed" => mo_row[m].attempt = MailAttempts

(* Every attempt has sent its mail, or may still do so.                    *)
MailCounted ==
    \A m \in MailMessages :
        /\ IsFiniteSet(Sending(m))
        /\ mo_mailed[m] + Cardinality(Sending(m)) <= mo_row[m].attempt

(* A Sender completes what it sent, whoever has the lease by then.         *)
MailSent ==
    /\ \A s \in MailSenders : mo_holds[s].pc = "complete" => mo_mailed[mo_holds[s].msg] > 0
    /\ \A m \in MailMessages : mo_row[m].state = "sent" => mo_mailed[m] > 0

MailIInv == MailTyped /\ MailSpent /\ MailCounted /\ MailSent

(* A row goes back to pending, or has had its attempts.                    *)
LEMMA AgainRow ==
    ASSUME Mails!MailAssumption, NEW r \in MailRows
    PROVE  /\ Mails!Again(r) \in MailRows
           /\ Mails!Again(r).attempt = r.attempt
           /\ Mails!Again(r).state \in {"pending", "failed"}
           /\ Mails!Again(r).state = "pending" => r.attempt < MailAttempts
           /\ Mails!Again(r).state = "failed" => r.attempt = MailAttempts
<1>1. r.attempt \in 0..MailAttempts /\ MailAttempts \in Nat
  BY DEF MailRows, Mails!MailAssumption
<1>2. CASE r.attempt >= MailAttempts
  <2>1. Mails!Again(r) = [r EXCEPT !.state = "failed", !.lapsed = FALSE]
    BY <1>2 DEF Mails!Again
  <2>2. Mails!Again(r) = [state |-> "failed", attempt |-> r.attempt, lapsed |-> FALSE, token |-> r.token]
    BY <2>1 DEF MailRows
  <2> QED
    BY <1>1, <1>2, <2>2 DEF MailRows, Mails!MailStates
<1>3. CASE ~(r.attempt >= MailAttempts)
  <2>1. Mails!Again(r) = [r EXCEPT !.state = "pending", !.lapsed = FALSE]
    BY <1>3 DEF Mails!Again
  <2>2. Mails!Again(r) = [state |-> "pending", attempt |-> r.attempt, lapsed |-> FALSE, token |-> r.token]
    BY <2>1 DEF MailRows
  <2> QED
    BY <1>1, <1>3, <2>2 DEF MailRows, Mails!MailStates
<1> QED
  BY <1>2, <1>3

(* Leases that lapsed are given back: rows keep their attempts.            *)
LEMMA RecoveredRows ==
    ASSUME Mails!MailAssumption, MailTyped, MailSpent, NEW m \in MailMessages
    PROVE  /\ Mails!Recovered \in [MailMessages -> MailRows]
           /\ Mails!Recovered[m].attempt = mo_row[m].attempt
           /\ Mails!Recovered[m].state = "sent" => mo_row[m].state = "sent"
           /\ Mails!Recovered[m].state = "pending" => mo_row[m].attempt < MailAttempts
           /\ Mails!Recovered[m].state = "failed" => mo_row[m].attempt = MailAttempts
<1>1. ASSUME NEW n \in MailMessages
      PROVE  /\ Mails!Again(mo_row[n]) \in MailRows
             /\ Mails!Again(mo_row[n]).attempt = mo_row[n].attempt
             /\ Mails!Again(mo_row[n]).state \in {"pending", "failed"}
             /\ Mails!Again(mo_row[n]).state = "pending" => mo_row[n].attempt < MailAttempts
             /\ Mails!Again(mo_row[n]).state = "failed" => mo_row[n].attempt = MailAttempts
  BY AgainRow DEF MailTyped
<1> QED
  BY <1>1 DEF Mails!Recovered, MailTyped, MailSpent

(* A step that changes no count: nobody starts or ends sending.            *)
LEMMA CountKept ==
    ASSUME MailTyped, MailCounted, mo_mailed' = mo_mailed,
           \A m \in MailMessages : mo_row'[m].attempt = mo_row[m].attempt,
           \A m \in MailMessages : Sending(m)' \subseteq Sending(m)
    PROVE  MailCounted'
<1>1. SUFFICES ASSUME NEW m \in MailMessages
      PROVE  IsFiniteSet(Sending(m)') /\ mo_mailed[m] + Cardinality(Sending(m)') <= mo_row[m].attempt
  BY DEF MailCounted
<1>2. /\ IsFiniteSet(Sending(m)') /\ Cardinality(Sending(m)') <= Cardinality(Sending(m))
      /\ Cardinality(Sending(m)') \in Nat /\ Cardinality(Sending(m)) \in Nat
  BY FS_Subset, FS_CardinalityType DEF MailCounted
<1>3. mo_mailed[m] \in Nat /\ mo_row[m].attempt \in Nat
  BY DEF MailTyped, MailRows
<1> QED
  BY <1>2, <1>3 DEF MailCounted

LEMMA MailInit == Mails!MailAssumption /\ Mails!Init => MailIInv
<1> SUFFICES ASSUME Mails!MailAssumption, Mails!Init PROVE MailIInv
  OBVIOUS
<1>1. MailTyped /\ MailSpent /\ MailSent
  BY DEF Mails!Init, Mails!Idle, Mails!MailAssumption, MailTyped, MailSpent, MailSent, MailRows,
         Mails!MailStates
<1>2. ASSUME NEW m \in MailMessages PROVE Sending(m) = {}
  BY DEF Sending, Mails!Init, Mails!Idle
<1>3. \A m \in MailMessages : mo_mailed[m] = 0 /\ mo_row[m].attempt = 0
  BY DEF Mails!Init
<1>4. MailCounted
  <2>1. SUFFICES ASSUME NEW m \in MailMessages
        PROVE  IsFiniteSet(Sending(m)) /\ mo_mailed[m] + Cardinality(Sending(m)) <= mo_row[m].attempt
    BY DEF MailCounted
  <2>2. IsFiniteSet(Sending(m)) /\ Cardinality(Sending(m)) = 0
    BY <1>2, FS_EmptySet
  <2> QED
    BY <1>3, <2>2
<1> QED
  BY <1>1, <1>4 DEF MailIInv

(* A lease starts another attempt.                                         *)
LEMMA MailClaim ==
    ASSUME Mails!MailAssumption, MailIInv, NEW s \in MailSenders, NEW m \in MailMessages,
           Mails!Claim(s, m)
    PROVE  MailIInv'
<1>0. MailTyped /\ MailSpent /\ MailCounted /\ MailSent
  BY DEF MailIInv
<1>1. \A n \in MailMessages :
         /\ Mails!Recovered \in [MailMessages -> MailRows]
         /\ Mails!Recovered[n].attempt = mo_row[n].attempt
         /\ Mails!Recovered[n].state = "sent" => mo_row[n].state = "sent"
         /\ Mails!Recovered[n].state = "pending" => mo_row[n].attempt < MailAttempts
         /\ Mails!Recovered[n].state = "failed" => mo_row[n].attempt = MailAttempts
  BY <1>0, RecoveredRows
<1>2. /\ mo_holds[s] = Mails!Idle /\ Mails!Recovered[m].state = "pending"
      /\ mo_row' = [Mails!Recovered EXCEPT ![m].state = "leased", ![m].attempt = @ + 1]
      /\ mo_holds' = [mo_holds EXCEPT ![s] = [pc |-> "send", msg |-> m, lease |-> mo_row[m].attempt + 1]]
      /\ mo_mailed' = mo_mailed /\ mo_crashes' = mo_crashes
  BY DEF Mails!Claim
<1>3. mo_row[m].attempt \in Nat /\ mo_row[m].attempt < MailAttempts /\ MailAttempts \in Nat
  BY <1>0, <1>1, <1>2 DEF MailTyped, MailRows, Mails!MailAssumption
<1>4. MailTyped'
  <2>1. mo_row' \in [MailMessages -> MailRows]
    BY <1>1, <1>2, <1>3 DEF MailRows, Mails!MailStates
  <2>2. mo_holds' \in [MailSenders -> Deliveries \cup {Mails!Idle}]
    BY <1>0, <1>2, <1>3 DEF MailTyped, Deliveries
  <2> QED
    BY <2>1, <2>2, <1>0, <1>2 DEF MailTyped
<1>5. MailSpent'
  BY <1>0, <1>1, <1>2 DEF MailSpent, MailRows
<1>6. MailSent'
  BY <1>0, <1>1, <1>2 DEF MailSent, MailTyped, MailRows
<1>7. MailCounted'
  <2>1. SUFFICES ASSUME NEW n \in MailMessages
        PROVE  IsFiniteSet(Sending(n)') /\ mo_mailed[n] + Cardinality(Sending(n)') <= mo_row'[n].attempt
    BY <1>2 DEF MailCounted
  <2>2. /\ IsFiniteSet(Sending(n)) /\ Cardinality(Sending(n)) \in Nat
        /\ mo_mailed[n] + Cardinality(Sending(n)) <= mo_row[n].attempt
        /\ mo_mailed[n] \in Nat /\ mo_row[n].attempt \in Nat
    BY <1>0, FS_CardinalityType DEF MailCounted, MailTyped, MailRows
  <2>3. CASE n = m
    <3>1. Sending(n)' = Sending(n) \cup {s}
      BY <1>0, <1>2, <2>3 DEF Sending, MailTyped, Mails!Idle
    <3>2. s \notin Sending(n)
      BY <1>2 DEF Sending, Mails!Idle
    <3>3. IsFiniteSet(Sending(n)') /\ Cardinality(Sending(n)') = Cardinality(Sending(n)) + 1
      BY <2>2, <3>1, <3>2, FS_AddElement
    <3>4. mo_row'[n].attempt = mo_row[n].attempt + 1
      BY <1>1, <1>2, <2>3 DEF MailRows
    <3> QED
      BY <2>2, <3>3, <3>4
  <2>4. CASE n # m
    <3>1. Sending(n)' = Sending(n)
      BY <1>0, <1>2, <2>4 DEF Sending, MailTyped, Mails!Idle
    <3>2. mo_row'[n].attempt = mo_row[n].attempt
      BY <1>1, <1>2, <2>4
    <3> QED
      BY <2>2, <3>1, <3>2
  <2> QED
    BY <2>3, <2>4
<1> QED
  BY <1>4, <1>5, <1>6, <1>7 DEF MailIInv

(* The mail is handed to SMTP: one attempt less that has not sent.         *)
LEMMA MailSending ==
    ASSUME Mails!MailAssumption, MailIInv, NEW s \in MailSenders,
           Mails!Send(s) \/ Mails!SendFails(s)
    PROVE  MailIInv'
<1>0. MailTyped /\ MailSpent /\ MailCounted /\ MailSent
  BY DEF MailIInv
<1> DEFINE m == mo_holds[s].msg
<1>1. PICK pc \in {"complete", "release"}, sent \in {0, 1} :
         /\ mo_holds[s].pc = "send" /\ mo_holds' = [mo_holds EXCEPT ![s].pc = pc]
         /\ mo_mailed' = [mo_mailed EXCEPT ![m] = @ + sent]
         /\ pc = "complete" => sent = 1
         /\ mo_row' = mo_row /\ mo_crashes' = mo_crashes
  BY DEF Mails!Send, Mails!SendFails, Mails!Goto
<1>2. /\ mo_holds[s] \in Deliveries /\ m \in MailMessages /\ mo_mailed[m] \in Nat
      /\ mo_holds' = [mo_holds EXCEPT ![s] = [mo_holds[s] EXCEPT !.pc = pc]]
  BY <1>0, <1>1 DEF MailTyped, Mails!Idle, Deliveries
<1>3. MailTyped'
  <2>1. mo_holds' \in [MailSenders -> Deliveries \cup {Mails!Idle}]
    BY <1>0, <1>2 DEF MailTyped, Deliveries
  <2>2. mo_mailed' \in [MailMessages -> Nat]
    BY <1>0, <1>1, <1>2 DEF MailTyped
  <2> QED
    BY <2>1, <2>2, <1>0, <1>1 DEF MailTyped
<1>4. MailSpent'
  BY <1>0, <1>1 DEF MailSpent
<1>5. MailSent'
  <2>1. \A n \in MailMessages : mo_mailed[n] > 0 => mo_mailed'[n] > 0
    BY <1>0, <1>1, <1>2 DEF MailTyped
  <2>2. ASSUME NEW t \in MailSenders, mo_holds'[t].pc = "complete"
        PROVE  mo_mailed'[mo_holds'[t].msg] > 0
    <3>1. CASE t = s
      <4>1. pc = "complete" /\ mo_holds'[t].msg = m
        BY <1>0, <1>2, <2>2, <3>1 DEF MailTyped, Deliveries
      <4> QED
        BY <4>1, <1>0, <1>1, <1>2 DEF MailTyped
    <3>2. CASE t # s
      <4>1. mo_holds'[t] = mo_holds[t]
        BY <1>0, <1>2, <3>2 DEF MailTyped
      <4>2. mo_holds[t].msg \in MailMessages
        BY <1>0, <2>2, <4>1 DEF MailTyped, Mails!Idle, Deliveries
      <4> QED
        BY <1>0, <2>1, <2>2, <4>1, <4>2 DEF MailSent
    <3> QED
      BY <3>1, <3>2
  <2> QED
    BY <1>0, <1>1, <2>1, <2>2 DEF MailSent
<1>6. MailCounted'
  <2>1. SUFFICES ASSUME NEW n \in MailMessages
        PROVE  IsFiniteSet(Sending(n)') /\ mo_mailed'[n] + Cardinality(Sending(n)') <= mo_row[n].attempt
    BY <1>1 DEF MailCounted
  <2>2. /\ IsFiniteSet(Sending(n)) /\ Cardinality(Sending(n)) \in Nat
        /\ mo_mailed[n] + Cardinality(Sending(n)) <= mo_row[n].attempt
        /\ mo_mailed[n] \in Nat /\ mo_row[n].attempt \in Nat
    BY <1>0, FS_CardinalityType DEF MailCounted, MailTyped, MailRows
  <2>3. CASE n = m
    <3>1. s \in Sending(n) /\ Sending(n)' = Sending(n) \ {s}
      BY <1>0, <1>1, <1>2, <2>3 DEF Sending, MailTyped, Deliveries
    <3>2. IsFiniteSet(Sending(n)') /\ Cardinality(Sending(n)') = Cardinality(Sending(n)) - 1
      BY <2>2, <3>1, FS_RemoveElement
    <3>3. mo_mailed'[n] = mo_mailed[n] + sent
      BY <1>0, <1>1, <2>3 DEF MailTyped
    <3> QED
      BY <2>2, <3>2, <3>3
  <2>4. CASE n # m
    <3>1. Sending(n)' = Sending(n)
      BY <1>0, <1>1, <1>2, <2>4 DEF Sending, MailTyped, Deliveries
    <3>2. mo_mailed'[n] = mo_mailed[n]
      BY <1>0, <1>1, <2>4 DEF MailTyped
    <3> QED
      BY <2>2, <3>1, <3>2
  <2> QED
    BY <2>3, <2>4
<1> QED
  BY <1>3, <1>4, <1>5, <1>6 DEF MailIInv

(* A Delivery ends, with a verdict about the row or without.               *)
LEMMA MailEnds ==
    ASSUME Mails!MailAssumption, MailIInv, NEW s \in MailSenders,
           Mails!Complete(s) \/ Mails!Release(s) \/ Mails!Crash(s)
    PROVE  MailIInv'
<1>0. MailTyped /\ MailSpent /\ MailCounted /\ MailSent
  BY DEF MailIInv
<1> DEFINE m == mo_holds[s].msg
<1>1. /\ mo_holds' = [mo_holds EXCEPT ![s] = Mails!Idle] /\ mo_mailed' = mo_mailed
      /\ mo_crashes' \in 0..MailCrashes
  BY <1>0 DEF Mails!Complete, Mails!Release, Mails!Crash, MailTyped, Mails!MailAssumption
<1>2. /\ mo_row' \in [MailMessages -> MailRows]
      /\ \A n \in MailMessages :
            /\ mo_row'[n].attempt = mo_row[n].attempt
            /\ mo_row'[n].state = "pending" => mo_row[n].attempt < MailAttempts
            /\ mo_row'[n].state = "failed" => mo_row[n].attempt = MailAttempts
            /\ mo_row'[n].state = "sent" => mo_row[n].state = "sent" \/ mo_mailed[n] > 0
  <2>1. CASE mo_row' = mo_row
    BY <1>0, <2>1 DEF MailTyped, MailSpent
  <2>2. CASE Mails!Complete(s) /\ mo_row' # mo_row
    <3>1. /\ mo_row' = [mo_row EXCEPT ![m].state = "sent", ![m].token = FALSE]
          /\ mo_holds[s].pc = "complete"
      BY <2>2 DEF Mails!Complete
    <3>2. m \in MailMessages /\ mo_mailed[m] > 0
      BY <1>0, <3>1 DEF MailTyped, Mails!Idle, Deliveries, MailSent
    <3>3. mo_row' \in [MailMessages -> MailRows]
      BY <1>0, <3>1, <3>2 DEF MailTyped, MailRows, Mails!MailStates
    <3> QED
      BY <1>0, <3>1, <3>2, <3>3 DEF MailTyped, MailRows, MailSpent
  <2>3. CASE Mails!Release(s) /\ mo_row' # mo_row
    <3>1. mo_row' = [mo_row EXCEPT ![m] = Mails!Again(@)] /\ mo_holds[s].pc = "release"
      BY <2>3 DEF Mails!Release
    <3>2. m \in MailMessages
      BY <1>0, <3>1 DEF MailTyped, Mails!Idle, Deliveries
    <3>3. /\ Mails!Again(mo_row[m]) \in MailRows
          /\ Mails!Again(mo_row[m]).attempt = mo_row[m].attempt
          /\ Mails!Again(mo_row[m]).state \in {"pending", "failed"}
          /\ Mails!Again(mo_row[m]).state = "pending" => mo_row[m].attempt < MailAttempts
          /\ Mails!Again(mo_row[m]).state = "failed" => mo_row[m].attempt = MailAttempts
      BY <1>0, <3>2, AgainRow DEF MailTyped
    <3> QED
      BY <1>0, <3>1, <3>2, <3>3 DEF MailTyped, MailSpent
  <2> QED
    BY <2>1, <2>2, <2>3 DEF Mails!Complete, Mails!Release, Mails!Crash
<1>3. MailTyped'
  BY <1>0, <1>1, <1>2 DEF MailTyped
<1>4. MailSpent'
  BY <1>2 DEF MailSpent
<1>5. MailSent'
  BY <1>0, <1>1, <1>2 DEF MailSent, MailTyped, Mails!Idle
<1>6. MailCounted'
  <2>1. \A n \in MailMessages : Sending(n)' \subseteq Sending(n)
    BY <1>0, <1>1 DEF Sending, MailTyped, Mails!Idle
  <2> QED
    BY <1>0, <1>1, <1>2, <2>1, CountKept
<1> QED
  BY <1>3, <1>4, <1>5, <1>6 DEF MailIInv

(* A lease lapses, or is given back because it did.                        *)
LEMMA MailRests ==
    ASSUME Mails!MailAssumption, MailIInv,
           (\E s \in MailSenders : Mails!ClaimNone(s)) \/ \E m \in MailMessages : Mails!Lapse(m)
    PROVE  MailIInv'
<1>0. MailTyped /\ MailSpent /\ MailCounted /\ MailSent
  BY DEF MailIInv
<1>1. mo_holds' = mo_holds /\ mo_mailed' = mo_mailed /\ mo_crashes' = mo_crashes
  BY DEF Mails!ClaimNone, Mails!Lapse
<1>2. /\ mo_row' \in [MailMessages -> MailRows]
      /\ \A n \in MailMessages :
            /\ mo_row'[n].attempt = mo_row[n].attempt
            /\ mo_row'[n].state = "pending" => mo_row[n].attempt < MailAttempts
            /\ mo_row'[n].state = "failed" => mo_row[n].attempt = MailAttempts
            /\ mo_row'[n].state = "sent" => mo_row[n].state = "sent"
  <2>1. CASE mo_row' = Mails!Recovered
    <3>1. CASE MailMessages = {}
      BY <1>0, <2>1, <3>1 DEF Mails!Recovered
    <3>2. CASE MailMessages # {}
      BY <1>0, <2>1, <3>2, RecoveredRows
    <3> QED
      BY <3>1, <3>2
  <2>2. ASSUME NEW m \in MailMessages, mo_row' = [mo_row EXCEPT ![m].lapsed = TRUE]
        PROVE  /\ mo_row' \in [MailMessages -> MailRows]
               /\ \A n \in MailMessages :
                     /\ mo_row'[n].attempt = mo_row[n].attempt
                     /\ mo_row'[n].state = mo_row[n].state
    BY <1>0, <2>2 DEF MailTyped, MailRows, MailSpent
  <2> QED
    BY <1>0, <2>1, <2>2 DEF Mails!ClaimNone, Mails!Lapse, MailSpent
<1>3. MailTyped' /\ MailSpent' /\ MailSent'
  BY <1>0, <1>1, <1>2 DEF MailTyped, MailSpent, MailSent
<1>4. MailCounted'
  <2>1. \A n \in MailMessages : Sending(n)' \subseteq Sending(n)
    BY <1>1 DEF Sending
  <2> QED
    BY <1>0, <1>1, <1>2, <2>1, CountKept
<1> QED
  BY <1>3, <1>4 DEF MailIInv

LEMMA MailStep ==
    ASSUME Mails!MailAssumption, MailIInv, [Mails!Next]_(Mails!vars)
    PROVE  MailIInv'
<1>1. CASE UNCHANGED Mails!vars
  BY <1>1 DEF MailIInv, MailTyped, MailSpent, MailCounted, MailSent, Sending, Mails!vars
<1>2. CASE Mails!Next
  BY <1>2, MailClaim, MailSending, MailEnds, MailRests DEF Mails!Next, Mails!Claims, Mails!SendOnce
<1> QED
  BY <1>1, <1>2

LEMMA MailHolds ==
    ASSUME Mails!MailAssumption, MailIInv
    PROVE  Mails!TypeOK /\ Mails!VerdictIsTrue /\ Mails!MailsBounded
<1>1. Mails!TypeOK /\ Mails!VerdictIsTrue
  BY DEF MailIInv, MailTyped, MailSpent, MailSent, MailRows, Deliveries, Mails!MailAssumption,
         Mails!TypeOK, Mails!VerdictIsTrue
<1>2. ASSUME NEW m \in MailMessages PROVE mo_mailed[m] <= mo_row[m].attempt /\ mo_row[m].attempt <= MailAttempts
  BY FS_CardinalityType DEF MailIInv, MailTyped, MailCounted, MailRows, Mails!MailAssumption
<1> QED
  BY <1>1, <1>2 DEF Mails!MailsBounded

-----------------------------------------------------------------------------
(* SourceImports, with any number of transactions that end Sources at once *)
(* and with or without removals.                                           *)

RunStates == {"none", "queued", "running", "waiting", "reported", "failed"}
SourceStates == Imports!Terminal \cup {"none", "processing", "removed"}
Ends == [to : Imports!Terminal, wakes : SUBSET Imports!Runs, pins : SUBSET Imports!Runs]

ImportTyped ==
    /\ si_src \in [ImportedSources -> SourceStates]
    /\ si_end \in [ImportedSources -> Ends \cup {Imports!NoEnd}]
    /\ si_imports \subseteq Imports!ImportRows
    /\ si_imp # Imports!NoImport => si_imp.run \in Imports!Runs /\ si_imp.src \subseteq ImportedSources
    /\ si_run \in [Imports!Runs -> RunStates]
    /\ si_pins \in [Imports!Runs -> SUBSET ImportedSources]
    /\ \A r \in Imports!Runs : IsFiniteSet(si_pins[r]) /\ Cardinality(si_pins[r]) <= PinnedSources
    /\ si_due \in BOOLEAN
    /\ si_overlooked \subseteq Imports!Runs

(* A transaction that ends a Source holds its row.                         *)
ImportEnds ==
    \A s \in ImportedSources : si_end[s] # Imports!NoEnd => si_src[s] = "processing"

(* Root and child, while both live, get the same Sources.                  *)
ImportFamily ==
    Imports!Alive("root") /\ Imports!Alive("child") =>
        /\ si_pins["root"] = si_pins["child"]
        /\ \A s \in ImportedSources : si_end[s].pins \in {{}, Imports!Runs}

(* A Source at work, whose end nobody decides or will wake the Run.        *)
AtWorkFor(r, s) ==
    /\ si_src[s] \notin Imports!Terminal \cup {"removed"}
    /\ si_end[s] # Imports!NoEnd => r \in si_end[s].wakes

(* A Run that was not overlooked waits for such a Source.                  *)
ImportWaits ==
    \A r \in Imports!Runs : si_run[r] = "waiting" /\ ~si_due /\ r \notin si_overlooked =>
        \E s \in Imports!ScopeSources(r) : AtWorkFor(r, s)

ImportIInv == ImportTyped /\ ImportEnds /\ ImportFamily /\ ImportWaits

(* Rows that only tell more of the same imports.                           *)
SameImports(is, js) ==
    /\ js \subseteq Imports!ImportRows
    /\ \A j \in js : \E i \in is : i.run = j.run /\ i.src = j.src
    /\ \A i \in is : \E j \in js : i.run = j.run /\ i.src = j.src

(* The instance counts as this module does.                                *)
LEMMA Counting ==
    ASSUME NEW S
    PROVE  Imports!Cardinality(S) = Cardinality(S)
  BY DEF Imports!Cardinality, Cardinality

LEMMA SourcesInScope ==
    ASSUME ImportTyped, NEW r \in Imports!Runs
    PROVE  /\ Imports!ScopeSources(r) \subseteq ImportedSources
           /\ \A i \in si_imports : i.run = r \/ r = "root" => i.src \in Imports!ScopeSources(r)
           /\ \A s \in Imports!ScopeSources(r) :
                 \E i \in si_imports : i.src = s /\ (i.run = r \/ r = "root")
  BY DEF ImportTyped, Imports!ImportRows, Imports!ScopeSources, Imports!Scope

LEMMA ScopeKept ==
    ASSUME SameImports(si_imports, si_imports'), NEW r
    PROVE  Imports!ScopeSources(r)' = Imports!ScopeSources(r)
<1>1. ASSUME NEW s \in Imports!ScopeSources(r)' PROVE s \in Imports!ScopeSources(r)
  BY DEF SameImports, Imports!ScopeSources, Imports!Scope
<1>2. ASSUME NEW s \in Imports!ScopeSources(r) PROVE s \in Imports!ScopeSources(r)'
  BY DEF SameImports, Imports!ScopeSources, Imports!Scope
<1> QED
  BY <1>1, <1>2

LEMMA MarkedRows ==
    ASSUME NEW is \in SUBSET Imports!ImportRows, NEW s, NEW rs, NEW promoted
    PROVE  SameImports(is, Imports!Marked(is, s, rs, promoted))
<1> DEFINE M(i) == IF i.src = s /\ i.run \in rs
                   THEN [i EXCEPT !.error = Imports!Refuses(i.run, promoted)] ELSE i
<1>1. ASSUME NEW i \in is
      PROVE  M(i) \in Imports!ImportRows /\ M(i).run = i.run /\ M(i).src = i.src
  <2>1. Imports!Refuses(i.run, promoted) \in BOOLEAN
    BY DEF Imports!Refuses
  <2> QED
    BY <2>1 DEF Imports!ImportRows
<1>2. Imports!Marked(is, s, rs, promoted) = {M(i) : i \in is}
  BY Counting DEF Imports!Marked
<1> HIDE DEF M
<1> QED
  BY <1>1, <1>2 DEF SameImports

LEMMA ObservedRows ==
    ASSUME ImportTyped, NEW r
    PROVE  SameImports(si_imports, Imports!Observed(r))
<1> DEFINE M(i) == IF i \in Imports!Scope(r) THEN [i EXCEPT !.observed = TRUE] ELSE i
<1>1. ASSUME NEW i \in si_imports
      PROVE  M(i) \in Imports!ImportRows /\ M(i).run = i.run /\ M(i).src = i.src
  BY DEF Imports!ImportRows, ImportTyped
<1>2. Imports!Observed(r) = {M(i) : i \in si_imports}
  BY DEF Imports!Observed
<1> HIDE DEF M
<1> QED
  BY <1>1, <1>2 DEF SameImports

(* Attaching a Source keeps scopes within their limit, and those of root   *)
(* and child alike when both or neither get it.                            *)
LEMMA AttachedPins ==
    ASSUME Imports!SourceImportsAssumption, ImportTyped, NEW s \in ImportedSources, NEW rs, NEW promoted
    PROVE  /\ Imports!Attached(s, rs, promoted) \in [Imports!Runs -> SUBSET ImportedSources]
           /\ \A r \in Imports!Runs : /\ IsFiniteSet(Imports!Attached(s, rs, promoted)[r])
                                      /\ Cardinality(Imports!Attached(s, rs, promoted)[r]) <= PinnedSources
           /\ si_pins["root"] = si_pins["child"] /\ ("root" \in rs <=> "child" \in rs) =>
                 Imports!Attached(s, rs, promoted)["root"] = Imports!Attached(s, rs, promoted)["child"]
<1>1. ASSUME NEW r \in Imports!Runs, r \in rs, ~Imports!Refuses(r, promoted)
      PROVE  /\ IsFiniteSet(si_pins[r] \cup {s})
             /\ Cardinality(si_pins[r] \cup {s}) <= PinnedSources
  <2>1. IsFiniteSet(si_pins[r]) /\ Cardinality(si_pins[r]) \in Nat /\ PinnedSources \in Nat
    BY FS_CardinalityType DEF ImportTyped, Imports!SourceImportsAssumption
  <2>0. Cardinality(si_pins[r]) < PinnedSources
    BY <1>1, <2>1, Counting DEF Imports!Refuses
  <2>2. IsFiniteSet(si_pins[r] \cup {s}) /\ Cardinality(si_pins[r] \cup {s}) \in {Cardinality(si_pins[r]), Cardinality(si_pins[r]) + 1}
    BY <2>1, FS_AddElement
  <2> QED
    BY <2>0, <2>1, <2>2
<1>2. \A r \in Imports!Runs : si_pins[r] \cup {s} \in SUBSET ImportedSources
  BY DEF ImportTyped
<1>3. \A r \in Imports!Runs :
         Imports!Attached(s, rs, promoted)[r] = IF r \in rs /\ ~Imports!Refuses(r, promoted)
                                      THEN si_pins[r] \cup {s} ELSE si_pins[r]
  BY Counting DEF Imports!Attached
<1>4. "root" \in Imports!Runs /\ "child" \in Imports!Runs
  BY DEF Imports!Runs
<1>5. Imports!Attached(s, rs, promoted) \in [Imports!Runs -> SUBSET ImportedSources]
  <2>1. \A r \in Imports!Runs : Imports!Attached(s, rs, promoted)[r] \in SUBSET ImportedSources
    BY <1>2, <1>3 DEF ImportTyped
  <2>2. Imports!Attached(s, rs, promoted) = [r \in Imports!Runs |-> Imports!Attached(s, rs, promoted)[r]]
    BY DEF Imports!Attached
  <2> QED
    BY <2>1, <2>2
<1>6. ASSUME NEW r \in Imports!Runs
      PROVE  IsFiniteSet(Imports!Attached(s, rs, promoted)[r]) /\ Cardinality(Imports!Attached(s, rs, promoted)[r]) <= PinnedSources
  BY <1>1, <1>3 DEF ImportTyped
<1>7. ASSUME si_pins["root"] = si_pins["child"], "root" \in rs <=> "child" \in rs
      PROVE  Imports!Attached(s, rs, promoted)["root"] = Imports!Attached(s, rs, promoted)["child"]
  BY <1>3, <1>4, <1>7 DEF Imports!Refuses
<1> QED
  BY <1>5, <1>6, <1>7

LEMMA ScopeSame ==
    ASSUME si_imports' = si_imports, NEW r
    PROVE  Imports!ScopeSources(r)' = Imports!ScopeSources(r)
  BY DEF Imports!ScopeSources, Imports!Scope

(* A step that ends no Source, has nobody decide an end, lets nobody wait, *)
(* and takes nothing from a scope.                                         *)
LEMMA WaitsKept ==
    ASSUME ImportTyped, ImportWaits,
           \A r \in Imports!Runs : Imports!ScopeSources(r) \subseteq Imports!ScopeSources(r)',
           \A s \in ImportedSources : si_end'[s] \in {si_end[s], Imports!NoEnd},
           \A s \in ImportedSources : si_src[s] \notin Imports!Terminal \cup {"removed"} =>
              si_src'[s] \notin Imports!Terminal \cup {"removed"},
           \A r \in Imports!Runs : si_run'[r] = "waiting" => si_run[r] = "waiting",
           si_due => si_due', si_overlooked' = si_overlooked
    PROVE  ImportWaits'
<1>1. SUFFICES ASSUME NEW r \in Imports!Runs, si_run'[r] = "waiting", ~si_due', r \notin si_overlooked'
      PROVE  \E s \in Imports!ScopeSources(r)' : AtWorkFor(r, s)'
  BY DEF ImportWaits
<1>2. PICK s \in Imports!ScopeSources(r) : AtWorkFor(r, s)
  BY <1>1 DEF ImportWaits
<1>3. s \in ImportedSources /\ s \in Imports!ScopeSources(r)'
  BY <1>2, SourcesInScope
<1>4. AtWorkFor(r, s)'
  BY <1>2, <1>3 DEF AtWorkFor
<1> QED
  BY <1>3, <1>4

(* A step that attaches nothing and brings no Run to life.                 *)
LEMMA FamilyKept ==
    ASSUME ImportFamily, si_pins' = si_pins,
           \A r \in Imports!Runs : Imports!Alive(r)' => Imports!Alive(r),
           \A s \in ImportedSources : si_end'[s] = si_end[s] \/ si_end'[s] = Imports!NoEnd
    PROVE  ImportFamily'
<1>1. Imports!NoEnd.pins = {} /\ "root" \in Imports!Runs /\ "child" \in Imports!Runs
  BY DEF Imports!NoEnd, Imports!Runs
<1> QED
  BY <1>1 DEF ImportFamily

LEMMA ImportInit == Imports!SourceImportsAssumption /\ Imports!Init => ImportIInv
<1> SUFFICES ASSUME Imports!SourceImportsAssumption, Imports!Init PROVE ImportIInv
  OBVIOUS
<1>1. ImportTyped
  <2>1. \A r \in Imports!Runs : IsFiniteSet(si_pins[r]) /\ Cardinality(si_pins[r]) <= PinnedSources
    BY FS_EmptySet DEF Imports!Init, Imports!SourceImportsAssumption
  <2> QED
    BY <2>1 DEF Imports!Init, ImportTyped, SourceStates, RunStates, Imports!Terminal, Imports!ImportRows
<1>2. ImportEnds /\ ImportFamily /\ ImportWaits
  BY DEF Imports!Init, ImportEnds, ImportFamily, ImportWaits, Imports!Alive, Imports!Runs
<1> QED
  BY <1>1, <1>2 DEF ImportIInv

(* The states of Runs and the steps that only end a wait.                  *)
LEMMA ImportRuns ==
    ASSUME ImportIInv,
           \/ \E r \in Imports!Runs : Imports!Claim(r) \/ Imports!ExpireDeadlines(r)
           \/ Imports!Deadline
           \/ \E r \in Imports!Runs, s \in ImportedSources : Imports!ImportReads(r, s)
    PROVE  ImportIInv'
<1>0. ImportTyped /\ ImportEnds /\ ImportFamily /\ ImportWaits
  BY DEF ImportIInv
<1>1. /\ si_src' = si_src /\ si_end' = si_end /\ si_imports' = si_imports /\ si_pins' = si_pins
      /\ si_due => si_due'
      /\ si_due' \in BOOLEAN
      /\ si_overlooked' = si_overlooked
  BY <1>0 DEF Imports!Claim, Imports!ExpireDeadlines, Imports!Deadline, Imports!ImportReads, ImportTyped
<1>2. /\ si_run' \in [Imports!Runs -> RunStates]
      /\ \A r \in Imports!Runs : /\ si_run'[r] = "waiting" => si_run[r] = "waiting"
                                 /\ Imports!Alive(r)' => Imports!Alive(r)
  BY <1>0 DEF Imports!Claim, Imports!ExpireDeadlines, Imports!Deadline, Imports!ImportReads, ImportTyped,
              RunStates, Imports!Alive
<1>3. si_imp' # Imports!NoImport => si_imp'.run \in Imports!Runs /\ si_imp'.src \subseteq ImportedSources
  BY <1>0 DEF Imports!Claim, Imports!ExpireDeadlines, Imports!Deadline, Imports!ImportReads, ImportTyped
<1>4. ImportTyped' /\ ImportEnds'
  <2>1. ImportTyped'
    BY <1>0, <1>1, <1>2, <1>3 DEF ImportTyped
  <2>2. ImportEnds'
    BY <1>0, <1>1 DEF ImportEnds
  <2> QED
    BY <2>1, <2>2
<1>5. ImportFamily'
  BY <1>0, <1>1, <1>2, FamilyKept
<1>6. \A r \in Imports!Runs : Imports!ScopeSources(r)' = Imports!ScopeSources(r)
  BY <1>1, ScopeSame
<1>7. ImportWaits'
  BY <1>0, <1>1, <1>2, <1>6, WaitsKept
<1> QED
  BY <1>4, <1>5, <1>7 DEF ImportIInv

(* A child starts with the pins of its root, which no open transaction is  *)
(* about to change.                                                        *)
LEMMA ImportSpawn ==
    ASSUME ImportIInv, Imports!Spawn
    PROVE  ImportIInv'
<1>0. ImportTyped /\ ImportEnds /\ ImportFamily /\ ImportWaits
  BY DEF ImportIInv
<1>1. /\ si_run["root"] = "running" /\ si_run["child"] = "none"
      /\ \A s \in ImportedSources : si_end[s].pins = {}
      /\ si_run' = [si_run EXCEPT !["child"] = "running"]
      /\ si_pins' = [si_pins EXCEPT !["child"] = si_pins["root"]]
      /\ si_src' = si_src /\ si_end' = si_end /\ si_imports' = si_imports /\ si_imp' = si_imp
      /\ si_due' = si_due /\ si_overlooked' = si_overlooked
      /\ "root" \in Imports!Runs /\ "child" \in Imports!Runs
  BY DEF Imports!Spawn, Imports!Runs
<1>2. ImportTyped' /\ ImportEnds'
  BY <1>0, <1>1 DEF ImportTyped, ImportEnds, RunStates
<1>3. ImportFamily'
  BY <1>0, <1>1 DEF ImportFamily, ImportTyped
<1>4. \A r \in Imports!Runs : Imports!ScopeSources(r)' = Imports!ScopeSources(r)
  BY <1>1, ScopeSame
<1>5. \A r \in Imports!Runs : si_run'[r] = "waiting" => si_run[r] = "waiting"
  BY <1>0, <1>1 DEF ImportTyped
<1>6. ImportWaits'
  BY <1>0, <1>1, <1>4, <1>5, WaitsKept
<1> QED
  BY <1>2, <1>3, <1>6 DEF ImportIInv

(* An import adds its Source to a scope while nobody ends it.              *)
LEMMA ImportAdds ==
    ASSUME Imports!SourceImportsAssumption, ImportIInv, Imports!ImportCommits
    PROVE  ImportIInv'
<1>0. ImportTyped /\ ImportEnds /\ ImportFamily /\ ImportWaits
  BY DEF ImportIInv
<1> DEFINE live == {r \in Imports!Runs : Imports!Alive(r)}
           new(s) == si_imports \cup {[run |-> si_imp.run, src |-> s, observed |-> FALSE, error |-> FALSE]}
<1>1. PICK s \in si_imp.src :
         /\ si_end[s] = Imports!NoEnd
         /\ \/ UNCHANGED <<si_src, si_imports, si_pins>>
            \/ /\ si_src' = [si_src EXCEPT ![s] = IF @ = "none" THEN "processing" ELSE @]
               /\ \/ \E promoted \in BOOLEAN :
                        /\ si_pins' = Imports!Attached(s, live, promoted)
                        /\ si_imports' = Imports!Marked(new(s), s, live, promoted)
                  \/ si_imports' = new(s) /\ si_pins' = si_pins
  BY DEF Imports!ImportCommits
<1>2. /\ si_imp # Imports!NoImport /\ si_imp' = Imports!NoImport
      /\ si_end' = si_end /\ si_run' = si_run /\ si_due' = si_due
      /\ si_overlooked' = si_overlooked
  BY DEF Imports!ImportCommits
<1>3. s \in ImportedSources /\ si_imp.run \in Imports!Runs
  BY <1>0, <1>1, <1>2 DEF ImportTyped
<1>4. CASE UNCHANGED <<si_src, si_imports, si_pins>>
  <2>1. ImportTyped' /\ ImportEnds'
    BY <1>0, <1>2, <1>4 DEF ImportTyped, ImportEnds
  <2>2. ImportFamily'
    BY <1>0, <1>2, <1>4 DEF ImportFamily, Imports!Alive
  <2>3. \A r \in Imports!Runs : Imports!ScopeSources(r)' = Imports!ScopeSources(r)
    BY <1>4, ScopeSame
  <2>4. ImportWaits'
    BY <1>0, <1>2, <1>4, <2>3, WaitsKept
  <2> QED
    BY <2>1, <2>2, <2>4 DEF ImportIInv
<1>5. CASE /\ si_src' = [si_src EXCEPT ![s] = IF @ = "none" THEN "processing" ELSE @]
           /\ \/ \E promoted \in BOOLEAN :
                    /\ si_pins' = Imports!Attached(s, live, promoted)
                    /\ si_imports' = Imports!Marked(new(s), s, live, promoted)
              \/ si_imports' = new(s) /\ si_pins' = si_pins
  <2>1. new(s) \in SUBSET Imports!ImportRows
    <3>1. [run |-> si_imp.run, src |-> s, observed |-> FALSE, error |-> FALSE] \in Imports!ImportRows
      BY <1>3 DEF Imports!ImportRows
    <3> QED
      BY <1>0, <3>1 DEF ImportTyped
  <2>2. SameImports(new(s), si_imports')
    <3>1. \A promoted : SameImports(new(s), Imports!Marked(new(s), s, live, promoted))
      BY <2>1, MarkedRows
    <3>2. SameImports(new(s), new(s))
      BY <2>1 DEF SameImports
    <3> QED
      BY <1>5, <3>1, <3>2
  <2>3. \A r \in Imports!Runs :
           /\ Imports!ScopeSources(r) \subseteq Imports!ScopeSources(r)'
           /\ Imports!ScopeSources(r)' \subseteq Imports!ScopeSources(r) \cup {s}
    <3> HIDE DEF new, live
    <3>1. ASSUME NEW r \in Imports!Runs, NEW t \in Imports!ScopeSources(r)
          PROVE  t \in Imports!ScopeSources(r)'
      <4>1. PICK i \in si_imports : i.src = t /\ (i.run = r \/ r = "root")
        BY <3>1 DEF Imports!ScopeSources, Imports!Scope
      <4>2. PICK j \in si_imports' : j.run = i.run /\ j.src = i.src
        BY <2>2 DEF SameImports, new
      <4> QED
        BY <4>1, <4>2 DEF Imports!ScopeSources, Imports!Scope
    <3>2. ASSUME NEW r \in Imports!Runs, NEW t \in Imports!ScopeSources(r)', t # s
          PROVE  t \in Imports!ScopeSources(r)
      <4>1. PICK j \in si_imports' : j.src = t /\ (j.run = r \/ r = "root")
        BY <3>2 DEF Imports!ScopeSources, Imports!Scope
      <4>2. PICK i \in new(s) : j.run = i.run /\ j.src = i.src
        BY <2>2 DEF SameImports
      <4>3. i \in si_imports
        BY <3>2, <4>1, <4>2 DEF new
      <4> QED
        BY <4>1, <4>2, <4>3 DEF Imports!ScopeSources, Imports!Scope
    <3> QED
      BY <3>1, <3>2
  <2>4. \A t \in ImportedSources :
           /\ si_src[t] \notin Imports!Terminal \cup {"removed"} =>
                 si_src'[t] \notin Imports!Terminal \cup {"removed"}
           /\ si_src'[t] \in SourceStates
           /\ si_src[t] = "processing" => si_src'[t] = "processing"
    BY <1>0, <1>3, <1>5 DEF ImportTyped, SourceStates, Imports!Terminal
  <2>5. /\ si_pins' \in [Imports!Runs -> SUBSET ImportedSources]
        /\ \A r \in Imports!Runs : IsFiniteSet(si_pins'[r]) /\ Cardinality(si_pins'[r]) <= PinnedSources
    <3> HIDE DEF new, live
    <3> QED
      BY <1>0, <1>3, <1>5, AttachedPins DEF ImportTyped
  <2>6. ImportTyped'
    <3>1. si_src' \in [ImportedSources -> SourceStates]
      BY <1>0, <1>5, <2>4 DEF ImportTyped
    <3>2. si_imports' \subseteq Imports!ImportRows
      BY <2>2 DEF SameImports
    <3> QED
      BY <1>0, <1>2, <2>5, <3>1, <3>2 DEF ImportTyped
  <2>7. ImportEnds'
    BY <1>0, <1>2, <2>4 DEF ImportEnds
  <2>8. ImportFamily'
    <3>1. SUFFICES ASSUME Imports!Alive("root"), Imports!Alive("child")
          PROVE  si_pins'["root"] = si_pins'["child"]
      BY <1>0, <1>2 DEF ImportFamily, Imports!Alive
    <3>2. si_pins["root"] = si_pins["child"] /\ "root" \in live /\ "child" \in live
      BY <1>0, <3>1 DEF ImportFamily, Imports!Runs
    <3> HIDE DEF new, live
    <3> QED
      BY <1>0, <1>3, <1>5, <3>2, AttachedPins
  <2>9. ImportWaits'
    BY <1>0, <1>2, <2>3, <2>4, WaitsKept
  <2> QED
    BY <2>6, <2>7, <2>8, <2>9 DEF ImportIInv
<1> HIDE DEF new, live
<1> QED
  BY <1>1, <1>4, <1>5

(* It decides whom it wakes by what it reads: a Run whose other Sources    *)
(* have all ended is among them, and one that has another Source at work   *)
(* keeps waiting for that, unless it is being ended at the same time.      *)
LEMMA ImportEndReads ==
    ASSUME ImportIInv, NEW s \in ImportedSources, NEW to \in Imports!Terminal, Imports!EndReads(s, to)
    PROVE  ImportIInv'
<1>0. ImportTyped /\ ImportEnds /\ ImportFamily /\ ImportWaits
  BY DEF ImportIInv
<1> DEFINE live == {r \in Imports!Runs : Imports!Alive(r)}
           pinned == IF to = "ready" /\ Imports!Importers(s) # {} THEN live ELSE {}
<1>1. /\ si_src[s] = "processing" /\ si_end[s] = Imports!NoEnd
      /\ si_end' = [si_end EXCEPT ![s] = [to |-> to, wakes |-> Imports!Wakes(s), pins |-> pinned]]
      /\ si_src' = si_src /\ si_imports' = si_imports /\ si_imp' = si_imp /\ si_run' = si_run
      /\ si_pins' = si_pins /\ si_due' = si_due
      /\ si_overlooked' = si_overlooked \cup
            {r \in Imports!Waiting(s) : \E t \in Imports!ScopeSources(r) \ {s} : si_end[t] # Imports!NoEnd}
  BY <1>0 DEF Imports!EndReads
<1>2. Imports!Wakes(s) \subseteq Imports!Runs /\ pinned \subseteq Imports!Runs
  BY <1>0 DEF Imports!Wakes, Imports!Importers, ImportTyped, Imports!ImportRows, Imports!Runs
<1>3. ImportTyped'
  <2>1. si_end' \in [ImportedSources -> Ends \cup {Imports!NoEnd}]
    <3> HIDE DEF pinned
    <3> QED
      BY <1>0, <1>1, <1>2 DEF ImportTyped, Ends
  <2>2. si_overlooked' \subseteq Imports!Runs
    BY <1>0, <1>1 DEF ImportTyped, Imports!Waiting
  <2> QED
    BY <1>0, <1>1, <2>1, <2>2 DEF ImportTyped
<1>4. ImportEnds'
  BY <1>0, <1>1 DEF ImportEnds, ImportTyped
<1>5. ImportFamily'
  <2>1. Imports!Alive("root") /\ Imports!Alive("child") => pinned \in {{}, Imports!Runs}
    BY DEF Imports!Runs
  <2>2. Imports!Alive("root")' /\ Imports!Alive("child")' => Imports!Alive("root") /\ Imports!Alive("child")
    BY <1>1 DEF Imports!Alive
  <2> HIDE DEF pinned
  <2>3. \A t \in ImportedSources : si_end'[t] = si_end[t] \/ si_end'[t].pins = pinned
    BY <1>0, <1>1 DEF ImportTyped
  <2> QED
    BY <1>0, <1>1, <2>1, <2>2, <2>3 DEF ImportFamily
<1>6. ImportWaits'
  <2>1. SUFFICES ASSUME NEW r \in Imports!Runs, si_run[r] = "waiting", ~si_due, r \notin si_overlooked'
        PROVE  \E t \in Imports!ScopeSources(r)' : AtWorkFor(r, t)'
    BY <1>1 DEF ImportWaits
  <2>2. Imports!ScopeSources(r)' = Imports!ScopeSources(r) /\ Imports!ScopeSources(r) \subseteq ImportedSources
    BY <1>0, <1>1, ScopeSame, SourcesInScope
  <2>3. PICK t \in Imports!ScopeSources(r) : AtWorkFor(r, t)
    BY <1>0, <1>1, <2>1 DEF ImportWaits
  <2>4. CASE t # s
    BY <1>0, <1>1, <2>2, <2>3, <2>4 DEF ImportTyped, AtWorkFor
  <2>5. CASE t = s
    <3> HIDE DEF pinned
    <3>1. \A u \in Imports!ScopeSources(r) \ {s} : si_end[u] = Imports!NoEnd
      BY <1>1, <2>1, <2>3, <2>5 DEF Imports!Waiting
    <3>2. CASE \E u \in Imports!ScopeSources(r) \ {s} : si_src[u] \notin Imports!Terminal \cup {"removed"}
      <4>1. PICK u \in Imports!ScopeSources(r) \ {s} : si_src[u] \notin Imports!Terminal \cup {"removed"}
        BY <3>2
      <4>2. AtWorkFor(r, u)'
        BY <1>0, <1>1, <2>2, <3>1, <4>1 DEF ImportTyped, AtWorkFor
      <4> QED
        BY <2>2, <4>2
    <3>3. CASE \A u \in Imports!ScopeSources(r) \ {s} : si_src[u] \in Imports!Terminal \cup {"removed"}
      <4>1. PICK i \in si_imports : i.src = s /\ (i.run = r \/ r = "root")
        BY <1>0, <2>3, <2>5, SourcesInScope
      <4>2. i.run \in Imports!Importers(s)
        BY <4>1 DEF Imports!Importers
      <4>3. r \in Imports!Importers(s) \cup (IF Imports!Importers(s) = {} THEN {} ELSE {"root"})
        BY <4>1, <4>2
      <4>4. r \in Imports!Wakes(s)
        BY <2>1, <3>3, <4>3 DEF Imports!Wakes
      <4>5. si_end'[s].wakes = Imports!Wakes(s)
        BY <1>0, <1>1 DEF ImportTyped
      <4>6. AtWorkFor(r, s)'
        BY <1>1, <2>3, <2>5, <4>4, <4>5 DEF AtWorkFor
      <4> QED
        BY <2>2, <2>3, <2>5, <4>6
    <3> QED
      BY <3>2, <3>3
  <2> QED
    BY <2>4, <2>5
<1> QED
  BY <1>3, <1>4, <1>5, <1>6 DEF ImportIInv

(* The end of a Source leaves a waiting Run another one at work, or wakes  *)
(* it; root and child get the Source both or neither.                      *)
LEMMA ImportEndCommits ==
    ASSUME Imports!SourceImportsAssumption, ImportIInv, NEW s \in ImportedSources, Imports!EndCommits(s)
    PROVE  ImportIInv'
<1>0. ImportTyped /\ ImportEnds /\ ImportFamily /\ ImportWaits
  BY DEF ImportIInv
<1>1. PICK promoted \in BOOLEAN :
      /\ si_end[s] # Imports!NoEnd
      /\ si_src' = [si_src EXCEPT ![s] = si_end[s].to]
      /\ si_run' = [r \in Imports!Runs |-> IF r \in si_end[s].wakes /\ si_run[r] = "waiting"
                                           THEN "queued" ELSE si_run[r]]
      /\ si_pins' = Imports!Attached(s, si_end[s].pins, promoted)
      /\ si_imports' = Imports!Marked(si_imports, s, si_end[s].pins, promoted)
      /\ si_end' = [si_end EXCEPT ![s] = Imports!NoEnd]
      /\ si_imp' = si_imp /\ si_due' = si_due /\ si_overlooked' = si_overlooked \ si_end[s].wakes
  BY DEF Imports!EndCommits
<1>2. SameImports(si_imports, si_imports')
  BY <1>0, <1>1, MarkedRows DEF ImportTyped
<1>3. /\ \A t \in ImportedSources : si_end'[t] = IF t = s THEN Imports!NoEnd ELSE si_end[t]
      /\ si_end[s] \in Ends
  BY <1>0, <1>1 DEF ImportTyped
<1>4. ImportTyped'
  <2>1. si_src' \in [ImportedSources -> SourceStates]
    BY <1>0, <1>1, <1>3 DEF ImportTyped, Ends, SourceStates
  <2>2. si_end' \in [ImportedSources -> Ends \cup {Imports!NoEnd}]
    BY <1>0, <1>1 DEF ImportTyped
  <2>3. si_imports' \subseteq Imports!ImportRows
    BY <1>2 DEF SameImports
  <2>4. si_run' \in [Imports!Runs -> RunStates]
    BY <1>0, <1>1 DEF ImportTyped, RunStates
  <2>5. /\ si_pins' \in [Imports!Runs -> SUBSET ImportedSources]
        /\ \A r \in Imports!Runs : IsFiniteSet(si_pins'[r]) /\ Cardinality(si_pins'[r]) <= PinnedSources
    BY <1>0, <1>1, AttachedPins
  <2> QED
    BY <1>0, <1>1, <2>1, <2>2, <2>3, <2>4, <2>5 DEF ImportTyped
<1>5. ImportEnds'
  BY <1>0, <1>1, <1>3 DEF ImportEnds, ImportTyped
<1>6. ImportFamily'
  <2>1. Imports!Alive("root")' /\ Imports!Alive("child")' => Imports!Alive("root") /\ Imports!Alive("child")
    BY <1>1 DEF Imports!Alive, Imports!Runs
  <2>2. SUFFICES ASSUME Imports!Alive("root"), Imports!Alive("child")
        PROVE  /\ si_pins'["root"] = si_pins'["child"]
               /\ \A t \in ImportedSources : si_end'[t].pins \in {{}, Imports!Runs}
    BY <2>1 DEF ImportFamily
  <2>3. si_pins["root"] = si_pins["child"] /\ \A t \in ImportedSources : si_end[t].pins \in {{}, Imports!Runs}
    BY <1>0, <2>2 DEF ImportFamily
  <2>4. "root" \in si_end[s].pins <=> "child" \in si_end[s].pins
    BY <2>3 DEF Imports!Runs
  <2>5. si_pins'["root"] = si_pins'["child"]
    BY <1>0, <1>1, <2>3, <2>4, AttachedPins
  <2>6. \A t \in ImportedSources : si_end'[t].pins \in {{}, Imports!Runs}
    BY <1>3, <2>3 DEF Imports!NoEnd
  <2> QED
    BY <2>5, <2>6
<1>7. ImportWaits'
  <2>1. SUFFICES ASSUME NEW r \in Imports!Runs, si_run'[r] = "waiting", ~si_due, r \notin si_overlooked'
        PROVE  \E t \in Imports!ScopeSources(r)' : AtWorkFor(r, t)'
    BY <1>1 DEF ImportWaits
  <2>2. Imports!ScopeSources(r)' = Imports!ScopeSources(r) /\ Imports!ScopeSources(r) \subseteq ImportedSources
    BY <1>0, <1>2, ScopeKept, SourcesInScope
  <2>3. si_run[r] = "waiting" /\ r \notin si_end[s].wakes /\ r \notin si_overlooked
    BY <1>1, <2>1
  <2>4. PICK t \in Imports!ScopeSources(r) : AtWorkFor(r, t)
    BY <1>0, <2>1, <2>3 DEF ImportWaits
  <2>5. t # s
    BY <1>1, <2>3, <2>4 DEF AtWorkFor
  <2>6. si_src'[t] = si_src[t] /\ si_end'[t] = si_end[t]
    BY <1>0, <1>1, <1>3, <2>2, <2>4, <2>5 DEF ImportTyped
  <2>7. AtWorkFor(r, t)'
    BY <2>4, <2>6 DEF AtWorkFor
  <2> QED
    BY <2>2, <2>7
<1> QED
  BY <1>4, <1>5, <1>6, <1>7 DEF ImportIInv

(* A transaction that rolls back, and a Source that goes to work again.    *)
LEMMA ImportReopens ==
    ASSUME ImportIInv, NEW s \in ImportedSources, Imports!EndAborts(s) \/ Imports!Reopen(s)
    PROVE  ImportIInv'
<1>0. ImportTyped /\ ImportEnds /\ ImportFamily /\ ImportWaits
  BY DEF ImportIInv
<1>1. /\ \/ si_end' = [si_end EXCEPT ![s] = Imports!NoEnd] /\ si_src' = si_src
         \/ si_end' = si_end /\ si_src' = [si_src EXCEPT ![s] = "processing"]
      /\ si_imports' = si_imports /\ si_imp' = si_imp /\ si_run' = si_run /\ si_pins' = si_pins
      /\ si_due' = si_due /\ si_overlooked' = si_overlooked
  BY DEF Imports!EndAborts, Imports!Reopen
<1>2. /\ \A t \in ImportedSources : si_end'[t] \in {si_end[t], Imports!NoEnd}
      /\ si_end' \in [ImportedSources -> Ends \cup {Imports!NoEnd}]
  BY <1>0, <1>1 DEF ImportTyped
<1>3. /\ \A t \in ImportedSources : si_src'[t] \in {si_src[t], "processing"}
      /\ si_src' \in [ImportedSources -> SourceStates]
  BY <1>0, <1>1 DEF ImportTyped, SourceStates
<1>4. ImportTyped'
  BY <1>0, <1>1, <1>2, <1>3 DEF ImportTyped
<1>5. ImportEnds'
  BY <1>0, <1>2, <1>3 DEF ImportEnds
<1>6. ImportFamily'
  BY <1>0, <1>1, <1>2, FamilyKept DEF Imports!Alive
<1>7. ImportWaits'
  <2>1. \A r \in Imports!Runs : /\ Imports!ScopeSources(r)' = Imports!ScopeSources(r)
                                /\ Imports!ScopeSources(r) \subseteq ImportedSources
    BY <1>0, <1>1, ScopeSame, SourcesInScope
  <2>2. "processing" \notin Imports!Terminal \cup {"removed"}
    BY DEF Imports!Terminal
  <2> QED
    BY <1>0, <1>1, <1>2, <1>3, <2>1, <2>2, WaitsKept
<1> QED
  BY <1>4, <1>5, <1>6, <1>7 DEF ImportIInv

(* The barrier holds the rows of all its Sources: none of them is ending   *)
(* when the Run decides to wait.                                           *)
LEMMA ImportBarrier ==
    ASSUME ImportIInv, NEW r \in Imports!Runs, Imports!WaitIfPending(r)
    PROVE  ImportIInv'
<1>0. ImportTyped /\ ImportEnds /\ ImportFamily /\ ImportWaits
  BY DEF ImportIInv
<1>1. /\ si_run[r] = "running" /\ ~si_due
      /\ \A s \in Imports!ScopeSources(r) : si_end[s] = Imports!NoEnd
      /\ \/ si_imports' = Imports!Observed(r)
         \/ si_imports' = si_imports
      /\ \E to \in {"waiting", "queued", "reported"} : /\ si_run' = [si_run EXCEPT ![r] = to]
                                                       /\ to = "waiting" => Imports!Pending(r)
      /\ si_src' = si_src /\ si_end' = si_end /\ si_imp' = si_imp /\ si_pins' = si_pins /\ si_due' = si_due
      /\ si_overlooked' = si_overlooked \ {r}
  BY DEF Imports!WaitIfPending
<1>2. SameImports(si_imports, si_imports')
  <2>1. SameImports(si_imports, si_imports)
    BY <1>0 DEF SameImports, ImportTyped
  <2> QED
    BY <1>0, <1>1, <2>1, ObservedRows
<1>3. /\ si_run' \in [Imports!Runs -> RunStates]
      /\ si_run'[r] = "waiting" => Imports!Pending(r)
      /\ \A q \in Imports!Runs : q # r => si_run'[q] = si_run[q]
      /\ \A q \in Imports!Runs : Imports!Alive(q)' => Imports!Alive(q)
  BY <1>0, <1>1 DEF ImportTyped, RunStates, Imports!Alive
<1>4. ImportTyped' /\ ImportEnds'
  <2>1. ImportTyped'
    BY <1>0, <1>1, <1>2, <1>3 DEF ImportTyped, SameImports
  <2> QED
    BY <1>0, <1>1, <2>1 DEF ImportEnds
<1>5. ImportFamily'
  BY <1>0, <1>1, <1>3, FamilyKept
<1>6. ImportWaits'
  <2>1. SUFFICES ASSUME NEW q \in Imports!Runs, si_run'[q] = "waiting", q \notin si_overlooked'
        PROVE  \E s \in Imports!ScopeSources(q)' : AtWorkFor(q, s)'
    BY DEF ImportWaits
  <2>2. /\ Imports!ScopeSources(q)' = Imports!ScopeSources(q)
        /\ \A s : AtWorkFor(q, s)' <=> AtWorkFor(q, s)
    BY <1>1, <1>2, ScopeKept DEF AtWorkFor
  <2>3. CASE q = r
    BY <1>1, <1>3, <2>1, <2>2, <2>3 DEF Imports!Pending, AtWorkFor
  <2>4. CASE q # r
    BY <1>0, <1>1, <1>3, <2>1, <2>2, <2>4 DEF ImportWaits
  <2> QED
    BY <2>3, <2>4
<1> QED
  BY <1>4, <1>5, <1>6 DEF ImportIInv

(* A Run one of whose Sources is removed is overlooked; the others wait    *)
(* for the Sources they waited for.                                        *)
LEMMA ImportRemoves ==
    ASSUME ImportIInv, NEW s \in ImportedSources, Imports!Remove(s)
    PROVE  ImportIInv'
<1>0. ImportTyped /\ ImportEnds /\ ImportFamily /\ ImportWaits
  BY DEF ImportIInv
<1>1. /\ si_end[s] = Imports!NoEnd
      /\ si_src' = [si_src EXCEPT ![s] = "removed"]
      /\ si_overlooked' = si_overlooked \cup Imports!Waiting(s)
      /\ si_end' = si_end /\ si_imports' = si_imports /\ si_imp' = si_imp /\ si_run' = si_run
      /\ si_pins' = si_pins /\ si_due' = si_due
  BY DEF Imports!Remove
<1>2. ImportTyped'
  BY <1>0, <1>1 DEF ImportTyped, SourceStates, Imports!Waiting
<1>3. ImportEnds'
  BY <1>0, <1>1 DEF ImportEnds, ImportTyped
<1>4. ImportFamily'
  BY <1>0, <1>1, FamilyKept DEF Imports!Alive
<1>5. ImportWaits'
  <2>1. SUFFICES ASSUME NEW r \in Imports!Runs, si_run[r] = "waiting", ~si_due, r \notin si_overlooked'
        PROVE  \E t \in Imports!ScopeSources(r)' : AtWorkFor(r, t)'
    BY <1>1 DEF ImportWaits
  <2>2. Imports!ScopeSources(r)' = Imports!ScopeSources(r) /\ Imports!ScopeSources(r) \subseteq ImportedSources
    BY <1>0, <1>1, ScopeSame, SourcesInScope
  <2>3. PICK t \in Imports!ScopeSources(r) : AtWorkFor(r, t)
    BY <1>0, <1>1, <2>1 DEF ImportWaits
  <2>4. t # s
    BY <1>1, <2>1, <2>3 DEF Imports!Waiting
  <2>5. AtWorkFor(r, t)'
    BY <1>0, <1>1, <2>2, <2>3, <2>4 DEF ImportTyped, AtWorkFor
  <2> QED
    BY <2>2, <2>3, <2>5
<1> QED
  BY <1>2, <1>3, <1>4, <1>5 DEF ImportIInv

LEMMA ImportStep ==
    ASSUME Imports!SourceImportsAssumption, ImportIInv, [Imports!Next]_(Imports!vars)
    PROVE  ImportIInv'
<1>1. CASE UNCHANGED Imports!vars
  <2>1. /\ si_src' = si_src /\ si_end' = si_end /\ si_imports' = si_imports /\ si_imp' = si_imp
        /\ si_run' = si_run /\ si_pins' = si_pins /\ si_due' = si_due /\ si_overlooked' = si_overlooked
    BY <1>1 DEF Imports!vars
  <2> QED
    BY <2>1 DEF ImportIInv, ImportTyped, ImportEnds, ImportFamily, ImportWaits, AtWorkFor, Imports!Alive,
                Imports!ScopeSources, Imports!Scope
<1>2. CASE Imports!Next
  BY <1>2, ImportRuns, ImportSpawn, ImportAdds, ImportEndReads, ImportEndCommits, ImportReopens,
     ImportRemoves, ImportBarrier DEF Imports!Next, Imports!Ending
<1> QED
  BY <1>1, <1>2

LEMMA ImportHolds ==
    ASSUME ImportIInv
    PROVE  Imports!TypeOK /\ Imports!WaitsForItsSources /\ Imports!FamilyShares
<1>1. Imports!TypeOK
  BY Counting DEF ImportIInv, ImportTyped, ImportEnds, Imports!TypeOK, SourceStates, RunStates
<1>2. Imports!WaitsForItsSources /\ Imports!FamilyShares
  BY DEF ImportIInv, ImportWaits, ImportFamily, AtWorkFor, Imports!Pending, Imports!WaitsForItsSources,
         Imports!FamilyShares
<1> QED
  BY <1>1, <1>2

-----------------------------------------------------------------------------
(* UrlImports, for any idempotency keys, redirects and limit: the suite    *)
(* has two instances of it, and what follows is about both.                *)

Web(keys, final, limit, removals) == INSTANCE UrlImports WITH
    Pages <- WebPages, Requests <- keys, Final <- final, Handlers <- PageHandlers,
    Limit <- limit, Cuts <- TRUE, Removals <- removals, adm <- ui_adm,
    sources <- ui_sources, state <- ui_state, objects <- ui_objects,
    cand <- ui_cand, chat <- ui_chat, h <- ui_h

Admissions(keys) == (keys \cup {"direct"}) \X WebPages
AdmissionRows(ids) == [state : {"none", "pending", "completed", "failed"}, src : SUBSET ids]
CandidateRows(ids) ==
    [status : {"absent", "discovered", "importing", "imported", "deleted"}, selected : BOOLEAN,
     src : SUBSET ids]
WebSources(ids, final) == {[id |-> i, page |-> i[2], final |-> final[i[2]]] : i \in ids}
AtWork == {"admit", "lookup", "fetch", "finalize", "discard", "link", "drop"}
NotAtWork == [id |-> <<"none", "none">>, pc |-> "idle"]

PagesTyped(ids, final, limit) ==
    /\ ui_adm \in [ids -> AdmissionRows(ids)]
    /\ \A i \in ids : ui_adm[i].src = {} <=> ui_adm[i].state = "none"
    /\ ui_sources \subseteq WebSources(ids, final)
    /\ IsFiniteSet(ui_sources) /\ Cardinality(ui_sources) <= limit
    /\ ui_objects \subseteq ids /\ ui_chat \subseteq ids
    /\ ui_cand \in [WebPages -> CandidateRows(ids)]
    /\ ui_h \in [PageHandlers -> [id : ids, pc : AtWork] \cup {NotAtWork}]

Stored(i) == \E s \in ui_sources : s.id = i
Admitting(x) == ui_h[x].pc \in {"fetch", "finalize"}
ImportsFor(x, p) == ui_h[x].pc # "idle" /\ ui_h[x].id[1] # "direct" /\ ui_h[x].id[2] = p

(* An admission is carried out by one handler, and the object of one that  *)
(* is discarded is no Source's.                                            *)
PagesOwned(ids) ==
    /\ \A i \in ids : Stored(i) => ui_adm[i].state = "completed" /\ i \in ui_objects
    /\ \A x \in PageHandlers :
          /\ Admitting(x) => ui_adm[ui_h[x].id].state = "pending"
          /\ ui_h[x].pc = "finalize" => ui_h[x].id \in ui_objects
          /\ ui_h[x].pc = "discard" =>
                ui_adm[ui_h[x].id].state = "completed" /\ ~Stored(ui_h[x].id)
    /\ \A x, y \in PageHandlers :
          Admitting(x) /\ Admitting(y) /\ ui_h[x].id = ui_h[y].id => x = y

PagesUnique == \A s, t \in ui_sources : s.final = t.final => s = t

(* A candidate is being imported as long as a handler of its session is at *)
(* work on it, and has a Source only when it was imported.                 *)
PagesImporting ==
    /\ \A x \in PageHandlers, p \in WebPages : ImportsFor(x, p) => ui_cand[p].status = "importing"
    /\ \A x, y \in PageHandlers, p \in WebPages : ImportsFor(x, p) /\ ImportsFor(y, p) => x = y
    /\ \A x \in PageHandlers : ui_h[x].pc \in {"link", "drop"} => ui_h[x].id[1] # "direct"
    /\ \A p \in WebPages : ui_cand[p].src # {} => ui_cand[p].status = "imported"

PagesIInv(ids, final, limit) ==
    PagesTyped(ids, final, limit) /\ PagesOwned(ids) /\ PagesUnique /\ PagesImporting

LEMMA WebCounting ==
    ASSUME NEW CONSTANT keys, NEW CONSTANT final, NEW CONSTANT limit, NEW CONSTANT removals, NEW S
    PROVE  Web(keys, final, limit, removals)!Cardinality(S) = Cardinality(S)
  BY DEF Web!Cardinality, Cardinality

LEMMA PagesInit ==
    ASSUME NEW CONSTANT keys, NEW CONSTANT final, NEW CONSTANT limit, NEW CONSTANT removals,
           Web(keys, final, limit, removals)!UrlImportsAssumption,
           Web(keys, final, limit, removals)!Init
    PROVE  PagesIInv(Admissions(keys), final, limit)
<1> DEFINE ids == Admissions(keys)
<1>1. /\ ui_adm = [i \in ids |-> [state |-> "none", src |-> {}]]
      /\ ui_sources = {} /\ ui_objects = {} /\ ui_chat = {}
      /\ ui_h = [x \in PageHandlers |-> NotAtWork]
      /\ limit \in Nat
  BY DEF Web!Init, Web!Ids, Web!NoAdm, Web!Idle, Web!UrlImportsAssumption, Admissions, NotAtWork
<1>2. ui_cand = [p \in WebPages |-> [status |-> "absent", selected |-> TRUE, src |-> {}]]
  <2>1. ASSUME NEW d, d = [status |-> "discovered", selected |-> TRUE, src |-> {}],
               NEW new, new = [d EXCEPT !.status = "absent"]
        PROVE  new = [status |-> "absent", selected |-> TRUE, src |-> {}]
    BY <2>1
  <2> DEFINE d == Web(keys, final, limit, removals)!Discovered
             absent == [d EXCEPT !.status = "absent"]
  <2>2. ui_cand = [p \in WebPages |-> absent]
    BY DEF Web!Init
  <2>3. d = [status |-> "discovered", selected |-> TRUE, src |-> {}]
    BY DEF Web!Discovered
  <2> HIDE DEF d
  <2>4. absent = [status |-> "absent", selected |-> TRUE, src |-> {}]
    BY <2>1, <2>3
  <2> QED
    BY <2>2, <2>4
<1>3. PagesTyped(ids, final, limit)
  BY <1>1, <1>2, FS_EmptySet DEF PagesTyped, AdmissionRows, CandidateRows
<1>4. PagesOwned(ids) /\ PagesUnique /\ PagesImporting
  BY <1>1, <1>2 DEF PagesOwned, PagesUnique, PagesImporting, Stored, Admitting, ImportsFor, NotAtWork
<1> QED
  BY <1>3, <1>4 DEF PagesIInv

(* Handler x goes on with i, or ends. *)
Goes(ids, x, i, pc) ==
    /\ ui_h' \in [PageHandlers -> [id : ids, pc : AtWork] \cup {NotAtWork}]
    /\ ui_h'[x].pc = pc /\ (pc # "idle" => ui_h'[x].id = i)
    /\ \A y \in PageHandlers : y # x => ui_h'[y] = ui_h[y]

LEMMA HandlerGoes ==
    ASSUME NEW CONSTANT keys, NEW CONSTANT final, NEW CONSTANT limit, NEW CONSTANT removals,
           PagesTyped(Admissions(keys), final, limit), NEW x \in PageHandlers,
           NEW i \in Admissions(keys), NEW pc \in AtWork \cup {"idle"},
           ui_h' = [ui_h EXCEPT ![x] = Web(keys, final, limit, removals)!At(i, pc)]
    PROVE  Goes(Admissions(keys), x, i, pc)
<1>1. Web(keys, final, limit, removals)!At(i, pc) = IF pc = "idle" THEN NotAtWork ELSE [id |-> i, pc |-> pc]
  BY DEF Web!At, Web!Idle, NotAtWork
<1> QED
  BY <1>1 DEF Goes, PagesTyped, NotAtWork, AtWork

LEMMA HandlerIs ==
    ASSUME NEW CONSTANT keys, NEW CONSTANT final, NEW CONSTANT limit, NEW CONSTANT removals,
           PagesTyped(Admissions(keys), final, limit), NEW x \in PageHandlers,
           NEW i, NEW pc \in AtWork,
           ui_h[x] = Web(keys, final, limit, removals)!At(i, pc)
    PROVE  ui_h[x].id = i /\ ui_h[x].pc = pc /\ i \in Admissions(keys) /\ i[2] \in WebPages
<1>1. ui_h[x] = [id |-> i, pc |-> pc]
  BY DEF Web!At, AtWork
<1>2. i \in Admissions(keys)
  BY <1>1 DEF PagesTyped, NotAtWork, AtWork
<1> QED
  BY <1>1, <1>2 DEF Admissions

(* A handler that goes on and changes nothing else, or ends.               *)
LEMMA PagesMove ==
    ASSUME NEW CONSTANT ids, NEW CONSTANT final, NEW CONSTANT limit,
           PagesIInv(ids, final, limit), NEW x \in PageHandlers,
           NEW i \in ids, NEW pc \in {"idle", "admit", "lookup", "link", "drop"},
           IF ui_h[x].pc = "idle" THEN i[1] = "direct" \/ pc = "idle" ELSE ui_h[x].id = i,
           pc \in {"link", "drop"} => i[1] # "direct",
           Goes(ids, x, i, pc),
           ui_adm' = ui_adm, ui_sources' = ui_sources, ui_objects' = ui_objects,
           ui_cand' = ui_cand, ui_chat' = ui_chat
    PROVE  PagesIInv(ids, final, limit)'
<1>0. PagesTyped(ids, final, limit) /\ PagesOwned(ids) /\ PagesUnique /\ PagesImporting
  BY DEF PagesIInv
<1>1. PagesTyped(ids, final, limit)'
  BY <1>0 DEF PagesTyped, Goes
<1>2. PagesOwned(ids)'
  BY <1>0 DEF PagesOwned, Admitting, Stored, Goes
<1>3. PagesUnique'
  BY <1>0 DEF PagesUnique
<1>4. PagesImporting'
  <2>1. \A y \in PageHandlers, p \in WebPages : ImportsFor(y, p)' => ImportsFor(y, p)
    BY DEF ImportsFor, Goes
  <2> QED
    BY <1>0, <2>1 DEF PagesImporting, Goes
<1> QED
  BY <1>1, <1>2, <1>3, <1>4 DEF PagesIInv

(* An admission that gets another state, by the handler that carries it    *)
(* out or while none does.                                                 *)
LEMMA PagesDecide ==
    ASSUME NEW CONSTANT ids, NEW CONSTANT final, NEW CONSTANT limit,
           PagesIInv(ids, final, limit), NEW x \in PageHandlers,
           NEW i \in ids, NEW pc \in {"idle", "lookup", "fetch", "discard", "drop"},
           NEW row \in AdmissionRows(ids),
           row.src = {} <=> row.state = "none", ui_adm' = [ui_adm EXCEPT ![i] = row],
           ui_h[x].pc # "idle" /\ ui_h[x].id = i,
           ui_adm[i].state # "completed", ui_adm[i].state = "pending" => Admitting(x),
           pc = "fetch" => row.state = "pending", pc = "discard" => row.state = "completed",
           pc = "drop" => i[1] # "direct",
           Goes(ids, x, i, pc),
           ui_sources' = ui_sources, ui_objects' = ui_objects, ui_cand' = ui_cand, ui_chat' = ui_chat
    PROVE  PagesIInv(ids, final, limit)'
<1>0. PagesTyped(ids, final, limit) /\ PagesOwned(ids) /\ PagesUnique /\ PagesImporting
  BY DEF PagesIInv
<1>1. PagesTyped(ids, final, limit)'
  BY <1>0 DEF PagesTyped, Goes
<1>2. PagesOwned(ids)'
  <2>1. /\ ~Stored(i)
        /\ \A y \in PageHandlers : y # x /\ ui_h[y].pc \in {"fetch", "finalize", "discard"} => ui_h[y].id # i
    BY <1>0 DEF PagesOwned, Admitting
  <2>2. \A j \in ids : j # i => ui_adm'[j] = ui_adm[j]
    BY <1>0 DEF PagesTyped
  <2>3. ui_adm'[i] = row
    BY <1>0 DEF PagesTyped
  <2>4. \A y \in PageHandlers : ui_h[y].pc \in {"fetch", "finalize", "discard"} => ui_h[y].id \in ids
    BY <1>0 DEF PagesTyped, NotAtWork
  <2>5. \A j \in ids : Stored(j)' => ui_adm'[j].state = "completed" /\ j \in ui_objects'
    BY <1>0, <2>1, <2>2 DEF PagesOwned, Stored
  <2>6. ASSUME NEW y \in PageHandlers
        PROVE  /\ Admitting(y)' => ui_adm'[ui_h'[y].id].state = "pending"
               /\ ui_h'[y].pc = "finalize" => ui_h'[y].id \in ui_objects'
               /\ ui_h'[y].pc = "discard" =>
                     ui_adm'[ui_h'[y].id].state = "completed" /\ ~Stored(ui_h[y].id)'
    <3>1. CASE y = x
      BY <2>1, <2>3, <3>1 DEF Admitting, Stored, Goes
    <3>2. CASE y # x
      BY <1>0, <2>1, <2>2, <2>4, <3>2 DEF PagesOwned, Admitting, Stored, Goes
    <3> QED
      BY <3>1, <3>2
  <2>7. \A y, z \in PageHandlers : Admitting(y)' /\ Admitting(z)' /\ ui_h'[y].id = ui_h'[z].id => y = z
    BY <1>0, <2>1 DEF PagesOwned, Admitting, Goes
  <2> QED
    BY <2>5, <2>6, <2>7 DEF PagesOwned, Stored, Admitting
<1>3. PagesUnique'
  BY <1>0 DEF PagesUnique
<1>4. PagesImporting'
  <2>1. \A y \in PageHandlers, p \in WebPages : ImportsFor(y, p)' => ImportsFor(y, p)
    BY DEF ImportsFor, Goes
  <2> QED
    BY <1>0, <2>1 DEF PagesImporting, Goes
<1> QED
  BY <1>1, <1>2, <1>3, <1>4 DEF PagesIInv

(* The snapshot of a page is written, and deleted when the page has a      *)
(* Source.                                                                 *)
LEMMA PagesSnapshot ==
    ASSUME NEW CONSTANT ids, NEW CONSTANT final, NEW CONSTANT limit,
           PagesIInv(ids, final, limit), NEW x \in PageHandlers, NEW i \in ids,
           NEW pc \in {"idle", "finalize", "link"}, ui_h[x].id = i, Goes(ids, x, i, pc),
           IF pc = "finalize" THEN ui_h[x].pc = "fetch" /\ ui_objects' = ui_objects \cup {i}
           ELSE ui_h[x].pc = "discard" /\ ui_objects' = ui_objects \ {i},
           pc = "link" => i[1] # "direct",
           ui_adm' = ui_adm, ui_sources' = ui_sources, ui_cand' = ui_cand, ui_chat' = ui_chat
    PROVE  PagesIInv(ids, final, limit)'
<1>0. PagesTyped(ids, final, limit) /\ PagesOwned(ids) /\ PagesUnique /\ PagesImporting
  BY DEF PagesIInv
<1>1. PagesTyped(ids, final, limit)'
  BY <1>0 DEF PagesTyped, Goes
<1>2. PagesOwned(ids)'
  <2>1. /\ pc # "finalize" => ~Stored(i) /\ ui_adm[i].state = "completed"
        /\ pc = "finalize" => Admitting(x)
    BY <1>0 DEF PagesOwned, Admitting
  <2>2. \A j \in ids : Stored(j)' => ui_adm'[j].state = "completed" /\ j \in ui_objects'
    BY <1>0, <2>1 DEF PagesOwned, Stored
  <2>3. ASSUME NEW y \in PageHandlers
        PROVE  /\ Admitting(y)' => ui_adm'[ui_h'[y].id].state = "pending"
               /\ ui_h'[y].pc = "finalize" => ui_h'[y].id \in ui_objects'
               /\ ui_h'[y].pc = "discard" =>
                     ui_adm'[ui_h'[y].id].state = "completed" /\ ~Stored(ui_h[y].id)'
    <3>1. CASE y = x
      BY <1>0, <2>1, <3>1 DEF PagesOwned, Admitting, Stored, Goes
    <3>2. CASE y # x
      BY <1>0, <2>1, <3>2 DEF PagesOwned, Admitting, Stored, Goes
    <3> QED
      BY <3>1, <3>2
  <2>4. \A y, z \in PageHandlers : Admitting(y)' /\ Admitting(z)' /\ ui_h'[y].id = ui_h'[z].id => y = z
    BY <1>0, <2>1 DEF PagesOwned, Admitting, Goes
  <2> QED
    BY <2>2, <2>3, <2>4 DEF PagesOwned, Stored, Admitting
<1>3. PagesUnique'
  BY <1>0 DEF PagesUnique
<1>4. PagesImporting'
  <2>1. \A y \in PageHandlers, p \in WebPages : ImportsFor(y, p)' => ImportsFor(y, p)
    BY DEF ImportsFor, Goes
  <2> QED
    BY <1>0, <2>1 DEF PagesImporting, Goes
<1> QED
  BY <1>1, <1>2, <1>3, <1>4 DEF PagesIInv

(* A page gets its Source: no other Source is of it, or of where it leads. *)
LEMMA PagesCreate ==
    ASSUME NEW CONSTANT ids, NEW CONSTANT final, NEW CONSTANT limit, limit \in Nat,
           PagesIInv(ids, final, limit), NEW x \in PageHandlers, NEW i \in ids,
           NEW pc \in {"idle", "link"}, ui_h[x] = [id |-> i, pc |-> "finalize"], Goes(ids, x, i, pc),
           pc = "link" => i[1] # "direct",
           \A s \in ui_sources : s.final # final[i[2]], Cardinality(ui_sources) < limit,
           ui_sources' = ui_sources \cup {[id |-> i, page |-> i[2], final |-> final[i[2]]]},
           ui_adm' = [ui_adm EXCEPT ![i] = [state |-> "completed", src |-> {i}]],
           ui_objects' = ui_objects, ui_cand' = ui_cand, ui_chat' = ui_chat
    PROVE  PagesIInv(ids, final, limit)'
<1>0. PagesTyped(ids, final, limit) /\ PagesOwned(ids) /\ PagesUnique /\ PagesImporting
  BY DEF PagesIInv
<1> DEFINE new == [id |-> i, page |-> i[2], final |-> final[i[2]]]
<1>1. new.id = i /\ new.final = final[i[2]] /\ new \in WebSources(ids, final) /\ new \notin ui_sources
  BY DEF WebSources
<1>2. ui_sources' = ui_sources \cup {new}
  OBVIOUS
<1> HIDE DEF new
<1>3. PagesTyped(ids, final, limit)'
  <2>1. IsFiniteSet(ui_sources') /\ Cardinality(ui_sources') <= limit
    <3>1. IsFiniteSet(ui_sources) /\ Cardinality(ui_sources) \in Nat
      BY <1>0, FS_CardinalityType DEF PagesTyped
    <3>2. /\ IsFiniteSet(ui_sources \cup {new})
          /\ Cardinality(ui_sources \cup {new}) = Cardinality(ui_sources) + 1
      BY <1>1, <3>1, FS_AddElement
    <3>3. IsFiniteSet(ui_sources')
      BY <1>2, <3>2
    <3>4. Cardinality(ui_sources') = Cardinality(ui_sources) + 1
      BY <1>2, <3>2
    <3> QED
      BY <3>1, <3>3, <3>4
  <2>2. ui_adm' \in [ids -> AdmissionRows(ids)] /\ \A j \in ids : ui_adm'[j].src = {} <=> ui_adm'[j].state = "none"
    BY <1>0 DEF PagesTyped, AdmissionRows
  <2> QED
    BY <1>0, <1>1, <1>2, <2>1, <2>2 DEF PagesTyped, Goes
<1>4. PagesOwned(ids)'
  <2>1. /\ ui_adm[i].state = "pending" /\ i \in ui_objects
        /\ \A y \in PageHandlers : y # x /\ ui_h[y].pc \in {"fetch", "finalize", "discard"} => ui_h[y].id # i
    BY <1>0 DEF PagesOwned, Admitting
  <2>2. /\ \A j \in ids : j # i => ui_adm'[j] = ui_adm[j]
        /\ ui_adm'[i].state = "completed"
    BY <1>0 DEF PagesTyped
  <2>3. \A y \in PageHandlers : ui_h[y].pc \in {"fetch", "finalize", "discard"} => ui_h[y].id \in ids
    BY <1>0 DEF PagesTyped, NotAtWork
  <2>4. \A j \in ids : j # i /\ Stored(j)' => Stored(j)
    BY <1>1, <1>2 DEF Stored
  <2>5. \A j \in ids : Stored(j)' => ui_adm'[j].state = "completed" /\ j \in ui_objects'
    BY <1>0, <2>1, <2>2, <2>4 DEF PagesOwned
  <2>6. ASSUME NEW y \in PageHandlers
        PROVE  /\ Admitting(y)' => ui_adm'[ui_h'[y].id].state = "pending"
               /\ ui_h'[y].pc = "finalize" => ui_h'[y].id \in ui_objects'
               /\ ui_h'[y].pc = "discard" =>
                     ui_adm'[ui_h'[y].id].state = "completed" /\ ~Stored(ui_h[y].id)'
    <3>1. CASE y = x
      BY <3>1 DEF Admitting, Goes
    <3>2. CASE y # x
      BY <1>0, <2>1, <2>2, <2>3, <2>4, <3>2 DEF PagesOwned, Admitting, Goes
    <3> QED
      BY <3>1, <3>2
  <2>7. \A y, z \in PageHandlers : Admitting(y)' /\ Admitting(z)' /\ ui_h'[y].id = ui_h'[z].id => y = z
    BY <1>0 DEF PagesOwned, Admitting, Goes
  <2> QED
    BY <2>5, <2>6, <2>7 DEF PagesOwned, Stored, Admitting
<1>5. PagesUnique'
  BY <1>0, <1>1, <1>2 DEF PagesUnique
<1>6. PagesImporting'
  <2>1. \A y \in PageHandlers, p \in WebPages : ImportsFor(y, p)' => ImportsFor(y, p)
    BY DEF ImportsFor, Goes
  <2> QED
    BY <1>0, <2>1 DEF PagesImporting, Goes
<1> QED
  BY <1>3, <1>4, <1>5, <1>6 DEF PagesIInv

(* The candidate a handler begins to import, or has imported or dropped.   *)
LEMMA PagesCandidate ==
    ASSUME NEW CONSTANT ids, NEW CONSTANT final, NEW CONSTANT limit,
           PagesIInv(ids, final, limit), NEW x \in PageHandlers, NEW i \in ids, i[1] # "direct",
           NEW p \in WebPages, i[2] = p,
           NEW pc \in {"idle", "admit"}, Goes(ids, x, i, pc),
           IF pc = "admit" THEN ui_h[x].pc = "idle" /\ ui_cand[p].status = "discovered"
           ELSE ui_h[x].pc \in {"link", "drop"} /\ ui_h[x].id = i,
           NEW row \in CandidateRows(ids), row.src # {} => row.status = "imported",
           pc = "admit" => row.status = "importing",
           ui_cand' = [ui_cand EXCEPT ![p] = row],
           ui_adm' = ui_adm, ui_sources' = ui_sources, ui_objects' = ui_objects, ui_chat' = ui_chat
    PROVE  PagesIInv(ids, final, limit)'
<1>0. PagesTyped(ids, final, limit) /\ PagesOwned(ids) /\ PagesUnique /\ PagesImporting
  BY DEF PagesIInv
<1>1. PagesTyped(ids, final, limit)'
  BY <1>0 DEF PagesTyped, Goes
<1>2. PagesOwned(ids)'
  BY <1>0 DEF PagesOwned, Admitting, Stored, Goes
<1>3. PagesUnique'
  BY <1>0 DEF PagesUnique
<1>4. PagesImporting'
  <2>1. /\ ui_cand'[p] = row
        /\ \A q \in WebPages : q # p => ui_cand'[q] = ui_cand[q]
    BY <1>0 DEF PagesTyped
  <2>2. \A y \in PageHandlers : y # x => ~ImportsFor(y, p)
    <3>1. CASE pc = "admit"
      BY <1>0, <3>1 DEF PagesImporting
    <3>2. CASE pc = "idle"
      BY <1>0, <3>2 DEF PagesImporting, ImportsFor
    <3> QED
      BY <3>1, <3>2
  <2>3. \A y \in PageHandlers, q \in WebPages :
           ImportsFor(y, q)' => \/ y # x /\ q # p /\ ImportsFor(y, q)
                                \/ y = x /\ q = p /\ pc = "admit"
    BY <2>2 DEF ImportsFor, Goes
  <2>4. \A y \in PageHandlers, q \in WebPages : ImportsFor(y, q)' => ui_cand'[q].status = "importing"
    BY <1>0, <2>1, <2>3 DEF PagesImporting
  <2>5. \A y, z \in PageHandlers, q \in WebPages : ImportsFor(y, q)' /\ ImportsFor(z, q)' => y = z
    BY <1>0, <2>3 DEF PagesImporting
  <2>6. \A y \in PageHandlers : ui_h'[y].pc \in {"link", "drop"} => ui_h'[y].id[1] # "direct"
    BY <1>0 DEF PagesImporting, Goes
  <2>7. \A q \in WebPages : ui_cand'[q].src # {} => ui_cand'[q].status = "imported"
    BY <1>0, <2>1 DEF PagesImporting
  <2> QED
    BY <2>4, <2>5, <2>6, <2>7 DEF PagesImporting, ImportsFor
<1> QED
  BY <1>1, <1>2, <1>3, <1>4 DEF PagesIInv

(* What happens to candidates and Sources while the handlers stand still:  *)
(* no candidate that is being imported changes.                            *)
LEMMA PagesRest ==
    ASSUME NEW CONSTANT ids, NEW CONSTANT final, NEW CONSTANT limit, limit \in Nat,
           PagesIInv(ids, final, limit), ui_h' = ui_h, ui_adm' = ui_adm,
           \/ ui_sources' = ui_sources /\ ui_objects' = ui_objects
           \/ \E i \in ids : /\ Stored(i)
                             /\ ui_sources' = {s \in ui_sources : s.id # i}
                             /\ ui_objects' = ui_objects \ {i},
           ui_chat' \subseteq ids, ui_cand' \in [WebPages -> CandidateRows(ids)],
           \A p \in WebPages :
               /\ ui_cand[p].status = "importing" => ui_cand'[p].status = "importing"
               /\ ui_cand'[p].src # {} => ui_cand'[p].status = "imported"
    PROVE  PagesIInv(ids, final, limit)'
<1>0. PagesTyped(ids, final, limit) /\ PagesOwned(ids) /\ PagesUnique /\ PagesImporting
  BY DEF PagesIInv
<1>1. ui_sources' \subseteq ui_sources /\ ui_objects' \subseteq ui_objects
  OBVIOUS
<1>2. PagesTyped(ids, final, limit)'
  <2>1. IsFiniteSet(ui_sources') /\ Cardinality(ui_sources') <= Cardinality(ui_sources)
    BY <1>0, <1>1, FS_Subset DEF PagesTyped
  <2>2. Cardinality(ui_sources') \in Nat /\ Cardinality(ui_sources) \in Nat
    BY <1>0, <2>1, FS_CardinalityType DEF PagesTyped
  <2> QED
    BY <1>0, <1>1, <2>1, <2>2 DEF PagesTyped
<1>3. PagesOwned(ids)'
  <2>1. \A j \in ids : Stored(j)' => Stored(j) /\ j \in ui_objects'
    BY <1>0 DEF PagesOwned, Stored
  <2>2. \A y \in PageHandlers : ui_h[y].pc = "finalize" => ui_h[y].id \in ui_objects'
    BY <1>0 DEF PagesOwned, Admitting
  <2>3. \A y \in PageHandlers : ui_h[y].pc = "discard" => ~Stored(ui_h[y].id)'
    BY <1>0, <1>1 DEF PagesOwned, Stored
  <2> QED
    BY <1>0, <2>1, <2>2, <2>3 DEF PagesOwned, Admitting, Stored
<1>4. PagesUnique'
  BY <1>0, <1>1 DEF PagesUnique
<1>5. PagesImporting'
  BY <1>0 DEF PagesImporting, ImportsFor
<1> QED
  BY <1>2, <1>3, <1>4, <1>5 DEF PagesIInv

(* The steps of a handler. *)
LEMMA HandlerStarts ==
    ASSUME NEW CONSTANT keys, NEW CONSTANT final, NEW CONSTANT limit, NEW CONSTANT removals,
           PagesIInv(Admissions(keys), final, limit), NEW x \in PageHandlers,
           NEW i \in Admissions(keys),
           \/ Web(keys, final, limit, removals)!Start(x, i)
           \/ Web(keys, final, limit, removals)!BeginCandidateImport(x, i)
    PROVE  PagesIInv(Admissions(keys), final, limit)'
<1> DEFINE ids == Admissions(keys)
<1>0. PagesTyped(ids, final, limit)
  BY DEF PagesIInv
<1>1. /\ ui_h[x] = NotAtWork
      /\ ui_h' = [ui_h EXCEPT ![x] = Web(keys, final, limit, removals)!At(i, "admit")]
      /\ ui_adm' = ui_adm /\ ui_sources' = ui_sources /\ ui_objects' = ui_objects /\ ui_chat' = ui_chat
  BY DEF Web!Start, Web!BeginCandidateImport, Web!Idle, NotAtWork
<1>2. Goes(ids, x, i, "admit") /\ ui_h[x].pc = "idle"
  <2>1. Goes(ids, x, i, "admit")
    BY <1>0, <1>1, HandlerGoes DEF AtWork
  <2> QED
    BY <1>1, <2>1 DEF NotAtWork
<1>3. CASE Web(keys, final, limit, removals)!Start(x, i)
  <2>1. ui_cand' = ui_cand /\ i[1] = "direct"
    BY <1>3 DEF Web!Start, Web!Direct
  <2> QED
    BY <1>1, <1>2, <2>1, PagesMove
<1>4. CASE Web(keys, final, limit, removals)!BeginCandidateImport(x, i)
  <2> DEFINE p == i[2]
             row == [ui_cand[p] EXCEPT !.status = "importing"]
  <2>1. /\ i[1] # "direct" /\ ui_cand[p].status = "discovered"
        /\ ui_cand' = [ui_cand EXCEPT ![p] = row]
    BY <1>4 DEF Web!BeginCandidateImport, Web!Direct, Web!Page
  <2>2. p \in WebPages /\ ui_cand[p] \in CandidateRows(ids)
    BY <1>0 DEF Admissions, PagesTyped
  <2>3. ui_cand[p].src = {}
    BY <2>1, <2>2 DEF PagesIInv, PagesImporting
  <2>4. row \in CandidateRows(ids) /\ row.status = "importing" /\ row.src = {}
    BY <2>2, <2>3 DEF CandidateRows
  <2> HIDE DEF p, row
  <2> QED
    <3>1. i[2] = p
      BY DEF p
    <3> QED
      BY <1>1, <1>2, <2>1, <2>2, <2>4, <3>1, PagesCandidate
<1> QED
  BY <1>3, <1>4

LEMMA HandlerAdmits ==
    ASSUME NEW CONSTANT keys, NEW CONSTANT final, NEW CONSTANT limit, NEW CONSTANT removals,
           PagesIInv(Admissions(keys), final, limit), NEW x \in PageHandlers,
           NEW i \in Admissions(keys),
           Web(keys, final, limit, removals)!BeginURLAdmission(x, i)
    PROVE  PagesIInv(Admissions(keys), final, limit)'
<1> DEFINE ids == Admissions(keys)
<1>0. PagesTyped(ids, final, limit)
  BY DEF PagesIInv
<1>1. /\ ui_h[x] = Web(keys, final, limit, removals)!At(i, "admit")
      /\ ui_sources' = ui_sources /\ ui_objects' = ui_objects /\ ui_cand' = ui_cand /\ ui_chat' = ui_chat
  BY DEF Web!BeginURLAdmission
<1>2. ui_h[x].id = i /\ ui_h[x].pc = "admit"
  BY <1>0, <1>1, HandlerIs DEF AtWork
<1>3. ~Admitting(x)
  BY <1>2 DEF Admitting
<1>4. CASE Web(keys, final, limit, removals)!Admits(x, i) /\ ui_adm[i].state \in {"none", "failed"}
  <2>1. /\ Goes(ids, x, i, "fetch")
        /\ ui_adm' = [ui_adm EXCEPT ![i] = [state |-> "pending", src |-> {i}]]
    BY <1>0, <1>4, HandlerGoes DEF Web!Admits, AtWork
  <2>2. [state |-> "pending", src |-> {i}] \in AdmissionRows(ids)
    BY DEF AdmissionRows
  <2> QED
    BY <1>1, <1>2, <1>4, <2>1, <2>2, PagesDecide
<1>5. CASE Web(keys, final, limit, removals)!Reuses(x, i)
  <2> DEFINE found == Web(keys, final, limit, removals)!WithUrl(i[2])
             j == CHOOSE k \in found : TRUE
             row == [state |-> "completed", src |-> {j}]
  <2>1. /\ ui_adm[i].state = "none" /\ found # {} /\ Goes(ids, x, i, "lookup")
        /\ ui_adm' = [ui_adm EXCEPT ![i] = row]
    BY <1>0, <1>5, HandlerGoes DEF Web!Reuses, Web!Page, AtWork
  <2>2. found \subseteq ids
    BY <1>0 DEF Web!WithUrl, PagesTyped, WebSources
  <2>3. j \in ids
    BY <2>1, <2>2
  <2> HIDE DEF j
  <2>4. row \in AdmissionRows(ids) /\ row.src # {} /\ row.state = "completed"
    BY <2>3 DEF AdmissionRows
  <2> HIDE DEF row
  <2> QED
    BY <1>1, <1>2, <2>1, <2>4, PagesDecide
<1>6. CASE Web(keys, final, limit, removals)!Replays(x, i)
  <2>1. Goes(ids, x, i, "lookup") /\ ui_adm' = ui_adm
    BY <1>0, <1>6, HandlerGoes DEF Web!Replays, AtWork
  <2> QED
    BY <1>1, <1>2, <2>1, PagesMove
<1>7. CASE /\ ui_h' = [ui_h EXCEPT ![x] = Web(keys, final, limit, removals)!At(
                               i, Web(keys, final, limit, removals)!Dropped(i))]
           /\ ui_adm' = ui_adm
  <2> DEFINE pc == IF i[1] = "direct" THEN "idle" ELSE "drop"
  <2>1. Web(keys, final, limit, removals)!Dropped(i) = pc
    BY DEF Web!Dropped, Web!Direct
  <2>2. Goes(ids, x, i, pc)
    BY <1>0, <1>7, <2>1, HandlerGoes DEF AtWork
  <2> QED
    BY <1>1, <1>2, <1>7, <2>2, PagesMove
<1> QED
  BY <1>4, <1>5, <1>6, <1>7 DEF Web!BeginURLAdmission

LEMMA HandlerReads ==
    ASSUME NEW CONSTANT keys, NEW CONSTANT final, NEW CONSTANT limit, NEW CONSTANT removals,
           PagesIInv(Admissions(keys), final, limit), NEW x \in PageHandlers,
           NEW i \in Admissions(keys),
           \/ Web(keys, final, limit, removals)!Lookup(x, i)
           \/ Web(keys, final, limit, removals)!Fetch(x, i)
           \/ Web(keys, final, limit, removals)!Discard(x, i)
           \/ Web(keys, final, limit, removals)!FailURLAdmission(x, i)
    PROVE  PagesIInv(Admissions(keys), final, limit)'
<1> DEFINE ids == Admissions(keys)
           linked == IF i[1] = "direct" THEN "idle" ELSE "link"
           dropped == IF i[1] = "direct" THEN "idle" ELSE "drop"
<1>0. PagesTyped(ids, final, limit) /\ PagesOwned(ids)
  BY DEF PagesIInv
<1>1. /\ Web(keys, final, limit, removals)!Linked(i) = linked
      /\ Web(keys, final, limit, removals)!Dropped(i) = dropped
      /\ linked \in AtWork \cup {"idle"} /\ dropped \in AtWork \cup {"idle"}
  BY DEF Web!Linked, Web!Dropped, Web!Direct, AtWork
<1>2. CASE Web(keys, final, limit, removals)!Lookup(x, i)
  <2>1. PICK pc \in {linked, dropped} :
           /\ ui_h[x] = Web(keys, final, limit, removals)!At(i, "lookup")
           /\ ui_h' = [ui_h EXCEPT ![x] = Web(keys, final, limit, removals)!At(i, pc)]
           /\ ui_adm' = ui_adm /\ ui_sources' = ui_sources /\ ui_objects' = ui_objects
           /\ ui_cand' = ui_cand /\ ui_chat' = ui_chat
    BY <1>1, <1>2 DEF Web!Lookup
  <2>2. ui_h[x].id = i /\ ui_h[x].pc = "lookup" /\ Goes(ids, x, i, pc)
    <3>1. ui_h[x] = Web(keys, final, limit, removals)!At(i, "lookup")
      BY <2>1
    <3>2. ui_h[x].id = i /\ ui_h[x].pc = "lookup"
      BY <1>0, <3>1, HandlerIs DEF AtWork
    <3>3. Goes(ids, x, i, pc)
      BY <1>0, <1>1, <2>1, HandlerGoes DEF AtWork
    <3> QED
      BY <3>2, <3>3
  <2> QED
    BY <2>1, <2>2, PagesMove
<1>3. CASE Web(keys, final, limit, removals)!Fetch(x, i)
  <2>1. /\ ui_h[x] = Web(keys, final, limit, removals)!At(i, "fetch")
        /\ ui_h' = [ui_h EXCEPT ![x] = Web(keys, final, limit, removals)!At(i, "finalize")]
        /\ ui_adm' = ui_adm /\ ui_sources' = ui_sources /\ ui_objects' = ui_objects \cup {i}
        /\ ui_cand' = ui_cand /\ ui_chat' = ui_chat
    BY <1>3 DEF Web!Fetch
  <2>2. ui_h[x].id = i /\ ui_h[x].pc = "fetch" /\ Goes(ids, x, i, "finalize")
    <3>1. ui_h[x] = Web(keys, final, limit, removals)!At(i, "fetch")
      BY <2>1
    <3>2. ui_h[x].id = i /\ ui_h[x].pc = "fetch"
      BY <1>0, <3>1, HandlerIs DEF AtWork
    <3>3. Goes(ids, x, i, "finalize")
      BY <1>0, <2>1, HandlerGoes DEF AtWork
    <3> QED
      BY <3>2, <3>3
  <2> QED
    BY <2>1, <2>2, PagesSnapshot
<1>4. CASE Web(keys, final, limit, removals)!Discard(x, i)
  <2>1. /\ ui_h[x] = Web(keys, final, limit, removals)!At(i, "discard")
        /\ ui_h' = [ui_h EXCEPT ![x] = Web(keys, final, limit, removals)!At(i, linked)]
        /\ ui_adm' = ui_adm /\ ui_sources' = ui_sources /\ ui_objects' = ui_objects \ {i}
        /\ ui_cand' = ui_cand /\ ui_chat' = ui_chat
    BY <1>1, <1>4 DEF Web!Discard
  <2>2. ui_h[x].id = i /\ ui_h[x].pc = "discard" /\ Goes(ids, x, i, linked)
    <3>1. ui_h[x] = Web(keys, final, limit, removals)!At(i, "discard")
      BY <2>1
    <3>2. ui_h[x].id = i /\ ui_h[x].pc = "discard"
      BY <1>0, <3>1, HandlerIs DEF AtWork
    <3>3. Goes(ids, x, i, linked)
      BY <1>0, <1>1, <2>1, HandlerGoes DEF AtWork
    <3> QED
      BY <3>2, <3>3
  <2> QED
    BY <2>1, <2>2, PagesSnapshot
<1>5. CASE Web(keys, final, limit, removals)!FailURLAdmission(x, i)
  <2> DEFINE row == [ui_adm[i] EXCEPT !.state = "failed"]
  <2>1. /\ ui_h[x] = Web(keys, final, limit, removals)!At(i, "fetch")
        /\ ui_h' = [ui_h EXCEPT ![x] = Web(keys, final, limit, removals)!At(i, dropped)]
        /\ ui_adm' = [ui_adm EXCEPT ![i] = row]
        /\ ui_sources' = ui_sources /\ ui_objects' = ui_objects
        /\ ui_cand' = ui_cand /\ ui_chat' = ui_chat
    BY <1>1, <1>5 DEF Web!FailURLAdmission
  <2>2. ui_h[x].id = i /\ ui_h[x].pc = "fetch" /\ Goes(ids, x, i, dropped)
    <3>1. ui_h[x] = Web(keys, final, limit, removals)!At(i, "fetch")
      BY <2>1
    <3>2. ui_h[x].id = i /\ ui_h[x].pc = "fetch"
      BY <1>0, <3>1, HandlerIs DEF AtWork
    <3>3. Goes(ids, x, i, dropped)
      BY <1>0, <1>1, <2>1, HandlerGoes DEF AtWork
    <3> QED
      BY <3>2, <3>3
  <2>3. Admitting(x) /\ ui_adm[i].state = "pending"
    BY <1>0, <2>2 DEF PagesOwned, Admitting
  <2>4. row \in AdmissionRows(ids) /\ row.src # {} /\ row.state = "failed"
    <3>1. ui_adm[i] \in AdmissionRows(ids) /\ ui_adm[i].src # {}
      BY <1>0, <2>3 DEF PagesTyped
    <3> QED
      BY <3>1 DEF AdmissionRows
  <2> HIDE DEF row
  <2> QED
    BY <2>1, <2>2, <2>3, <2>4, PagesDecide
<1> QED
  BY <1>2, <1>3, <1>4, <1>5

LEMMA HandlerFinalizes ==
    ASSUME NEW CONSTANT keys, NEW CONSTANT final, NEW CONSTANT limit, NEW CONSTANT removals,
           Web(keys, final, limit, removals)!UrlImportsAssumption,
           PagesIInv(Admissions(keys), final, limit), NEW x \in PageHandlers,
           NEW i \in Admissions(keys),
           Web(keys, final, limit, removals)!FinalizeURLAdmission(x, i)
    PROVE  PagesIInv(Admissions(keys), final, limit)'
<1> DEFINE ids == Admissions(keys)
           linked == IF i[1] = "direct" THEN "idle" ELSE "link"
           dropped == IF i[1] = "direct" THEN "idle" ELSE "drop"
           there == Web(keys, final, limit, removals)!WithFinal(final[i[2]])
<1>0. PagesTyped(ids, final, limit) /\ PagesOwned(ids) /\ limit \in Nat
  BY DEF PagesIInv, Web!UrlImportsAssumption
<1>1. /\ Web(keys, final, limit, removals)!Linked(i) = linked
      /\ Web(keys, final, limit, removals)!Dropped(i) = dropped
      /\ linked \in AtWork \cup {"idle"} /\ dropped \in AtWork \cup {"idle"}
  BY DEF Web!Linked, Web!Dropped, Web!Direct, AtWork
<1>2. /\ ui_h[x] = Web(keys, final, limit, removals)!At(i, "finalize")
      /\ ui_objects' = ui_objects /\ ui_cand' = ui_cand /\ ui_chat' = ui_chat
  BY DEF Web!FinalizeURLAdmission
<1>3. ui_h[x].id = i /\ ui_h[x].pc = "finalize"
  BY <1>0, <1>2, HandlerIs DEF AtWork
<1>4. Admitting(x) /\ ui_adm[i].state = "pending"
  BY <1>0, <1>3 DEF PagesOwned, Admitting
<1>5. CASE /\ there # {} /\ ui_sources' = ui_sources
           /\ Web(keys, final, limit, removals)!Completed(i, CHOOSE j \in there : TRUE)
           /\ ui_h' = [ui_h EXCEPT ![x] = Web(keys, final, limit, removals)!At(i, "discard")]
  <2> DEFINE j == CHOOSE k \in there : TRUE
             row == [state |-> "completed", src |-> {j}]
  <2>1. Goes(ids, x, i, "discard") /\ ui_adm' = [ui_adm EXCEPT ![i] = row]
    BY <1>0, <1>5, HandlerGoes DEF Web!Completed, AtWork
  <2>2. there \subseteq ids
    BY <1>0 DEF Web!WithFinal, PagesTyped, WebSources
  <2>3. j \in ids
    BY <1>5, <2>2
  <2> HIDE DEF j
  <2>4. row \in AdmissionRows(ids) /\ row.src # {} /\ row.state = "completed"
    BY <2>3 DEF AdmissionRows
  <2> HIDE DEF row
  <2> QED
    BY <1>2, <1>3, <1>4, <1>5, <2>1, <2>4, PagesDecide
<1>6. CASE there = {} /\ Web(keys, final, limit, removals)!Creates(x, i)
  <2>1. /\ Web(keys, final, limit, removals)!Cardinality(ui_sources) < limit
        /\ ui_sources' = ui_sources \cup {[id |-> i, page |-> i[2], final |-> final[i[2]]]}
        /\ ui_adm' = [ui_adm EXCEPT ![i] = [state |-> "completed", src |-> {i}]]
        /\ ui_h' = [ui_h EXCEPT ![x] = Web(keys, final, limit, removals)!At(i, linked)]
    BY <1>1, <1>6 DEF Web!Creates, Web!Completed, Web!Page
  <2>2. Cardinality(ui_sources) < limit
    BY <2>1, WebCounting
  <2>3. \A s \in ui_sources : s.final # final[i[2]]
    BY <1>6 DEF Web!WithFinal
  <2>4. Goes(ids, x, i, linked)
    BY <1>0, <1>1, <2>1, HandlerGoes
  <2>5. ui_h[x] = [id |-> i, pc |-> "finalize"]
    BY <1>2 DEF Web!At
  <2> QED
    BY <1>0, <1>2, <2>1, <2>2, <2>3, <2>4, <2>5, PagesCreate
<1>7. CASE /\ ui_h' = [ui_h EXCEPT ![x] = Web(keys, final, limit, removals)!At(i, dropped)]
           /\ ui_adm' = ui_adm /\ ui_sources' = ui_sources
  <2>1. Goes(ids, x, i, dropped)
    BY <1>0, <1>1, <1>7, HandlerGoes
  <2> QED
    BY <1>2, <1>3, <1>7, <2>1, PagesMove
<1> QED
  BY <1>1, <1>4, <1>5, <1>6, <1>7 DEF Web!FinalizeURLAdmission, Web!Page

LEMMA HandlerEnds ==
    ASSUME NEW CONSTANT keys, NEW CONSTANT final, NEW CONSTANT limit, NEW CONSTANT removals,
           PagesIInv(Admissions(keys), final, limit), NEW x \in PageHandlers,
           NEW i \in Admissions(keys),
           \/ Web(keys, final, limit, removals)!CompleteCandidateImport(x, i)
           \/ Web(keys, final, limit, removals)!DropCandidateImport(x, i)
    PROVE  PagesIInv(Admissions(keys), final, limit)'
<1> DEFINE ids == Admissions(keys)
           p == i[2]
           linked == [ui_cand EXCEPT ![p].status = "imported", ![p].src = ui_adm[i].src]
           dropped == [ui_cand EXCEPT ![p] = [status |-> "deleted", selected |-> FALSE, src |-> {}]]
<1>0. PagesTyped(ids, final, limit) /\ PagesImporting
  BY DEF PagesIInv
<1>1. PICK pc \in {"link", "drop"} :
         /\ ui_h[x] = Web(keys, final, limit, removals)!At(i, pc)
         /\ ui_h' = [ui_h EXCEPT ![x] = Web(keys, final, limit, removals)!At(i, "idle")]
         /\ ui_adm' = ui_adm /\ ui_sources' = ui_sources /\ ui_objects' = ui_objects /\ ui_chat' = ui_chat
         /\ ui_cand' \in {ui_cand, linked, dropped}
  BY DEF Web!CompleteCandidateImport, Web!DropCandidateImport, Web!Page
<1>2. ui_h[x].id = i /\ ui_h[x].pc = pc /\ p \in WebPages
  BY <1>0, <1>1, HandlerIs DEF AtWork
<1>3. Goes(ids, x, i, "idle")
  BY <1>0, <1>1, HandlerGoes
<1>4. i[1] # "direct"
  BY <1>0, <1>2 DEF PagesImporting
<1>5. PICK row \in CandidateRows(ids) :
         /\ row.src # {} => row.status = "imported"
         /\ ui_cand' = [ui_cand EXCEPT ![p] = row]
  <2>1. ui_cand[p] \in CandidateRows(ids) /\ ui_adm[i].src \subseteq ids
    BY <1>0, <1>2 DEF PagesTyped, AdmissionRows
  <2>2. CASE ui_cand' = ui_cand
    <3>1. ui_cand' = [ui_cand EXCEPT ![p] = ui_cand[p]]
      BY <1>0, <2>2 DEF PagesTyped
    <3> QED
      BY <1>0, <1>2, <2>1, <3>1 DEF PagesImporting
  <2>3. CASE ui_cand' = linked
    <3> DEFINE row == [ui_cand[p] EXCEPT !.status = "imported", !.src = ui_adm[i].src]
    <3>1. row \in CandidateRows(ids) /\ row.status = "imported"
      BY <2>1 DEF CandidateRows
    <3>2. ui_cand' = [ui_cand EXCEPT ![p] = row]
      BY <2>3
    <3> QED
      BY <3>1, <3>2
  <2>4. CASE ui_cand' = dropped
    <3> DEFINE row == [status |-> "deleted", selected |-> FALSE, src |-> {}]
    <3>1. row \in CandidateRows(ids) /\ row.src = {}
      BY DEF CandidateRows
    <3>2. ui_cand' = [ui_cand EXCEPT ![p] = row]
      BY <2>4
    <3> QED
      BY <3>1, <3>2
  <2> QED
    BY <1>1, <2>2, <2>3, <2>4
<1>6. i[2] = p
  OBVIOUS
<1> HIDE DEF p
<1> QED
  BY <1>1, <1>2, <1>3, <1>4, <1>5, <1>6, PagesCandidate

(* The client of a handler is gone, or its server is. *)
LEMMA HandlerCut ==
    ASSUME NEW CONSTANT keys, NEW CONSTANT final, NEW CONSTANT limit, NEW CONSTANT removals,
           PagesIInv(Admissions(keys), final, limit), NEW x \in PageHandlers,
           Web(keys, final, limit, removals)!Cut(x)
    PROVE  PagesIInv(Admissions(keys), final, limit)'
<1> DEFINE ids == Admissions(keys)
<1>0. PagesTyped(ids, final, limit)
  BY DEF PagesIInv
<1>1. /\ ui_h[x] # NotAtWork /\ ui_h' = [ui_h EXCEPT ![x] = NotAtWork]
      /\ ui_adm' = ui_adm /\ ui_sources' = ui_sources /\ ui_objects' = ui_objects
      /\ ui_cand' = ui_cand /\ ui_chat' = ui_chat
  BY DEF Web!Cut, Web!Idle, NotAtWork
<1> DEFINE i == ui_h[x].id
<1>2. i \in ids /\ ui_h[x].id = i
  BY <1>0, <1>1 DEF PagesTyped
<1>3. Goes(ids, x, i, "idle")
  BY <1>0, <1>1 DEF Goes, PagesTyped, NotAtWork
<1> HIDE DEF i
<1> QED
  BY <1>1, <1>2, <1>3, PagesMove

(* What becomes of candidates and Sources. *)
LEMMA PagesSettle ==
    ASSUME NEW CONSTANT keys, NEW CONSTANT final, NEW CONSTANT limit, NEW CONSTANT removals,
           Web(keys, final, limit, removals)!UrlImportsAssumption,
           PagesIInv(Admissions(keys), final, limit),
           \/ Web(keys, final, limit, removals)!CompleteSearch
           \/ \E ps \in SUBSET WebPages : Web(keys, final, limit, removals)!ReplaceSelection(ps)
           \/ \E i \in Admissions(keys) : \/ Web(keys, final, limit, removals)!BecomesReady(i)
                                          \/ Web(keys, final, limit, removals)!Fails(i)
                                          \/ Web(keys, final, limit, removals)!Remove(i)
    PROVE  PagesIInv(Admissions(keys), final, limit)'
<1> DEFINE ids == Admissions(keys)
           deleted == [status |-> "deleted", selected |-> FALSE, src |-> {}]
<1>0. PagesTyped(ids, final, limit) /\ PagesImporting /\ limit \in Nat
  BY DEF PagesIInv, Web!UrlImportsAssumption
<1>1. \A p \in WebPages : ui_cand[p] \in CandidateRows(ids)
  BY <1>0 DEF PagesTyped
<1>2. CASE Web(keys, final, limit, removals)!CompleteSearch
  <2>1. /\ \A p \in WebPages : ui_cand[p].status = "absent"
        /\ ui_cand' = [p \in WebPages |->
              IF Web(keys, final, limit, removals)!WithUrl(p) = {}
              THEN [status |-> "discovered", selected |-> TRUE, src |-> {}]
              ELSE [status |-> "imported", selected |-> FALSE,
                    src |-> {CHOOSE i \in Web(keys, final, limit, removals)!WithUrl(p) : TRUE}]]
        /\ ui_h' = ui_h /\ ui_adm' = ui_adm /\ ui_sources' = ui_sources
        /\ ui_objects' = ui_objects /\ ui_chat' = ui_chat
    BY <1>2 DEF Web!CompleteSearch, Web!Discovered
  <2>2. \A p \in WebPages : Web(keys, final, limit, removals)!WithUrl(p) \subseteq ids
    BY <1>0 DEF Web!WithUrl, PagesTyped, WebSources
  <2>3. ui_cand' \in [WebPages -> CandidateRows(ids)]
    <3>1. ASSUME NEW p \in WebPages, Web(keys, final, limit, removals)!WithUrl(p) # {}
          PROVE  (CHOOSE i \in Web(keys, final, limit, removals)!WithUrl(p) : TRUE) \in ids
      BY <2>2, <3>1
    <3> QED
      BY <2>1, <3>1 DEF CandidateRows
  <2>4. \A p \in WebPages : ui_cand'[p].src # {} => ui_cand'[p].status = "imported"
    BY <2>1
  <2>5. ui_chat' \subseteq ids
    BY <1>0, <2>1 DEF PagesTyped
  <2> QED
    BY <1>0, <2>1, <2>3, <2>4, <2>5, PagesRest
<1>3. ASSUME NEW ps \in SUBSET WebPages, Web(keys, final, limit, removals)!ReplaceSelection(ps)
      PROVE  PagesIInv(ids, final, limit)'
  <2>1. /\ ui_cand' = [p \in WebPages |-> [ui_cand[p] EXCEPT !.selected = p \in ps]]
        /\ ui_h' = ui_h /\ ui_adm' = ui_adm /\ ui_sources' = ui_sources
        /\ ui_objects' = ui_objects /\ ui_chat' = ui_chat
    BY <1>3 DEF Web!ReplaceSelection
  <2>2. ASSUME NEW p \in WebPages
        PROVE  /\ ui_cand'[p] \in CandidateRows(ids)
               /\ ui_cand'[p].status = ui_cand[p].status /\ ui_cand'[p].src = ui_cand[p].src
    <3>1. ui_cand'[p] = [ui_cand[p] EXCEPT !.selected = p \in ps]
      BY <2>1
    <3>2. ASSUME NEW c \in CandidateRows(ids), NEW b \in BOOLEAN, NEW new, new = [c EXCEPT !.selected = b]
          PROVE  new \in CandidateRows(ids) /\ new.status = c.status /\ new.src = c.src
      BY <3>2 DEF CandidateRows
    <3>3. (p \in ps) \in BOOLEAN
      OBVIOUS
    <3> QED
      BY <1>1, <3>1, <3>2, <3>3
  <2>3. ui_cand' \in [WebPages -> CandidateRows(ids)] /\ ui_chat' \subseteq ids
    BY <1>0, <2>1, <2>2 DEF PagesTyped
  <2>4. \A p \in WebPages :
           /\ ui_cand[p].status = "importing" => ui_cand'[p].status = "importing"
           /\ ui_cand'[p].src # {} => ui_cand'[p].status = "imported"
    BY <1>0, <2>2 DEF PagesImporting
  <2> QED
    BY <1>0, <2>1, <2>3, <2>4, PagesRest
<1>4. ASSUME NEW i \in ids, Web(keys, final, limit, removals)!BecomesReady(i)
      PROVE  PagesIInv(ids, final, limit)'
  <2>1. /\ ui_cand' = ui_cand /\ ui_h' = ui_h /\ ui_adm' = ui_adm /\ ui_sources' = ui_sources
        /\ ui_objects' = ui_objects /\ ui_chat' \in {ui_chat, ui_chat \cup {i}}
    BY <1>4 DEF Web!BecomesReady
  <2>2. ui_cand' \in [WebPages -> CandidateRows(ids)] /\ ui_chat' \subseteq ids
    BY <1>0, <2>1 DEF PagesTyped
  <2>3. \A p \in WebPages : ui_cand'[p].src # {} => ui_cand'[p].status = "imported"
    BY <1>0, <2>1 DEF PagesImporting
  <2> QED
    BY <1>0, <2>1, <2>2, <2>3, PagesRest
<1>5. ASSUME NEW i \in ids, Web(keys, final, limit, removals)!Fails(i)
      PROVE  PagesIInv(ids, final, limit)'
  <2> DEFINE linked == Web(keys, final, limit, removals)!LinkedTo(i)
  <2>1. /\ Stored(i) /\ ui_h' = ui_h /\ ui_adm' = ui_adm /\ ui_chat' = ui_chat
        /\ \/ ui_sources' = ui_sources /\ ui_objects' = ui_objects /\ ui_cand' = ui_cand
           \/ /\ ui_sources' = {s \in ui_sources : s.id # i} /\ ui_objects' = ui_objects \ {i}
              /\ ui_cand' = [p \in WebPages |-> IF p \in linked THEN deleted ELSE ui_cand[p]]
    BY <1>5 DEF Web!Fails, Web!SourceIds, Stored
  <2>2. \A p \in WebPages : p \in linked => ui_cand[p].src # {}
    BY DEF Web!LinkedTo
  <2>3. deleted \in CandidateRows(ids) /\ deleted.src = {}
    BY DEF CandidateRows
  <2> HIDE DEF linked, deleted
  <2>4. ui_cand' \in [WebPages -> CandidateRows(ids)] /\ ui_chat' \subseteq ids
    BY <1>0, <1>1, <2>1, <2>3 DEF PagesTyped
  <2>5. \A p \in WebPages :
           /\ ui_cand[p].status = "importing" => ui_cand'[p].status = "importing"
           /\ ui_cand'[p].src # {} => ui_cand'[p].status = "imported"
    BY <1>0, <2>1, <2>2, <2>3 DEF PagesImporting
  <2> QED
    BY <1>0, <2>1, <2>4, <2>5, PagesRest
<1>6. ASSUME NEW i \in ids, Web(keys, final, limit, removals)!Remove(i)
      PROVE  PagesIInv(ids, final, limit)'
  <2>1. /\ Stored(i) /\ ui_h' = ui_h /\ ui_adm' = ui_adm /\ ui_chat' = ui_chat \ {i}
        /\ ui_sources' = {s \in ui_sources : s.id # i} /\ ui_objects' = ui_objects \ {i}
        /\ ui_cand' = [p \in WebPages |-> [ui_cand[p] EXCEPT !.src = @ \ {i}]]
    BY <1>6 DEF Web!Remove, Web!SourceIds, Web!Unlinked, Stored
  <2>2. ASSUME NEW p \in WebPages
        PROVE  /\ ui_cand'[p] \in CandidateRows(ids)
               /\ ui_cand'[p].status = ui_cand[p].status /\ ui_cand'[p].src \subseteq ui_cand[p].src
    <3>1. ui_cand'[p] = [ui_cand[p] EXCEPT !.src = ui_cand[p].src \ {i}]
      BY <2>1
    <3>2. ASSUME NEW c \in CandidateRows(ids), NEW left, left = [c EXCEPT !.src = c.src \ {i}]
          PROVE  left \in CandidateRows(ids) /\ left.status = c.status /\ left.src \subseteq c.src
      BY <3>2 DEF CandidateRows
    <3> QED
      BY <1>1, <3>1, <3>2
  <2>3. ui_cand' \in [WebPages -> CandidateRows(ids)] /\ ui_chat' \subseteq ids
    BY <1>0, <2>1, <2>2 DEF PagesTyped
  <2>4. \A p \in WebPages :
           /\ ui_cand[p].status = "importing" => ui_cand'[p].status = "importing"
           /\ ui_cand'[p].src # {} => ui_cand'[p].status = "imported"
    BY <1>0, <2>2 DEF PagesImporting
  <2> QED
    BY <1>0, <2>1, <2>3, <2>4, PagesRest
<1> QED
  BY <1>2, <1>3, <1>4, <1>5, <1>6

LEMMA PagesStep ==
    ASSUME NEW CONSTANT keys, NEW CONSTANT final, NEW CONSTANT limit, NEW CONSTANT removals,
           Web(keys, final, limit, removals)!UrlImportsAssumption,
           PagesIInv(Admissions(keys), final, limit),
           Web(keys, final, limit, removals)!Next
    PROVE  PagesIInv(Admissions(keys), final, limit)'
<1>1. Web(keys, final, limit, removals)!Ids = Admissions(keys)
  BY DEF Web!Ids, Admissions
<1>2. ASSUME NEW x \in PageHandlers, NEW i \in Admissions(keys),
             Web(keys, final, limit, removals)!Handler(x, i)
      PROVE  PagesIInv(Admissions(keys), final, limit)'
  BY <1>2, HandlerStarts, HandlerAdmits, HandlerReads, HandlerFinalizes, HandlerEnds DEF Web!Handler
<1> QED
  BY <1>1, <1>2, HandlerCut, PagesSettle DEF Web!Next

(* A step of another component, or of the other scene.                     *)
LEMMA PagesStand ==
    ASSUME NEW CONSTANT ids, NEW CONSTANT final, NEW CONSTANT limit,
           PagesIInv(ids, final, limit), UNCHANGED ui_vars
    PROVE  PagesIInv(ids, final, limit)'
<1>1. /\ ui_adm' = ui_adm /\ ui_sources' = ui_sources /\ ui_objects' = ui_objects
      /\ ui_cand' = ui_cand /\ ui_chat' = ui_chat /\ ui_h' = ui_h
  BY DEF ui_vars
<1> QED
  BY <1>1 DEF PagesIInv, PagesTyped, PagesOwned, PagesUnique, PagesImporting, Stored, Admitting, ImportsFor

LEMMA PagesHold ==
    ASSUME NEW CONSTANT keys, NEW CONSTANT final, NEW CONSTANT limit, NEW CONSTANT removals,
           PagesIInv(Admissions(keys), final, limit)
    PROVE  /\ Web(keys, final, limit, removals)!TypeOK
           /\ Web(keys, final, limit, removals)!OneImportPerCandidate
           /\ Web(keys, final, limit, removals)!OneSourcePerPage
           /\ Web(keys, final, limit, removals)!OriginalStays
<1> DEFINE ids == Admissions(keys)
<1>0. PagesTyped(ids, final, limit) /\ PagesOwned(ids) /\ PagesUnique /\ PagesImporting
  BY DEF PagesIInv
<1>1. Web(keys, final, limit, removals)!Ids = ids
  BY DEF Web!Ids, Admissions
<1>2. Web(keys, final, limit, removals)!SourceIds \subseteq ids
  BY <1>0 DEF Web!SourceIds, PagesTyped, WebSources
<1>3. Web(keys, final, limit, removals)!TypeOK
  BY <1>0, <1>1, <1>2, WebCounting DEF Web!TypeOK, Web!AdmissionStates, Web!CandidateStates, Web!Selections,
     PagesTyped, AdmissionRows, CandidateRows
<1>4. Web(keys, final, limit, removals)!OriginalStays
  BY <1>0, <1>2 DEF Web!OriginalStays, Web!SourceIds, PagesOwned, Stored
<1>5. Web(keys, final, limit, removals)!OneSourcePerPage
  <2>1. \A s \in ui_sources : s.final = final[s.page]
    BY <1>0 DEF PagesTyped, WebSources
  <2> QED
    BY <1>0, <2>1 DEF Web!OneSourcePerPage, PagesUnique
<1>6. Web(keys, final, limit, removals)!OneImportPerCandidate
  <2>1. SUFFICES ASSUME NEW p \in WebPages
        PROVE  Cardinality(Web(keys, final, limit, removals)!Importing(p)) <= 1
    BY WebCounting DEF Web!OneImportPerCandidate
  <2> DEFINE importers == Web(keys, final, limit, removals)!Importing(p)
  <2>2. importers \subseteq {x \in PageHandlers : ImportsFor(x, p)}
    BY <1>0 DEF Web!Importing, Web!Idle, Web!Page, Web!Direct, ImportsFor, PagesTyped, NotAtWork, AtWork
  <2>3. \A x, y \in importers : x = y
    BY <1>0, <2>2 DEF PagesImporting
  <2> HIDE DEF importers
  <2>4. CASE importers = {}
    BY <2>4, FS_EmptySet DEF importers
  <2>5. CASE importers # {}
    <3>1. PICK x : importers = {x}
      BY <2>3, <2>5
    <3>2. Cardinality({x}) = 1
      BY FS_Singleton
    <3>3. Cardinality(importers) <= 1
      BY <3>1, <3>2
    <3> QED
      BY <3>3 DEF importers
  <2> QED
    BY <2>4, <2>5
<1> QED
  BY <1>3, <1>4, <1>5, <1>6

(* The two instances of the suite are of it: the pages that redirect, and  *)
(* the session.  A step of either is a step of it.                         *)
RedirectsIInv == PagesIInv(Admissions({}), Redirected, RedirectLimit)
SessionsIInv == PagesIInv(Admissions(SessionKeys), Unmoved, SessionLimit)

LEMMA RedirectsInit ==
    ASSUME Redirects!UrlImportsAssumption, Redirects!Init
    PROVE  RedirectsIInv
<1>1. Web({}, Redirected, RedirectLimit, TRUE)!UrlImportsAssumption
  BY DEF Redirects!UrlImportsAssumption, Web!UrlImportsAssumption
<1>2. Web({}, Redirected, RedirectLimit, TRUE)!Init
  BY DEF Redirects!Init, Web!Init, Redirects!Ids, Web!Ids, Redirects!NoAdm, Web!NoAdm,
     Redirects!Idle, Web!Idle, Redirects!Discovered, Web!Discovered
<1> QED
  BY <1>1, <1>2, PagesInit DEF RedirectsIInv

LEMMA RedirectsAre ==
    ASSUME Redirects!Next
    PROVE  Web({}, Redirected, RedirectLimit, TRUE)!Next
<1> USE DEF Redirects!Ids, Web!Ids, Redirects!Page, Web!Page, Redirects!Direct, Web!Direct,
      Redirects!Idle, Web!Idle, Redirects!At, Web!At, Redirects!SourceIds, Web!SourceIds,
      Redirects!WithUrl, Web!WithUrl, Redirects!WithFinal, Web!WithFinal, Redirects!Linked,
      Web!Linked, Redirects!Dropped, Web!Dropped, Redirects!LinkedTo, Web!LinkedTo
<1>1. ASSUME NEW x, NEW i, Redirects!Handler(x, i)
      PROVE  Web({}, Redirected, RedirectLimit, TRUE)!Handler(x, i)
  <2>1. Redirects!Start(x, i) => Web({}, Redirected, RedirectLimit, TRUE)!Start(x, i)
    BY DEF Redirects!Start, Web!Start
  <2>2. Redirects!BeginCandidateImport(x, i) => Web({}, Redirected, RedirectLimit, TRUE)!BeginCandidateImport(x, i)
    BY DEF Redirects!BeginCandidateImport, Web!BeginCandidateImport
  <2>3. Redirects!BeginURLAdmission(x, i) => Web({}, Redirected, RedirectLimit, TRUE)!BeginURLAdmission(x, i)
    BY DEF Redirects!BeginURLAdmission, Web!BeginURLAdmission, Redirects!Admits, Web!Admits,
       Redirects!Reuses, Web!Reuses, Redirects!Replays, Web!Replays
  <2>4. Redirects!Lookup(x, i) => Web({}, Redirected, RedirectLimit, TRUE)!Lookup(x, i)
    BY DEF Redirects!Lookup, Web!Lookup
  <2>5. Redirects!Fetch(x, i) => Web({}, Redirected, RedirectLimit, TRUE)!Fetch(x, i)
    BY DEF Redirects!Fetch, Web!Fetch
  <2>6. Redirects!FailURLAdmission(x, i) => Web({}, Redirected, RedirectLimit, TRUE)!FailURLAdmission(x, i)
    BY DEF Redirects!FailURLAdmission, Web!FailURLAdmission
  <2>7. Redirects!FinalizeURLAdmission(x, i) => Web({}, Redirected, RedirectLimit, TRUE)!FinalizeURLAdmission(x, i)
    BY DEF Redirects!FinalizeURLAdmission, Web!FinalizeURLAdmission, Redirects!Completed,
       Web!Completed, Redirects!Creates, Web!Creates, Redirects!Cardinality, Web!Cardinality
  <2>8. Redirects!Discard(x, i) => Web({}, Redirected, RedirectLimit, TRUE)!Discard(x, i)
    BY DEF Redirects!Discard, Web!Discard
  <2>9. Redirects!CompleteCandidateImport(x, i) => Web({}, Redirected, RedirectLimit, TRUE)!CompleteCandidateImport(x, i)
    BY DEF Redirects!CompleteCandidateImport, Web!CompleteCandidateImport
  <2>10. Redirects!DropCandidateImport(x, i) => Web({}, Redirected, RedirectLimit, TRUE)!DropCandidateImport(x, i)
    BY DEF Redirects!DropCandidateImport, Web!DropCandidateImport
  <2> QED
    BY <1>1, <2>1, <2>2, <2>3, <2>4, <2>5, <2>6, <2>7, <2>8, <2>9, <2>10 DEF Redirects!Handler,
       Web!Handler
<1>2. Redirects!CompleteSearch => Web({}, Redirected, RedirectLimit, TRUE)!CompleteSearch
  BY DEF Redirects!CompleteSearch, Web!CompleteSearch, Redirects!Discovered, Web!Discovered
<1>3. ASSUME NEW ps PROVE Redirects!ReplaceSelection(ps) => Web({}, Redirected, RedirectLimit, TRUE)!ReplaceSelection(ps)
  BY DEF Redirects!ReplaceSelection, Web!ReplaceSelection
<1>4. ASSUME NEW x PROVE Redirects!Cut(x) => Web({}, Redirected, RedirectLimit, TRUE)!Cut(x)
  BY DEF Redirects!Cut, Web!Cut
<1>5. ASSUME NEW i PROVE Redirects!BecomesReady(i) => Web({}, Redirected, RedirectLimit, TRUE)!BecomesReady(i)
  BY DEF Redirects!BecomesReady, Web!BecomesReady
<1>6. ASSUME NEW i PROVE Redirects!Fails(i) => Web({}, Redirected, RedirectLimit, TRUE)!Fails(i)
  BY DEF Redirects!Fails, Web!Fails
<1>7. ASSUME NEW i PROVE Redirects!Remove(i) => Web({}, Redirected, RedirectLimit, TRUE)!Remove(i)
  BY DEF Redirects!Remove, Web!Remove, Redirects!Unlinked, Web!Unlinked
<1> QED
  BY <1>1, <1>2, <1>3, <1>4, <1>5, <1>6, <1>7 DEF Redirects!Next, Web!Next

LEMMA RedirectsStep ==
    ASSUME Redirects!UrlImportsAssumption, RedirectsIInv, Redirects!Next
    PROVE  RedirectsIInv'
<1>1. Web({}, Redirected, RedirectLimit, TRUE)!UrlImportsAssumption
  BY DEF Redirects!UrlImportsAssumption, Web!UrlImportsAssumption
<1>2. Web({}, Redirected, RedirectLimit, TRUE)!Next
  BY RedirectsAre
<1> QED
  BY <1>1, <1>2, PagesStep DEF RedirectsIInv

LEMMA RedirectsHold ==
    ASSUME RedirectsIInv
    PROVE  /\ Redirects!TypeOK
           /\ Redirects!OneSourcePerPage
           /\ Redirects!OriginalStays
<1>1. /\ Web({}, Redirected, RedirectLimit, TRUE)!TypeOK
      /\ Web({}, Redirected, RedirectLimit, TRUE)!OneSourcePerPage
      /\ Web({}, Redirected, RedirectLimit, TRUE)!OriginalStays
  BY PagesHold DEF RedirectsIInv
<1>2. Redirects!TypeOK
  BY <1>1 DEF Redirects!TypeOK, Web!TypeOK, Redirects!Ids, Web!Ids, Redirects!SourceIds,
     Web!SourceIds, Redirects!AdmissionStates, Web!AdmissionStates, Redirects!CandidateStates,
     Web!CandidateStates, Redirects!Selections, Web!Selections, Redirects!Cardinality,
     Web!Cardinality
<1>3. Redirects!OneSourcePerPage
  BY <1>1 DEF Redirects!OneSourcePerPage, Web!OneSourcePerPage
<1>4. Redirects!OriginalStays
  BY <1>1 DEF Redirects!OriginalStays, Web!OriginalStays, Redirects!SourceIds, Web!SourceIds
<1> QED
  BY <1>2, <1>3, <1>4

LEMMA SessionsInit ==
    ASSUME Sessions!UrlImportsAssumption, Sessions!Init
    PROVE  SessionsIInv
<1>1. Web(SessionKeys, Unmoved, SessionLimit, FALSE)!UrlImportsAssumption
  BY DEF Sessions!UrlImportsAssumption, Web!UrlImportsAssumption
<1>2. Web(SessionKeys, Unmoved, SessionLimit, FALSE)!Init
  BY DEF Sessions!Init, Web!Init, Sessions!Ids, Web!Ids, Sessions!NoAdm, Web!NoAdm, Sessions!Idle,
     Web!Idle, Sessions!Discovered, Web!Discovered
<1> QED
  BY <1>1, <1>2, PagesInit DEF SessionsIInv

LEMMA SessionsAre ==
    ASSUME Sessions!Next
    PROVE  Web(SessionKeys, Unmoved, SessionLimit, FALSE)!Next
<1> USE DEF Sessions!Ids, Web!Ids, Sessions!Page, Web!Page, Sessions!Direct, Web!Direct,
      Sessions!Idle, Web!Idle, Sessions!At, Web!At, Sessions!SourceIds, Web!SourceIds,
      Sessions!WithUrl, Web!WithUrl, Sessions!WithFinal, Web!WithFinal, Sessions!Linked, Web!Linked,
      Sessions!Dropped, Web!Dropped, Sessions!LinkedTo, Web!LinkedTo
<1>1. ASSUME NEW x, NEW i, Sessions!Handler(x, i)
      PROVE  Web(SessionKeys, Unmoved, SessionLimit, FALSE)!Handler(x, i)
  <2>1. Sessions!Start(x, i) => Web(SessionKeys, Unmoved, SessionLimit, FALSE)!Start(x, i)
    BY DEF Sessions!Start, Web!Start
  <2>2. Sessions!BeginCandidateImport(x, i) => Web(SessionKeys, Unmoved, SessionLimit, FALSE)!BeginCandidateImport(x, i)
    BY DEF Sessions!BeginCandidateImport, Web!BeginCandidateImport
  <2>3. Sessions!BeginURLAdmission(x, i) => Web(SessionKeys, Unmoved, SessionLimit, FALSE)!BeginURLAdmission(x, i)
    BY DEF Sessions!BeginURLAdmission, Web!BeginURLAdmission, Sessions!Admits, Web!Admits,
       Sessions!Reuses, Web!Reuses, Sessions!Replays, Web!Replays
  <2>4. Sessions!Lookup(x, i) => Web(SessionKeys, Unmoved, SessionLimit, FALSE)!Lookup(x, i)
    BY DEF Sessions!Lookup, Web!Lookup
  <2>5. Sessions!Fetch(x, i) => Web(SessionKeys, Unmoved, SessionLimit, FALSE)!Fetch(x, i)
    BY DEF Sessions!Fetch, Web!Fetch
  <2>6. Sessions!FailURLAdmission(x, i) => Web(SessionKeys, Unmoved, SessionLimit, FALSE)!FailURLAdmission(x, i)
    BY DEF Sessions!FailURLAdmission, Web!FailURLAdmission
  <2>7. Sessions!FinalizeURLAdmission(x, i) => Web(SessionKeys, Unmoved, SessionLimit, FALSE)!FinalizeURLAdmission(x, i)
    BY DEF Sessions!FinalizeURLAdmission, Web!FinalizeURLAdmission, Sessions!Completed,
       Web!Completed, Sessions!Creates, Web!Creates, Sessions!Cardinality, Web!Cardinality
  <2>8. Sessions!Discard(x, i) => Web(SessionKeys, Unmoved, SessionLimit, FALSE)!Discard(x, i)
    BY DEF Sessions!Discard, Web!Discard
  <2>9. Sessions!CompleteCandidateImport(x, i) => Web(SessionKeys, Unmoved, SessionLimit, FALSE)!CompleteCandidateImport(x, i)
    BY DEF Sessions!CompleteCandidateImport, Web!CompleteCandidateImport
  <2>10. Sessions!DropCandidateImport(x, i) => Web(SessionKeys, Unmoved, SessionLimit, FALSE)!DropCandidateImport(x, i)
    BY DEF Sessions!DropCandidateImport, Web!DropCandidateImport
  <2> QED
    BY <1>1, <2>1, <2>2, <2>3, <2>4, <2>5, <2>6, <2>7, <2>8, <2>9, <2>10 DEF Sessions!Handler,
       Web!Handler
<1>2. Sessions!CompleteSearch => Web(SessionKeys, Unmoved, SessionLimit, FALSE)!CompleteSearch
  BY DEF Sessions!CompleteSearch, Web!CompleteSearch, Sessions!Discovered, Web!Discovered
<1>3. ASSUME NEW ps PROVE Sessions!ReplaceSelection(ps) => Web(SessionKeys, Unmoved, SessionLimit, FALSE)!ReplaceSelection(ps)
  BY DEF Sessions!ReplaceSelection, Web!ReplaceSelection
<1>4. ASSUME NEW x PROVE Sessions!Cut(x) => Web(SessionKeys, Unmoved, SessionLimit, FALSE)!Cut(x)
  BY DEF Sessions!Cut, Web!Cut
<1>5. ASSUME NEW i PROVE Sessions!BecomesReady(i) => Web(SessionKeys, Unmoved, SessionLimit, FALSE)!BecomesReady(i)
  BY DEF Sessions!BecomesReady, Web!BecomesReady
<1>6. ASSUME NEW i PROVE Sessions!Fails(i) => Web(SessionKeys, Unmoved, SessionLimit, FALSE)!Fails(i)
  BY DEF Sessions!Fails, Web!Fails
<1>7. ASSUME NEW i PROVE Sessions!Remove(i) => Web(SessionKeys, Unmoved, SessionLimit, FALSE)!Remove(i)
  BY DEF Sessions!Remove, Web!Remove, Sessions!Unlinked, Web!Unlinked
<1> QED
  BY <1>1, <1>2, <1>3, <1>4, <1>5, <1>6, <1>7 DEF Sessions!Next, Web!Next

LEMMA SessionsStep ==
    ASSUME Sessions!UrlImportsAssumption, SessionsIInv, Sessions!Next
    PROVE  SessionsIInv'
<1>1. Web(SessionKeys, Unmoved, SessionLimit, FALSE)!UrlImportsAssumption
  BY DEF Sessions!UrlImportsAssumption, Web!UrlImportsAssumption
<1>2. Web(SessionKeys, Unmoved, SessionLimit, FALSE)!Next
  BY SessionsAre
<1> QED
  BY <1>1, <1>2, PagesStep DEF SessionsIInv

LEMMA SessionsHold ==
    ASSUME SessionsIInv
    PROVE  /\ Sessions!TypeOK
           /\ Sessions!OneSourcePerPage
           /\ Sessions!OriginalStays
           /\ Sessions!OneImportPerCandidate
<1>1. /\ Web(SessionKeys, Unmoved, SessionLimit, FALSE)!TypeOK
      /\ Web(SessionKeys, Unmoved, SessionLimit, FALSE)!OneSourcePerPage
      /\ Web(SessionKeys, Unmoved, SessionLimit, FALSE)!OriginalStays
      /\ Web(SessionKeys, Unmoved, SessionLimit, FALSE)!OneImportPerCandidate
  BY PagesHold DEF SessionsIInv
<1>2. Sessions!TypeOK
  BY <1>1 DEF Sessions!TypeOK, Web!TypeOK, Sessions!Ids, Web!Ids, Sessions!SourceIds, Web!SourceIds,
     Sessions!AdmissionStates, Web!AdmissionStates, Sessions!CandidateStates, Web!CandidateStates,
     Sessions!Selections, Web!Selections, Sessions!Cardinality, Web!Cardinality
<1>3. Sessions!OneSourcePerPage
  BY <1>1 DEF Sessions!OneSourcePerPage, Web!OneSourcePerPage
<1>4. Sessions!OriginalStays
  BY <1>1 DEF Sessions!OriginalStays, Web!OriginalStays, Sessions!SourceIds, Web!SourceIds
<1>5. Sessions!OneImportPerCandidate
  BY <1>1 DEF Sessions!OneImportPerCandidate, Web!OneImportPerCandidate, Sessions!Importing,
     Web!Importing, Sessions!Idle, Web!Idle, Sessions!Page, Web!Page, Sessions!Direct, Web!Direct,
     Sessions!Cardinality, Web!Cardinality
<1> QED
  BY <1>2, <1>3, <1>4, <1>5

-----------------------------------------------------------------------------
(* DiscoverySessions. *)

(* Rows of the job, of what workers and requests are about, and of keys.   *)
JobsTyped ==
    /\ ds_job \in [status : Manual!JobStatuses, attempt : Nat, token : Nat]
    /\ ds_ses \in Manual!SessionRows /\ ds_claims \in Nat
    /\ ds_started \in [SearchKeys -> Nat]
    /\ ds_req \in [Retries -> SearchKeys \cup {"idle"}]

(* Of a Member's session no Agent Run ever has an Attempt at work.         *)
NoAttempts == ds_run = 0 /\ \A a \in Manual!Attempts : ds_act[a] = "idle"

JobTells == ds_ses = "searching" <=> ds_job.status \in {"queued", "running"}

(* A key that is not stored has started nothing.                           *)
KeysStarted ==
    \A k \in SearchKeys : ds_started[k] <= 1 /\ (k \notin ds_keys => ds_started[k] = 0)

SearchIInv == JobsTyped /\ NoAttempts /\ JobTells /\ KeysStarted

LEMMA SearchInit == Manual!Init => SearchIInv
<1> SUFFICES ASSUME Manual!Init PROVE SearchIInv
  OBVIOUS
<1>1. JobsTyped
  BY DEF Manual!Init, Manual!NoJob, Manual!JobStatuses, Manual!SessionRows, JobsTyped
<1>2. NoAttempts /\ JobTells /\ KeysStarted
  BY DEF Manual!Init, Manual!NoJob, Manual!Attempts, NoAttempts, JobTells, KeysStarted
<1> QED
  BY <1>1, <1>2 DEF SearchIInv

(* Without an Agent Run nothing its Attempts do is ever enabled.           *)
LEMMA NoAttemptActs ==
    ASSUME NoAttempts, NEW a \in Manual!Attempts
    PROVE  ~Manual!AttemptStep(a) /\ ~Manual!AttemptStops(a) /\ ~Manual!TakeOver /\ ~Manual!RunEnds
<1>1. ds_act[a] = "idle" /\ ds_run # a /\ ds_run = 0
  BY DEF NoAttempts, Manual!Attempts
<1>2. ~Manual!Ensure(a) /\ ~Manual!CompleteAgentSession(a) /\ ~Manual!FailAgentSession(a)
  BY <1>1 DEF Manual!Ensure, Manual!CompleteAgentSession, Manual!FailAgentSession
<1>3. \A o : ~Manual!AttemptSearches(a, o)
  BY <1>1 DEF Manual!AttemptSearches
<1>4. ~Manual!AttemptStops(a) /\ ~Manual!TakeOver /\ ~Manual!RunEnds
  BY <1>1 DEF Manual!AttemptStops, Manual!TakeOver, Manual!RunEnds, Manual!Outcomes
<1> QED
  BY <1>2, <1>3, <1>4 DEF Manual!AttemptStep

(* Claims: a job of a session at an end is never put back.                 *)
LEMMA ClaimKeeps ==
    ASSUME Manual!DiscoverySessionsAssumption, SearchIInv, NEW x \in SearchWorkers, Manual!Claim(x)
    PROVE  SearchIInv'
<1>1. NoAttempts' /\ KeysStarted' /\ UNCHANGED <<ds_started, ds_req>>
  BY DEF SearchIInv, NoAttempts, KeysStarted, Manual!Claim, Manual!agentVars, Manual!retryVars,
     Manual!Attempts
<1>2. CASE Manual!Exhaust
  <2>1. /\ ds_job.status = "running" /\ ds_ses = "searching" /\ ds_ses' = "failed"
        /\ ds_claims' = ds_claims
    BY <1>2 DEF Manual!Exhaust, Manual!Exhausted, Manual!Lapsed, SearchIInv, JobTells
  <2>2. ds_job' = [status |-> "failed", attempt |-> ds_job.attempt, token |-> 0]
    BY <1>2 DEF Manual!Exhaust, SearchIInv, JobsTyped
  <2>3. JobsTyped' /\ JobTells'
    BY <1>1, <2>1, <2>2 DEF SearchIInv, JobsTyped, JobTells, Manual!JobStatuses, Manual!SessionRows
  <2> QED
    BY <1>1, <2>3 DEF SearchIInv
<1>3. CASE Manual!Take(x)
  <2>1. ds_job' = [status |-> "running", attempt |-> ds_job.attempt + 1, token |-> ds_claims + 1]
    BY <1>3 DEF Manual!Take
  <2>2. ds_ses = "searching" /\ ds_ses' = ds_ses /\ ds_claims' = ds_claims + 1
    BY <1>3 DEF Manual!Take
  <2>3. ds_job.attempt \in Nat /\ ds_claims \in Nat
    BY DEF SearchIInv, JobsTyped
  <2>4. JobsTyped' /\ JobTells'
    BY <1>1, <2>1, <2>2, <2>3 DEF SearchIInv, JobsTyped, JobTells, Manual!JobStatuses, Manual!SessionRows
  <2> QED
    BY <1>1, <2>4 DEF SearchIInv
<1>4. ~Manual!PutBack
  BY DEF Manual!PutBack, Manual!Lapsed, SearchIInv, JobTells
<1> QED
  BY <1>2, <1>3, <1>4 DEF Manual!Claim

(* The worker that holds the lease ends the search with its job.           *)
LEMMA WorkerKeeps ==
    ASSUME SearchIInv, NEW x \in SearchWorkers, Manual!WorkerStep(x) \/ Manual!Crash(x)
    PROVE  SearchIInv'
<1>1. NoAttempts' /\ KeysStarted' /\ UNCHANGED <<ds_started, ds_req, ds_claims>>
  BY DEF SearchIInv, NoAttempts, KeysStarted, Manual!WorkerStep, Manual!Crash, Manual!WorkerSearches,
     Manual!CompleteSearch, Manual!FailSearch, Manual!agentVars, Manual!retryVars, Manual!Attempts
<1>2. CASE UNCHANGED <<ds_ses, ds_job>>
  BY <1>1, <1>2 DEF SearchIInv, JobsTyped, JobTells
<1>3. ASSUME NEW ended \in {"ready", "failed"}, NEW status \in {"succeeded", "failed"},
             ds_ses' = ended, ds_job' = [ds_job EXCEPT !.status = status, !.token = 0]
      PROVE  SearchIInv'
  <2>1. ds_job' = [status |-> status, attempt |-> ds_job.attempt, token |-> 0]
    BY <1>3 DEF SearchIInv, JobsTyped
  <2>2. JobsTyped' /\ JobTells'
    BY <1>1, <1>3, <2>1 DEF SearchIInv, JobsTyped, JobTells, Manual!JobStatuses, Manual!SessionRows
  <2> QED
    BY <1>1, <2>2 DEF SearchIInv
<1>4. CASE Manual!CompleteSearch(x)
  BY <1>2, <1>3, <1>4 DEF Manual!CompleteSearch
<1>5. CASE Manual!FailSearch(x)
  BY <1>2, <1>3, <1>5 DEF Manual!FailSearch
<1>6. CASE Manual!Crash(x) \/ \E o \in Manual!Outcomes : Manual!WorkerSearches(x, o)
  BY <1>2, <1>6 DEF Manual!Crash, Manual!WorkerSearches
<1> QED
  BY <1>4, <1>5, <1>6 DEF Manual!WorkerStep

(* A retry starts a search under a key that has started none.              *)
LEMMA RetryKeeps ==
    ASSUME SearchIInv, NEW r \in Retries, Manual!RetryCommits(r)
    PROVE  SearchIInv'
<1>1. NoAttempts' /\ ds_claims' = ds_claims
  BY DEF SearchIInv, NoAttempts, Manual!RetryCommits, Manual!agentVars, Manual!Attempts
<1>2. ds_req' \in [Retries -> SearchKeys \cup {"idle"}]
  BY DEF SearchIInv, JobsTyped, Manual!RetryCommits
<1>3. CASE UNCHANGED <<ds_ses, ds_job, ds_keys, ds_started>>
  BY <1>1, <1>2, <1>3 DEF SearchIInv, JobsTyped, JobTells, KeysStarted
<1>4. CASE ds_req[r] \notin ds_keys /\ ds_ses = "failed" /\ Manual!RetryFailedSession(ds_req[r])
  <2>1. PICK k \in SearchKeys : k = ds_req[r] /\ k \notin ds_keys
    BY <1>4 DEF SearchIInv, JobsTyped, Manual!RetryCommits
  <2>2. /\ ds_ses' = "searching" /\ ds_job' = [status |-> "queued", attempt |-> 0, token |-> 0]
        /\ ds_keys' = ds_keys \cup {k} /\ ds_started' = [ds_started EXCEPT ![k] = @ + 1]
    BY <1>4, <2>1 DEF Manual!RetryFailedSession, Manual!Queued
  <2>3. ds_started \in [SearchKeys -> Nat] /\ ds_started[k] = 0
    BY <2>1 DEF SearchIInv, JobsTyped, KeysStarted
  <2>4. JobsTyped' /\ JobTells'
    <3>1. ds_started' \in [SearchKeys -> Nat]
      BY <2>2, <2>3
    <3>2. ds_job' \in [status : Manual!JobStatuses, attempt : Nat, token : Nat]
      BY <2>2 DEF Manual!JobStatuses
    <3> QED
      BY <1>1, <1>2, <2>2, <3>1, <3>2 DEF SearchIInv, JobsTyped, JobTells, Manual!SessionRows
  <2>5. KeysStarted'
    BY <2>1, <2>2, <2>3 DEF SearchIInv, KeysStarted
  <2> QED
    BY <1>1, <2>4, <2>5 DEF SearchIInv
<1> QED
  BY <1>3, <1>4 DEF Manual!RetryCommits

LEMMA SearchStep ==
    Manual!DiscoverySessionsAssumption /\ SearchIInv /\ [Manual!Next]_(Manual!vars) => SearchIInv'
<1> SUFFICES ASSUME Manual!DiscoverySessionsAssumption, SearchIInv, [Manual!Next]_(Manual!vars)
             PROVE  SearchIInv'
  OBVIOUS
<1>1. CASE UNCHANGED Manual!vars
  BY <1>1 DEF Manual!vars, SearchIInv, JobsTyped, NoAttempts, JobTells, KeysStarted
<1>2. CASE Manual!CreateSession
  BY <1>2 DEF Manual!CreateSession, SearchIInv, JobsTyped, NoAttempts, JobTells, KeysStarted,
     Manual!Queued, Manual!agentVars, Manual!retryVars, Manual!JobStatuses, Manual!SessionRows,
     Manual!Attempts
<1>3. CASE Manual!LeaseExpires
  BY <1>3 DEF Manual!LeaseExpires, SearchIInv, JobsTyped, NoAttempts, JobTells, KeysStarted,
     Manual!agentVars, Manual!retryVars, Manual!Attempts
<1>4. ASSUME NEW r \in Retries, NEW k \in SearchKeys, Manual!RetryReads(r, k)
      PROVE  SearchIInv'
  BY <1>4 DEF Manual!RetryReads, SearchIInv, JobsTyped, NoAttempts, JobTells, KeysStarted,
     Manual!agentVars, Manual!Attempts
<1>5. 1 \in Manual!Attempts
  BY DEF Manual!Attempts
<1>6. ~Manual!TakeOver /\ ~Manual!RunEnds
  BY <1>5, NoAttemptActs DEF SearchIInv
<1>7. \A a \in Manual!Attempts : ~Manual!AttemptStep(a) /\ ~Manual!AttemptStops(a)
  BY NoAttemptActs DEF SearchIInv
<1> QED
  BY <1>1, <1>2, <1>3, <1>4, <1>6, <1>7, ClaimKeeps, WorkerKeeps, RetryKeeps DEF Manual!Next

(* Nobody touches a session that is ready: an answer is stored only while  *)
(* the session searches, and a retry starts from a failed one.             *)
LEMMA ReadyStays ==
    ASSUME ds_ses = "ready", Manual!Next \/ Chats!Next
    PROVE  UNCHANGED <<ds_ses, ds_cand>>
<1>1. CASE Manual!Next
  <2>1. ASSUME NEW a \in Manual!Attempts, Manual!AttemptStep(a) \/ Manual!AttemptStops(a)
        PROVE  UNCHANGED <<ds_ses, ds_cand>>
    BY <2>1 DEF Manual!AttemptStep, Manual!AttemptStops, Manual!Ensure, Manual!AttemptSearches,
       Manual!CompleteAgentSession, Manual!FailAgentSession
  <2>2. ASSUME NEW x, Manual!Claim(x) \/ Manual!WorkerStep(x) \/ Manual!Crash(x)
        PROVE  UNCHANGED <<ds_ses, ds_cand>>
    BY <2>2 DEF Manual!Claim, Manual!Exhaust, Manual!Take, Manual!PutBack, Manual!WorkerStep,
       Manual!WorkerSearches, Manual!CompleteSearch, Manual!FailSearch, Manual!Holds, Manual!Crash
  <2>3. ASSUME NEW r, Manual!RetryCommits(r) \/ \E k : Manual!RetryReads(r, k)
        PROVE  UNCHANGED <<ds_ses, ds_cand>>
    BY <2>3 DEF Manual!RetryCommits, Manual!RetryReads
  <2>4. CASE Manual!CreateSession \/ Manual!TakeOver \/ Manual!RunEnds \/ Manual!LeaseExpires
    BY <2>4 DEF Manual!CreateSession, Manual!TakeOver, Manual!RunEnds, Manual!LeaseExpires
  <2> QED
    BY <1>1, <2>1, <2>2, <2>3, <2>4 DEF Manual!Next
<1>2. CASE Chats!Next
  <2>1. ASSUME NEW a \in Chats!Attempts, Chats!AttemptStep(a) \/ Chats!AttemptStops(a)
        PROVE  UNCHANGED <<ds_ses, ds_cand>>
    BY <2>1 DEF Chats!AttemptStep, Chats!AttemptStops, Chats!Ensure, Chats!AttemptSearches,
       Chats!CompleteAgentSession, Chats!FailAgentSession
  <2>2. ASSUME NEW x, Chats!Claim(x) \/ Chats!WorkerStep(x) \/ Chats!Crash(x)
        PROVE  UNCHANGED <<ds_ses, ds_cand>>
    BY <2>2 DEF Chats!Claim, Chats!Exhaust, Chats!Take, Chats!PutBack, Chats!WorkerStep,
       Chats!WorkerSearches, Chats!CompleteSearch, Chats!FailSearch, Chats!Holds, Chats!Crash
  <2>3. ASSUME NEW r, Chats!RetryCommits(r) \/ \E k : Chats!RetryReads(r, k)
        PROVE  UNCHANGED <<ds_ses, ds_cand>>
    BY <2>3 DEF Chats!RetryCommits, Chats!RetryReads
  <2>4. CASE Chats!CreateSession \/ Chats!TakeOver \/ Chats!RunEnds \/ Chats!LeaseExpires
    BY <2>4 DEF Chats!CreateSession, Chats!TakeOver, Chats!RunEnds, Chats!LeaseExpires
  <2> QED
    BY <1>2, <2>1, <2>2, <2>3, <2>4 DEF Chats!Next
<1> QED
  BY <1>1, <1>2

-----------------------------------------------------------------------------
(* Sharing, with any Users, resends, transfers and Chats. *)

Notes(users, again, transfers, writers, deletes) == INSTANCE Sharing WITH
    Founder <- NotebookFounder, Users <- users, Notebooks <- SharedNotebooks,
    Keys <- OfferKeys, AcceptKeys <- OfferAcceptKeys, Limit <- MemberLimit,
    MaxInvites <- OfferBound, MaxResends <- again,
    MaxTransfers <- transfers, Handlers <- OfferHandlers,
    Writers <- writers, Deletes <- deletes, alive <- sh_alive,
    role <- sh_role, inv <- sh_inv, created <- sh_created,
    accepted <- sh_accepted, requests <- sh_requests, answer <- sh_answer,
    chats <- sh_chats, inserted <- sh_inserted, deleting <- sh_deleting,
    told <- sh_told, resends <- sh_resends, transfers <- sh_transfers

(* Of a Notebook: who shares it, its Owners, and its offers.               *)
Joined(users, n) == {u \in users : sh_role[n][u] \in {"viewer", "editor"}}
Owners(users, n) == {u \in users : sh_role[n][u] = "owner"}
Offered(n) == {i \in 1..OfferBound : sh_inv[i].state = "pending" /\ sh_inv[i].nb = n}
Standing(n) == {i \in Offered(n) : ~sh_inv[i].due}

OfferStates == {"none", "pending", "expired", "revoked", "accepted", "gone"}
OfferRows(users) ==
    [state : OfferStates, nb : SharedNotebooks \cup {"none"}, to : users \cup {"none"},
     gen : Nat, due : BOOLEAN]

(* A pending offer is of a Notebook that exists.                           *)
SharesTyped(users) ==
    /\ sh_alive \subseteq SharedNotebooks
    /\ sh_role \in [SharedNotebooks -> [users -> {"none", "viewer", "editor", "owner"}]]
    /\ sh_inv \in [1..OfferBound -> OfferRows(users)]
    /\ \A i \in 1..OfferBound :
          /\ sh_inv[i].state = "pending" => sh_inv[i].nb \in sh_alive
          /\ sh_inv[i].state \in {"pending", "expired"} => sh_inv[i].to \in users
    /\ \A p \in sh_requests : p.req.inv \in 1..OfferBound
    /\ \A d \in sh_deleting : d.nb \in SharedNotebooks
    /\ sh_resends \in Nat

OwnersHold(users) ==
    \A n \in SharedNotebooks : \/ n \in sh_alive /\ \E o \in users : Owners(users, n) = {o}
                               \/ n \notin sh_alive /\ Owners(users, n) = {}

SingleOffers ==
    \A n \in SharedNotebooks : \A i, j \in Offered(n) : sh_inv[i].to = sh_inv[j].to => i = j

(* Everyone who joined, or was offered to, has a place.                    *)
PlacesHold(users) ==
    \A n \in SharedNotebooks :
        /\ IsFiniteSet(Joined(users, n))
        /\ Cardinality(Joined(users, n)) + Cardinality(Standing(n)) <= MemberLimit
        /\ \A i \in Standing(n) : sh_role[n][sh_inv[i].to] = "none"

(* Places are kept as long as no offer is made again.                      *)
SharesIInv(users, again) ==
    /\ SharesTyped(users) /\ OwnersHold(users) /\ SingleOffers
    /\ again = 0 => PlacesHold(users)

(* The assumptions on the constants, as the proofs use them.               *)
SharingBounds(users) == NotebookFounder \in users /\ MemberLimit \in Nat /\ OfferBound \in Nat

(* A set of offers is finite.                                              *)
LEMMA OffersFinite ==
    ASSUME OfferBound \in Nat, NEW S, S \subseteq 1..OfferBound
    PROVE  IsFiniteSet(S) /\ Cardinality(S) \in Nat
<1>1. IsFiniteSet(1..OfferBound)
  BY FS_Interval
<1> QED
  BY <1>1, FS_Subset, FS_CardinalityType

(* Offers only end, or grow due: nobody gets a place.                      *)
LEMMA OffersEnd ==
    ASSUME NEW users, NEW again, SharingBounds(users), SharesIInv(users, again),
           UNCHANGED <<sh_alive, sh_role, sh_resends>>,
           sh_inv' \in [1..OfferBound -> OfferRows(users)],
           \A i \in 1..OfferBound :
              /\ sh_inv'[i].nb = sh_inv[i].nb /\ sh_inv'[i].to = sh_inv[i].to
              /\ sh_inv'[i].state = "pending" => sh_inv[i].state = "pending"
              /\ sh_inv'[i].state = "expired" => sh_inv[i].state \in {"pending", "expired"}
              /\ ~sh_inv'[i].due => ~sh_inv[i].due,
           \A p \in sh_requests' : p.req.inv \in 1..OfferBound,
           \A d \in sh_deleting' : d.nb \in SharedNotebooks
    PROVE  SharesIInv(users, again)'
<1>1. SharesTyped(users)' /\ OwnersHold(users)'
  BY DEF SharesIInv, SharesTyped, OwnersHold, Owners
<1>2. ASSUME NEW n PROVE Offered(n)' \subseteq Offered(n) /\ Standing(n)' \subseteq Standing(n)
  BY DEF Offered, Standing
<1>3. SingleOffers'
  BY <1>2 DEF SharesIInv, SingleOffers, Offered
<1>4. ASSUME again = 0 PROVE PlacesHold(users)'
  <2>1. SUFFICES ASSUME NEW n \in SharedNotebooks
        PROVE  /\ IsFiniteSet(Joined(users, n)')
               /\ Cardinality(Joined(users, n)') + Cardinality(Standing(n)') <= MemberLimit
               /\ \A i \in Standing(n)' : sh_role'[n][sh_inv'[i].to] = "none"
    BY DEF PlacesHold
  <2>2. Joined(users, n)' = Joined(users, n)
    BY DEF Joined
  <2>3. /\ IsFiniteSet(Joined(users, n))
        /\ Cardinality(Joined(users, n)) + Cardinality(Standing(n)) <= MemberLimit
        /\ \A i \in Standing(n) : sh_role[n][sh_inv[i].to] = "none"
    BY <1>4 DEF SharesIInv, PlacesHold
  <2>4. IsFiniteSet(Standing(n)) /\ Standing(n) \subseteq 1..OfferBound
    BY OffersFinite DEF SharingBounds, Standing, Offered
  <2>5. Cardinality(Standing(n)') <= Cardinality(Standing(n))
    BY <1>2, <2>4, FS_Subset
  <2>6. Cardinality(Joined(users, n)) \in Nat /\ Cardinality(Standing(n)) \in Nat
        /\ Cardinality(Standing(n)') \in Nat
    BY <1>2, <2>3, <2>4, FS_Subset, FS_CardinalityType
  <2>7. Cardinality(Joined(users, n)') + Cardinality(Standing(n)') <= MemberLimit
    BY <2>2, <2>3, <2>5, <2>6 DEF SharingBounds
  <2>8. \A i \in Standing(n)' : sh_role'[n][sh_inv'[i].to] = "none"
    BY <1>2, <2>3 DEF Standing, Offered
  <2> QED
    BY <2>2, <2>3, <2>7, <2>8
<1> QED
  BY <1>1, <1>3, <1>4 DEF SharesIInv

(* A finite set of numbers has a least one.                                *)
LEMMA LeastOfFinite ==
    ASSUME NEW S \in SUBSET Int, IsFiniteSet(S), S # {}
    PROVE  \E i \in S : \A j \in S : i <= j
<1> DEFINE Below(i) == {j \in S : j < i}
           T == {Below(i) : i \in S}
<1>1. IsWellFoundedOn(StrictSubsetOrdering(S), FiniteSubsetsOf(S))
  BY FS_StrictSubsetOrderingWellFounded
<1>2. T \subseteq FiniteSubsetsOf(S) /\ T # {}
  <2>1. \A i \in S : Below(i) \subseteq S /\ IsFiniteSet(Below(i))
    BY FS_Subset
  <2>2. T # {}
    OBVIOUS
  <2> HIDE DEF Below
  <2> QED
    BY <2>1, <2>2 DEF FiniteSubsetsOf
<1>3. PICK x \in T : \A y \in T : ~(<<y, x>> \in StrictSubsetOrdering(S))
  <2> HIDE DEF T
  <2> QED
    BY <1>1, <1>2, WFMin
<1>4. PICK i \in S : x = Below(i)
  BY <1>3
<1>5. ASSUME NEW j \in S, j < i PROVE FALSE
  <2>1. Below(j) \subseteq Below(i) /\ Below(j) # Below(i)
    <3>1. j \in Below(i) /\ j \notin Below(j)
      BY <1>5
    <3>2. \A k \in Below(j) : k \in Below(i)
      BY <1>5
    <3> QED
      BY <3>1, <3>2
  <2>2. <<Below(j), Below(i)>> \in StrictSubsetOrdering(S)
    BY <2>1 DEF StrictSubsetOrdering
  <2> QED
    BY <1>3, <1>4, <2>2
<1> QED
  BY <1>5

(* The new offer takes a row that was free.                                *)
LEMMA FreeOffer ==
    ASSUME OfferBound \in Nat, NEW S \in SUBSET (1..OfferBound), S # {}
    PROVE  (CHOOSE f \in S : \A g \in S : f <= g) \in S
<1>1. S \subseteq 1..OfferBound /\ S \in SUBSET Int
  OBVIOUS
<1>2. IsFiniteSet(S)
  BY <1>1, OffersFinite
<1> QED
  BY <1>1, <1>2, LeastOfFinite

(* CreateInvitation: neither a Member nor offered, and below the limit.    *)
LEMMA CreateKeeps ==
    ASSUME NEW users, NEW again, NEW transfers, NEW writers, NEW deletes,
           SharingBounds(users), SharesIInv(users, again),
           NEW n \in sh_alive, NEW u \in users, NEW to \in users, NEW k, Notes(users, again, transfers, writers, deletes)!CreateInvitation(n, u, to, k)
    PROVE  SharesIInv(users, again)'
<1> DEFINE i == CHOOSE f \in Notes(users, again, transfers, writers, deletes)!Free : \A g \in Notes(users, again, transfers, writers, deletes)!Free : f <= g
<1>1. /\ UNCHANGED <<sh_alive, sh_role, sh_requests, sh_deleting, sh_resends>>
      /\ sh_inv' = [Notes(users, again, transfers, writers, deletes)!Overdue(n) EXCEPT ![i] = Notes(users, again, transfers, writers, deletes)!Offer(n, to)]
  BY DEF Notes!CreateInvitation, Notes!accepts, Notes!private, Notes!removal, Notes!bounds
<1>2. i \in Notes(users, again, transfers, writers, deletes)!Free
  <2>1. Notes(users, again, transfers, writers, deletes)!Free # {} /\ Notes(users, again, transfers, writers, deletes)!Free \in SUBSET (1..OfferBound)
    BY DEF Notes!CreateInvitation, Notes!Free, Notes!Invites
  <2> HIDE DEF Notes!Free
  <2> QED
    BY <2>1, FreeOffer DEF SharingBounds
<1>3. i \in 1..OfferBound /\ sh_inv[i].state = "none"
  BY <1>2 DEF Notes!Free, Notes!Invites, Notes!NoInvite
<1> HIDE DEF i
<1>4. n \in SharedNotebooks /\ \A j \in Offered(n) : sh_inv[j].to = to => sh_inv[j].due
  BY DEF SharesIInv, SharesTyped, Notes!CreateInvitation, Notes!Admits, Notes!Pending, Offered, Notes!Invites
<1>5. sh_inv'[i] = [state |-> "pending", nb |-> n, to |-> to, gen |-> 1, due |-> FALSE]
  BY <1>1, <1>3 DEF Notes!Overdue, Notes!Offer, Notes!Invites
<1>6. ASSUME NEW j \in 1..OfferBound, j # i
      PROVE  /\ j \in Offered(n) /\ sh_inv[j].due => sh_inv'[j] = [sh_inv[j] EXCEPT !.state = "expired"]
             /\ ~(j \in Offered(n) /\ sh_inv[j].due) => sh_inv'[j] = sh_inv[j]
  BY <1>1, <1>6 DEF Notes!Overdue, Notes!Pending, Notes!Invites, Offered
<1>7. ASSUME NEW j \in 1..OfferBound, j # i
      PROVE  /\ sh_inv'[j] \in OfferRows(users)
             /\ sh_inv'[j].state = "pending" => sh_inv'[j] = sh_inv[j] /\ ~(j \in Offered(n) /\ sh_inv[j].due)
             /\ sh_inv'[j].state = "expired" => sh_inv[j].state \in {"pending", "expired"}
             /\ sh_inv'[j].to = sh_inv[j].to
  <2>1. sh_inv[j] \in OfferRows(users)
    BY DEF SharesIInv, SharesTyped
  <2>2. CASE j \in Offered(n) /\ sh_inv[j].due
    <3>1. sh_inv'[j] = [state |-> "expired", nb |-> sh_inv[j].nb, to |-> sh_inv[j].to,
                        gen |-> sh_inv[j].gen, due |-> sh_inv[j].due]
      BY <1>6, <1>7, <2>1, <2>2 DEF OfferRows
    <3> QED
      BY <2>1, <2>2, <3>1 DEF OfferRows, OfferStates, Offered
  <2>3. CASE ~(j \in Offered(n) /\ sh_inv[j].due)
    BY <1>6, <1>7, <2>1, <2>3
  <2> QED
    BY <2>2, <2>3
<1>8. SharesTyped(users)'
  <2>1. DOMAIN sh_inv' = 1..OfferBound
    BY <1>1 DEF Notes!Overdue, Notes!Invites
  <2>2. sh_inv'[i] \in OfferRows(users)
    BY <1>4, <1>5 DEF OfferRows, OfferStates
  <2>3. sh_inv' = [j \in 1..OfferBound |-> sh_inv'[j]]
    BY <1>1 DEF Notes!Overdue, Notes!Invites
  <2>4. sh_inv' \in [1..OfferBound -> OfferRows(users)]
    BY <1>7, <2>2, <2>3
  <2>5. ASSUME NEW j \in 1..OfferBound
        PROVE  /\ sh_inv'[j].state = "pending" => sh_inv'[j].nb \in sh_alive
               /\ sh_inv'[j].state \in {"pending", "expired"} => sh_inv'[j].to \in users
    BY <1>5, <1>7 DEF SharesIInv, SharesTyped
  <2> QED
    BY <1>1, <2>4, <2>5 DEF SharesIInv, SharesTyped
<1>9. OwnersHold(users)'
  BY <1>1 DEF SharesIInv, OwnersHold, Owners
<1>10. ASSUME NEW j \in Offered(n)', j # i PROVE j \in Offered(n) /\ sh_inv'[j] = sh_inv[j] /\ sh_inv[j].to # to
  BY <1>4, <1>7, <1>10 DEF Offered
<1>11. ASSUME NEW m, NEW j \in Offered(m)', j # i PROVE j \in Offered(m) /\ sh_inv'[j] = sh_inv[j]
  BY <1>7, <1>11 DEF Offered
<1>12. \A m : i \in Offered(m)' => m = n
  BY <1>5 DEF Offered
<1>13. SingleOffers'
  <2>1. SUFFICES ASSUME NEW m \in SharedNotebooks, NEW x \in Offered(m)', NEW y \in Offered(m)',
                        sh_inv'[x].to = sh_inv'[y].to
        PROVE  x = y
    BY DEF SingleOffers
  <2>2. CASE x # i /\ y # i
    BY <1>11, <2>1, <2>2 DEF SharesIInv, SingleOffers
  <2>3. CASE x = i \/ y = i
    BY <1>5, <1>10, <1>12, <2>1, <2>3
  <2> QED
    BY <2>2, <2>3
<1>14. ASSUME again = 0 PROVE PlacesHold(users)'
  <2>1. SUFFICES ASSUME NEW m \in SharedNotebooks
        PROVE  /\ IsFiniteSet(Joined(users, m)')
               /\ Cardinality(Joined(users, m)') + Cardinality(Standing(m)') <= MemberLimit
               /\ \A j \in Standing(m)' : sh_role'[m][sh_inv'[j].to] = "none"
    BY DEF PlacesHold
  <2>2. Joined(users, m)' = Joined(users, m)
    BY <1>1 DEF Joined
  <2>3. /\ IsFiniteSet(Joined(users, m))
        /\ Cardinality(Joined(users, m)) + Cardinality(Standing(m)) <= MemberLimit
        /\ \A j \in Standing(m) : sh_role[m][sh_inv[j].to] = "none"
    BY <1>14 DEF SharesIInv, PlacesHold
  <2>4. IsFiniteSet(Standing(m)) /\ Standing(m) \subseteq 1..OfferBound
    BY OffersFinite DEF SharingBounds, Standing, Offered
  <2>5. ASSUME NEW j \in Standing(m)', j # i PROVE j \in Standing(m) /\ sh_inv'[j] = sh_inv[j]
    BY <1>11, <2>5 DEF Standing
  <2>6. Cardinality(Joined(users, m)) \in Nat /\ Cardinality(Standing(m)) \in Nat
    BY <2>3, <2>4, FS_CardinalityType
  <2>7. CASE m # n
    <3>1. Standing(m)' \subseteq Standing(m)
      BY <1>12, <2>5, <2>7 DEF Standing
    <3>2. Cardinality(Standing(m)') <= Cardinality(Standing(m)) /\ Cardinality(Standing(m)') \in Nat
      BY <2>4, <3>1, FS_Subset, FS_CardinalityType
    <3>3. \A j \in Standing(m)' : sh_role'[m][sh_inv'[j].to] = "none"
      BY <1>1, <1>12, <2>3, <2>5, <2>7 DEF Standing
    <3>4. Cardinality(Joined(users, m)') + Cardinality(Standing(m)') <= MemberLimit
      BY <2>2, <2>3, <2>6, <3>2 DEF SharingBounds
    <3> QED
      BY <2>2, <2>3, <3>3, <3>4
  <2>8. CASE m = n
    <3>1. Standing(m)' \subseteq Standing(m) \cup {i}
      BY <2>5
    <3>2. IsFiniteSet(Standing(m) \cup {i}) /\ Cardinality(Standing(m) \cup {i}) <= Cardinality(Standing(m)) + 1
          /\ Cardinality(Standing(m) \cup {i}) \in Nat
      <4>1. /\ IsFiniteSet(Standing(m) \cup {i})
            /\ Cardinality(Standing(m) \cup {i}) = IF i \in Standing(m) THEN Cardinality(Standing(m))
                                                   ELSE Cardinality(Standing(m)) + 1
        BY <2>4, FS_AddElement
      <4> QED
        BY <2>6, <4>1
    <3>3. Cardinality(Standing(m)') <= Cardinality(Standing(m) \cup {i}) /\ Cardinality(Standing(m)') \in Nat
      BY <3>1, <3>2, FS_Subset, FS_CardinalityType
    <3>4. Cardinality(Joined(users, m)) + Cardinality(Standing(m)) < MemberLimit
      <4>1. Notes(users, again, transfers, writers, deletes)!Reserved(n) < MemberLimit
        BY DEF Notes!CreateInvitation, Notes!Admits
      <4>2. Notes(users, again, transfers, writers, deletes)!Effective(n) = Standing(n)
        BY DEF Notes!Effective, Notes!Pending, Notes!Invites, Standing, Offered
      <4>3. {x \in users : sh_role[n][x] \in {"viewer", "editor"}} = Joined(users, n)
        BY DEF Joined
      <4>4. \A S : Notes(users, again, transfers, writers, deletes)!Cardinality(S) = Cardinality(S)
        BY DEF Notes!Cardinality, Cardinality
      <4> QED
        BY <2>8, <4>1, <4>2, <4>3, <4>4 DEF Notes!Reserved
    <3>5. Cardinality(Joined(users, m)') + Cardinality(Standing(m)') <= MemberLimit
      BY <2>2, <2>6, <3>2, <3>3, <3>4 DEF SharingBounds
    <3>6. sh_role[n][to] = "none"
      BY DEF Notes!CreateInvitation, Notes!Admits, Notes!Member
    <3>7. \A j \in Standing(m)' : sh_role'[m][sh_inv'[j].to] = "none"
      BY <1>1, <1>5, <2>3, <2>5, <2>8, <3>6
    <3> QED
      BY <2>2, <2>3, <3>5, <3>7
  <2> QED
    BY <2>7, <2>8
<1> QED
  BY <1>8, <1>9, <1>13, <1>14 DEF SharesIInv

(* Resend: nobody else has an offer of the Notebook by then.               *)
LEMMA ResendKeeps ==
    ASSUME NEW users, NEW again, NEW transfers, NEW writers, NEW deletes,
           SharingBounds(users), SharesIInv(users, again),
           NEW n \in sh_alive, NEW u \in users, NEW i \in 1..OfferBound, Notes(users, again, transfers, writers, deletes)!Resend(n, u, i)
    PROVE  SharesIInv(users, again)'
<1>1. /\ UNCHANGED <<sh_alive, sh_role, sh_requests, sh_deleting>>
      /\ sh_inv' = [sh_inv EXCEPT ![i].state = "pending", ![i].gen = @ + 1, ![i].due = FALSE]
      /\ sh_inv[i].nb = n /\ sh_inv[i].state \in {"pending", "expired"}
      /\ \A j \in Offered(n) \ {i} : sh_inv[j].to # sh_inv[i].to
      /\ sh_resends < again /\ sh_resends' = sh_resends + 1
  BY DEF Notes!Resend, Notes!accepts, Notes!private, Notes!removal, Notes!Pending, Notes!Invites, Offered
<1>2. sh_inv[i] \in OfferRows(users) /\ sh_resends \in Nat /\ sh_inv[i].to \in users
  BY <1>1 DEF SharesIInv, SharesTyped
<1>3. sh_inv'[i] = [sh_inv[i] EXCEPT !.state = "pending", !.gen = @ + 1, !.due = FALSE]
  BY <1>1 DEF SharesIInv, SharesTyped
<1>4. sh_inv'[i] = [state |-> "pending", nb |-> n, to |-> sh_inv[i].to, gen |-> sh_inv[i].gen + 1, due |-> FALSE]
  <2>1. PICK row \in OfferRows(users) : row = sh_inv[i]
    BY <1>2
  <2>2. sh_inv'[i] = [row EXCEPT !.state = "pending", !.gen = row.gen + 1, !.due = FALSE]
    BY <1>3, <2>1
  <2>3. sh_inv'[i] = [state |-> "pending", nb |-> row.nb, to |-> row.to, gen |-> row.gen + 1, due |-> FALSE]
    BY <2>2 DEF OfferRows
  <2> QED
    BY <1>1, <2>1, <2>3
<1>5. \A j \in 1..OfferBound : j # i => sh_inv'[j] = sh_inv[j]
  BY <1>1 DEF SharesIInv, SharesTyped
<1>6. SharesTyped(users)'
  <2>1. sh_inv'[i] \in OfferRows(users)
    BY <1>2, <1>4 DEF OfferRows, OfferStates, SharesIInv, SharesTyped
  <2>2. sh_inv' = [j \in 1..OfferBound |-> sh_inv'[j]]
    BY <1>1 DEF SharesIInv, SharesTyped
  <2>3. sh_inv' \in [1..OfferBound -> OfferRows(users)]
    BY <1>5, <2>1, <2>2 DEF SharesIInv, SharesTyped
  <2>4. \A j \in 1..OfferBound :
           /\ sh_inv'[j].state = "pending" => sh_inv'[j].nb \in sh_alive
           /\ sh_inv'[j].state \in {"pending", "expired"} => sh_inv'[j].to \in users
    BY <1>2, <1>4, <1>5 DEF SharesIInv, SharesTyped
  <2>5. sh_resends' \in Nat
    BY <1>1, <1>2
  <2> QED
    BY <1>1, <2>3, <2>4, <2>5 DEF SharesIInv, SharesTyped
<1>7. OwnersHold(users)'
  BY <1>1 DEF SharesIInv, OwnersHold, Owners
<1>8. SingleOffers'
  <2>1. ASSUME NEW m, NEW j \in Offered(m)', j # i
        PROVE  j \in Offered(m) /\ sh_inv'[j] = sh_inv[j]
    BY <1>5, <2>1 DEF Offered
  <2>2. ASSUME NEW j \in Offered(n)', j # i PROVE sh_inv'[j].to # sh_inv'[i].to
    <3>1. j \in Offered(n) /\ sh_inv'[j] = sh_inv[j]
      BY <2>1, <2>2
    <3> QED
      BY <1>1, <1>4, <2>2, <3>1
  <2>3. \A m : i \in Offered(m)' => m = n
    BY <1>4 DEF Offered
  <2>4. SUFFICES ASSUME NEW m \in SharedNotebooks, NEW x \in Offered(m)', NEW y \in Offered(m)',
                        sh_inv'[x].to = sh_inv'[y].to
        PROVE  x = y
    BY DEF SingleOffers
  <2>5. CASE x # i /\ y # i
    BY <2>1, <2>4, <2>5 DEF SharesIInv, SingleOffers
  <2>6. CASE x = i \/ y = i
    BY <2>2, <2>3, <2>4, <2>6
  <2> QED
    BY <2>5, <2>6
<1>9. again # 0
  BY <1>1, <1>2
<1> QED
  BY <1>6, <1>7, <1>8, <1>9 DEF SharesIInv

(* AcceptInvitation: the offer gives its place to the Member.              *)
LEMMA AcceptKeeps ==
    ASSUME NEW users, NEW again, NEW transfers, NEW writers, NEW deletes,
           SharingBounds(users), SharesIInv(users, again), NEW p \in sh_requests, Notes(users, again, transfers, writers, deletes)!Accept(p)
    PROVE  SharesIInv(users, again)'
<1>1. /\ UNCHANGED <<sh_alive, sh_deleting, sh_resends>> /\ sh_requests' \subseteq sh_requests
      /\ p.req.inv \in 1..OfferBound
  BY DEF Notes!Accept, Notes!private, Notes!removal, Notes!bounds, SharesIInv, SharesTyped
<1>2. CASE UNCHANGED <<sh_role, sh_inv>>
  BY <1>1, <1>2, OffersEnd DEF SharesIInv, SharesTyped
<1>3. CASE Notes(users, again, transfers, writers, deletes)!Opens(p.req) /\ ~Notes(users, again, transfers, writers, deletes)!Member(sh_inv[p.req.inv].nb, p.req.user)
  <2>1. PICK i \in 1..OfferBound : i = p.req.inv
    BY <1>1
  <2>2. PICK u : u = p.req.user
    OBVIOUS
  <2>3. PICK n : n = sh_inv[i].nb
    OBVIOUS
  <2>4. /\ sh_inv[i].state = "pending" /\ ~sh_inv[i].due /\ sh_inv[i].to = u
        /\ sh_role[n][u] = "none"
    BY <1>3, <2>1, <2>2, <2>3 DEF Notes!Opens, Notes!Member
  <2>5. /\ sh_role' = [sh_role EXCEPT ![n][u] = "viewer"]
        /\ sh_inv' = [sh_inv EXCEPT ![i].state = "accepted"]
    BY <1>3, <2>1, <2>2, <2>3 DEF Notes!Accept
  <2>6. n \in sh_alive /\ n \in SharedNotebooks /\ u \in users /\ sh_inv[i] \in OfferRows(users)
    BY <2>3, <2>4 DEF SharesIInv, SharesTyped
  <2>7. sh_inv'[i] = [state |-> "accepted", nb |-> n, to |-> u, gen |-> sh_inv[i].gen, due |-> sh_inv[i].due]
    <3>1. sh_inv'[i] = [sh_inv[i] EXCEPT !.state = "accepted"]
      BY <2>5 DEF SharesIInv, SharesTyped
    <3> QED
      BY <2>3, <2>4, <2>6, <3>1 DEF OfferRows
  <2>8. \A j \in 1..OfferBound : j # i => sh_inv'[j] = sh_inv[j]
    BY <2>5
  <2>9. /\ sh_role'[n][u] = "viewer"
        /\ \A m \in SharedNotebooks, x \in users : <<m, x>> # <<n, u>> => sh_role'[m][x] = sh_role[m][x]
    BY <2>5, <2>6 DEF SharesIInv, SharesTyped
  <2>10. sh_role' \in [SharedNotebooks -> [users -> {"none", "viewer", "editor", "owner"}]]
    BY <2>5, <2>6 DEF SharesIInv, SharesTyped
  <2>11. SharesTyped(users)'
    <3>1. sh_inv'[i] \in OfferRows(users)
      BY <2>6, <2>7 DEF OfferRows, OfferStates
    <3>2. sh_inv' = [j \in 1..OfferBound |-> sh_inv'[j]]
      BY <2>5 DEF SharesIInv, SharesTyped
    <3>3. sh_inv' \in [1..OfferBound -> OfferRows(users)]
      BY <2>8, <3>1, <3>2 DEF SharesIInv, SharesTyped
    <3>4. \A j \in 1..OfferBound :
             /\ sh_inv'[j].state = "pending" => sh_inv'[j].nb \in sh_alive
             /\ sh_inv'[j].state \in {"pending", "expired"} => sh_inv'[j].to \in users
      BY <2>7, <2>8 DEF SharesIInv, SharesTyped
    <3> QED
      BY <1>1, <2>10, <3>3, <3>4 DEF SharesIInv, SharesTyped
  <2>12. OwnersHold(users)'
    <3>1. ASSUME NEW m \in SharedNotebooks PROVE Owners(users, m)' = Owners(users, m)
      BY <2>4, <2>9 DEF Owners
    <3> QED
      BY <1>1, <3>1 DEF SharesIInv, OwnersHold
  <2>13. ASSUME NEW m, NEW j \in Offered(m)'
         PROVE  j \in Offered(m) /\ j # i /\ sh_inv'[j] = sh_inv[j]
    BY <2>7, <2>8 DEF Offered
  <2>14. SingleOffers'
    BY <2>13 DEF SharesIInv, SingleOffers
  <2>15. ASSUME again = 0 PROVE PlacesHold(users)'
    <3>1. SUFFICES ASSUME NEW m \in SharedNotebooks
          PROVE  /\ IsFiniteSet(Joined(users, m)')
                 /\ Cardinality(Joined(users, m)') + Cardinality(Standing(m)') <= MemberLimit
                 /\ \A j \in Standing(m)' : sh_role'[m][sh_inv'[j].to] = "none"
      BY DEF PlacesHold
    <3>2. /\ IsFiniteSet(Joined(users, m))
          /\ Cardinality(Joined(users, m)) + Cardinality(Standing(m)) <= MemberLimit
          /\ \A j \in Standing(m) : sh_role[m][sh_inv[j].to] = "none"
      BY <2>15 DEF SharesIInv, PlacesHold
    <3>3. IsFiniteSet(Standing(m)) /\ Standing(m) \subseteq 1..OfferBound
      BY OffersFinite DEF SharingBounds, Standing, Offered
    <3>4. ASSUME NEW j \in Standing(m)'
          PROVE  j \in Standing(m) /\ j # i /\ sh_inv'[j] = sh_inv[j] /\ sh_inv[j].to \in users
      BY <2>13 DEF Standing, Offered, SharesIInv, SharesTyped
    <3>5. Cardinality(Joined(users, m)) \in Nat /\ Cardinality(Standing(m)) \in Nat
      BY <3>2, <3>3, FS_CardinalityType
    <3>6. CASE m # n
      <4>1. Joined(users, m)' = Joined(users, m)
        BY <2>9, <3>6 DEF Joined
      <4>2. Standing(m)' \subseteq Standing(m)
        BY <3>4
      <4>3. Cardinality(Standing(m)') <= Cardinality(Standing(m)) /\ Cardinality(Standing(m)') \in Nat
        BY <3>3, <4>2, FS_Subset, FS_CardinalityType
      <4>4. Cardinality(Joined(users, m)') + Cardinality(Standing(m)') <= MemberLimit
        BY <3>2, <3>5, <4>1, <4>3 DEF SharingBounds
      <4>5. \A j \in Standing(m)' : sh_role'[m][sh_inv'[j].to] = "none"
        BY <2>9, <3>2, <3>4, <3>6
      <4> QED
        BY <3>2, <4>1, <4>4, <4>5
    <3>7. CASE m = n
      <4>1. Joined(users, m)' = Joined(users, m) \cup {u} /\ u \notin Joined(users, m)
        BY <2>4, <2>6, <2>9, <3>7 DEF Joined
      <4>2. /\ IsFiniteSet(Joined(users, m)')
            /\ Cardinality(Joined(users, m)') = Cardinality(Joined(users, m)) + 1
        BY <3>2, <4>1, FS_AddElement
      <4>3. Standing(m)' \subseteq Standing(m) \ {i} /\ i \in Standing(m)
        BY <2>3, <2>4, <3>4, <3>7 DEF Standing, Offered
      <4>4. IsFiniteSet(Standing(m) \ {i}) /\ Cardinality(Standing(m) \ {i}) = Cardinality(Standing(m)) - 1
        BY <3>3, <4>3, FS_RemoveElement
      <4>5. Cardinality(Standing(m)') <= Cardinality(Standing(m) \ {i}) /\ Cardinality(Standing(m)') \in Nat
        BY <4>3, <4>4, FS_Subset, FS_CardinalityType
      <4>6. Cardinality(Joined(users, m)') + Cardinality(Standing(m)') <= MemberLimit
        BY <3>2, <3>5, <4>2, <4>4, <4>5 DEF SharingBounds
      <4>7. ASSUME NEW j \in Standing(m)' PROVE sh_role'[m][sh_inv'[j].to] = "none"
        <5>1. j \in Offered(n) /\ i \in Offered(n) /\ j # i
          BY <2>3, <2>4, <3>4, <3>7, <4>7 DEF Standing, Offered
        <5>2. sh_inv[j].to # u
          BY <2>4, <2>6, <5>1 DEF SharesIInv, SingleOffers
        <5> QED
          BY <2>9, <3>2, <3>4, <4>7, <5>2
      <4> QED
        BY <4>2, <4>6, <4>7
    <3> QED
      BY <3>6, <3>7
  <2> QED
    BY <2>11, <2>12, <2>14, <2>15 DEF SharesIInv
<1> QED
  BY <1>2, <1>3 DEF Notes!Accept

(* A Membership of one Notebook changes: nobody joins it, it keeps one     *)
(* Owner, and no more than before have a place.                            *)
LEMMA RolesMove ==
    ASSUME NEW users, NEW again, SharingBounds(users), SharesIInv(users, again),
           UNCHANGED <<sh_alive, sh_inv, sh_requests, sh_deleting, sh_resends>>,
           NEW n \in sh_alive,
           sh_role' \in [SharedNotebooks -> [users -> {"none", "viewer", "editor", "owner"}]],
           \A m \in SharedNotebooks : m # n => sh_role'[m] = sh_role[m],
           \A u \in users : sh_role[n][u] = "none" => sh_role'[n][u] = "none",
           \E o \in users : Owners(users, n)' = {o},
           again = 0 => /\ IsFiniteSet(Joined(users, n)')
                        /\ Cardinality(Joined(users, n)') <= Cardinality(Joined(users, n))
    PROVE  SharesIInv(users, again)'
<1>1. n \in SharedNotebooks
  BY DEF SharesIInv, SharesTyped
<1>3. SharesTyped(users)'
  BY DEF SharesIInv, SharesTyped
<1>4. OwnersHold(users)'
  <2>1. ASSUME NEW m \in SharedNotebooks, m # n PROVE Owners(users, m)' = Owners(users, m)
    BY <2>1 DEF Owners
  <2> QED
    BY <1>1, <2>1 DEF SharesIInv, OwnersHold
<1>5. SingleOffers'
  BY DEF SharesIInv, SingleOffers, Offered
<1>6. ASSUME again = 0 PROVE PlacesHold(users)'
  <2>1. SUFFICES ASSUME NEW m \in SharedNotebooks
        PROVE  /\ IsFiniteSet(Joined(users, m)')
               /\ Cardinality(Joined(users, m)') + Cardinality(Standing(m)') <= MemberLimit
               /\ \A j \in Standing(m)' : sh_role'[m][sh_inv'[j].to] = "none"
    BY DEF PlacesHold
  <2>2. /\ IsFiniteSet(Joined(users, m))
        /\ Cardinality(Joined(users, m)) + Cardinality(Standing(m)) <= MemberLimit
        /\ \A j \in Standing(m) : sh_role[m][sh_inv[j].to] = "none"
    BY <1>6 DEF SharesIInv, PlacesHold
  <2>3. Standing(m)' = Standing(m) /\ \A j \in Standing(m) : sh_inv[j].to \in users
    BY DEF Standing, Offered, SharesIInv, SharesTyped
  <2>4. IsFiniteSet(Standing(m))
    BY OffersFinite DEF SharingBounds, Standing, Offered
  <2>5. Cardinality(Joined(users, m)) \in Nat /\ Cardinality(Standing(m)) \in Nat
    BY <2>2, <2>4, FS_CardinalityType
  <2>6. CASE m # n
    BY <2>2, <2>3, <2>6 DEF Joined
  <2>7. CASE m = n
    <3>2. /\ IsFiniteSet(Joined(users, m)') /\ Cardinality(Joined(users, m)') \in Nat
          /\ Cardinality(Joined(users, m)') <= Cardinality(Joined(users, m))
      BY <1>6, <2>7, FS_CardinalityType
    <3>3. Cardinality(Joined(users, m)') + Cardinality(Standing(m)') <= MemberLimit
      BY <2>2, <2>3, <2>5, <3>2 DEF SharingBounds
    <3>4. \A j \in Standing(m)' : sh_role'[m][sh_inv'[j].to] = "none"
      BY <2>2, <2>3, <2>7
    <3> QED
      BY <3>2, <3>3, <3>4
  <2> QED
    BY <2>6, <2>7
<1> QED
  BY <1>3, <1>4, <1>5, <1>6 DEF SharesIInv

(* ChangeMemberRole: a Member still has a place.                           *)
LEMMA ChangeKeeps ==
    ASSUME NEW users, NEW again, NEW transfers, NEW writers, NEW deletes,
           SharingBounds(users), SharesIInv(users, again),
           NEW n \in sh_alive, NEW u \in users, NEW t \in users, NEW to \in {"viewer", "editor"},
           Notes(users, again, transfers, writers, deletes)!ChangeMemberRole(n, u, t, to)
    PROVE  SharesIInv(users, again)'
<1>1. /\ UNCHANGED <<sh_alive, sh_inv, sh_requests, sh_deleting, sh_resends>>
      /\ sh_role' = [sh_role EXCEPT ![n][t] = to] /\ sh_role[n][t] \in {"viewer", "editor"}
  BY DEF Notes!ChangeMemberRole, Notes!accepts, Notes!private, Notes!removal, Notes!bounds
<1>2. n \in SharedNotebooks /\ sh_role[n] \in [users -> {"none", "viewer", "editor", "owner"}]
  BY DEF SharesIInv, SharesTyped
<1>3. PICK row \in [users -> {"none", "viewer", "editor", "owner"}] : row = [sh_role[n] EXCEPT ![t] = to]
  BY <1>2
<1>4. /\ sh_role' \in [SharedNotebooks -> [users -> {"none", "viewer", "editor", "owner"}]]
      /\ sh_role'[n] = row /\ \A m \in SharedNotebooks : m # n => sh_role'[m] = sh_role[m]
  BY <1>1, <1>2, <1>3 DEF SharesIInv, SharesTyped
<1>5. Owners(users, n)' = Owners(users, n)
  BY <1>1, <1>2, <1>3, <1>4 DEF Owners
<1>6. Joined(users, n)' = Joined(users, n)
  BY <1>1, <1>2, <1>3, <1>4 DEF Joined
<1>7. \A x \in users : sh_role[n][x] = "none" => sh_role'[n][x] = "none"
  BY <1>1, <1>2, <1>3, <1>4
<1>8. \E o \in users : Owners(users, n) = {o}
  BY <1>2 DEF SharesIInv, OwnersHold
<1>9. again = 0 => IsFiniteSet(Joined(users, n)) /\ Cardinality(Joined(users, n)) <= Cardinality(Joined(users, n))
  BY <1>2, FS_CardinalityType DEF SharesIInv, PlacesHold
<1> QED
  BY <1>1, <1>4, <1>5, <1>6, <1>7, <1>8, <1>9, RolesMove

(* TransferOwnership: Owner and Member change places.                      *)
LEMMA TransferKeeps ==
    ASSUME NEW users, NEW again, NEW transfers, NEW writers, NEW deletes,
           SharingBounds(users), SharesIInv(users, again),
           NEW n \in sh_alive, NEW u \in users, NEW t \in users, Notes(users, again, transfers, writers, deletes)!TransferOwnership(n, u, t)
    PROVE  SharesIInv(users, again)'
<1>1. /\ UNCHANGED <<sh_alive, sh_inv, sh_requests, sh_deleting, sh_resends>>
      /\ sh_role' = [sh_role EXCEPT ![n] = [@ EXCEPT ![u] = "editor", ![t] = "owner"]]
      /\ sh_role[n][u] = "owner" /\ u # t /\ sh_role[n][t] # "none"
  BY DEF Notes!TransferOwnership, Notes!accepts, Notes!private, Notes!removal, Notes!bounds, Notes!Owner, Notes!Member
<1>2. n \in SharedNotebooks /\ sh_role[n] \in [users -> {"none", "viewer", "editor", "owner"}]
  BY DEF SharesIInv, SharesTyped
<1>3. PICK row \in [users -> {"none", "viewer", "editor", "owner"}] :
         row = [sh_role[n] EXCEPT ![u] = "editor", ![t] = "owner"]
  BY <1>2
<1>4. /\ sh_role' \in [SharedNotebooks -> [users -> {"none", "viewer", "editor", "owner"}]]
      /\ sh_role'[n] = row /\ \A m \in SharedNotebooks : m # n => sh_role'[m] = sh_role[m]
  BY <1>1, <1>2, <1>3 DEF SharesIInv, SharesTyped
<1>5. PICK o \in users : Owners(users, n) = {o}
  BY <1>2 DEF SharesIInv, OwnersHold
<1>6. o = u /\ \A x \in users : sh_role[n][x] = "owner" <=> x = u
  BY <1>1, <1>5 DEF Owners
<1>7. Owners(users, n)' = {t}
  BY <1>1, <1>2, <1>3, <1>4, <1>6 DEF Owners
<1>8. \A x \in users : sh_role[n][x] = "none" => sh_role'[n][x] = "none"
  BY <1>1, <1>2, <1>3, <1>4
<1>9. ASSUME again = 0
      PROVE  /\ IsFiniteSet(Joined(users, n)')
             /\ Cardinality(Joined(users, n)') <= Cardinality(Joined(users, n))
  <2> DEFINE rest == Joined(users, n) \ {t}
  <2>1. IsFiniteSet(Joined(users, n)) /\ Cardinality(Joined(users, n)) \in Nat
    BY <1>2, <1>9, FS_CardinalityType DEF SharesIInv, PlacesHold
  <2>2. t \in Joined(users, n) /\ u \notin rest
    BY <1>1, <1>2, <1>6 DEF Joined
  <2>3. Joined(users, n)' = rest \cup {u}
    BY <1>1, <1>2, <1>3, <1>4 DEF Joined
  <2>4. IsFiniteSet(rest) /\ Cardinality(rest) = Cardinality(Joined(users, n)) - 1
    BY <2>1, <2>2, FS_RemoveElement
  <2> HIDE DEF rest
  <2>5. IsFiniteSet(rest \cup {u}) /\ Cardinality(rest \cup {u}) = Cardinality(rest) + 1
    BY <2>2, <2>4, FS_AddElement
  <2> QED
    BY <2>1, <2>3, <2>4, <2>5
<1> QED
  BY <1>1, <1>4, <1>7, <1>8, <1>9, RolesMove

(* A Member departs, and gives the place back.                             *)
LEMMA DepartKeeps ==
    ASSUME NEW users, NEW again, NEW transfers, NEW writers, NEW deletes,
           SharingBounds(users), SharesIInv(users, again),
           NEW n \in sh_alive, NEW u \in users, NEW t \in users, Notes(users, again, transfers, writers, deletes)!Depart(n, u, t)
    PROVE  SharesIInv(users, again)'
<1>1. /\ UNCHANGED <<sh_alive, sh_inv, sh_requests, sh_deleting, sh_resends>>
      /\ sh_role' = [sh_role EXCEPT ![n][t] = "none"] /\ sh_role[n][t] \in {"viewer", "editor"}
  BY DEF Notes!Depart, Notes!accepts, Notes!private, Notes!removal, Notes!bounds
<1>2. n \in SharedNotebooks /\ sh_role[n] \in [users -> {"none", "viewer", "editor", "owner"}]
  BY DEF SharesIInv, SharesTyped
<1>3. PICK row \in [users -> {"none", "viewer", "editor", "owner"}] : row = [sh_role[n] EXCEPT ![t] = "none"]
  BY <1>2
<1>4. /\ sh_role' \in [SharedNotebooks -> [users -> {"none", "viewer", "editor", "owner"}]]
      /\ sh_role'[n] = row /\ \A m \in SharedNotebooks : m # n => sh_role'[m] = sh_role[m]
  BY <1>1, <1>2, <1>3 DEF SharesIInv, SharesTyped
<1>5. Owners(users, n)' = Owners(users, n)
  BY <1>1, <1>2, <1>3, <1>4 DEF Owners
<1>6. \A x \in users : sh_role[n][x] = "none" => sh_role'[n][x] = "none"
  BY <1>1, <1>2, <1>3, <1>4
<1>7. \E o \in users : Owners(users, n) = {o}
  BY <1>2 DEF SharesIInv, OwnersHold
<1>8. Joined(users, n)' \subseteq Joined(users, n)
  BY <1>1, <1>2, <1>3, <1>4 DEF Joined
<1>9. ASSUME again = 0
      PROVE  /\ IsFiniteSet(Joined(users, n)')
             /\ Cardinality(Joined(users, n)') <= Cardinality(Joined(users, n))
  <2>1. IsFiniteSet(Joined(users, n))
    BY <1>2, <1>9 DEF SharesIInv, PlacesHold
  <2> QED
    BY <1>8, <2>1, FS_Subset
<1> QED
  BY <1>1, <1>4, <1>5, <1>6, <1>7, <1>9, RolesMove

(* Delete: a Notebook goes with its Owner, its Members and its offers.     *)
LEMMA DeleteKeeps ==
    ASSUME NEW users, NEW again, NEW transfers, NEW writers, NEW deletes,
           SharingBounds(users), SharesIInv(users, again), NEW d \in sh_deleting, Notes(users, again, transfers, writers, deletes)!Delete(d)
    PROVE  SharesIInv(users, again)'
<1>1. PICK n : n = d.nb
  OBVIOUS
<1>2. /\ UNCHANGED <<sh_requests, sh_resends>> /\ sh_deleting' \subseteq sh_deleting
      /\ sh_alive' = sh_alive \ {n}
      /\ sh_role' = [sh_role EXCEPT ![n] = [u \in users |-> "none"]]
      /\ sh_inv' = [i \in 1..OfferBound |-> IF sh_inv[i].nb = n THEN [sh_inv[i] EXCEPT !.state = "gone"]
                                            ELSE sh_inv[i]]
  BY <1>1 DEF Notes!Delete, Notes!Erase, Notes!accepts, Notes!bounds, Notes!Invites
<1>3. n \in SharedNotebooks
  BY <1>1 DEF SharesIInv, SharesTyped
<1>4. /\ \A u \in users : sh_role'[n][u] = "none"
      /\ \A m \in SharedNotebooks : m # n => sh_role'[m] = sh_role[m]
  BY <1>2, <1>3 DEF SharesIInv, SharesTyped
<1>5. ASSUME NEW i \in 1..OfferBound
      PROVE  /\ sh_inv'[i] \in OfferRows(users)
             /\ sh_inv[i].nb # n => sh_inv'[i] = sh_inv[i]
             /\ sh_inv[i].nb = n => sh_inv'[i].state = "gone" /\ sh_inv'[i].nb = n
  <2>1. PICK row \in OfferRows(users) : row = sh_inv[i]
    BY DEF SharesIInv, SharesTyped
  <2>2. CASE row.nb = n
    <3>1. sh_inv'[i] = [row EXCEPT !.state = "gone"]
      BY <1>2, <2>1, <2>2
    <3>2. sh_inv'[i] = [state |-> "gone", nb |-> row.nb, to |-> row.to, gen |-> row.gen, due |-> row.due]
      BY <3>1 DEF OfferRows
    <3> QED
      BY <2>1, <2>2, <3>2 DEF OfferRows, OfferStates
  <2>3. CASE row.nb # n
    BY <1>2, <2>1, <2>3
  <2> QED
    BY <2>2, <2>3
<1>6. SharesTyped(users)'
  <2>1. sh_inv' \in [1..OfferBound -> OfferRows(users)]
    BY <1>2, <1>5
  <2>2. sh_role' \in [SharedNotebooks -> [users -> {"none", "viewer", "editor", "owner"}]]
    BY <1>2, <1>3 DEF SharesIInv, SharesTyped
  <2>3. \A i \in 1..OfferBound :
           /\ sh_inv'[i].state = "pending" => sh_inv'[i].nb \in sh_alive'
           /\ sh_inv'[i].state \in {"pending", "expired"} => sh_inv'[i].to \in users
    BY <1>2, <1>5 DEF SharesIInv, SharesTyped
  <2> QED
    BY <1>2, <2>1, <2>2, <2>3 DEF SharesIInv, SharesTyped
<1>7. ASSUME NEW m \in SharedNotebooks, m # n
      PROVE  /\ Owners(users, m)' = Owners(users, m) /\ Joined(users, m)' = Joined(users, m)
             /\ Standing(m)' = Standing(m) /\ \A i \in Standing(m) : sh_inv'[i] = sh_inv[i]
  BY <1>4, <1>5, <1>7 DEF Owners, Joined, Standing, Offered
<1>8. Owners(users, n)' = {} /\ Joined(users, n)' = {} /\ Offered(n)' = {} /\ Standing(n)' = {}
  BY <1>4, <1>5 DEF Owners, Joined, Standing, Offered
<1>9. OwnersHold(users)'
  BY <1>2, <1>7, <1>8 DEF SharesIInv, OwnersHold
<1>10. SingleOffers'
  <2>1. ASSUME NEW m, NEW i \in Offered(m)' PROVE i \in Offered(m) /\ sh_inv'[i] = sh_inv[i]
    BY <1>5, <2>1 DEF Offered
  <2> QED
    BY <2>1 DEF SharesIInv, SingleOffers
<1>11. ASSUME again = 0 PROVE PlacesHold(users)'
  <2>1. SUFFICES ASSUME NEW m \in SharedNotebooks
        PROVE  /\ IsFiniteSet(Joined(users, m)')
               /\ Cardinality(Joined(users, m)') + Cardinality(Standing(m)') <= MemberLimit
               /\ \A j \in Standing(m)' : sh_role'[m][sh_inv'[j].to] = "none"
    BY DEF PlacesHold
  <2>2. CASE m = n
    <3>1. IsFiniteSet({}) /\ Cardinality({}) = 0
      BY FS_EmptySet
    <3>2. 0 + 0 <= MemberLimit
      BY DEF SharingBounds
    <3> QED
      BY <1>8, <2>2, <3>1, <3>2
  <2>3. CASE m # n
    BY <1>4, <1>7, <1>11, <2>3 DEF SharesIInv, PlacesHold
  <2> QED
    BY <2>2, <2>3
<1> QED
  BY <1>6, <1>9, <1>10, <1>11 DEF SharesIInv

(* Lapse, ListInvitations, Revoke: a step that ends an offer, or lets one  *)
(* grow due.                                                               *)
LEMMA EndKeeps ==
    ASSUME NEW users, NEW again, NEW transfers, NEW writers, NEW deletes,
           SharingBounds(users), SharesIInv(users, again),
           \/ \E i \in 1..OfferBound : Notes(users, again, transfers, writers, deletes)!Lapse(i)
           \/ \E n \in sh_alive, u \in users : Notes(users, again, transfers, writers, deletes)!ListInvitations(n, u)
           \/ \E n \in sh_alive, u \in users, i \in 1..OfferBound : Notes(users, again, transfers, writers, deletes)!Revoke(n, u, i)
    PROVE  SharesIInv(users, again)'
<1>1. UNCHANGED <<sh_alive, sh_role, sh_resends, sh_requests, sh_deleting>>
  BY DEF Notes!Lapse, Notes!ListInvitations, Notes!Revoke, Notes!accepts, Notes!private, Notes!removal, Notes!bounds
<1>2. sh_inv \in [1..OfferBound -> OfferRows(users)]
  BY DEF SharesIInv, SharesTyped
<1>3. ASSUME NEW row \in OfferRows(users), NEW new, new = [row EXCEPT !.due = TRUE]
      PROVE  /\ new \in OfferRows(users) /\ new.due /\ new.state = row.state
             /\ new.nb = row.nb /\ new.to = row.to
  BY <1>3 DEF OfferRows
<1>4. ASSUME NEW row \in OfferRows(users), NEW state \in {"expired", "revoked"},
             NEW new, new = [row EXCEPT !.state = state]
      PROVE  /\ new \in OfferRows(users) /\ new.state = state /\ (new.due <=> row.due)
             /\ new.nb = row.nb /\ new.to = row.to
  <2>1. new = [state |-> state, nb |-> row.nb, to |-> row.to, gen |-> row.gen, due |-> row.due]
    BY <1>4 DEF OfferRows
  <2> QED
    BY <2>1 DEF OfferRows, OfferStates
<1>5. \A p \in sh_requests' : p.req.inv \in 1..OfferBound
  BY <1>1 DEF SharesIInv, SharesTyped
<1>6. \A d \in sh_deleting' : d.nb \in SharedNotebooks
  BY <1>1 DEF SharesIInv, SharesTyped
<1>7. sh_inv' = [m \in 1..OfferBound |-> sh_inv'[m]]
  BY <1>2 DEF Notes!Lapse, Notes!ListInvitations, Notes!Overdue, Notes!Revoke, Notes!Invites
<1>8. ASSUME NEW j \in 1..OfferBound
      PROVE  /\ sh_inv'[j] \in OfferRows(users)
             /\ sh_inv'[j].nb = sh_inv[j].nb /\ sh_inv'[j].to = sh_inv[j].to
             /\ sh_inv'[j].state = "pending" => sh_inv[j].state = "pending"
             /\ sh_inv'[j].state = "expired" => sh_inv[j].state \in {"pending", "expired"}
             /\ ~sh_inv'[j].due => ~sh_inv[j].due
  <2>1. PICK row \in OfferRows(users) : row = sh_inv[j]
    BY <1>2
  <2>2. ASSUME NEW i \in 1..OfferBound, Notes(users, again, transfers, writers, deletes)!Lapse(i)
        PROVE  sh_inv'[j] = row \/ sh_inv'[j] = [row EXCEPT !.due = TRUE]
    BY <1>2, <2>1, <2>2 DEF Notes!Lapse
  <2>3. ASSUME NEW n, NEW u, Notes(users, again, transfers, writers, deletes)!ListInvitations(n, u)
        PROVE  sh_inv'[j] = row \/ (row.state = "pending" /\ sh_inv'[j] = [row EXCEPT !.state = "expired"])
    BY <1>2, <2>1, <2>3 DEF Notes!ListInvitations, Notes!Overdue, Notes!Pending, Notes!Invites
  <2>4. ASSUME NEW n, NEW u, NEW i \in 1..OfferBound, Notes(users, again, transfers, writers, deletes)!Revoke(n, u, i)
        PROVE  sh_inv'[j] = row \/ sh_inv'[j] = [row EXCEPT !.state = "revoked"]
    BY <1>2, <2>1, <2>4 DEF Notes!Revoke
  <2>5. CASE sh_inv'[j] = row
    BY <2>1, <2>5
  <2>6. CASE sh_inv'[j] = [row EXCEPT !.due = TRUE]
    BY <1>3, <2>1, <2>6
  <2>7. CASE row.state = "pending" /\ sh_inv'[j] = [row EXCEPT !.state = "expired"]
    BY <1>4, <2>1, <2>7
  <2>8. CASE sh_inv'[j] = [row EXCEPT !.state = "revoked"]
    BY <1>4, <2>1, <2>8
  <2> QED
    BY <2>2, <2>3, <2>4, <2>5, <2>6, <2>7, <2>8
<1>9. sh_inv' \in [1..OfferBound -> OfferRows(users)]
  BY <1>7, <1>8
<1> QED
  BY <1>1, <1>5, <1>6, <1>8, <1>9, OffersEnd

(* Replays, Chats and the first reads of an acceptance and of a deletion   *)
(* leave Members and offers as they are.                                   *)
LEMMA OthersKeep ==
    ASSUME NEW users, NEW again, NEW transfers, NEW writers, NEW deletes,
           SharingBounds(users), SharesIInv(users, again),
           \/ \E n \in sh_alive, u \in users, to \in users, k \in OfferKeys : Notes(users, again, transfers, writers, deletes)!ReplayCreate(n, u, to, k)
           \/ \E h, u, k, g : \E i \in 1..OfferBound : Notes(users, again, transfers, writers, deletes)!AcceptReads(h, u, k, i, g)
           \/ \E n \in sh_alive, u \in users : Notes(users, again, transfers, writers, deletes)!InsertChat(n, u) \/ Notes(users, again, transfers, writers, deletes)!CommitChat(n, u) \/ Notes(users, again, transfers, writers, deletes)!DeleteReads(n, u)
           \/ \E d \in sh_deleting : Notes(users, again, transfers, writers, deletes)!DeleteRefused(d)
           \/ UNCHANGED Notes(users, again, transfers, writers, deletes)!vars
    PROVE  SharesIInv(users, again)'
<1>1. UNCHANGED <<sh_alive, sh_role, sh_inv, sh_resends>>
  BY DEF Notes!ReplayCreate, Notes!AcceptReads, Notes!InsertChat, Notes!CommitChat, Notes!DeleteReads, Notes!DeleteRefused,
     Notes!vars, Notes!accepts, Notes!private, Notes!removal, Notes!bounds
<1>2. \A p \in sh_requests' : p.req.inv \in 1..OfferBound
  <2>1. CASE sh_requests' = sh_requests
    BY <2>1 DEF SharesIInv, SharesTyped
  <2>2. ASSUME NEW h, NEW u, NEW k, NEW g, NEW i \in 1..OfferBound, Notes(users, again, transfers, writers, deletes)!AcceptReads(h, u, k, i, g)
        PROVE  \A p \in sh_requests' : p.req.inv \in 1..OfferBound
    <3>1. \/ sh_requests' = sh_requests
          \/ sh_requests' = sh_requests \cup {[by |-> h, req |-> [user |-> u, key |-> k, inv |-> i, gen |-> g]]}
      BY <2>2 DEF Notes!AcceptReads, Notes!Request
    <3> QED
      BY <2>1, <3>1 DEF SharesIInv, SharesTyped
  <2> QED
    BY <2>1, <2>2 DEF Notes!ReplayCreate, Notes!InsertChat, Notes!CommitChat, Notes!DeleteReads, Notes!DeleteRefused,
       Notes!vars, Notes!accepts
<1>3. \A d \in sh_deleting' : d.nb \in SharedNotebooks
  <2>1. CASE sh_deleting' \subseteq sh_deleting
    BY <2>1 DEF SharesIInv, SharesTyped
  <2>2. ASSUME NEW n \in sh_alive, NEW u, Notes(users, again, transfers, writers, deletes)!DeleteReads(n, u)
        PROVE  \A d \in sh_deleting' : d.nb \in SharedNotebooks
    <3>1. \E tell : sh_deleting' = sh_deleting \cup {[nb |-> n, by |-> u, tell |-> tell]}
      BY <2>2 DEF Notes!DeleteReads
    <3>2. n \in SharedNotebooks /\ \A d \in sh_deleting : d.nb \in SharedNotebooks
      BY DEF SharesIInv, SharesTyped
    <3> QED
      BY <3>1, <3>2
  <2> QED
    BY <2>1, <2>2 DEF Notes!ReplayCreate, Notes!AcceptReads, Notes!InsertChat, Notes!CommitChat, Notes!DeleteRefused,
       Notes!vars, Notes!removal
<1>4. sh_inv' \in [1..OfferBound -> OfferRows(users)]
  BY <1>1 DEF SharesIInv, SharesTyped
<1>5. \A i \in 1..OfferBound :
         /\ sh_inv'[i].nb = sh_inv[i].nb /\ sh_inv'[i].to = sh_inv[i].to
         /\ sh_inv'[i].state = "pending" => sh_inv[i].state = "pending"
         /\ sh_inv'[i].state = "expired" => sh_inv[i].state \in {"pending", "expired"}
         /\ ~sh_inv'[i].due => ~sh_inv[i].due
  BY <1>1
<1> QED
  BY <1>1, <1>2, <1>3, <1>4, <1>5, OffersEnd

LEMMA SharesInit ==
    ASSUME NEW users, NEW again, NEW transfers, NEW writers, NEW deletes,
           SharingBounds(users), Notes(users, again, transfers, writers, deletes)!Init
    PROVE  SharesIInv(users, again)
<1>1. \A i \in 1..OfferBound : sh_inv[i] = [state |-> "none", nb |-> "none", to |-> "none", gen |-> 0, due |-> FALSE]
  BY DEF Notes!Init, Notes!NoInvite, Notes!Invites
<1>2. \A n \in SharedNotebooks : sh_role[n] = [u \in users |-> IF u = NotebookFounder THEN "owner" ELSE "none"]
  BY DEF Notes!Init
<1>3. SharesTyped(users)
  <2>1. sh_inv \in [1..OfferBound -> OfferRows(users)]
    <3>1. [state |-> "none", nb |-> "none", to |-> "none", gen |-> 0, due |-> FALSE] \in OfferRows(users)
      BY DEF OfferRows, OfferStates
    <3> QED
      BY <3>1 DEF Notes!Init, Notes!Invites, Notes!NoInvite
  <2>2. sh_role \in [SharedNotebooks -> [users -> {"none", "viewer", "editor", "owner"}]]
    BY DEF Notes!Init
  <2> QED
    BY <1>1, <2>1, <2>2 DEF Notes!Init, SharesTyped
<1>4. ASSUME NEW n \in SharedNotebooks
      PROVE  /\ Owners(users, n) = {NotebookFounder} /\ Joined(users, n) = {}
             /\ Offered(n) = {} /\ Standing(n) = {}
  <2>1. NotebookFounder \in users
        /\ \A u \in users : sh_role[n][u] = IF u = NotebookFounder THEN "owner" ELSE "none"
    BY <1>2 DEF SharingBounds
  <2>2. Owners(users, n) = {NotebookFounder} /\ Joined(users, n) = {}
    BY <2>1 DEF Owners, Joined
  <2>3. Offered(n) = {}
    BY <1>1 DEF Offered
  <2> QED
    BY <2>2, <2>3 DEF Standing
<1>5. OwnersHold(users)
  <2>1. sh_alive = SharedNotebooks /\ NotebookFounder \in users
    BY DEF Notes!Init, SharingBounds
  <2> QED
    BY <1>4, <2>1 DEF OwnersHold
<1>6. SingleOffers
  BY <1>4 DEF SingleOffers
<1>7. PlacesHold(users)
  <2>1. IsFiniteSet({}) /\ Cardinality({}) = 0
    BY FS_EmptySet
  <2>2. 0 + 0 <= MemberLimit
    BY DEF SharingBounds
  <2> QED
    BY <1>4, <2>1, <2>2 DEF PlacesHold
<1> QED
  BY <1>3, <1>5, <1>6, <1>7 DEF SharesIInv

LEMMA SharesStep ==
    ASSUME NEW users, NEW again, NEW transfers, NEW writers, NEW deletes,
           SharingBounds(users), SharesIInv(users, again), [Notes(users, again, transfers, writers, deletes)!Next]_(Notes(users, again, transfers, writers, deletes)!vars)
    PROVE  SharesIInv(users, again)'
<1>1. ASSUME NEW n \in sh_alive, NEW u \in users, Notes(users, again, transfers, writers, deletes)!Invitation(n, u)
      PROVE  SharesIInv(users, again)'
  BY <1>1, CreateKeeps, ResendKeeps, EndKeeps, OthersKeep DEF Notes!Invitation, Notes!Invites
<1>2. ASSUME NEW n \in sh_alive, NEW u \in users, Notes(users, again, transfers, writers, deletes)!Membership(n, u)
      PROVE  SharesIInv(users, again)'
  BY <1>2, TransferKeeps, DepartKeeps, ChangeKeeps, OthersKeep DEF Notes!Membership
<1>3. ASSUME NEW i \in 1..OfferBound, Notes(users, again, transfers, writers, deletes)!Lapse(i)
      PROVE  SharesIInv(users, again)'
  BY <1>3, EndKeeps
<1>4. ASSUME NEW h, NEW u, NEW k, NEW i \in 1..OfferBound, NEW g, Notes(users, again, transfers, writers, deletes)!AcceptReads(h, u, k, i, g)
      PROVE  SharesIInv(users, again)'
  BY <1>4, OthersKeep
<1>5. ASSUME NEW p \in sh_requests, Notes(users, again, transfers, writers, deletes)!Accept(p)
      PROVE  SharesIInv(users, again)'
  BY <1>5, AcceptKeeps
<1>6. ASSUME NEW d \in sh_deleting, Notes(users, again, transfers, writers, deletes)!Delete(d) \/ Notes(users, again, transfers, writers, deletes)!DeleteRefused(d)
      PROVE  SharesIInv(users, again)'
  BY <1>6, DeleteKeeps, OthersKeep
<1>7. CASE UNCHANGED Notes(users, again, transfers, writers, deletes)!vars
  BY <1>7, OthersKeep
<1> QED
  BY <1>1, <1>2, <1>3, <1>4, <1>5, <1>6, <1>7 DEF Notes!Next, Notes!Invites

LEMMA NotesHold ==
    ASSUME NEW users, NEW again, NEW transfers, NEW writers, NEW deletes,
           SharingBounds(users), SharesIInv(users, again)
    PROVE  /\ Notes(users, again, transfers, writers, deletes)!OneOwner /\ Notes(users, again, transfers, writers, deletes)!OneOffer
           /\ again = 0 => Notes(users, again, transfers, writers, deletes)!WithinLimit /\ Notes(users, again, transfers, writers, deletes)!OfferedIsNoMember
<1>1. \A S : Notes(users, again, transfers, writers, deletes)!Cardinality(S) = Cardinality(S)
  BY DEF Notes!Cardinality, Cardinality
<1>2. Notes(users, again, transfers, writers, deletes)!OneOwner
  <2>1. SUFFICES ASSUME NEW n \in SharedNotebooks
        PROVE  Cardinality(Owners(users, n)) = IF n \in sh_alive THEN 1 ELSE 0
    BY <1>1 DEF Notes!OneOwner, Notes!Owner, Owners
  <2>2. \A o : Cardinality({o}) = 1
    BY FS_Singleton
  <2>3. Cardinality({}) = 0
    BY FS_EmptySet
  <2> QED
    BY <2>2, <2>3 DEF SharesIInv, OwnersHold
<1>3. Notes(users, again, transfers, writers, deletes)!OneOffer
  BY DEF Notes!OneOffer, Notes!Pending, Notes!Invites, SharesIInv, SingleOffers, Offered
<1>4. ASSUME NEW n PROVE Notes(users, again, transfers, writers, deletes)!Effective(n) = Standing(n)
  BY DEF Notes!Effective, Notes!Pending, Notes!Invites, Standing, Offered
<1>5. ASSUME again = 0 PROVE Notes(users, again, transfers, writers, deletes)!WithinLimit /\ Notes(users, again, transfers, writers, deletes)!OfferedIsNoMember
  <2>1. \A n \in SharedNotebooks : Cardinality(Joined(users, n)) + Cardinality(Standing(n)) <= MemberLimit
    BY <1>5 DEF SharesIInv, PlacesHold
  <2>2. Notes(users, again, transfers, writers, deletes)!WithinLimit
    BY <1>1, <1>4, <2>1 DEF Notes!WithinLimit, Notes!Reserved, Joined
  <2>3. Notes(users, again, transfers, writers, deletes)!OfferedIsNoMember
    BY <1>4, <1>5 DEF Notes!OfferedIsNoMember, Notes!Member, SharesIInv, PlacesHold
  <2> QED
    BY <2>2, <2>3
<1> QED
  BY <1>2, <1>3, <1>5

(* A token that joins is the newest of its offer, and whoever is a Member  *)
(* when a Notebook is deleted is told.                                     *)
LEMMA TokensAreNewest ==
    ASSUME NEW users, NEW again, NEW transfers, NEW writers, NEW deletes,
           Notes(users, again, transfers, writers, deletes)!Next
    PROVE  /\ \A r \in sh_accepted' \ sh_accepted : sh_inv[r.inv].gen = r.gen
           /\ \A n \in sh_alive \ sh_alive' : \A u \in users :
                 sh_role[n][u] \in {"viewer", "editor"} => <<n, u>> \in sh_told'
<1>1. ASSUME NEW p \in sh_requests, Notes(users, again, transfers, writers, deletes)!Accept(p)
      PROVE  /\ \A r \in sh_accepted' \ sh_accepted : sh_inv[r.inv].gen = r.gen
             /\ sh_alive' = sh_alive
  BY <1>1 DEF Notes!Accept, Notes!Opens, Notes!removal
<1>2. ASSUME NEW d \in sh_deleting, Notes(users, again, transfers, writers, deletes)!Delete(d)
      PROVE  /\ \A n \in sh_alive \ sh_alive' : \A u \in users :
                   sh_role[n][u] \in {"viewer", "editor"} => <<n, u>> \in sh_told'
             /\ sh_accepted' = sh_accepted
  <2>1. /\ sh_alive' = sh_alive \ {d.nb} /\ sh_role[d.nb][d.by] = "owner"
        /\ sh_told' = sh_told \cup {<<d.nb, u>> : u \in {x \in users : sh_role[d.nb][x] # "none"} \ {d.by}}
        /\ sh_accepted' = sh_accepted
    BY <1>2 DEF Notes!Delete, Notes!Erase, Notes!Owner, Notes!Members, Notes!Member, Notes!accepts
  <2>2. ASSUME NEW u \in users, sh_role[d.nb][u] \in {"viewer", "editor"}
        PROVE  <<d.nb, u>> \in sh_told'
    <3>1. u \in {x \in users : sh_role[d.nb][x] # "none"} \ {d.by}
      BY <2>1, <2>2
    <3> QED
      BY <2>1, <3>1
  <2> QED
    BY <2>1, <2>2
<1>3. ASSUME NEW n, NEW u, \/ Notes(users, again, transfers, writers, deletes)!Invitation(n, u)
                           \/ Notes(users, again, transfers, writers, deletes)!Membership(n, u)
      PROVE  sh_accepted' = sh_accepted /\ sh_alive' = sh_alive
  <2>1. CASE Notes(users, again, transfers, writers, deletes)!Invitation(n, u)
    BY <2>1 DEF Notes!Invitation, Notes!ListInvitations, Notes!CreateInvitation, Notes!ReplayCreate,
       Notes!Revoke, Notes!Resend, Notes!accepts, Notes!removal
  <2>2. CASE Notes(users, again, transfers, writers, deletes)!Membership(n, u)
    BY <2>2 DEF Notes!Membership, Notes!TransferOwnership, Notes!Depart, Notes!ChangeMemberRole,
       Notes!InsertChat, Notes!CommitChat, Notes!DeleteReads, Notes!accepts, Notes!removal
  <2> QED
    BY <1>3, <2>1, <2>2
<1>4. ASSUME NEW i, Notes(users, again, transfers, writers, deletes)!Lapse(i)
      PROVE  sh_accepted' = sh_accepted /\ sh_alive' = sh_alive
  BY <1>4 DEF Notes!Lapse, Notes!accepts, Notes!removal
<1>5. ASSUME NEW h, NEW u, NEW k, NEW i, NEW g,
             Notes(users, again, transfers, writers, deletes)!AcceptReads(h, u, k, i, g)
      PROVE  sh_accepted' = sh_accepted /\ sh_alive' = sh_alive
  BY <1>5 DEF Notes!AcceptReads, Notes!removal
<1>6. ASSUME NEW d, Notes(users, again, transfers, writers, deletes)!DeleteRefused(d)
      PROVE  sh_accepted' = sh_accepted /\ sh_alive' = sh_alive
  BY <1>6 DEF Notes!DeleteRefused, Notes!accepts
<1> QED
  BY <1>1, <1>2, <1>3, <1>4, <1>5, <1>6 DEF Notes!Next

(* The two instances of the suite are of it: of Notebooks that are shared, *)
(* transferred and deleted, and of offers that are made again.             *)
LEMMA SharesAre ==
    ASSUME Shares!Next
    PROVE  Notes(Sharers, 0, OwnerTransfers, ChatWriters, TRUE)!Next
<1> USE DEF Shares!Owner, Notes!Owner, Shares!Member, Notes!Member, Shares!Members, Notes!Members,
     Shares!Pending, Notes!Pending, Shares!Effective, Notes!Effective, Shares!Invites,
     Notes!Invites, Shares!NoInvite, Notes!NoInvite, Shares!accepts, Notes!accepts,
     Shares!private, Notes!private, Shares!removal, Notes!removal, Shares!bounds, Notes!bounds
<1>1. ASSUME NEW i, Shares!Lapse(i)
      PROVE  Notes(Sharers, 0, OwnerTransfers, ChatWriters, TRUE)!Lapse(i)
  BY <1>1 DEF Shares!Lapse, Notes!Lapse
<1>2. ASSUME NEW n, NEW u, Shares!ListInvitations(n, u)
      PROVE  Notes(Sharers, 0, OwnerTransfers, ChatWriters, TRUE)!ListInvitations(n, u)
  BY <1>2 DEF Shares!ListInvitations, Notes!ListInvitations, Shares!Overdue, Notes!Overdue
<1>3. ASSUME NEW n, NEW u, NEW to, NEW k, Shares!CreateInvitation(n, u, to, k)
      PROVE  Notes(Sharers, 0, OwnerTransfers, ChatWriters, TRUE)!CreateInvitation(n, u, to, k)
  BY <1>3 DEF Shares!CreateInvitation, Notes!CreateInvitation, Shares!Overdue, Notes!Overdue,
     Shares!Free, Notes!Free, Shares!Offer, Notes!Offer, Shares!Admits, Notes!Admits,
     Shares!Reserved, Notes!Reserved, Shares!Cardinality, Notes!Cardinality
<1>4. ASSUME NEW n, NEW u, NEW to, NEW k, Shares!ReplayCreate(n, u, to, k)
      PROVE  Notes(Sharers, 0, OwnerTransfers, ChatWriters, TRUE)!ReplayCreate(n, u, to, k)
  BY <1>4 DEF Shares!ReplayCreate, Notes!ReplayCreate
<1>5. ASSUME NEW n, NEW u, NEW i, Shares!Revoke(n, u, i)
      PROVE  Notes(Sharers, 0, OwnerTransfers, ChatWriters, TRUE)!Revoke(n, u, i)
  BY <1>5 DEF Shares!Revoke, Notes!Revoke
<1>6. ASSUME NEW n, NEW u, NEW i, Shares!Resend(n, u, i)
      PROVE  Notes(Sharers, 0, OwnerTransfers, ChatWriters, TRUE)!Resend(n, u, i)
  BY <1>6 DEF Shares!Resend, Notes!Resend
<1>7. ASSUME NEW h, NEW u, NEW k, NEW i, NEW g, Shares!AcceptReads(h, u, k, i, g)
      PROVE  Notes(Sharers, 0, OwnerTransfers, ChatWriters, TRUE)!AcceptReads(h, u, k, i, g)
  BY <1>7 DEF Shares!AcceptReads, Notes!AcceptReads, Shares!Request, Notes!Request,
     Shares!SameKey, Notes!SameKey, Shares!Answer, Notes!Answer
<1>8. ASSUME NEW p, Shares!Accept(p)
      PROVE  Notes(Sharers, 0, OwnerTransfers, ChatWriters, TRUE)!Accept(p)
  BY <1>8 DEF Shares!Accept, Notes!Accept, Shares!Opens, Notes!Opens, Shares!Answer, Notes!Answer
<1>9. ASSUME NEW n, NEW u, NEW t, NEW to, Shares!ChangeMemberRole(n, u, t, to)
      PROVE  Notes(Sharers, 0, OwnerTransfers, ChatWriters, TRUE)!ChangeMemberRole(n, u, t, to)
  BY <1>9 DEF Shares!ChangeMemberRole, Notes!ChangeMemberRole
<1>10. ASSUME NEW n, NEW u, NEW t, Shares!TransferOwnership(n, u, t)
      PROVE  Notes(Sharers, 0, OwnerTransfers, ChatWriters, TRUE)!TransferOwnership(n, u, t)
  BY <1>10 DEF Shares!TransferOwnership, Notes!TransferOwnership
<1>11. ASSUME NEW n, NEW u, NEW t, Shares!Depart(n, u, t)
      PROVE  Notes(Sharers, 0, OwnerTransfers, ChatWriters, TRUE)!Depart(n, u, t)
  BY <1>11 DEF Shares!Depart, Notes!Depart
<1>12. ASSUME NEW n, NEW u, Shares!InsertChat(n, u)
      PROVE  Notes(Sharers, 0, OwnerTransfers, ChatWriters, TRUE)!InsertChat(n, u)
  BY <1>12 DEF Shares!InsertChat, Notes!InsertChat
<1>13. ASSUME NEW n, NEW u, Shares!CommitChat(n, u)
      PROVE  Notes(Sharers, 0, OwnerTransfers, ChatWriters, TRUE)!CommitChat(n, u)
  BY <1>13 DEF Shares!CommitChat, Notes!CommitChat
<1>14. ASSUME NEW n, NEW u, Shares!DeleteReads(n, u)
      PROVE  Notes(Sharers, 0, OwnerTransfers, ChatWriters, TRUE)!DeleteReads(n, u)
  BY <1>14 DEF Shares!DeleteReads, Notes!DeleteReads
<1>15. ASSUME NEW d, Shares!DeleteRefused(d)
      PROVE  Notes(Sharers, 0, OwnerTransfers, ChatWriters, TRUE)!DeleteRefused(d)
  BY <1>15 DEF Shares!DeleteRefused, Notes!DeleteRefused
<1>16. ASSUME NEW d, Shares!Delete(d)
      PROVE  Notes(Sharers, 0, OwnerTransfers, ChatWriters, TRUE)!Delete(d)
  BY <1>16 DEF Shares!Delete, Notes!Delete, Shares!Erase, Notes!Erase
<1>17. ASSUME NEW n, NEW u, Shares!Invitation(n, u)
      PROVE  Notes(Sharers, 0, OwnerTransfers, ChatWriters, TRUE)!Invitation(n, u)
  BY <1>17, <1>2, <1>3, <1>4, <1>5, <1>6 DEF Shares!Invitation, Notes!Invitation
<1>18. ASSUME NEW n, NEW u, Shares!Membership(n, u)
      PROVE  Notes(Sharers, 0, OwnerTransfers, ChatWriters, TRUE)!Membership(n, u)
  BY <1>18, <1>9, <1>10, <1>11, <1>12, <1>13, <1>14 DEF Shares!Membership, Notes!Membership
<1> QED
  BY <1>1, <1>7, <1>8, <1>15, <1>16, <1>17, <1>18, ZenonT(60) DEF Shares!Next, Notes!Next

LEMMA SharesKeep ==
    /\ Shares!SharingAssumption => SharingBounds(Sharers)
    /\ Shares!SharingAssumption /\ Shares!Init => SharesIInv(Sharers, 0)
    /\ Shares!SharingAssumption /\ SharesIInv(Sharers, 0) /\ (Shares!Next \/ UNCHANGED sh_vars)
          => SharesIInv(Sharers, 0)'
<1>1. Shares!SharingAssumption => SharingBounds(Sharers)
  BY DEF Shares!SharingAssumption, SharingBounds
<1>2. Shares!Init => Notes(Sharers, 0, OwnerTransfers, ChatWriters, TRUE)!Init
  BY DEF Shares!Init, Notes!Init, Shares!Invites, Notes!Invites, Shares!NoInvite, Notes!NoInvite
<1>3. Shares!SharingAssumption /\ Shares!Init => SharesIInv(Sharers, 0)
  BY <1>1, <1>2, SharesInit
<1>4. Shares!Next \/ UNCHANGED sh_vars
         => [Notes(Sharers, 0, OwnerTransfers, ChatWriters, TRUE)!Next]_(Notes(Sharers, 0, OwnerTransfers, ChatWriters, TRUE)!vars)
  BY SharesAre DEF sh_vars, Notes!vars
<1>5. Shares!SharingAssumption /\ SharesIInv(Sharers, 0) /\ (Shares!Next \/ UNCHANGED sh_vars)
        => SharesIInv(Sharers, 0)'
  BY <1>1, <1>4, SharesStep
<1> QED
  BY <1>1, <1>3, <1>5

LEMMA SharesHold ==
    ASSUME Shares!SharingAssumption, SharesIInv(Sharers, 0)
    PROVE  Shares!OneOwner /\ Shares!OneOffer /\ Shares!WithinLimit /\ Shares!OfferedIsNoMember
<1>1. /\ Notes(Sharers, 0, OwnerTransfers, ChatWriters, TRUE)!OneOwner
      /\ Notes(Sharers, 0, OwnerTransfers, ChatWriters, TRUE)!OneOffer
      /\ Notes(Sharers, 0, OwnerTransfers, ChatWriters, TRUE)!WithinLimit
      /\ Notes(Sharers, 0, OwnerTransfers, ChatWriters, TRUE)!OfferedIsNoMember
  BY SharesKeep, NotesHold
<1>2. \A S : Shares!Cardinality(S) = Cardinality(S)
  BY DEF Shares!Cardinality, Cardinality
<1>3. \A S : Notes(Sharers, 0, OwnerTransfers, ChatWriters, TRUE)!Cardinality(S) = Cardinality(S)
  BY DEF Notes!Cardinality, Cardinality
<1>4. Shares!OneOwner
  BY <1>1, <1>2, <1>3 DEF Shares!OneOwner, Notes!OneOwner, Shares!Owner, Notes!Owner
<1>5. Shares!OneOffer
  BY <1>1 DEF Shares!OneOffer, Notes!OneOffer, Shares!Pending, Notes!Pending, Shares!Invites, Notes!Invites
<1>6. Shares!WithinLimit
  BY <1>1, <1>2, <1>3 DEF Shares!WithinLimit, Notes!WithinLimit, Shares!Reserved, Notes!Reserved,
     Shares!Effective, Notes!Effective, Shares!Pending, Notes!Pending, Shares!Invites, Notes!Invites
<1>7. Shares!OfferedIsNoMember
  BY <1>1 DEF Shares!OfferedIsNoMember, Notes!OfferedIsNoMember, Shares!Effective, Notes!Effective,
     Shares!Pending, Notes!Pending, Shares!Invites, Notes!Invites, Shares!Member, Notes!Member
<1> QED
  BY <1>4, <1>5, <1>6, <1>7

LEMMA ResendsAre ==
    ASSUME Resends!Next
    PROVE  Notes(OfferedUsers, OfferResends, 0, {}, FALSE)!Next
<1> USE DEF Resends!Owner, Notes!Owner, Resends!Member, Notes!Member, Resends!Members,
     Notes!Members, Resends!Pending, Notes!Pending, Resends!Effective, Notes!Effective,
     Resends!Invites, Notes!Invites, Resends!NoInvite, Notes!NoInvite, Resends!accepts,
     Notes!accepts, Resends!private, Notes!private, Resends!removal, Notes!removal,
     Resends!bounds, Notes!bounds
<1>1. ASSUME NEW i, Resends!Lapse(i)
      PROVE  Notes(OfferedUsers, OfferResends, 0, {}, FALSE)!Lapse(i)
  BY <1>1 DEF Resends!Lapse, Notes!Lapse
<1>2. ASSUME NEW n, NEW u, Resends!ListInvitations(n, u)
      PROVE  Notes(OfferedUsers, OfferResends, 0, {}, FALSE)!ListInvitations(n, u)
  BY <1>2 DEF Resends!ListInvitations, Notes!ListInvitations, Resends!Overdue, Notes!Overdue
<1>3. ASSUME NEW n, NEW u, NEW to, NEW k, Resends!CreateInvitation(n, u, to, k)
      PROVE  Notes(OfferedUsers, OfferResends, 0, {}, FALSE)!CreateInvitation(n, u, to, k)
  BY <1>3 DEF Resends!CreateInvitation, Notes!CreateInvitation, Resends!Overdue, Notes!Overdue,
     Resends!Free, Notes!Free, Resends!Offer, Notes!Offer, Resends!Admits, Notes!Admits,
     Resends!Reserved, Notes!Reserved, Resends!Cardinality, Notes!Cardinality
<1>4. ASSUME NEW n, NEW u, NEW to, NEW k, Resends!ReplayCreate(n, u, to, k)
      PROVE  Notes(OfferedUsers, OfferResends, 0, {}, FALSE)!ReplayCreate(n, u, to, k)
  BY <1>4 DEF Resends!ReplayCreate, Notes!ReplayCreate
<1>5. ASSUME NEW n, NEW u, NEW i, Resends!Revoke(n, u, i)
      PROVE  Notes(OfferedUsers, OfferResends, 0, {}, FALSE)!Revoke(n, u, i)
  BY <1>5 DEF Resends!Revoke, Notes!Revoke
<1>6. ASSUME NEW n, NEW u, NEW i, Resends!Resend(n, u, i)
      PROVE  Notes(OfferedUsers, OfferResends, 0, {}, FALSE)!Resend(n, u, i)
  BY <1>6 DEF Resends!Resend, Notes!Resend
<1>7. ASSUME NEW h, NEW u, NEW k, NEW i, NEW g, Resends!AcceptReads(h, u, k, i, g)
      PROVE  Notes(OfferedUsers, OfferResends, 0, {}, FALSE)!AcceptReads(h, u, k, i, g)
  BY <1>7 DEF Resends!AcceptReads, Notes!AcceptReads, Resends!Request, Notes!Request,
     Resends!SameKey, Notes!SameKey, Resends!Answer, Notes!Answer
<1>8. ASSUME NEW p, Resends!Accept(p)
      PROVE  Notes(OfferedUsers, OfferResends, 0, {}, FALSE)!Accept(p)
  BY <1>8 DEF Resends!Accept, Notes!Accept, Resends!Opens, Notes!Opens, Resends!Answer,
     Notes!Answer
<1>9. ASSUME NEW n, NEW u, NEW t, NEW to, Resends!ChangeMemberRole(n, u, t, to)
      PROVE  Notes(OfferedUsers, OfferResends, 0, {}, FALSE)!ChangeMemberRole(n, u, t, to)
  BY <1>9 DEF Resends!ChangeMemberRole, Notes!ChangeMemberRole
<1>10. ASSUME NEW n, NEW u, NEW t, Resends!TransferOwnership(n, u, t)
      PROVE  Notes(OfferedUsers, OfferResends, 0, {}, FALSE)!TransferOwnership(n, u, t)
  BY <1>10 DEF Resends!TransferOwnership, Notes!TransferOwnership
<1>11. ASSUME NEW n, NEW u, NEW t, Resends!Depart(n, u, t)
      PROVE  Notes(OfferedUsers, OfferResends, 0, {}, FALSE)!Depart(n, u, t)
  BY <1>11 DEF Resends!Depart, Notes!Depart
<1>12. ASSUME NEW n, NEW u, Resends!InsertChat(n, u)
      PROVE  Notes(OfferedUsers, OfferResends, 0, {}, FALSE)!InsertChat(n, u)
  BY <1>12 DEF Resends!InsertChat, Notes!InsertChat
<1>13. ASSUME NEW n, NEW u, Resends!CommitChat(n, u)
      PROVE  Notes(OfferedUsers, OfferResends, 0, {}, FALSE)!CommitChat(n, u)
  BY <1>13 DEF Resends!CommitChat, Notes!CommitChat
<1>14. ASSUME NEW n, NEW u, Resends!DeleteReads(n, u)
      PROVE  Notes(OfferedUsers, OfferResends, 0, {}, FALSE)!DeleteReads(n, u)
  BY <1>14 DEF Resends!DeleteReads, Notes!DeleteReads
<1>15. ASSUME NEW d, Resends!DeleteRefused(d)
      PROVE  Notes(OfferedUsers, OfferResends, 0, {}, FALSE)!DeleteRefused(d)
  BY <1>15 DEF Resends!DeleteRefused, Notes!DeleteRefused
<1>16. ASSUME NEW d, Resends!Delete(d)
      PROVE  Notes(OfferedUsers, OfferResends, 0, {}, FALSE)!Delete(d)
  BY <1>16 DEF Resends!Delete, Notes!Delete, Resends!Erase, Notes!Erase
<1>17. ASSUME NEW n, NEW u, Resends!Invitation(n, u)
      PROVE  Notes(OfferedUsers, OfferResends, 0, {}, FALSE)!Invitation(n, u)
  BY <1>17, <1>2, <1>3, <1>4, <1>5, <1>6 DEF Resends!Invitation, Notes!Invitation
<1>18. ASSUME NEW n, NEW u, Resends!Membership(n, u)
      PROVE  Notes(OfferedUsers, OfferResends, 0, {}, FALSE)!Membership(n, u)
  BY <1>18, <1>9, <1>10, <1>11, <1>12, <1>13, <1>14 DEF Resends!Membership, Notes!Membership
<1> QED
  BY <1>1, <1>7, <1>8, <1>15, <1>16, <1>17, <1>18, ZenonT(60) DEF Resends!Next, Notes!Next

LEMMA ResendsKeep ==
    /\ Resends!SharingAssumption => SharingBounds(OfferedUsers)
    /\ Resends!SharingAssumption /\ Resends!Init => SharesIInv(OfferedUsers, OfferResends)
    /\ Resends!SharingAssumption /\ SharesIInv(OfferedUsers, OfferResends) /\ (Resends!Next \/ UNCHANGED sh_vars)
          => SharesIInv(OfferedUsers, OfferResends)'
<1>1. Resends!SharingAssumption => SharingBounds(OfferedUsers)
  BY DEF Resends!SharingAssumption, SharingBounds
<1>2. Resends!Init => Notes(OfferedUsers, OfferResends, 0, {}, FALSE)!Init
  BY DEF Resends!Init, Notes!Init, Resends!Invites, Notes!Invites, Resends!NoInvite, Notes!NoInvite
<1>3. Resends!SharingAssumption /\ Resends!Init => SharesIInv(OfferedUsers, OfferResends)
  BY <1>1, <1>2, SharesInit
<1>4. Resends!Next \/ UNCHANGED sh_vars
         => [Notes(OfferedUsers, OfferResends, 0, {}, FALSE)!Next]_(Notes(OfferedUsers, OfferResends, 0, {}, FALSE)!vars)
  BY ResendsAre DEF sh_vars, Notes!vars
<1>5. Resends!SharingAssumption /\ SharesIInv(OfferedUsers, OfferResends) /\ (Resends!Next \/ UNCHANGED sh_vars)
        => SharesIInv(OfferedUsers, OfferResends)'
  BY <1>1, <1>4, SharesStep
<1> QED
  BY <1>1, <1>3, <1>5

LEMMA ResendsHold ==
    ASSUME Resends!SharingAssumption, SharesIInv(OfferedUsers, OfferResends)
    PROVE  Resends!OneOwner /\ Resends!OneOffer
<1>1. /\ Notes(OfferedUsers, OfferResends, 0, {}, FALSE)!OneOwner
      /\ Notes(OfferedUsers, OfferResends, 0, {}, FALSE)!OneOffer
  BY ResendsKeep, NotesHold
<1>2. \A S : Resends!Cardinality(S) = Cardinality(S)
  BY DEF Resends!Cardinality, Cardinality
<1>3. \A S : Notes(OfferedUsers, OfferResends, 0, {}, FALSE)!Cardinality(S) = Cardinality(S)
  BY DEF Notes!Cardinality, Cardinality
<1>4. Resends!OneOwner
  BY <1>1, <1>2, <1>3 DEF Resends!OneOwner, Notes!OneOwner, Resends!Owner, Notes!Owner
<1>5. Resends!OneOffer
  BY <1>1 DEF Resends!OneOffer, Notes!OneOffer, Resends!Pending, Notes!Pending, Resends!Invites, Notes!Invites
<1> QED
  BY <1>4, <1>5

(* Where Notebooks are not deleted, none is about to be.                   *)
LEMMA NothingDeleted ==
    ASSUME sh_deleting = {}, Resends!Next
    PROVE  sh_deleting' = {} /\ sh_alive' = sh_alive
<1>1. ASSUME NEW n, NEW u, Notes(OfferedUsers, OfferResends, 0, {}, FALSE)!Invitation(n, u)
      PROVE  sh_deleting' = {} /\ sh_alive' = sh_alive
  BY <1>1 DEF Notes!Invitation, Notes!ListInvitations, Notes!CreateInvitation, Notes!ReplayCreate,
     Notes!Revoke, Notes!Resend, Notes!removal
<1>2. ASSUME NEW n, NEW u, Notes(OfferedUsers, OfferResends, 0, {}, FALSE)!Membership(n, u)
      PROVE  sh_deleting' = {} /\ sh_alive' = sh_alive
  BY <1>2 DEF Notes!Membership, Notes!TransferOwnership, Notes!Depart, Notes!ChangeMemberRole,
     Notes!InsertChat, Notes!CommitChat, Notes!DeleteReads, Notes!removal
<1>3. ASSUME NEW i, Notes(OfferedUsers, OfferResends, 0, {}, FALSE)!Lapse(i)
      PROVE  sh_deleting' = {} /\ sh_alive' = sh_alive
  BY <1>3 DEF Notes!Lapse, Notes!removal
<1>4. ASSUME NEW h, NEW u, NEW k, NEW i, NEW g,
             Notes(OfferedUsers, OfferResends, 0, {}, FALSE)!AcceptReads(h, u, k, i, g)
      PROVE  sh_deleting' = {} /\ sh_alive' = sh_alive
  BY <1>4 DEF Notes!AcceptReads, Notes!removal
<1>5. ASSUME NEW p, Notes(OfferedUsers, OfferResends, 0, {}, FALSE)!Accept(p)
      PROVE  sh_deleting' = {} /\ sh_alive' = sh_alive
  BY <1>5 DEF Notes!Accept, Notes!removal
<1> QED
  BY <1>1, <1>2, <1>3, <1>4, <1>5, ResendsAre DEF Notes!Next

-----------------------------------------------------------------------------
(* The suite. *)

IInv ==
    /\ scene = "mail" => MailIInv
    /\ scene = "imports" => ImportIInv
    /\ scene = "redirects" => RedirectsIInv
    /\ scene = "session" => SessionsIInv
    /\ scene = "discovery" => SearchIInv
    /\ scene = "sharing" => SharesIInv(Sharers, 0)
    /\ scene = "resend" => SharesIInv(OfferedUsers, OfferResends) /\ sh_deleting = {}

(* A step of a scene is one of its component.                              *)
LEMMA SceneSteps ==
    ASSUME [Next]_vars
    PROVE  /\ scene' = scene
           /\ scene = "mail" => [Mails!Next]_(Mails!vars)
           /\ scene = "imports" => [Imports!Next]_(Imports!vars)
           /\ scene = "redirects" => Redirects!Next \/ UNCHANGED ui_vars
           /\ scene = "session" => Sessions!Next \/ UNCHANGED ui_vars
           /\ scene = "discovery" => [Manual!Next]_(Manual!vars)
           /\ Manual!Next \/ Chats!Next \/ UNCHANGED Manual!vars
           /\ scene = "sharing" => Shares!Next \/ UNCHANGED sh_vars
           /\ scene = "resend" => Resends!Next \/ UNCHANGED sh_vars
           /\ scene \notin {"sharing", "resend"} => UNCHANGED sh_vars
<1>1. UNCHANGED mo_vars => UNCHANGED Mails!vars
  BY DEF mo_vars, Mails!vars
<1>2. UNCHANGED si_vars => UNCHANGED Imports!vars
  BY DEF si_vars, Imports!vars
<1>3. UNCHANGED ds_vars => UNCHANGED Manual!vars
  BY DEF ds_vars, Manual!vars
<1>4. CASE Next
  BY <1>3, <1>4 DEF Next
<1>5. CASE UNCHANGED vars
  <2>1. /\ scene' = scene /\ UNCHANGED mo_vars /\ UNCHANGED si_vars /\ UNCHANGED ui_vars
        /\ UNCHANGED ds_vars /\ UNCHANGED sh_vars
    BY <1>5 DEF vars
  <2> QED
    BY <2>1, <1>1, <1>2, <1>3
<1> QED
  BY <1>4, <1>5

(* The pages keep their inductive invariant in either scene.               *)
LEMMA PagesKept ==
    /\ RedirectsIInv /\ (Redirects!Next \/ UNCHANGED ui_vars) => RedirectsIInv'
    /\ SessionsIInv /\ (Sessions!Next \/ UNCHANGED ui_vars) => SessionsIInv'
<1>1. RedirectsIInv /\ UNCHANGED ui_vars => RedirectsIInv'
  BY PagesStand DEF RedirectsIInv
<1>2. SessionsIInv /\ UNCHANGED ui_vars => SessionsIInv'
  BY PagesStand DEF SessionsIInv
<1> QED
  BY <1>1, <1>2, RedirectsStep, SessionsStep, NotebooksAssumption

(* The offers of a Notebook are kept in either scene.                      *)
LEMMA OffersKept ==
    /\ SharesIInv(Sharers, 0) /\ (Shares!Next \/ UNCHANGED sh_vars) => SharesIInv(Sharers, 0)'
    /\ SharesIInv(OfferedUsers, OfferResends) /\ sh_deleting = {} /\ (Resends!Next \/ UNCHANGED sh_vars)
          => SharesIInv(OfferedUsers, OfferResends)' /\ sh_deleting' = {} /\ sh_alive' = sh_alive
<1>1. UNCHANGED sh_vars => sh_deleting' = sh_deleting /\ sh_alive' = sh_alive
  BY DEF sh_vars
<1> QED
  BY <1>1, SharesKeep, ResendsKeep, NothingDeleted, NotebooksAssumption

(* The offers, the outbox, the pages, the searches and the imports keep    *)
(* their inductive invariants in the scenes they act in.                   *)
THEOREM Invariance == Spec => []IInv
<1>1. Init => IInv
  <2>1. Resends!Init => sh_deleting = {}
    BY DEF Resends!Init
  <2> QED
    BY <2>1, MailInit, ImportInit, RedirectsInit, SessionsInit, SearchInit, SharesKeep, ResendsKeep,
       NotebooksAssumption DEF Init, IInv
<1>2. IInv /\ [Next]_vars => IInv'
  BY SceneSteps, MailStep, ImportStep, PagesKept, SearchStep, OffersKept, NotebooksAssumption DEF IInv
<1> QED
  BY <1>1, <1>2, PTL DEF Spec

(* mailoutbox: a mail marked sent was mailed, one marked failed had all    *)
(* its attempts, and a recipient gets at most one mail for each, for any   *)
(* messages and Senders, and whoever loses its lease when.                 *)
THEOREM VerdictsAreTrue == Spec => []VerdictIsTrue
<1>1. IInv => VerdictIsTrue
  BY MailHolds, NotebooksAssumption DEF IInv, VerdictIsTrue
<1> QED
  BY <1>1, Invariance, PTL

(* importURLSource and importDiscoveryCandidate: a candidate is being      *)
(* imported by one request, a page has one Source wherever it redirects,   *)
(* and the Source has its original, for any pages, redirects to one page,  *)
(* keys, handlers and limit, over disconnects, retries, failed Sources     *)
(* and, with redirects, removals.                                          *)
THEOREM ImportsAreSingle == Spec => []OneImportPerCandidate
<1>1. IInv => OneImportPerCandidate
  BY RedirectsHold, SessionsHold DEF IInv, OneImportPerCandidate
<1> QED
  BY <1>1, Invariance, PTL

(* researchsource: whatever number of transactions end Sources at once,    *)
(* and with removals, a research Run waits for Sources that have all ended *)
(* only when two of them were being ended at once, or one was removed, in  *)
(* this wait; and a child sees what its root has pinned.  For any Sources  *)
(* and any limit of the scope.                                             *)
THEOREM WaitsAreForSources == Spec => []WaitsForItsSources
<1>1. IInv => WaitsForItsSources
  BY ImportHolds DEF IInv, WaitsForItsSources
<1> QED
  BY <1>1, Invariance, PTL

(* sourcediscovery: what a Member was shown is never replaced by a second  *)
(* search, of a worker, a straggler or an Attempt of the Run, and a        *)
(* Member's session searches exactly as long as a job can end it and a     *)
(* retry key starts one search, for any workers, keys, requests and claims.*)
THEOREM SearchesAreFinal == Spec => ReadyIsFinal
<1>1. IInv => (scene = "discovery" => Manual!JobTellsSession /\ Manual!OneSearchPerKey)
  BY DEF IInv, SearchIInv, JobTells, KeysStarted, Manual!JobTellsSession, Manual!OneSearchPerKey
<1>2. [Next]_vars => [ds_ses = "ready" => UNCHANGED <<ds_ses, ds_cand>>]_(Manual!vars)
  BY SceneSteps, ReadyStays
<1> QED
  BY <1>1, <1>2, Invariance, PTL DEF Spec, ReadyIsFinal, Manual!ReadyIsFinal

(* notebook: Members and effective offers stay within the limit and are of *)
(* different emails as long as no offer is made again, an email has one    *)
(* offer and a Notebook one Owner also when offers are, whoever joins      *)
(* presented the newest token, and every Member is told of a deletion, for *)
(* any Notebooks, Users, keys, limit and numbers of offers and transfers.  *)
THEOREM OffersAreKept == Spec => OffersHold
<1>1. IInv => (scene = "sharing" => /\ Shares!WithinLimit /\ Shares!OneOwner /\ Shares!OneOffer
                                    /\ Shares!OfferedIsNoMember)
  BY SharesHold, NotebooksAssumption DEF IInv
<1>2. IInv => (scene = "resend" => Resends!OneOwner /\ Resends!OneOffer)
  BY ResendsHold, NotebooksAssumption DEF IInv
<1>3. UNCHANGED sh_vars => UNCHANGED Shares!vars /\ UNCHANGED Resends!vars
  BY DEF sh_vars, Shares!vars, Resends!vars
<1>4. IInv /\ [Next]_vars =>
        [\A n \in sh_alive \ sh_alive' : \A u \in Sharers :
            sh_role[n][u] \in {"viewer", "editor"} => <<n, u>> \in sh_told']_(Shares!vars)
  <2>1. Shares!Next => \A n \in sh_alive \ sh_alive' : \A u \in Sharers :
                          sh_role[n][u] \in {"viewer", "editor"} => <<n, u>> \in sh_told'
    BY SharesAre, TokensAreNewest
  <2>2. sh_alive' = sh_alive => sh_alive \ sh_alive' = {}
    OBVIOUS
  <2> QED
    BY SceneSteps, OffersKept, <1>3, <2>1, <2>2 DEF IInv
<1>5. [Next]_vars => [\A r \in sh_accepted' \ sh_accepted : sh_inv[r.inv].gen = r.gen]_(Resends!vars)
  <2>1. Shares!Next \/ Resends!Next => \A r \in sh_accepted' \ sh_accepted : sh_inv[r.inv].gen = r.gen
    BY SharesAre, ResendsAre, TokensAreNewest
  <2> QED
    BY SceneSteps, <1>3, <2>1
<1> QED
  BY <1>1, <1>2, <1>4, <1>5, Invariance, PTL DEF Spec, OffersHold, Shares!DeletedIsTold,
     Resends!JoinedByNewest
=============================================================================
