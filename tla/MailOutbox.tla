----------------------------- MODULE MailOutbox -----------------------------
(***************************************************************************)
(* The mail outbox (internal/mailoutbox): Senders claim a row with a       *)
(* lease, hand the mail to SMTP and record what became of it.  SMTP may    *)
(* have delivered a mail whose acknowledgement is an error.                *)
(***************************************************************************)
EXTENDS Naturals, FiniteSets

CONSTANTS Messages, Senders,
          MaxAttempts,  \* 10 in the code
          MaxCrashes    \* bound: crashes of Senders

\* Of the constants; the MC modules that instantiate this one assume it.
MailAssumption == MaxAttempts \in Nat \ {0} /\ MaxCrashes \in Nat

VARIABLES
    row,      \* platform_mail_outbox
    holds,    \* the Delivery of each Sender and how far SendOnce is
    mailed,   \* external: mails that were delivered
    crashes

vars == <<row, holds, mailed, crashes>>

Idle == [pc |-> "idle", msg |-> "none", lease |-> 0]
Init ==
    /\ row = [m \in Messages |-> [state |-> "pending", attempt |-> 0, lapsed |-> FALSE, token |-> TRUE]]
    /\ holds = [s \in Senders |-> Idle]
    /\ mailed = [m \in Messages |-> 0] /\ crashes = 0

Lapse(m) ==
    /\ row[m].state = "leased" /\ ~row[m].lapsed
    /\ row' = [row EXCEPT ![m].lapsed = TRUE]
    /\ UNCHANGED <<holds, mailed, crashes>>

\* Mutant: the last attempt is not made.
AgainEarly(r) == [r EXCEPT !.state = IF r.attempt + 1 >= MaxAttempts THEN "failed" ELSE "pending", !.lapsed = FALSE]
(* What is retried, and what has been tried often enough.                  *)
Again(r) == [r EXCEPT !.state = IF r.attempt >= MaxAttempts THEN "failed" ELSE "pending", !.lapsed = FALSE]
Recovered == [m \in Messages |-> IF row[m].state = "leased" /\ row[m].lapsed THEN Again(row[m]) ELSE row[m]]

(* Every attempt is a lease of its own.                                    *)
Claim(s, m) ==
    /\ holds[s] = Idle
    /\ Recovered[m].state = "pending"
    /\ row' = [Recovered EXCEPT ![m].state = "leased", ![m].attempt = @ + 1]
    /\ holds' = [holds EXCEPT ![s] = [pc |-> "send", msg |-> m, lease |-> row[m].attempt + 1]]
    /\ UNCHANGED <<mailed, crashes>>
ClaimNone(s) ==
    /\ holds[s] = Idle /\ Recovered # row
    /\ \A m \in Messages : Recovered[m].state # "pending"
    /\ row' = Recovered
    /\ UNCHANGED <<holds, mailed, crashes>>

Goto(s, pc) == holds' = [holds EXCEPT ![s].pc = pc]
Send(s) ==
    /\ holds[s].pc = "send" /\ Goto(s, "complete")
    /\ mailed' = [mailed EXCEPT ![holds[s].msg] = @ + 1]
    /\ UNCHANGED <<row, crashes>>
SendFails(s) ==
    /\ holds[s].pc = "send" /\ Goto(s, "release")
    /\ \E delivered \in {0, 1} : mailed' = [mailed EXCEPT ![holds[s].msg] = @ + delivered]
    /\ UNCHANGED <<row, crashes>>

Leased(s) == row[holds[s].msg].state = "leased" /\ row[holds[s].msg].attempt = holds[s].lease
(* Complete wants the lease to be valid, Release only to be the newest.    *)
Complete(s) ==
    /\ holds[s].pc = "complete" /\ holds' = [holds EXCEPT ![s] = Idle]
    /\ row' = IF Leased(s) /\ ~row[holds[s].msg].lapsed
              THEN [row EXCEPT ![holds[s].msg].state = "sent", ![holds[s].msg].token = FALSE] ELSE row
    /\ UNCHANGED <<mailed, crashes>>
Release(s) ==
    /\ holds[s].pc = "release" /\ holds' = [holds EXCEPT ![s] = Idle]
    /\ row' = IF Leased(s) THEN [row EXCEPT ![holds[s].msg] = Again(@)] ELSE row
    /\ UNCHANGED <<mailed, crashes>>

(* A Sender dies, or cannot reach the database.                            *)
Crash(s) ==
    /\ holds[s] # Idle /\ crashes < MaxCrashes /\ crashes' = crashes + 1
    /\ holds' = [holds EXCEPT ![s] = Idle]
    /\ UNCHANGED <<row, mailed>>

-----------------------------------------------------------------------------
SendOnce(s) == Send(s) \/ SendFails(s) \/ Complete(s) \/ Release(s)
Claims(s) == ClaimNone(s) \/ \E m \in Messages : Claim(s, m)
Next ==
    \/ \E s \in Senders : Claims(s) \/ SendOnce(s) \/ Crash(s)
    \/ \E m \in Messages : Lapse(m)
Spec == Init /\ [][Next]_vars
(* Senders poll and finish what they began; leases lapse.                  *)
LiveSpec ==
    /\ Spec
    /\ \A s \in Senders : WF_vars(Claims(s)) /\ WF_vars(SendOnce(s))
    /\ \A m \in Messages : WF_vars(Lapse(m))

-----------------------------------------------------------------------------
(* Properties. *)

(* Every variable has its type.                                            *)
(* The states of platform_mail_outbox.                                     *)
MailStates == {"pending", "leased", "sent", "failed"}
TypeOK ==
    /\ \A m \in Messages : row[m].state \in MailStates /\ row[m].attempt \in 0..MaxAttempts
    /\ \A s \in Senders : holds[s] = Idle \/ holds[s].msg \in Messages
    /\ crashes <= MaxCrashes

(* platform_mail_outbox: a row marked sent was mailed, one marked failed   *)
(* had all its attempts, whoever lost its lease in between.                *)
VerdictIsTrue ==
    \A m \in Messages :
        /\ row[m].state = "sent" => mailed[m] > 0
        /\ row[m].state = "failed" => row[m].attempt = MaxAttempts

(* A recipient gets at most one mail for each attempt, and the attempts    *)
(* are bounded.                                                            *)
MailsBounded == \A m \in Messages : mailed[m] <= row[m].attempt /\ row[m].attempt <= MaxAttempts

(* Every mail ends as sent or failed.                                      *)
MailSettles == \A m \in Messages : <>(row[m].state \in {"sent", "failed"})

(* sharing design, 5.3: a raw token stays until delivery or terminal       *)
(* expiry.                                                                 *)
(* Does not hold: see "Disagreements" in the README.                        *)
TokenGoes == \A m \in Messages : row[m].state \in {"sent", "failed"} => ~row[m].token

=============================================================================
