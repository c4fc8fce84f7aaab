--------------------------- MODULE SourceUploads ---------------------------
(***************************************************************************)
(* Direct uploads: the intent a Member creates, the object the browser     *)
(* posts under it, the finalize request that promotes the object to its    *)
(* final key and admits the Source in a later transaction, and the purge   *)
(* worker (internal/sourcepurge) that turns expired intents and removed    *)
(* Sources into deletions under a lease.                                   *)
(*                                                                         *)
(* All intents are of one Notebook; each has a staged key and a final key  *)
(* of its own.  A finalize request decides on the time it read first, so   *)
(* the clock may pass the expiry anywhere behind that read.                *)
(***************************************************************************)
EXTENDS Naturals, FiniteSets

CONSTANTS Intents,
          Twins,         \* intents that announce the same content
          Requests,      \* finalize requests the server is running
          Purgers,       \* purge workers
          NoPurger,
          Quota,         \* Sources a Notebook holds: 50 in store.go
          PurgeLimit,    \* leases a purge Job gets: 10 in processor.go
          MaxFaults      \* bound: crashes of requests and failing deletions

\* Of the constants; the MC modules that instantiate this one assume it.
SourceUploadsAssumption ==
    /\ Twins \subseteq Intents
    /\ NoPurger \notin Purgers
    /\ Quota \in Nat /\ PurgeLimit \in Nat \ {0} /\ MaxFaults \in Nat

VARIABLES
    intent,   \* source_upload_intents.state, "none" before it is created
    due,      \* expires_at has passed
    staged,   \* intents whose staged object exists
    final,    \* intents whose final object exists
    sources,  \* intents whose Source row exists
    purge,    \* source_purge_jobs of the intent's source_id
    req,      \* finalize requests
    purger,   \* purge workers: the Job they run and the objects left to delete
    faults

vars == <<intent, due, staged, final, sources, purge, req, purger, faults>>

SameContent(i, j) == i = j \/ {i, j} \subseteq Twins
NoPurge == [state |-> "none", keys |-> {}, attempt |-> 0, holder |-> NoPurger, live |-> FALSE]
PurgeJob(keys) == [NoPurge EXCEPT !.state = "pending", !.keys = keys]
IdleRequest == [pc |-> "idle", on |-> {}]
IdlePurger == [pc |-> "idle", on |-> {}, left |-> {}]

Init ==
    /\ intent = [i \in Intents |-> "none"]
    /\ due = [i \in Intents |-> FALSE]
    /\ staged = {} /\ final = {} /\ sources = {}
    /\ purge = [i \in Intents |-> NoPurge]
    /\ req = [r \in Requests |-> IdleRequest]
    /\ purger = [p \in Purgers |-> IdlePurger]
    /\ faults = 0

-----------------------------------------------------------------------------
(* The Member and the browser. *)

CreateUploadIntent(i) ==
    /\ intent[i] = "none"
    /\ intent' = [intent EXCEPT ![i] = "pending"]
    /\ UNCHANGED <<due, staged, final, sources, purge, req, purger, faults>>

(* The presigned policy is good until the intent expires; the object store *)
(* knows nothing of the intent's state.                                    *)
PresignUpload(i) ==
    /\ intent[i] # "none" /\ ~due[i]
    /\ staged' = staged \cup {i}
    /\ UNCHANGED <<intent, due, final, sources, purge, req, purger, faults>>

Expire(i) ==
    /\ intent[i] # "none" /\ ~due[i]
    /\ due' = [due EXCEPT ![i] = TRUE]
    /\ UNCHANGED <<intent, staged, final, sources, purge, req, purger, faults>>

-----------------------------------------------------------------------------
(* POST .../finalize. *)

At(r, pc, i) == req[r] = [pc |-> pc, on |-> {i}]
Go(r, pc, i) == req' = [req EXCEPT ![r] = [pc |-> pc, on |-> {i}]]
Answer(r) == req' = [req EXCEPT ![r] = IdleRequest]

Lookup(r, i) ==
    /\ req[r] = IdleRequest
    /\ intent[i] # "none"
    /\ \/ intent[i] = "pending" /\ ~due[i] /\ Go(r, "stat", i)
       \/ intent[i] # "pending" /\ Go(r, "tx", i)
    /\ UNCHANGED <<intent, due, staged, final, sources, purge, purger, faults>>

\* Mutant: a staged object that is gone is taken for one promoted before.
StatLenient(r, i) ==
    /\ At(r, "stat", i)
    /\ Go(r, IF i \in staged THEN "copy" ELSE "tx", i)
    /\ UNCHANGED <<intent, due, staged, final, sources, purge, purger, faults>>
StatStaged(r, i) ==
    /\ At(r, "stat", i)
    /\ IF i \in staged THEN Go(r, "copy", i) ELSE Answer(r)
    /\ UNCHANGED <<intent, due, staged, final, sources, purge, purger, faults>>

(* The copy names the ETag it has seen, so it needs the staged object. *)
Copy(r, i) ==
    /\ At(r, "copy", i)
    /\ IF i \in staged
       THEN final' = final \cup {i} /\ Go(r, "drop", i)
       ELSE Answer(r) /\ UNCHANGED final
    /\ UNCHANGED <<intent, due, staged, sources, purge, purger, faults>>

DropStaged(r, i) ==
    /\ At(r, "drop", i)
    /\ IF i \in final
       THEN staged' = staged \ {i} /\ Go(r, "tx", i)
       ELSE Answer(r) /\ UNCHANGED staged
    /\ UNCHANGED <<intent, due, final, sources, purge, purger, faults>>

(* CreateUploaded, under the advisory lock of the Notebook. *)
Admissible(i) ==
    /\ \A j \in sources : ~SameContent(i, j)
    /\ Cardinality(sources) < Quota

(* One transaction: a finalized intent answers with its Source, an expired *)
(* one and an inadmissible one change nothing.                             *)
FinalizeUploadIntent(r, i) ==
    /\ At(r, "tx", i)
    /\ IF intent[i] = "pending" /\ Admissible(i)
       THEN /\ sources' = sources \cup {i}
            /\ intent' = [intent EXCEPT ![i] = "finalized"]
       ELSE UNCHANGED <<sources, intent>>
    /\ Answer(r)
    /\ UNCHANGED <<due, staged, final, purge, purger, faults>>

(* The process dies or a call fails: the client may finalize again. *)
RequestFails(r) ==
    /\ req[r] # IdleRequest
    /\ faults < MaxFaults
    /\ faults' = faults + 1
    /\ Answer(r)
    /\ UNCHANGED <<intent, due, staged, final, sources, purge, purger>>

Remove(i) ==
    /\ i \in sources
    /\ sources' = sources \ {i}
    /\ purge' = [purge EXCEPT ![i] = PurgeJob({"final"})]
    /\ UNCHANGED <<intent, due, staged, final, req, purger, faults>>

-----------------------------------------------------------------------------
(* The purge worker. *)

materializeExpiredUpload(i) ==
    /\ intent[i] = "pending" /\ due[i]
    /\ intent' = [intent EXCEPT ![i] = "expired"]
    /\ purge' = [purge EXCEPT ![i] = PurgeJob({"staged"})]
    /\ UNCHANGED <<due, staged, final, sources, req, purger, faults>>

Released(job, state) == [job EXCEPT !.state = state, !.holder = NoPurger, !.live = FALSE]

Swept(job) ==
    IF job.state = "running" /\ ~job.live
    THEN Released(job, IF job.attempt >= PurgeLimit THEN "failed" ELSE "pending")
    ELSE job

Claimable(job) == Swept(job).state = "pending" /\ Swept(job).attempt < PurgeLimit

(* Every overdue Job is swept, then one pending Job is leased. *)
Claim(p) ==
    /\ purger[p] = IdlePurger
    /\ \/ \E i \in Intents :
            /\ Claimable(purge[i])
            /\ purge' = [j \in Intents |->
                  IF j # i THEN Swept(purge[j])
                  ELSE [Swept(purge[i]) EXCEPT !.state = "running", !.attempt = @ + 1,
                                               !.holder = p, !.live = TRUE]]
            /\ purger' = [purger EXCEPT ![p] =
                  [pc |-> "delete", on |-> {i}, left |-> purge[i].keys]]
       \/ /\ \A i \in Intents : ~Claimable(purge[i])
          /\ \E i \in Intents : Swept(purge[i]) # purge[i]
          /\ purge' = [i \in Intents |-> Swept(purge[i])]
          /\ UNCHANGED purger
    /\ UNCHANGED <<intent, due, staged, final, sources, req, faults>>

LeaseExpires(i) ==
    /\ purge[i].live
    /\ purge' = [purge EXCEPT ![i].live = FALSE]
    /\ UNCHANGED <<intent, due, staged, final, sources, req, purger, faults>>

(* Deleting an object that is not there succeeds too. *)
Delete(p) ==
    /\ \E i \in purger[p].on, key \in purger[p].left :
          /\ staged' = IF key = "staged" THEN staged \ {i} ELSE staged
          /\ final' = IF key = "final" THEN final \ {i} ELSE final
          /\ purger' = [purger EXCEPT ![p].left = @ \ {key}]
    /\ UNCHANGED <<intent, due, sources, purge, req, faults>>

(* Only the holder of a live lease changes the Job. *)
Finish(p, i, state) ==
    purge' = IF purge[i].state = "running" /\ purge[i].holder = p /\ purge[i].live
             THEN [purge EXCEPT ![i] = Released(@, state)] ELSE purge

Complete(p) ==
    /\ purger[p].pc = "delete" /\ purger[p].left = {}
    /\ \E i \in purger[p].on : Finish(p, i, "succeeded")
    /\ purger' = [purger EXCEPT ![p] = IdlePurger]
    /\ UNCHANGED <<intent, due, staged, final, sources, req, faults>>

ReleaseFailure(p) ==
    /\ purger[p].left # {}
    /\ faults < MaxFaults
    /\ faults' = faults + 1
    /\ \E i \in purger[p].on :
          Finish(p, i, IF purge[i].attempt >= PurgeLimit THEN "failed" ELSE "pending")
    /\ purger' = [purger EXCEPT ![p] = IdlePurger]
    /\ UNCHANGED <<intent, due, staged, final, sources, req>>

PurgerDies(p) ==
    /\ purger[p] # IdlePurger
    /\ faults < MaxFaults
    /\ faults' = faults + 1
    /\ purger' = [purger EXCEPT ![p] = IdlePurger]
    /\ UNCHANGED <<intent, due, staged, final, sources, purge, req>>

-----------------------------------------------------------------------------
Client(i) == CreateUploadIntent(i) \/ PresignUpload(i) \/ Expire(i) \/ Remove(i)
Request(r) ==
    \/ \E i \in Intents :
          \/ Lookup(r, i) \/ StatStaged(r, i) \/ Copy(r, i) \/ DropStaged(r, i)
          \/ FinalizeUploadIntent(r, i)
    \/ RequestFails(r)
Purging(p) == Delete(p) \/ Complete(p)

Next ==
    \/ \E i \in Intents : Client(i) \/ materializeExpiredUpload(i) \/ LeaseExpires(i)
    \/ \E r \in Requests : Request(r)
    \/ \E p \in Purgers : Claim(p) \/ Purging(p) \/ ReleaseFailure(p) \/ PurgerDies(p)

(* The poll loop of Processor.Run keeps materializing and claiming, and a  *)
(* worker that holds a Job works it off; the clock passes every expiry.    *)
Fairness ==
    /\ \A i \in Intents : WF_vars(Expire(i)) /\ WF_vars(materializeExpiredUpload(i))
                          /\ WF_vars(LeaseExpires(i))
    /\ \A p \in Purgers : WF_vars(Claim(p)) /\ WF_vars(Purging(p))

Spec == Init /\ [][Next]_vars
LiveSpec == Spec /\ Fairness

-----------------------------------------------------------------------------
(* Properties. *)

(* Every variable has its type; a Job is running exactly while it has a    *)
(* holder, as the lease constraint of source_purge_jobs says.              *)
(* The rows of source_upload_intents and source_purge_jobs.                *)
IntentRows == {"none", "pending", "finalized", "expired"}
PurgeRows == [state : {"none", "pending", "running", "succeeded", "failed"},
              keys : SUBSET {"staged", "final"}, attempt : 0..PurgeLimit,
              holder : Purgers \cup {NoPurger}, live : BOOLEAN]
TypeOK ==
    /\ intent \in [Intents -> IntentRows]
    /\ due \in [Intents -> BOOLEAN]
    /\ staged \subseteq Intents /\ final \subseteq Intents /\ sources \subseteq Intents
    /\ \A i \in Intents :
          /\ purge[i] \in PurgeRows
          /\ (purge[i].state = "running") = (purge[i].holder # NoPurger)
    /\ \A r \in Requests : req[r].pc \in {"idle", "stat", "copy", "drop", "tx"}
    /\ \A p \in Purgers : purger[p].pc \in {"idle", "delete"}

(* A Source always has its original: no purge of an expired intent, of     *)
(* another Source, or of a retried request may delete the object an        *)
(* admitted Source was created from, and none is created without one.      *)
OriginalPresent == sources \subseteq final

(* The Notebook never holds two Sources of one content, whatever finalize  *)
(* requests run at once and whatever was removed in between.               *)
AdmittedOnce == \A i, j \in sources : SameContent(i, j) => i = j

(* An intent that was expired never becomes a Source, although the request *)
(* that promotes its object decided on an older time.                      *)
ExpiredStaysOut == [][\A i \in Intents : intent[i] = "expired" => i \notin sources']_vars

(* A purge that succeeded left none of the objects its manifest names:     *)
(* shown for expired intents, whose object no request can bring back.      *)
PurgedIsGone ==
    \A i \in Intents :
        purge[i].state = "succeeded" /\ purge[i].keys = {"staged"} => i \notin staged

(* A purge that ended stays ended: a worker that lost its lease neither    *)
(* reopens nor rewrites it.                                                *)
PurgeEndsOnce ==
    [][\A i \in Intents : purge[i].state \in {"succeeded", "failed"}
          => purge'[i] = purge[i]]_vars

(* A finalized intent and a removed Source leave a trace: the Source row   *)
(* or the purge Job that deletes its object, at any moment.                *)
NothingForgotten ==
    \A i \in Intents :
        /\ intent[i] = "finalized" => i \in sources \/ "final" \in purge[i].keys
        /\ intent[i] = "expired" => "staged" \in purge[i].keys

(* An intent that is not finalized expires and its purge ends: deleted, or *)
(* failed after its attempts.                                              *)
Settles ==
    \A i \in Intents :
        intent[i] = "pending" ~>
            \/ intent[i] = "finalized"
            \/ purge[i].state \in {"succeeded", "failed"}

(* docs/sprint/SPRINT-6-PRD.md:195: abandoned intents expire and their     *)
(* objects are purged.  Promotion moves the object out of the staged key   *)
(* before the intent is finalized; a request that dies between the two     *)
(* leaves an object no manifest names.                                     *)
(* Does not hold: see "Disagreements" in the README.                        *)
AbandonedIsPurged ==
    \A i \in Intents :
        /\ intent[i] = "expired" /\ purge[i].state = "succeeded"
        /\ \A r \in Requests : req[r] = IdleRequest
        => i \notin staged \cup final

=============================================================================
