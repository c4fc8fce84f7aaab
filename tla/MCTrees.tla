------------------------------ MODULE MCTrees -------------------------------
(* The trees of Runs: Subagents, Delegation, ResearchReading and Rollout    *)
(* share no rows that either writes for the other, so each behaviour is of  *)
(* one of them; the scene says which, and in which instance.  The first two *)
(* are instances of the modules with their theorems, which MCTreesProofs    *)
(* cites.                                                                   *)
EXTENDS Naturals, Sequences, TLC

CONSTANTS Repeating, Batching, Crashing,    \* constants of ResearchReading
          Rolling, Upgrading, Mistaken      \* constants of Rollout

(* Two URLs of one document, the first leading to the second, and another.  *)
MCDocument == <<1, 1, 3>>
MCFinal == <<2, 2, 3>>

\* Calls one by one, two at a time, and Attempts that die.
MCRepeating ==
    [urls |-> {1, 2, 3}, document |-> MCDocument, final |-> MCFinal, long |-> {1, 2},
     scouts |-> 0, decisions |-> 4, batch |-> 1, active |-> 1, total |-> 1,
     recommended |-> 1, crashes |-> 0]
MCBatching ==
    [MCRepeating EXCEPT !.urls = {1, 2}, !.document = <<1, 1>>, !.final = <<2, 2>>,
                        !.long = {1}, !.decisions = 2, !.batch = 2]
MCCrashing ==
    [MCRepeating EXCEPT !.scouts = 1, !.decisions = 2, !.active = 2, !.total = 3, !.crashes = 1]

(* The builds of Rollout: a first one, a second with a new definition, and  *)
(* three mistakes: a version edited in place, a context policy replaced for *)
(* its model policy, and a definition no Executor supports.                 *)
Definition(body, executor, children, delegable) ==
    [body |-> body, executor |-> executor, policy |-> "qwen@1", contracts |-> {"turn@1"},
     prompts |-> {"prompt@1"}, skills |-> {"skill@1"}, children |-> children,
     delegable |-> delegable, calls |-> 2]
Budget(body) == [body |-> body, policy |-> "qwen@1", capability |-> "qwen-plus@1",
                 pinned |-> 2, soft |-> 5, safety |-> 1, keep |-> 3, summary |-> 1]
First ==
    "prompt@1" :> [body |-> "p"] @@ "skill@1" :> [body |-> "s"] @@ "turn@1" :> [body |-> "t"] @@
    "qwen@1" :> [body |-> "q", model |-> "plus", output |-> 2] @@
    "qwen-plus@1" :> [body |-> "c", model |-> "plus", window |-> 10, input |-> 7, output |-> 2] @@
    "budget@1" :> Budget("b") @@
    "find@1" :> Definition("f", "research", {}, TRUE) @@
    "chat@1" :> Definition("c1", "chat_leader", {"find@1"}, FALSE) @@
    "release@1" :> [body |-> "r1", roots |-> {"chat@1"}]
NextRelease(v, definition) == v[2] :> definition @@ v[3] :> [body |-> "r2", roots |-> {v[2]}] @@ First
Second == NextRelease(<<2, "chat@2", "release@2">>, Definition("c2", "chat_leader", {"find@1"}, FALSE))
Unbound == NextRelease(<<3, "chat@3", "release@3">>, Definition("c3", "planner", {}, FALSE))
Edited == "chat@1" :> Definition("c1 edited", "chat_leader", {"find@1"}, FALSE) @@ First
Rebudgeted == "budget@2" :> Budget("b2") @@ [r \in DOMAIN First \ {"budget@1"} |-> First[r]]
Catalogs == [first |-> First, second |-> Second, edited |-> Edited, rebudgeted |-> Rebudgeted, unbound |-> Unbound]
Deployed == [first |-> "release@1", second |-> "release@2", edited |-> "release@1",
             rebudgeted |-> "release@1", unbound |-> "release@3"]
Supports(children) == [calls |-> 2, skills |-> {"skill@1"}, contracts |-> {"turn@1"}, children |-> children]
Registrations == [b \in DOMAIN Catalogs |-> "chat_leader" :> Supports({"research"}) @@ "research" :> Supports({})]
Configured(id) == [id |-> id, prompts |-> "p", executor |-> "leader-executor-v1"]
Configurations == [b \in DOMAIN Catalogs |-> Configured(IF b = "second" THEN "c2" ELSE "c1")]
MCRolling ==
    [builds |-> {"first", "second"}, embeds |-> Catalogs, release |-> Deployed,
     executors |-> Registrations, config |-> Configurations,
     prompts |-> {"prompt@1"}, skills |-> {"skill@1"}, contracts |-> {"turn@1"},
     policies |-> {"qwen@1"}, capabilities |-> {"qwen-plus@1"}, contexts |-> {"budget@1", "budget@2"},
     definitions |-> {"find@1", "chat@1", "chat@2", "chat@3"},
     releases |-> {"release@1", "release@2", "release@3"},
     controls |-> {"c"}, workers |-> {"w"}, runs |-> {"r", "s"}, legacy |-> {}, starts |-> 4]
MCUpgrading == [MCRolling EXCEPT !.legacy = {"s"}]
MCMistaken ==
    [MCRolling EXCEPT !.builds = {"first", "edited", "rebudgeted", "unbound"},
                      !.controls = {"c", "d"}, !.runs = {"r"}, !.starts = 3]

VARIABLE scene     \* the component, and the instance of it, a behaviour is of
VARIABLES   \* of Subagents
    sa_status, sa_availableAt, sa_waits, sa_childOf, sa_act, sa_excerpts,
    sa_now, sa_lock, sa_want, sa_step, sa_began, sa_endAs, sa_parked
VARIABLES   \* of Delegation
    dl_run, dl_job, dl_attemptNo, dl_failed, dl_lease, dl_acting,
    dl_checked, dl_delegation, dl_consumed, dl_outcome, dl_accepted,
    dl_answer, dl_overdue, dl_reply
VARIABLES   \* of ResearchReading
    rd_log, rd_started, rd_children, rd_ledger, rd_due, rd_late, rd_crashes,
    rd_published
VARIABLES   \* of Rollout
    ro_registered, ro_configurations, ro_proc, ro_runs, ro_starts

Waits == INSTANCE SubagentsProofs WITH
    MaxChildren <- 2, MaxActive <- 2, MaxTotal <- 2, MaxActions <- 4,
    Timeouts <- {1}, Backoff <- 1, Deadline <- 2, MaxTime <- 1,
    status <- sa_status, availableAt <- sa_availableAt, waits <- sa_waits,
    childOf <- sa_childOf, act <- sa_act, excerpts <- sa_excerpts,
    now <- sa_now, lock <- sa_lock, want <- sa_want, step <- sa_step,
    began <- sa_began, endAs <- sa_endAs, parked <- sa_parked

Full == INSTANCE SubagentsProofs WITH
    MaxChildren <- 3, MaxActive <- 1, MaxTotal <- 2, MaxActions <- 3,
    Timeouts <- {0, 1}, Backoff <- 1, Deadline <- 1, MaxTime <- 1,
    status <- sa_status, availableAt <- sa_availableAt, waits <- sa_waits,
    childOf <- sa_childOf, act <- sa_act, excerpts <- sa_excerpts,
    now <- sa_now, lock <- sa_lock, want <- sa_want, step <- sa_step,
    began <- sa_began, endAs <- sa_endAs, parked <- sa_parked

Pins(k) == INSTANCE Rollout WITH
    Builds <- k.builds, Embeds <- k.embeds, Release <- k.release,
    Executors <- k.executors, Config <- k.config, Prompts <- k.prompts,
    Skills <- k.skills, Contracts <- k.contracts, Policies <- k.policies,
    Capabilities <- k.capabilities, Contexts <- k.contexts,
    Definitions <- k.definitions, Releases <- k.releases,
    Controls <- k.controls, Workers <- k.workers, Runs <- k.runs,
    Legacy <- k.legacy, MaxStarts <- k.starts,
    registered <- ro_registered, configurations <- ro_configurations,
    proc <- ro_proc, runs <- ro_runs, starts <- ro_starts

Hires == INSTANCE DelegationProofs WITH
    MaxAttempts <- 3, Legacy <- FALSE, run <- dl_run, job <- dl_job,
    attemptNo <- dl_attemptNo, failed <- dl_failed, lease <- dl_lease,
    acting <- dl_acting, checked <- dl_checked, delegation <- dl_delegation,
    consumed <- dl_consumed, outcome <- dl_outcome, accepted <- dl_accepted,
    answer <- dl_answer, overdue <- dl_overdue, reply <- dl_reply

Legacy == INSTANCE DelegationProofs WITH
    MaxAttempts <- 2, Legacy <- TRUE, run <- dl_run, job <- dl_job,
    attemptNo <- dl_attemptNo, failed <- dl_failed, lease <- dl_lease,
    acting <- dl_acting, checked <- dl_checked, delegation <- dl_delegation,
    consumed <- dl_consumed, outcome <- dl_outcome, accepted <- dl_accepted,
    answer <- dl_answer, overdue <- dl_overdue, reply <- dl_reply

Reads(k) == INSTANCE ResearchReading WITH
    Urls <- k.urls, Document <- k.document, Final <- k.final, Long <- k.long,
    Scouts <- k.scouts, MaxDecisions <- k.decisions, BatchMax <- k.batch,
    MaxActive <- k.active, MaxTotal <- k.total,
    MaxRecommended <- k.recommended, MaxCrashes <- k.crashes,
    log <- rd_log, started <- rd_started, children <- rd_children,
    ledger <- rd_ledger, due <- rd_due, late <- rd_late,
    crashes <- rd_crashes, published <- rd_published

ASSUME TreesAssumption ==
    /\ Waits!SubagentsAssumption /\ Full!SubagentsAssumption
    /\ Hires!DelegationAssumption /\ Legacy!DelegationAssumption
    /\ \A k \in {Repeating, Batching, Crashing} : Reads(k)!ResearchReadingAssumption
    /\ \A k \in {Rolling, Upgrading, Mistaken} : Pins(k)!RolloutAssumption

sa_vars == <<sa_status, sa_availableAt, sa_waits, sa_childOf, sa_act,
             sa_excerpts, sa_now, sa_lock, sa_want, sa_step, sa_began,
             sa_endAs, sa_parked>>
dl_vars == <<dl_run, dl_job, dl_attemptNo, dl_failed, dl_lease, dl_acting,
             dl_checked, dl_delegation, dl_consumed, dl_outcome,
             dl_accepted, dl_answer, dl_overdue, dl_reply>>
rd_vars == <<rd_log, rd_started, rd_children, rd_ledger, rd_due, rd_late,
             rd_crashes, rd_published>>
ro_vars == <<ro_registered, ro_configurations, ro_proc, ro_runs, ro_starts>>
vars == <<scene, sa_vars, dl_vars, rd_vars, ro_vars>>

Init ==
    \/ scene = "waits" /\ Waits!Init /\ Hires!Init /\ Reads(Repeating)!Init /\ Pins(Rolling)!Init
    \/ scene = "full" /\ Full!Init /\ Hires!Init /\ Reads(Repeating)!Init /\ Pins(Rolling)!Init
    \/ scene = "delegation" /\ Hires!Init /\ Waits!Init /\ Reads(Repeating)!Init /\ Pins(Rolling)!Init
    \/ scene = "legacy" /\ Legacy!Init /\ Waits!Init /\ Reads(Repeating)!Init /\ Pins(Rolling)!Init
    \/ scene = "repeats" /\ Reads(Repeating)!Init /\ Waits!Init /\ Hires!Init /\ Pins(Rolling)!Init
    \/ scene = "batches" /\ Reads(Batching)!Init /\ Waits!Init /\ Hires!Init /\ Pins(Rolling)!Init
    \/ scene = "readers" /\ Reads(Crashing)!Init /\ Waits!Init /\ Hires!Init /\ Pins(Rolling)!Init
    \/ scene = "rolling" /\ Pins(Rolling)!Init /\ Waits!Init /\ Hires!Init /\ Reads(Repeating)!Init
    \/ scene = "upgrade" /\ Pins(Upgrading)!Init /\ Waits!Init /\ Hires!Init /\ Reads(Repeating)!Init
    \/ scene = "mistakes" /\ Pins(Mistaken)!Init /\ Waits!Init /\ Hires!Init /\ Reads(Repeating)!Init

Next ==
    \/ scene = "waits" /\ Waits!Next /\ UNCHANGED <<scene, dl_vars, rd_vars, ro_vars>>
    \/ scene = "full" /\ Full!Next /\ UNCHANGED <<scene, dl_vars, rd_vars, ro_vars>>
    \/ scene = "delegation" /\ Hires!Next /\ UNCHANGED <<scene, sa_vars, rd_vars, ro_vars>>
    \/ scene = "legacy" /\ Legacy!Next /\ UNCHANGED <<scene, sa_vars, rd_vars, ro_vars>>
    \/ scene = "repeats" /\ Reads(Repeating)!Next /\ UNCHANGED <<scene, sa_vars, dl_vars, ro_vars>>
    \/ scene = "batches" /\ Reads(Batching)!Next /\ UNCHANGED <<scene, sa_vars, dl_vars, ro_vars>>
    \/ scene = "readers" /\ Reads(Crashing)!Next /\ UNCHANGED <<scene, sa_vars, dl_vars, ro_vars>>
    \/ scene = "rolling" /\ Pins(Rolling)!Next /\ UNCHANGED <<scene, sa_vars, dl_vars, rd_vars>>
    \/ scene = "upgrade" /\ Pins(Upgrading)!Next /\ UNCHANGED <<scene, sa_vars, dl_vars, rd_vars>>
    \/ scene = "mistakes" /\ Pins(Mistaken)!Next /\ UNCHANGED <<scene, sa_vars, dl_vars, rd_vars>>

Spec == Init /\ [][Next]_vars

-----------------------------------------------------------------------------
(* A root that yielded is runnable once a child it waits for has ended,     *)
(* whichever of the two transactions came first; it resumes only for the    *)
(* children of the wait it yields in, or at its deadline.                   *)
WakeupsHold == [](scene = "waits" => Waits!NoLostWakeup) /\ Waits!ResumesForItsWait

(* Spawns, replayed spawns and dispatched readers together stay within the  *)
(* limits of the tree, also where the third spawn is refused; every child   *)
(* belongs to one Action, however often the Action is executed.             *)
WithinCapacity ==
    /\ scene = "full" => Full!TypeOK /\ Full!WithinCapacity /\ Full!OneChildPerAction
    /\ scene = "waits" => Waits!OneChildPerAction

(* No child is at work for a parent that ended: neither a subagent nor the  *)
(* child of a delegation, over cancellations, expiries and lost leases;     *)
(* the link of a delegation is as its rows allow.                           *)
NoOrphans ==
    /\ scene = "waits" => Waits!NoOrphans
    /\ scene = "full"  => Full!NoOrphans
    /\ scene = "delegation" => Hires!TypeOK /\ Hires!RunJobAgree /\ Hires!NoOrphanChild
    /\ scene = "legacy" => Legacy!TypeOK

(* A parent waits without a lease only for an active child, is told how the *)
(* child ended by the rows it decides by, and consumes the delegation once, *)
(* with its own end; an end of either is final.                             *)
DelegationHolds ==
    /\ [](/\ scene = "delegation" => Hires!WaitsOnlyForActiveChild /\ Hires!DelegationTellsChild
          /\ scene = "legacy" => Legacy!DelegationTellsChild)
    /\ Hires!ConsumedWithParent /\ Hires!EndsAreFinal

(* A document has one reader, whoever starts it and under whatever URL; and *)
(* what the root or a reader was shown stays read in the ledger, whatever   *)
(* fails or is repeated later: only links of it are published.              *)
ReadsHold ==
    /\ scene = "repeats" => Reads(Repeating)!LedgerTellsReads /\ Reads(Repeating)!LinksWereRead
    /\ scene = "batches" => Reads(Batching)!LedgerTellsReads /\ Reads(Batching)!LinksWereRead
    /\ scene = "readers" => /\ Reads(Crashing)!TypeOK /\ Reads(Crashing)!OneReaderPerDocument
                            /\ Reads(Crashing)!LedgerTellsReads /\ Reads(Crashing)!LinksWereRead

(* What a Run is pinned to means the same to every process that is at work, *)
(* through deployments, crashes and builds that edit what is registered.    *)
PinsResolve ==
    /\ scene = "rolling" => Pins(Rolling)!PinsResolve
    /\ scene = "upgrade" => Pins(Upgrading)!PinsResolve
    /\ scene = "mistakes" => Pins(Mistaken)!PinsResolve

=============================================================================
