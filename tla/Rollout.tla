------------------------------- MODULE Rollout -------------------------------
(***************************************************************************)
(* Releases of the program and the catalogs embedded in them: prompts,     *)
(* skills, contracts, model policies, capabilities, context policies,      *)
(* definitions and release manifests (internal/promptcatalog, skillcatalog,*)
(* agentcatalog).  A control plane registers its own and pins Runs to      *)
(* them, a worker starts once its own are registered and executes a Run    *)
(* only as it was pinned (cmd/control-plane, cmd/worker,                   *)
(* internal/app/*_registry.go, internal/agent/execution_host.go).          *)
(*                                                                         *)
(* Processes of several builds run at once, start, die and are replaced.   *)
(* The files of a build that parse are its data here.                      *)
(***************************************************************************)
EXTENDS Naturals, Sequences

CONSTANTS Builds,        \* the builds that are deployed
          Embeds,        \* per build: what each reference is in it
          Release,       \* per build: the AgentRelease it is configured with
          Executors,     \* per build: what each of its Executors supports
          Config,        \* per build: its Agent Configuration Set
          Prompts, Skills, Contracts, Policies, Capabilities, Contexts,
          Definitions, Releases,      \* the references of each kind
          Controls, Workers,          \* process slots
          Runs, Legacy,  \* Runs, and those of an earlier runtime
          MaxStarts      \* bound on starts of processes

Procs == Controls \cup Workers
RolloutAssumption ==
    /\ Controls \cap Workers = {} /\ Legacy \subseteq Runs /\ MaxStarts \in Nat
    /\ Contexts \cap (Prompts \cup Skills) = {}     \* tables of their own
    /\ \A b \in Builds : Release[b] \in Releases

VARIABLES
    registered,      \* the immutable tables of versions
    configurations,  \* agent_configuration_sets, in the order of registration
    proc,            \* phase and build of each process
    runs,            \* agent_runs with their pins
    starts           \* counts starts

vars == <<registered, configurations, proc, runs, starts>>

Of(b, kind) == DOMAIN Embeds[b] \cap kind

-----------------------------------------------------------------------------
(* The catalog of a build. *)

ContextsOf(table, policy) ==
    {x \in DOMAIN table \cap Contexts : table[x].policy = policy}

(* deriveModelContextBudgets.                                              *)
Smaller(a, c) == IF a < c THEN a ELSE c
Budgets(x, c) ==
    LET hard == Smaller(c.input, c.window - x.pinned)
        safe == hard - x.safety
    IN  [hard |-> hard, safe |-> safe, trigger |-> Smaller(x.soft, safe)]
BudgetsAgree(x, c) ==
    /\ x.pinned <= c.output /\ x.summary <= c.output
    /\ c.window > x.pinned /\ Smaller(c.input, c.window - x.pinned) > x.safety
    /\ x.soft <= Budgets(x, c).safe /\ x.keep < x.soft

(* validateReferences and validateTopology.                                *)
ContextValid(b, x) ==
    /\ x.policy \in Of(b, Policies) /\ x.capability \in Of(b, Capabilities)
    /\ LET p == Embeds[b][x.policy] c == Embeds[b][x.capability] IN
       /\ p.model = c.model /\ p.output = x.pinned
       /\ BudgetsAgree(x, c)
DefinitionValid(b, d) ==
    /\ d.policy \in Of(b, Policies) /\ d.contracts \subseteq Of(b, Contracts)
    /\ \A child \in d.children :
          /\ child \in Of(b, Definitions)
          /\ Embeds[b][child].delegable
          /\ Embeds[b][child].children = {}
Loads(b) ==
    /\ \A x \in Of(b, Contexts) : ContextValid(b, Embeds[b][x])
    /\ \A p \in Of(b, Policies) : \E x \in Contexts : ContextsOf(Embeds[b], p) = {x}
    /\ \A d \in Of(b, Definitions) : DefinitionValid(b, Embeds[b][d])
    /\ \A r \in Of(b, Releases) : Embeds[b][r].roots \subseteq Of(b, Definitions)

ContextFor(b, policy) == CHOOSE x \in Contexts : ContextsOf(Embeds[b], policy) = {x}

(* Catalog.ValidateBindings, and that every Executor is used.              *)
Supported(b, d) ==
    /\ d.executor \in DOMAIN Executors[b]
    /\ LET e == Executors[b][d.executor] IN
       /\ d.calls <= e.calls
       /\ d.prompts \subseteq Of(b, Prompts) /\ d.skills \subseteq Of(b, Skills) \cap e.skills
       /\ d.contracts \subseteq e.contracts
       /\ \A child \in d.children : Embeds[b][child].executor \in e.children
Binds(b) ==
    /\ \A d \in Of(b, Definitions) : Supported(b, Embeds[b][d])
    /\ \A e \in DOMAIN Executors[b] : \E d \in Of(b, Definitions) : Embeds[b][d].executor = e

-----------------------------------------------------------------------------
NoBuild == "none"
NoPin == [definition |-> "none", body |-> "none", executor |-> "none",
          policy |-> "none", model |-> "none", context |-> "none"]
Idle == [status |-> "free", pin |-> NoPin, worker |-> "none", lost |-> NoBuild]

(* Runs of the earlier runtime are there when the first build is deployed, *)
(* with the configuration they were admitted under.                        *)
Former == [id |-> "former", prompts |-> "p", executor |-> "leader-executor-v1"]
Init ==
    /\ registered = <<>>
    /\ configurations = IF Legacy = {} THEN <<>> ELSE <<Former>>
    /\ proc = [p \in Procs |-> [phase |-> "down", build |-> NoBuild]]
    /\ runs = [r \in Runs |-> IF r \in Legacy THEN [Idle EXCEPT !.status = "queued"] ELSE Idle]
    /\ starts = 0

Enters(p, phase) == proc' = [proc EXCEPT ![p].phase = phase]
Is(p, phase) == proc[p].phase = phase
Build(p) == proc[p].build

Start(p, b) ==
    /\ Is(p, "down") /\ starts < MaxStarts
    /\ starts' = starts + 1
    /\ proc' = [proc EXCEPT ![p] = [phase |-> "prompts", build |-> b]]
    /\ UNCHANGED <<registered, configurations, runs>>

(* A process exits; the leases of what it was executing expire.            *)
Released(p) == [r \in Runs |-> IF runs[r].status = "running" /\ runs[r].worker = p
                               THEN [runs[r] EXCEPT !.status = "queued", !.worker = "none"]
                               ELSE runs[r]]
Exit(p) ==
    /\ Enters(p, "down")
    /\ runs' = Released(p)
    /\ UNCHANGED <<registered, configurations, starts>>
Crash(p) == ~Is(p, "down") /\ Exit(p)

-----------------------------------------------------------------------------
(* The control plane: RunMigrations registers one catalog after another,   *)
(* each in a transaction; verifyCatalogEntry compares what is there.       *)

With(table, b, kinds) ==
    [r \in DOMAIN table \cup Of(b, kinds) |-> IF r \in DOMAIN table THEN table[r] ELSE Embeds[b][r]]

\* Mutant: a version that exists is not compared.
VerifiedIfThere(table, b, r) == r \in DOMAIN table

Verified(table, b, r) == r \in DOMAIN table /\ table[r] = Embeds[b][r]
Same(table, b, kinds) == \A r \in Of(b, kinds) : Verified(table, b, r)

(* The unique policy of agent_model_context_policy_versions: an insert     *)
(* that is not a repetition of a version fails.                            *)
Duplicates(b, kinds) ==
    \E x \in Of(b, kinds \cap Contexts) \ DOMAIN registered :
       ContextsOf(registered, Embeds[b][x].policy) # {}
Accepts(b, kinds) ==
    /\ ~Duplicates(b, kinds)
    /\ Same(With(registered, b, kinds), b, kinds)

Register(p, phase, kinds, next) ==
    /\ Is(p, phase)
    /\ IF Accepts(Build(p), kinds)
       THEN /\ registered' = With(registered, Build(p), kinds)
            /\ Enters(p, next)
            /\ UNCHANGED <<configurations, runs, starts>>
       ELSE Exit(p)

AgentKinds == Contracts \cup Policies \cup Capabilities \cup Contexts \cup Definitions \cup Releases

RegisterPrompts(p) == p \in Controls /\ Register(p, "prompts", Prompts, "skills")
RegisterSkills(p) == p \in Controls /\ Register(p, "skills", Skills, "agents")
RegisterAgents(p) ==
    /\ p \in Controls /\ Is(p, "agents")
    /\ IF Loads(Build(p)) THEN Register(p, "agents", AgentKinds, "ready") ELSE Exit(p)

(* VerifyAgentCatalogReady, which reads what RunMigrations wrote.          *)
Ready(b) == Release[b] \in DOMAIN Embeds[b] /\ Same(registered, b, AgentKinds)
ControlReady(p) ==
    /\ p \in Controls /\ Is(p, "ready")
    /\ IF Ready(Build(p))
       THEN Enters(p, "configuration") /\ UNCHANGED <<registered, configurations, runs, starts>>
       ELSE Exit(p)

(* RegisterAgentConfiguration.                                             *)
IsRegistered(c) == \E i \in DOMAIN configurations : configurations[i] = c
Taken(c) == \E i \in DOMAIN configurations : configurations[i].id = c.id /\ configurations[i] # c
RegisterAgentConfiguration(p) ==
    /\ p \in Controls /\ Is(p, "configuration")
    /\ LET c == Config[Build(p)] IN
       IF Taken(c) THEN Exit(p)
       ELSE /\ configurations' = IF IsRegistered(c) THEN configurations
                                 ELSE Append(configurations, c)
            /\ Enters(p, "serving")
            /\ UNCHANGED <<registered, runs, starts>>

-----------------------------------------------------------------------------
(* A worker starts: each catalog is looked for until it is registered, for *)
(* thirty seconds (retryUntilReady).                                       *)
Looks(w, phase, ready, next) ==
    /\ w \in Workers /\ Is(w, phase)
    /\ \/ ready /\ Enters(w, next) /\ UNCHANGED <<registered, configurations, runs, starts>>
       \/ ~ready /\ Exit(w)     \* the window elapsed

VerifyPrompts(w) == Looks(w, "prompts", Same(registered, Build(w), Prompts), "skills")
VerifySkills(w) ==
    LET b == Build(w) IN
    /\ w \in Workers /\ Is(w, "skills")
    /\ IF Loads(b) THEN Looks(w, "skills", Same(registered, b, Skills), "agents") ELSE Exit(w)
VerifyAgents(w) == Looks(w, "agents", Ready(Build(w)), "configuration")

(* VerifyAgentConfigurationReady, asked once: no unfinished Run is of a    *)
(* configuration other than its own and the newest compatible one.         *)
Compatible(c) == {i \in DOMAIN configurations :
                     /\ configurations[i].id # c.id
                     /\ configurations[i].prompts = c.prompts
                     /\ configurations[i].executor = c.executor}
Newest(S) == CHOOSE i \in S : \A j \in S : j <= i
Carries(c) == IsRegistered(c) /\
    \A r \in Legacy : runs[r].status \in {"queued", "running"} =>
       Compatible(c) # {} /\ configurations[Newest(Compatible(c))] = Former
VerifyConfiguration(w) ==
    /\ w \in Workers /\ Is(w, "configuration")
    /\ IF Carries(Config[Build(w)])
       THEN Enters(w, "executors") /\ UNCHANGED <<registered, configurations, runs, starts>>
       ELSE Exit(w)
BindExecutors(w) ==
    /\ w \in Workers /\ Is(w, "executors")
    /\ IF Binds(Build(w))
       THEN Enters(w, "working") /\ UNCHANGED <<registered, configurations, runs, starts>>
       ELSE Exit(w)

-----------------------------------------------------------------------------
(* Runs. *)

Pin(b, ref) ==
    LET d == Embeds[b][ref] IN
    [definition |-> ref, body |-> d.body, executor |-> d.executor, policy |-> d.policy,
     model |-> Embeds[b][d.policy].body, context |-> ContextFor(b, d.policy)]
Admitted(b, ref) == [status |-> "queued", pin |-> Pin(b, ref), worker |-> "none", lost |-> NoBuild]
Admits(r, b, ref) ==
    /\ runs[r] = Idle
    /\ {ref, Pin(b, ref).policy, Pin(b, ref).context} \subseteq DOMAIN registered
    /\ runs' = [runs EXCEPT ![r] = Admitted(b, ref)]
    /\ UNCHANGED <<registered, configurations, proc, starts>>

CreateConfiguredChatQueued(p, r) ==
    /\ p \in Controls /\ Is(p, "serving")
    /\ \E ref \in Embeds[Build(p)][Release[Build(p)]].roots : Admits(r, Build(p), ref)

(* A Run retried is admitted anew, as the release of the control plane     *)
(* that serves the request has it.                                         *)
RetryConfiguredQueued(p, r, again) ==
    /\ r \notin Legacy /\ runs[r].status = "failed"
    /\ CreateConfiguredChatQueued(p, again)

(* A configured child of a Run at work (configuredDelegationAction).       *)
Delegate(w, r, child) ==
    /\ runs[r].status = "running" /\ runs[r].worker = w /\ r \notin Legacy
    /\ \E ref \in registered[runs[r].pin.definition].children : Admits(child, Build(w), ref)

(* ExecutorRegistry.Resolve and resolvePinnedExecution.                    *)
Resolves(b, pin) ==
    /\ pin.definition \in DOMAIN Embeds[b]
    /\ LET d == Embeds[b][pin.definition] IN
       /\ d.executor \in DOMAIN Executors[b] /\ d.skills \subseteq DOMAIN Embeds[b]
       /\ d.body = pin.body /\ d.executor = pin.executor
       /\ d.policy = pin.policy /\ Embeds[b][d.policy].body = pin.model
Executes(b, r) == IF r \in Legacy THEN Config[b].executor = Former.executor
                  ELSE Resolves(b, runs[r].pin)

(* ExecuteAttempt: what cannot be resolved ends as agent_execution_failed. *)
ExecuteAttempt(w, r) ==
    /\ w \in Workers /\ Is(w, "working") /\ runs[r].status = "queued"
    /\ runs' = [runs EXCEPT ![r] = IF Executes(Build(w), r)
                                   THEN [@ EXCEPT !.status = "running", !.worker = w]
                                   ELSE [@ EXCEPT !.status = "failed", !.lost = Build(w)]]
    /\ UNCHANGED <<registered, configurations, proc, starts>>

FinishAttempt(w, r, status) ==
    /\ runs[r].status = "running" /\ runs[r].worker = w
    /\ runs' = [runs EXCEPT ![r].status = status, ![r].worker = "none"]
    /\ UNCHANGED <<registered, configurations, proc, starts>>

Next ==
    \/ \E p \in Procs, b \in Builds : Start(p, b)
    \/ \E p \in Procs : Crash(p)
    \/ \E p \in Controls : \/ RegisterPrompts(p) \/ RegisterSkills(p) \/ RegisterAgents(p)
                           \/ ControlReady(p) \/ RegisterAgentConfiguration(p)
    \/ \E w \in Workers : \/ VerifyPrompts(w) \/ VerifySkills(w) \/ VerifyAgents(w)
                          \/ VerifyConfiguration(w) \/ BindExecutors(w)
    \/ \E p \in Controls, r \in Runs : CreateConfiguredChatQueued(p, r)
    \/ \E p \in Controls, r, again \in Runs : RetryConfiguredQueued(p, r, again)
    \/ \E w \in Workers, r, child \in Runs : Delegate(w, r, child)
    \/ \E w \in Workers, r \in Runs : ExecuteAttempt(w, r)
    \/ \E w \in Workers, r \in Runs, s \in {"completed", "failed"} : FinishAttempt(w, r, s)

Spec == Init /\ [][Next]_vars

-----------------------------------------------------------------------------
TypeOK ==
    /\ DOMAIN registered \subseteq Prompts \cup Skills \cup AgentKinds
    /\ \A p \in Procs : proc[p].build \in Builds \cup {NoBuild}
    /\ \A r \in Runs : /\ runs[r].status \in {"free", "queued", "running", "completed", "failed"}
                       /\ runs[r].worker \in Workers \cup {"none"}
                       /\ runs[r].lost \in Builds \cup {NoBuild}
    /\ starts \in 0..MaxStarts

(* A version means the same to every process: a worker that embeds the     *)
(* definition a Run is pinned to executes it, as it was pinned and within  *)
(* the context policy it was pinned with, and only one whose build lacks   *)
(* the definition ends it as impossible.                                   *)
Pinned == {r \in Runs : runs[r].pin # NoPin}
PinsResolve ==
    /\ \A r \in Pinned, w \in Workers : Is(w, "working") /\ runs[r].pin.definition \in DOMAIN Embeds[Build(w)] =>
          /\ Resolves(Build(w), runs[r].pin)
          /\ ContextFor(Build(w), runs[r].pin.policy) = runs[r].pin.context
    /\ \A r \in Runs : runs[r].lost # NoBuild =>
          r \notin Legacy /\ runs[r].pin.definition \notin DOMAIN Embeds[runs[r].lost]

=============================================================================
