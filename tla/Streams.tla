------------------------------- MODULE Streams -------------------------------
(* The server-sent event streams of the control plane: a Run                *)
(* (server.streamRun), a Studio Output, a discovery session and the Sources *)
(* of a Notebook (streamFullSnapshots).  A stream subscribes to its topic   *)
(* in a hub (app/run_hub.go) and shows the rows again whenever its channel, *)
(* which holds one token, wakes it.  The hub is told by a listener          *)
(* (internal/realtime) of the notifications that the transactions sent;     *)
(* what is notified while its connection is down is lost, so it wakes every *)
(* subscriber each time it has connected.                                   *)
(*                                                                          *)
(* A row is a version number; the last version of a Run is a terminal one.  *)
(* A stream that ended may be opened again by its browser.                  *)
EXTENDS Naturals, Sequences, FiniteSets

CONSTANTS Streams,    \* the handlers of open requests
          Topics,     \* the Runs, sessions and Notebooks that are followed
          Topic,      \* of each stream
          Kind,       \* of each stream: "run", "studio" or "sources" (and discovery)
          Last,       \* bound: the last version of a row; terminal for a Run
          MaxDrops,   \* bound: times the listener loses its connection
          MaxOpens    \* bound: times a stream is opened

StreamsAssumption ==
    /\ Topic \in [Streams -> Topics]
    /\ Kind \in [Streams -> {"run", "studio", "sources"}]
    /\ Last \in Nat \ {0} /\ MaxDrops \in Nat /\ MaxOpens \in Nat

VARIABLES
    row,        \* [Topics -> 0..Last]: the version the tables have
    listener,   \* "down", "connected" (LISTEN done, nobody woken yet), "waiting"
    inbox,      \* the topics notified on the listener's connection, oldest first
    hub,        \* [Topics -> SUBSET Streams]: runHub.subscribers
    token,      \* [Streams -> BOOLEAN]: the channel of the subscription holds a wake
    pc,         \* [Streams -> ...]: where each handler is
    shown,      \* [Streams -> 0..Last]: the version the browser saw last
    gauges,     \* what the metrics count: subscribers, tracked topics, connections
    drops, opens

vars == <<row, listener, inbox, hub, token, pc, shown, gauges, drops, opens>>

Steps == {"closed", "checked", "subscribed", "waiting", "woken"}
Terminal(t) == row[t] = Last

Init ==
    /\ row = [t \in Topics |-> 0]
    /\ listener = "down" /\ inbox = <<>>
    /\ hub = [t \in Topics |-> {}]
    /\ token = [s \in Streams |-> FALSE]
    /\ pc = [s \in Streams |-> "closed"]
    /\ shown = [s \in Streams |-> 0]
    /\ gauges = [subscribers |-> 0, tracked |-> 0, connections |-> 0]
    /\ drops = 0 /\ opens = [s \in Streams |-> 0]

-----------------------------------------------------------------------------
(* Another process commits a change of the row; pg_notify is part of the    *)
(* transaction, so only a connection that listens by then is told.          *)
Commit(t) ==
    /\ row[t] < Last
    /\ row' = [row EXCEPT ![t] = @ + 1]
    /\ inbox' = IF listener = "down" THEN inbox ELSE Append(inbox, t)
    /\ UNCHANGED <<listener, hub, token, pc, shown, gauges, drops, opens>>

(* wakeSubscribers: a channel that is full keeps its one token.             *)
Wake(ts) == token' = [s \in Streams |-> token[s] \/ (\E t \in ts : s \in hub[t])]

Listen ==
    /\ listener = "down"
    /\ listener' = "connected"
    /\ UNCHANGED <<row, inbox, hub, token, pc, shown, gauges, drops, opens>>

(* Once connected the listener wakes everybody, because it cannot tell what *)
(* it has missed.                                                           *)
\* Mutant: the listener of a connection that came back only waits.
WakeAllNever ==
    /\ listener = "connected"
    /\ listener' = "waiting"
    /\ UNCHANGED <<row, inbox, hub, token, pc, shown, gauges, drops, opens>>

WakeAll ==
    /\ listener = "connected"
    /\ listener' = "waiting"
    /\ Wake(Topics)
    /\ UNCHANGED <<row, inbox, hub, pc, shown, gauges, drops, opens>>

Receive ==
    /\ listener = "waiting" /\ inbox # <<>>
    /\ inbox' = Tail(inbox)
    /\ Wake({Head(inbox)})
    /\ UNCHANGED <<row, listener, hub, pc, shown, gauges, drops, opens>>

Disconnect ==
    /\ listener # "down" /\ drops < MaxDrops
    /\ listener' = "down" /\ inbox' = <<>> /\ drops' = drops + 1
    /\ UNCHANGED <<row, hub, token, pc, shown, gauges, opens>>

-----------------------------------------------------------------------------
(* streamRun and streamStudioOutput first read the row, to refuse who may   *)
(* not see it (the Output also tells which Run to follow).                  *)
Check(s) ==
    /\ pc[s] = "closed" /\ Kind[s] # "sources" /\ opens[s] < MaxOpens
    /\ pc' = [pc EXCEPT ![s] = "checked"]
    /\ opens' = [opens EXCEPT ![s] = @ + 1]
    /\ UNCHANGED <<row, listener, inbox, hub, token, shown, gauges, drops>>

(* runHub.subscribe: a new channel, empty.  The streams of Sources and of   *)
(* discovery sessions subscribe before they check.                          *)
Subscribe(s) ==
    LET t == Topic[s] IN
    /\ \/ pc[s] = "checked" /\ UNCHANGED opens
       \/ /\ pc[s] = "closed" /\ Kind[s] = "sources" /\ opens[s] < MaxOpens
          /\ opens' = [opens EXCEPT ![s] = @ + 1]
    /\ pc' = [pc EXCEPT ![s] = "subscribed"]
    /\ hub' = [hub EXCEPT ![t] = @ \cup {s}]
    /\ token' = [token EXCEPT ![s] = FALSE]
    /\ gauges' = [gauges EXCEPT !.subscribers = @ + 1,
                                !.tracked = IF hub[t] = {} THEN @ + 1 ELSE @,
                                !.connections = IF Kind[s] = "run" THEN @ + 1 ELSE @]
    /\ UNCHANGED <<row, listener, inbox, shown, drops>>

(* Whether the metrics count the connection: from the subscription of a Run *)
(* on, for the others from their first snapshot on.                         *)
Counted(s) == pc[s] \in {"waiting", "woken"} \/ (Kind[s] = "run" /\ pc[s] = "subscribed")

(* The deferred calls of a handler: its metrics scope, its subscription.    *)
Unsubscribe(s) ==
    LET t == Topic[s] IN
    /\ hub' = [hub EXCEPT ![t] = @ \ {s}]
    /\ gauges' = [gauges EXCEPT !.subscribers = @ - 1,
                                !.tracked = IF hub[t] = {s} THEN @ - 1 ELSE @,
                                !.connections = IF Counted(s) THEN @ - 1 ELSE @]

(* A projection is read and written; a Run's stream ends with a terminal    *)
(* one, the other streams only when their browser leaves.                   *)
Show(s) ==
    /\ shown' = [shown EXCEPT ![s] = row[Topic[s]]]
    /\ IF Kind[s] = "run" /\ Terminal(Topic[s])
       THEN pc' = [pc EXCEPT ![s] = "closed"] /\ Unsubscribe(s)
       ELSE /\ pc' = [pc EXCEPT ![s] = "waiting"]
            /\ gauges' = [gauges EXCEPT !.connections = IF Counted(s) THEN @ ELSE @ + 1]
            /\ UNCHANGED hub
    /\ UNCHANGED <<row, listener, inbox, token, drops, opens>>

First(s) == pc[s] = "subscribed" /\ Show(s)

(* The select of the handler takes the token; the rows are read after that. *)
TakeToken(s) ==
    /\ pc[s] = "waiting" /\ token[s]
    /\ pc' = [pc EXCEPT ![s] = "woken"]
    /\ token' = [token EXCEPT ![s] = FALSE]
    /\ UNCHANGED <<row, listener, inbox, hub, shown, gauges, drops, opens>>

Again(s) == pc[s] = "woken" /\ Show(s)

(* The heartbeat of a Run's stream reads the Run and ends with it; that of  *)
(* the others writes a comment only.                                        *)
Heartbeat(s) ==
    /\ pc[s] = "waiting" /\ Kind[s] = "run" /\ Terminal(Topic[s])
    /\ Show(s)

(* The check fails, a read or a write fails, or the browser leaves.         *)
Leave(s) ==
    /\ pc[s] # "closed"
    /\ pc' = [pc EXCEPT ![s] = "closed"]
    /\ IF pc[s] = "checked" THEN UNCHANGED <<hub, gauges>> ELSE Unsubscribe(s)
    /\ UNCHANGED <<row, listener, inbox, token, shown, drops, opens>>

Handler(s) == Check(s) \/ Subscribe(s) \/ First(s) \/ TakeToken(s) \/ Again(s) \/ Heartbeat(s) \/ Leave(s)

Next ==
    \/ \E t \in Topics : Commit(t)
    \/ Listen \/ WakeAll \/ Receive \/ Disconnect
    \/ \E s \in Streams : Handler(s)

Spec == Init /\ [][Next]_vars

(* A handler's goroutine and its ticker run on; the listener, which may     *)
(* never get a connection again, is assumed to run on for the snapshots.    *)
Runs(s) == Subscribe(s) \/ First(s) \/ TakeToken(s) \/ Again(s) \/ Heartbeat(s)
Listens == Listen \/ WakeAll \/ Receive

RunSpec == Spec /\ (\A s \in Streams : WF_vars(Runs(s)))
LiveSpec == RunSpec /\ WF_vars(Listens)

-----------------------------------------------------------------------------
(* The states are well typed.                                               *)
TypeOK ==
    /\ row \in [Topics -> 0..Last] /\ shown \in [Streams -> 0..Last]
    /\ listener \in {"down", "connected", "waiting"}
    /\ inbox \in Seq(Topics)
    /\ hub \in [Topics -> SUBSET Streams] /\ token \in [Streams -> BOOLEAN]
    /\ pc \in [Streams -> Steps]
    /\ gauges \in [subscribers : Nat, tracked : Nat, connections : Nat]
    /\ drops \in 0..MaxDrops /\ opens \in [Streams -> 0..MaxOpens]

(* A stream that waits shows what the tables have, unless a wake is on its  *)
(* way: in its channel, in the listener's connection, or owed by a listener *)
(* that is about to connect.                                                *)
WaitsOnlyIfTold ==
    \A s \in Streams : pc[s] = "waiting" /\ shown[s] # row[Topic[s]]
        => \/ token[s]
           \/ listener # "waiting"
           \/ Topic[s] \in {inbox[i] : i \in DOMAIN inbox}

(* The hub holds exactly the open streams, each under its topic, and the    *)
(* gauges count them: nothing is left behind by any way a stream can end.   *)
NothingLeaks ==
    /\ \A t \in Topics : hub[t] = {s \in Streams : Topic[s] = t /\ pc[s] \in {"subscribed", "waiting", "woken"}}
    /\ gauges = [subscribers |-> Cardinality(UNION {hub[t] : t \in Topics}),
                 tracked |-> Cardinality({t \in Topics : hub[t] # {}}),
                 connections |-> Cardinality({s \in Streams : Counted(s)})]

(* The stream of a Run that ended closes, whatever the listener does.       *)
RunStreamsClose ==
    \A s \in Streams : Kind[s] = "run" =>
        (Terminal(Topic[s]) ~> pc[s] = "closed")

(* Every other stream comes to show the last version, or is closed.         *)
SnapshotsCatchUp ==
    \A s \in Streams : Kind[s] # "run" =>
        (Terminal(Topic[s]) ~> (pc[s] = "closed" \/ shown[s] = Last))

=============================================================================
