-------------------------------- MODULE WsHub --------------------------------
(***************************************************************************)
(* The websocket hub of the dashboard: connections register, are greeted,  *)
(* read until they fail, and are written to by a broadcast every few       *)
(* seconds, which works on a snapshot of the clients.                      *)
(*                                                                         *)
(* hub.mu protects clients, so each critical section is a step.  The       *)
(* greeting is written outside it and may overlap the broadcast's write to *)
(* the same connection, which the websocket library does not allow: either *)
(* write may fail, either goroutine may panic, or nothing happens.         *)
(***************************************************************************)
EXTENDS Integers, FiniteSets

CONSTANTS
    Conns,   \* connections; one that is over may stand for a new one
    Floor    \* model bound: the gauge is not followed below -Floor

ASSUME HubAssumption == IsFiniteSet(Conns) /\ Floor \in Nat

VARIABLES
    clients,    \* hub.clients
    gauge,      \* activeConnections
    conn,       \* where the goroutine of each connection stands
    dead,       \* closed, or the peer is gone: reads and writes fail
    snapshot    \* what broadcastStats will write to; empty outside it

hubVars == <<clients, gauge, conn, dead, snapshot>>

HubTypeOK ==
    /\ clients \subseteq Conns
    /\ gauge \in (-Floor)..Cardinality(Conns)
    /\ conn \in [Conns -> {"none", "greet", "read"}]
    /\ dead \subseteq Conns
    /\ snapshot \subseteq Conns

HubInit ==
    /\ clients = {}
    /\ gauge = 0
    /\ conn = [c \in Conns |-> "none"]
    /\ dead = {}
    /\ snapshot = {}

Decreased(n) == IF gauge - n < -Floor THEN -Floor ELSE gauge - n

-----------------------------------------------------------------------------
\* serveWebSocket: upgrade and addClient.
Connect(c) ==
    /\ conn[c] = "none"
    /\ c \notin clients \cup snapshot
    /\ clients' = clients \cup {c}
    /\ gauge' = gauge + 1
    /\ conn' = [conn EXCEPT ![c] = "greet"]
    /\ dead' = dead \ {c}
    /\ UNCHANGED snapshot

\* The peer goes away, or is silent for a minute.
PeerLeaves(c) ==
    /\ c \in clients
    /\ dead' = dead \cup {c}
    /\ UNCHANGED <<clients, gauge, conn, snapshot>>

\* removeClient decrements whether or not the client was still there.
RemoveClient(c) ==
    /\ clients' = clients \ {c}
    /\ gauge' = Decreased(1)
    /\ conn' = [conn EXCEPT ![c] = "none"]
    /\ dead' = dead \cup {c}
    /\ UNCHANGED snapshot

\* The initial statistics, and the start of the reading goroutine.
Greet(c) ==
    /\ conn[c] = "greet"
    /\ c \notin dead
    /\ conn' = [conn EXCEPT ![c] = "read"]
    /\ UNCHANGED <<clients, gauge, dead, snapshot>>

GreetFails(c) ==
    /\ conn[c] = "greet"
    /\ c \in dead
    /\ RemoveClient(c)

ReadFails(c) ==
    /\ conn[c] = "read"
    /\ c \in dead
    /\ RemoveClient(c)

Snapshot ==
    /\ snapshot = {}
    /\ snapshot' = clients
    /\ UNCHANGED <<clients, gauge, conn, dead>>

\* Connections of the snapshot whose handler may be writing the greeting.
Contested == {c \in snapshot : conn[c] = "greet"}

WriteToAllUncounted ==
    /\ snapshot # {}
    /\ clients' = clients \ (snapshot \cap dead)
    /\ snapshot' = {}
    /\ UNCHANGED <<gauge, conn, dead>>

WriteToAllKept ==
    /\ snapshot # {}
    /\ \E orphans \in SUBSET Contested :
         conn' = [c \in Conns |-> IF c \in orphans THEN "none" ELSE conn[c]]
    /\ snapshot' = {}
    /\ UNCHANGED <<clients, gauge, dead>>

\* The write loop, under the lock: a client it cannot write to is closed,
\* deleted and counted off, even if removeClient did so since the snapshot.
\* Of a contested connection the broadcast's write may fail ("refused"), the
\* greeting's ("spoiled"), or the handler panics ("orphaned", or "dropped"
\* when the broadcast fails too): net/http recovers, and nobody reads.
WriteToAll ==
    /\ snapshot # {}
    /\ \E fate \in [Contested -> {"fine", "refused", "spoiled", "orphaned", "dropped"}] :
         LET met(fates) == {c \in Contested : fate[c] \in fates}
             failed == (snapshot \cap dead) \cup met({"refused", "dropped"})
         IN  /\ clients' = clients \ failed
             /\ gauge' = Decreased(Cardinality(failed))
             /\ dead' = dead \cup failed \cup met({"spoiled"})
             /\ conn' = [c \in Conns |-> IF c \in met({"orphaned", "dropped"})
                                         THEN "none" ELSE conn[c]]
    /\ snapshot' = {}

\* The process starts again; a panic of the broadcast ends it too.
HubRestart ==
    /\ clients' = {}
    /\ gauge' = 0
    /\ conn' = [c \in Conns |-> "none"]
    /\ dead' = {}
    /\ snapshot' = {}

-----------------------------------------------------------------------------
Serve(c) == Greet(c) \/ GreetFails(c) \/ ReadFails(c)

Broadcast == Snapshot \/ WriteToAll

HubNext ==
    \/ \E c \in Conns : Connect(c) \/ PeerLeaves(c) \/ Serve(c)
    \/ Broadcast
    \/ HubRestart

\* The ticker goes on and goroutines are scheduled.  Peers do as they like.
HubFairness == WF_hubVars(Broadcast) /\ \A c \in Conns : WF_hubVars(Serve(c))

HubSpec == HubInit /\ [][HubNext]_hubVars /\ HubFairness

-----------------------------------------------------------------------------
\* However removals by the reader, by a failed greeting and by the broadcast
\* cross, a client is never counted that has left (ws.go:47-52 and 103-109).
GaugeNeverOvercounts == gauge <= Cardinality(clients)

\* "The number of currently active websocket connections" (metrics.go): the
\* gauge shows how many clients there are.
GaugeCountsClients == gauge = Cardinality(clients)

\* A client whose peer is gone leaves the hub, also one whose handler
\* panicked and that nobody reads from (ws.go:84-112 and 128-149).
DeadClientsLeave == \A c \in Conns : c \in clients /\ c \in dead ~> c \notin clients
=============================================================================
