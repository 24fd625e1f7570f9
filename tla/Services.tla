------------------------------- MODULE Services -------------------------------
(***************************************************************************)
(* The services around the streams, checked together: the websocket hub,   *)
(* the rate limiter, the saved settings, the fan-out to the sources, the   *)
(* bandwidth accounting and the migrations.                                *)
(*                                                                         *)
(* They share no variable, so nothing one of them does can disable, enable *)
(* or change a step of another, and their product has no more behaviours   *)
(* of any one of them than it has alone.  Instead of the product, each     *)
(* behaviour is one of the service in focus; the others stay as they were  *)
(* initially, where none of their fair actions is enabled.                 *)
(***************************************************************************)
EXTENDS WsHub, RateLimiter, SavedState, SourceFanOut, Bandwidth, Migrations

VARIABLE focus

vars == <<focus, hubVars, limiterVars, savedVars, fanVars, bandwidthVars, migrationVars>>

TypeOK ==
    /\ HubTypeOK
    /\ LimiterTypeOK
    /\ SavedTypeOK
    /\ FanOutTypeOK
    /\ BandwidthTypeOK
    /\ MigrationTypeOK

Init ==
    /\ focus \in {"hub", "limiter", "saved", "fan-out", "bandwidth", "migrations"}
    /\ HubInit
    /\ LimiterInit
    /\ SavedInit
    /\ focus # "saved" => store = "sources"
    /\ FanOutInit
    /\ BandwidthInit
    /\ MigrationInit

Next ==
    /\ UNCHANGED focus
    /\ \/ focus = "hub" /\ HubNext
       \/ focus # "hub" /\ UNCHANGED hubVars
    /\ \/ focus = "limiter" /\ LimiterNext
       \/ focus # "limiter" /\ UNCHANGED limiterVars
    /\ \/ focus = "saved" /\ SavedNext
       \/ focus # "saved" /\ UNCHANGED savedVars
    /\ \/ focus = "fan-out" /\ FanOutNext
       \/ focus # "fan-out" /\ UNCHANGED fanVars
    /\ \/ focus = "bandwidth" /\ BandwidthNext
       \/ focus # "bandwidth" /\ UNCHANGED bandwidthVars
    /\ \/ focus = "migrations" /\ MigrationNext
       \/ focus # "migrations" /\ UNCHANGED migrationVars

Spec ==
    /\ Init /\ [][Next]_vars
    /\ HubFairness /\ FanOutFairness /\ BandwidthFairness
=============================================================================
