------------------------------- MODULE Parts -------------------------------
(***************************************************************************)
(* The parts of which safety alone is asked, side by side: in the backend  *)
(* the limiter, the health probe, a process from boot to exit and the      *)
(* numbers it tells of itself; sessions; in the browser the views that     *)
(* load rows with the poller of /health, and the page of one incident.     *)
(* They share no state: each step is a step of one of them and leaves the  *)
(* variables of the others alone.                                          *)
(***************************************************************************)
EXTENDS RateLimiter, HealthProbe, NodeLifecycle, Telemetry, Sessions,
        ConsoleViews, IncidentConsole

partsVars == <<limiterVars, probeVars, nodeVars, telemetryVars, sessionsVars, viewsVars,
               consoleVars>>

PartsInit ==
  /\ LimiterInit /\ ProbeInit /\ NodeInit /\ TelemetryInit /\ SessionsInit
  /\ ViewsInit /\ ConsoleInit

LimiterMoves ==
  /\ LimiterNext
  /\ UNCHANGED <<probeVars, nodeVars, telemetryVars, sessionsVars, viewsVars, consoleVars>>

ProbeMoves ==
  /\ ProbeNext
  /\ UNCHANGED <<limiterVars, nodeVars, telemetryVars, sessionsVars, viewsVars, consoleVars>>

NodeMoves ==
  /\ NodeNext
  /\ UNCHANGED <<limiterVars, probeVars, telemetryVars, sessionsVars, viewsVars, consoleVars>>

TelemetryMoves ==
  /\ TelemetryNext
  /\ UNCHANGED <<limiterVars, probeVars, nodeVars, sessionsVars, viewsVars, consoleVars>>

SessionsMove ==
  /\ SessionsNext
  /\ UNCHANGED <<limiterVars, probeVars, nodeVars, telemetryVars, viewsVars, consoleVars>>

LoaderMoves ==
  /\ LoaderNext
  /\ UNCHANGED <<limiterVars, probeVars, nodeVars, telemetryVars, sessionsVars, consoleVars>>

PollerMoves ==
  /\ PollerNext
  /\ UNCHANGED <<limiterVars, probeVars, nodeVars, telemetryVars, sessionsVars, consoleVars>>

PageMoves ==
  /\ ConsoleNext
  /\ UNCHANGED <<limiterVars, probeVars, nodeVars, telemetryVars, sessionsVars, viewsVars>>

PartsNext ==
  \/ LimiterMoves \/ ProbeMoves \/ NodeMoves \/ TelemetryMoves
  \/ SessionsMove \/ LoaderMoves \/ PollerMoves \/ PageMoves

PartsSpec == PartsInit /\ [][PartsNext]_partsVars

(* The types of all of them. *)
PartsTypeOK ==
  /\ LimiterTypeOK /\ ProbeTypeOK /\ NodeTypeOK /\ TelemetryTypeOK /\ SessionsTypeOK
  /\ ViewsTypeOK /\ ConsoleTypeOK

=============================================================================
