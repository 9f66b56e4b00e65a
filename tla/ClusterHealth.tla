--------------------------- MODULE ClusterHealth ----------------------------
(***************************************************************************)
(* GET /health: the gateway asks the observer, which checks every          *)
(* component and the database at once and reports the cluster as serving   *)
(* when all of them are.  Components fail and recover during the checks.   *)
(***************************************************************************)
EXTENDS Naturals, FiniteSets

CONSTANT Components   \* the configured targets and "postgres-primary"

VARIABLES working,     \* working[c]: c answers Check, or Ping
          checking,    \* a request is with the observer
          result,      \* result[c]: its componentHealth
          status,      \* HTTP status of the newest response, 0 while there is none
          upWhile,     \* history: components that worked at some time since it began
          downWhile    \* history: components that did not, or not in time

healthVars == <<working, checking, result, status, upWhile, downWhile>>

ServingStatus == {"SERVING", "NOT_SERVING"}

handleHealth ==
  /\ ~checking
  /\ checking' = TRUE
  /\ result' = [c \in Components |-> "WAITING"]
  /\ status' = 0
  /\ upWhile' = {c \in Components : working[c]}
  /\ downWhile' = {c \in Components : ~working[c]}
  /\ UNCHANGED working

\* The observer is down, or clusterCheckTimeout ends the call.
ObserverFails ==
  /\ checking
  /\ checking' = FALSE
  /\ status' = 502
  /\ UNCHANGED <<working, result, upWhile, downWhile>>

\* Check or Ping is answered, or fails.
componentHealth(c) ==
  /\ checking /\ result[c] = "WAITING"
  /\ result' = [result EXCEPT ![c] = IF working[c] THEN "SERVING" ELSE "NOT_SERVING"]
  /\ UNCHANGED <<working, checking, status, upWhile, downWhile>>

\* perTargetTimeout: c works but is slow.
CheckTimesOut(c) ==
  /\ checking /\ result[c] = "WAITING"
  /\ result' = [result EXCEPT ![c] = "NOT_SERVING"]
  /\ downWhile' = downWhile \cup {c}
  /\ UNCHANGED <<working, checking, status, upWhile>>

\* Mutant: one component that serves is enough.
AnyServes == \E c \in Components : result[c] = "SERVING"

AllServe == \A c \in Components : result[c] = "SERVING"

\* The end of ClusterCheck, and of handleHealth.
ClusterCheck ==
  /\ checking /\ \A c \in Components : result[c] \in ServingStatus
  /\ checking' = FALSE
  /\ status' = IF AllServe THEN 200 ELSE 503
  /\ UNCHANGED <<working, result, upWhile, downWhile>>

Change(c) ==
  /\ working' = [working EXCEPT ![c] = ~working[c]]
  /\ upWhile' = upWhile \cup (IF checking /\ ~working[c] THEN {c} ELSE {})
  /\ downWhile' = downWhile \cup (IF checking /\ working[c] THEN {c} ELSE {})
  /\ UNCHANGED <<checking, result, status>>

HealthInit ==
  /\ working \in [Components -> BOOLEAN]
  /\ checking = FALSE
  /\ result = [c \in Components |-> "WAITING"]
  /\ status = 0
  /\ upWhile = {} /\ downWhile = {}

HealthNext ==
  \/ handleHealth \/ ObserverFails \/ ClusterCheck
  \/ \E c \in Components : componentHealth(c) \/ CheckTimesOut(c) \/ Change(c)

HealthSpec == HealthInit /\ [][HealthNext]_healthVars

-----------------------------------------------------------------------------
\* observersvc.go ClusterCheck: "per-component health plus an
\* all-SERVING-or-not overall status".  The checks are not made at one instant;
\* still, a component that was down all the time the request took is never
\* reported as serving nor the cluster as healthy, and one that worked all the
\* time, and in time, is never what makes it unhealthy.
HealthIsWitnessed ==
  /\ \A c \in Components : /\ result[c] = "SERVING" => c \in upWhile
                           /\ result[c] = "NOT_SERVING" => c \in downWhile
  /\ status = 200 => Components \subseteq upWhile
  /\ status = 503 => downWhile # {}
=============================================================================
