---------------------------- MODULE MCSchedulers ----------------------------
(* What each scheduler holds in memory: the heartbeat registry and the       *)
(* placement FSM.  They share nothing, so a behaviour follows one of them.   *)
EXTENDS Heartbeats, PlacementLog

VARIABLE part

schedulersVars == <<heartbeatVars, logVars, part>>

RegistryStep(A) == part = "registry" /\ A /\ UNCHANGED <<logVars, part>>

PlacementStep(A) == part = "placements" /\ A /\ UNCHANGED <<heartbeatVars, part>>

SchedulersInit ==
  part \in {"registry", "placements"} /\ HeartbeatInit /\ LogInit

SchedulersNext == RegistryStep(HeartbeatNext) \/ PlacementStep(LogNext)

SchedulersSpec ==
  /\ SchedulersInit /\ [][SchedulersNext]_schedulersVars
  /\ WF_schedulersVars(RegistryStep(Progress))
  /\ \A s \in Schedulers : WF_schedulersVars(RegistryStep(Recover(s)))
  /\ \A n \in Nodes : WF_schedulersVars(PlacementStep(CatchUp(n)))
=============================================================================
