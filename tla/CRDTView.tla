------------------------------ MODULE CRDTView ------------------------------
(***************************************************************************)
(* The gateway's view of the statemanager replicas.  GET /crdt/state asks  *)
(* all of them at once for their state and compares the answers; POST      *)
(* /crdt/partition and /crdt/heal switch gossip off or on, replica after   *)
(* replica.  Reports, gossip and restarts go on in between.                *)
(***************************************************************************)
EXTENDS StateManager

VARIABLES got,        \* got[r]: the state r answered with, Waiting or Unreachable
          view,       \* the newest response: "none", "converged" or "diverged"
          before,     \* history: ingested when the request arrived
          control,    \* the partition or heal request
          outcome     \* its status, until a restart undoes what it did

viewVars == <<got, view, before>>
controlVars == <<control, outcome>>
crdtViewVars == <<vars, viewVars, controlVars>>

Waiting     == [phase |-> "waiting"]
Unreachable == [phase |-> "unreachable"]

Fetching == view = "none" /\ \E r \in Replicas : got[r] # Unreachable

-----------------------------------------------------------------------------
(* GET /crdt/state *)

Fetch ==
  /\ ~Fetching
  /\ got' = [r \in Replicas |-> Waiting]
  /\ view' = "none"
  /\ before' = ingested
  /\ UNCHANGED <<vars, controlVars>>

GetCRDTState(r) ==
  /\ got[r] = Waiting
  /\ got' = [got EXCEPT ![r] = state[r]]
  /\ UNCHANGED <<vars, view, before, controlVars>>

\* The call fails or perReplicaTimeout ends it.
NoState(r) ==
  /\ got[r] = Waiting
  /\ got' = [got EXCEPT ![r] = Unreachable]
  /\ UNCHANGED <<vars, view, before, controlVars>>

\* Mutant: replicas that did not answer are passed over.
AnswersEqual ==
  \A q, r \in Replicas : got[q] # Unreachable /\ got[r] # Unreachable => got[q] = got[r]

\* proto.Equal of every state with the first.
Converged == \A q, r \in Replicas : got[r] # Unreachable /\ got[q] = got[r]

ShowView ==
  /\ Fetching /\ \A r \in Replicas : got[r] # Waiting
  /\ view' = IF Converged THEN "converged" ELSE "diverged"
  /\ UNCHANGED <<vars, got, before, controlVars>>

-----------------------------------------------------------------------------
(* POST /crdt/partition and POST /crdt/heal *)

HandleSetGossip(enabled) ==
  /\ control.left = {}
  /\ control' = [enabled |-> enabled, left |-> Replicas, failed |-> FALSE]
  /\ outcome' = "pending"
  /\ UNCHANGED <<vars, viewVars>>

\* The next call, in name order, has ended; a failure does not stop the rest.
Proceed(r, failed) ==
  LET left == control.left \ {r}
      any  == control.failed \/ failed
  IN
  /\ r \in control.left /\ \A q \in control.left : r <= q
  /\ control' = [control EXCEPT !.left = left, !.failed = any]
  /\ outcome' = IF left # {} \/ outcome = "undone" THEN outcome
                ELSE IF any THEN "502" ELSE "200"
  /\ UNCHANGED <<dataVars, roundVars, faults, reportVars, restarted, viewVars>>

GossipIsSet(r) ==
  /\ Proceed(r, FALSE)
  /\ gossipOn' = [gossipOn EXCEPT ![r] = control.enabled]

\* Mutant: the error of a call is dropped.
ErrorDropped(r) == Proceed(r, FALSE) /\ UNCHANGED gossipOn

\* The call fails: before the replica serves it, or after.
SetGossipFails(r) ==
  /\ Proceed(r, TRUE)
  /\ gossipOn' \in {gossipOn, [gossipOn EXCEPT ![r] = control.enabled]}

-----------------------------------------------------------------------------
RestartReplica(r) ==
  /\ Restart(r)
  /\ outcome' = "undone"
  /\ UNCHANGED <<viewVars, control>>

ReplicaStep ==
  /\ \/ \E w \in Workers, j \in Jobs, o \in Outcome : Report(w, j, o)
     \/ \E r \in Replicas : Send(r) \/ SyncState(r) \/ Receive(r) \/ CallFails(r)
     \/ \E c \in late : LateSync(c)
  /\ UNCHANGED <<viewVars, controlVars>>

CRDTViewInit ==
  /\ Init
  /\ got = [r \in Replicas |-> Unreachable]
  /\ view = "diverged"
  /\ before = ingested
  /\ control = [enabled |-> TRUE, left |-> {}, failed |-> FALSE]
  /\ outcome = "undone"

CRDTViewNext ==
  \/ ReplicaStep
  \/ \E r \in Replicas :
       \/ RestartReplica(r) \/ GetCRDTState(r) \/ NoState(r)
       \/ GossipIsSet(r) \/ SetGossipFails(r)
  \/ Fetch \/ ShowView
  \/ \E enabled \in BOOLEAN : HandleSetGossip(enabled)

CRDTViewSpec == CRDTViewInit /\ [][CRDTViewNext]_crdtViewVars

-----------------------------------------------------------------------------
(***************************************************************************)
(* Properties                                                              *)
(***************************************************************************)

\* crdtview.go "Converged is true when every replica answered and their CRDT
\* states are identical".  The states are read at different times; all the same,
\* a dashboard that says converged shows, on every replica, every outcome that
\* was reported before the request to a replica that has not lost its state.
ConvergedShowsAll ==
  view = "converged" =>
    \A q \in Replicas : \A r \in Replicas \ restarted : \A o \in Outcome :
      got[q] # Unreachable /\ got[q].byStatus[o][r] >= before[r][o]

\* statesvc.go "gossip disabled (simulated partition)": once POST /crdt/partition
\* has answered 200, no replica serves another's state, and none learns from
\* another but by an answer that was on its way, until gossip is switched on again
\* or a replica restarts.
PartitionHolds ==
  [][outcome = "200" /\ control.left = {} /\ ~control.enabled =>
       \A r \in Replicas :
         /\ wire'[r].phase = "response" => wire[r].phase = "response"
         /\ state'[r] # state[r] =>
              \/ ingested'[r] # ingested[r]
              \/ outcome' = "undone"
              \/ wire[r].phase = "response"]_crdtViewVars
=============================================================================
