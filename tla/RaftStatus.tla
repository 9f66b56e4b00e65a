----------------------------- MODULE RaftStatus -----------------------------
(***************************************************************************)
(* GET /raft: the gateway asks all schedulers at once for their view of    *)
(* the cluster, waits for every answer or failure, and names as leader the *)
(* one that more than half of all the schedulers name.  The answers are    *)
(* read at different times, while elections go on.                         *)
(***************************************************************************)
EXTENDS Leadership

VARIABLES asking,   \* a request waits for its answers
          read,     \* read[n]: what n answered, Waiting, or Unreachable
          shown,    \* the leader named by the newest response
          since     \* history: elections before the request arrived

statusVars == <<asking, read, shown, since>>

Waiting     == "waiting"
Unreachable == "unreachable"

ASSUME ReadAssumption == Waiting \notin Nodes /\ Unreachable \notin Nodes

\* handleRaft calls RaftStatus, which starts one call per member.
AskAll ==
  /\ ~asking
  /\ asking' = TRUE
  /\ read' = [n \in Nodes |-> Waiting]
  /\ shown' = None
  /\ since' = Len(elected)

\* GetClusterState on n, with the leader that n knows of (or "").
GetClusterState(n) ==
  /\ asking /\ read[n] = Waiting
  /\ up[n]
  /\ read' = [read EXCEPT ![n] = view[n]]
  /\ UNCHANGED <<asking, shown, since>>

\* The call fails, or raftStatusTimeout ends it.
NoAnswer(n) ==
  /\ asking /\ read[n] = Waiting
  /\ read' = [read EXCEPT ![n] = Unreachable]
  /\ UNCHANGED <<asking, shown, since>>

Votes(l) == {n \in Nodes : read[n] = l}

\* Mutant: the majority is one of the schedulers that answered.
MajorityOfReached(l) ==
  2 * Cardinality(Votes(l)) > Cardinality({n \in Nodes : read[n] # Unreachable})

HasMajority(l) == Majority(Votes(l))

\* The loop over the votes: at most one leader has that many.
ShowLeader ==
  /\ asking /\ \A n \in Nodes : read[n] # Waiting
  /\ asking' = FALSE
  /\ shown' = IF \E l \in Nodes : HasMajority(l)
              THEN CHOOSE l \in Nodes : HasMajority(l)
              ELSE None
  /\ UNCHANGED <<read, since>>

StatusInit ==
  /\ asking = FALSE
  /\ read = [n \in Nodes |-> Unreachable]
  /\ shown = None
  /\ since = 0

StatusStep ==
  \/ AskAll
  \/ \E n \in Nodes : GetClusterState(n) \/ NoAnswer(n)
  \/ ShowLeader

MemberStep == \E n \in Nodes : LeadershipStep(n) \/ Shutdown(n) \/ Start(n)

RaftInit == LeadershipInit /\ StatusInit

RaftNext ==
  \/ MemberStep /\ UNCHANGED statusVars
  \/ StatusStep /\ UNCHANGED leadVars

RaftSpec == RaftInit /\ [][RaftNext]_<<leadVars, statusVars>>

-----------------------------------------------------------------------------
StatusTypeOK ==
  /\ asking \in BOOLEAN
  /\ read \in [Nodes -> Nodes \cup {None, Waiting, Unreachable}]
  /\ shown \in Nodes \cup {None}
  /\ since \in 0..MaxTerm

\* handleRaft: "the leader_id a majority of nodes agree on".  The schedulers are
\* read at different times, each may be behind, and some do not answer, yet the
\* leader named was never replaced before the request arrived: it won the
\* newest election before the request, or one after.
LeaderShownIsCurrent ==
  shown # None =>
    \E t \in 1..Len(elected) : t >= since /\ elected[t] = shown
=============================================================================
