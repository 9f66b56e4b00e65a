----------------------------- MODULE Leadership -----------------------------
(***************************************************************************)
(* The raft group of the schedulers, as far as the code sees it: IsLeader  *)
(* and LeaderID of each member.  Elections are hashicorp/raft's; a member  *)
(* keeps its term and its vote across a restart.  A leader that was        *)
(* replaced goes on believing that it leads until it hears otherwise.      *)
(***************************************************************************)
EXTENDS Naturals, FiniteSets, Sequences

CONSTANTS Nodes,       \* the schedulers
          None,        \* no leader known: LeaderID() = ""
          MaxTerm,     \* bound on elections
          MaxStops     \* bound on processes that stop

ASSUME LeadershipAssumption ==
  /\ IsFiniteSet(Nodes) /\ Nodes # {} /\ None \notin Nodes
  /\ MaxTerm \in Nat /\ MaxStops \in Nat

VARIABLES up,        \* up[n]: the process runs
          leads,     \* leads[n]: raft.State() = Leader
          view,      \* view[n]: the leader n knows of
          term,      \* term[n]: the newest term n takes part in
          elected,   \* history: elected[t] won the election of term t
          stops

leadVars == <<up, leads, view, term, elected, stops>>

Majority(Q) == 2 * Cardinality(Q) > Cardinality(Nodes)

IsLeader(n) == up[n] /\ leads[n]

\* n wins an election with the votes of Q.  Followers ask for votes when they
\* have lost their leader; one that is told to (LeadershipTransfer) does so too.
Elect(n, Q) ==
  LET t == Len(elected) + 1 IN
  /\ t <= MaxTerm
  /\ n \in Q /\ Majority(Q) /\ \A q \in Q : up[q]
  /\ ~leads[n]
  /\ elected' = Append(elected, n)
  /\ term' = [m \in Nodes |-> IF m \in Q THEN t ELSE term[m]]
  /\ leads' = [m \in Nodes |-> IF m \in Q THEN m = n ELSE leads[m]]
  /\ view' = [m \in Nodes |-> IF m = n THEN n ELSE IF m \in Q THEN None ELSE view[m]]
  /\ UNCHANGED <<up, stops>>

\* AppendEntries of leader l reaches n, which is not in a newer term.
Hear(n, l) ==
  /\ n # l /\ up[n] /\ IsLeader(l)
  /\ term[n] <= term[l] /\ <<term[n], view[n]>> # <<term[l], l>>
  /\ term' = [term EXCEPT ![n] = term[l]]
  /\ leads' = [leads EXCEPT ![n] = FALSE]
  /\ view' = [view EXCEPT ![n] = l]
  /\ UNCHANGED <<up, elected, stops>>

\* n misses its leader's heartbeats or, leading, the answers of a majority.
LoseContact(n) ==
  /\ up[n] /\ view[n] # None
  /\ leads' = [leads EXCEPT ![n] = FALSE]
  /\ view' = [view EXCEPT ![n] = None]
  /\ UNCHANGED <<up, term, elected, stops>>

\* The process is killed, or shuts down after it has tried to hand over.
Shutdown(n) ==
  /\ up[n] /\ stops < MaxStops
  /\ stops' = stops + 1
  /\ up' = [up EXCEPT ![n] = FALSE]
  /\ leads' = [leads EXCEPT ![n] = FALSE]
  /\ view' = [view EXCEPT ![n] = None]
  /\ UNCHANGED <<term, elected>>

\* raftnode.New: the member comes back with the state it stored.
Start(n) ==
  /\ ~up[n]
  /\ up' = [up EXCEPT ![n] = TRUE]
  /\ UNCHANGED <<leads, view, term, elected, stops>>

LeadershipInit ==
  /\ up = [n \in Nodes |-> TRUE]
  /\ leads = [n \in Nodes |-> FALSE]
  /\ view = [n \in Nodes |-> None]
  /\ term = [n \in Nodes |-> 0]
  /\ elected = << >>
  /\ stops = 0

LeadershipStep(n) ==
  \/ \E Q \in SUBSET Nodes : Elect(n, Q)
  \/ \E l \in Nodes : Hear(n, l)
  \/ LoseContact(n)

LeadershipTypeOK ==
  /\ up \in [Nodes -> BOOLEAN]
  /\ leads \in [Nodes -> BOOLEAN]
  /\ view \in [Nodes -> Nodes \cup {None}]
  /\ term \in [Nodes -> 0..MaxTerm]
  /\ elected \in Seq(Nodes) /\ Len(elected) <= MaxTerm
  /\ stops \in 0..MaxStops
=============================================================================
