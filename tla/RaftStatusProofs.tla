-------------------------- MODULE RaftStatusProofs --------------------------
(***************************************************************************)
(* The leader that GET /raft names was not replaced before the request:    *)
(* LeaderShownIsCurrent, for any number of schedulers and elections.       *)
(***************************************************************************)
EXTENDS RaftStatus, FiniteSetTheorems, TLAPS

\* The winner of the election of some term since the request arrived.
Current(l) == \E t \in 1..Len(elected) : t >= since /\ elected[t] = l

\* A member knows only the winner of the term it is in ...
KnowsWinner ==
  \A n \in Nodes :
    /\ term[n] <= Len(elected)
    /\ leads[n] => term[n] >= 1 /\ elected[term[n]] = n
    /\ view[n] # None => term[n] >= 1 /\ elected[term[n]] = view[n]

\* ... a majority took part in the newest election ...
InTerm(t) == {n \in Nodes : term[n] >= t}

NewestVoted == Majority(InTerm(Len(elected)))

\* ... and so some majority was, when the request arrived, in the newest term.
ReadsCurrent(B) ==
  \A n \in B : term[n] >= since /\ (read[n] \in Nodes => Current(read[n]))

RequestBase == \E B \in SUBSET Nodes : Majority(B) /\ ReadsCurrent(B)

RaftInv ==
  /\ LeadershipTypeOK /\ StatusTypeOK
  /\ KnowsWinner /\ NewestVoted /\ RequestBase
  /\ since <= Len(elected)
  /\ LeaderShownIsCurrent

-----------------------------------------------------------------------------
LEMMA NodesFinite == IsFiniteSet(Nodes) /\ Cardinality(Nodes) \in Nat \ {0}
<1>1. IsFiniteSet(Nodes) /\ Nodes # {}
  BY LeadershipAssumption
<1>2. Cardinality(Nodes) \in Nat /\ (Cardinality(Nodes) = 0 <=> Nodes = {})
  BY <1>1, FS_CardinalityType, FS_EmptySet
<1> QED BY <1>1, <1>2

LEMMA SubsetFinite ==
  ASSUME NEW A \in SUBSET Nodes
  PROVE  IsFiniteSet(A) /\ Cardinality(A) \in Nat /\ Cardinality(A) <= Cardinality(Nodes)
BY NodesFinite, FS_Subset, FS_CardinalityType

LEMMA AllIsMajority == Majority(Nodes)
BY NodesFinite DEF Majority

\* More members are a majority too.
LEMMA MajorityGrows ==
  ASSUME NEW A, NEW B \in SUBSET Nodes, A \subseteq B, Majority(A)
  PROVE  Majority(B)
<1>1. IsFiniteSet(B) /\ Cardinality(B) \in Nat /\ Cardinality(Nodes) \in Nat
  BY SubsetFinite, NodesFinite
<1>2. Cardinality(A) <= Cardinality(B) /\ Cardinality(A) \in Nat
  BY <1>1, FS_Subset, FS_CardinalityType
<1> QED BY <1>1, <1>2 DEF Majority

\* Two majorities share a member.
LEMMA MajoritiesMeet ==
  ASSUME NEW A \in SUBSET Nodes, NEW B \in SUBSET Nodes, Majority(A), Majority(B)
  PROVE  A \cap B # {}
<1> SUFFICES ASSUME A \cap B = {} PROVE FALSE
  OBVIOUS
<1>1. IsFiniteSet(A) /\ IsFiniteSet(B) /\ Cardinality(A) \in Nat /\ Cardinality(B) \in Nat
  BY SubsetFinite
<1>2. Cardinality(A \cup B) = Cardinality(A) + Cardinality(B) - Cardinality(A \cap B)
  BY <1>1, FS_Union
<1>3. Cardinality(A \cap B) = 0
  BY FS_EmptySet
<1>4. Cardinality(A \cup B) <= Cardinality(Nodes) /\ Cardinality(A \cup B) \in Nat
  BY SubsetFinite
<1> QED BY <1>1, <1>2, <1>3, <1>4, NodesFinite DEF Majority

-----------------------------------------------------------------------------
LEMMA InitRaftInv == RaftInit => RaftInv
<1> SUFFICES ASSUME RaftInit PROVE RaftInv
  OBVIOUS
<1> USE DEF RaftInit, LeadershipInit, StatusInit
<1>1. elected = << >> /\ Len(elected) = 0 /\ elected \in Seq(Nodes)
  OBVIOUS
<1>2. LeadershipTypeOK /\ StatusTypeOK
  <2>1. 0 \in 0..MaxTerm /\ 0 \in 0..MaxStops /\ 0 <= MaxTerm
    BY LeadershipAssumption
  <2>2. LeadershipTypeOK
    BY <1>1, <2>1 DEF LeadershipTypeOK
  <2>3. StatusTypeOK
    BY <2>1, Zenon DEF StatusTypeOK
  <2> QED BY <2>2, <2>3
<1>3. InTerm(0) = Nodes
  BY DEF InTerm
<1>4. NewestVoted
  BY <1>1, <1>3, AllIsMajority DEF NewestVoted
<1>5. ReadsCurrent(Nodes)
  BY ReadAssumption DEF ReadsCurrent
<1>6. RequestBase
  BY <1>5, AllIsMajority DEF RequestBase
<1> QED BY <1>1, <1>2, <1>4, <1>6 DEF RaftInv, KnowsWinner, LeaderShownIsCurrent

\* A step of the members: terms and the list of winners only grow, the request is
\* left alone.
LEMMA MemberKeeps ==
  ASSUME RaftInv, UNCHANGED statusVars,
         LeadershipTypeOK', KnowsWinner', NewestVoted',
         Len(elected') >= Len(elected),
         \A t \in 1..Len(elected) : elected'[t] = elected[t],
         \A n \in Nodes : term'[n] >= term[n]
  PROVE  RaftInv'
<1>1. Len(elected) \in Nat /\ Len(elected') \in Nat /\ since \in Nat
  BY DEF RaftInv, LeadershipTypeOK, StatusTypeOK
<1>2. \A l : Current(l) => Current(l)'
  BY <1>1 DEF Current, statusVars
<1>3. StatusTypeOK' /\ since' <= Len(elected')
  BY <1>1 DEF RaftInv, StatusTypeOK, statusVars
<1>4. PICK B \in SUBSET Nodes : Majority(B) /\ ReadsCurrent(B)
  BY DEF RaftInv, RequestBase
<1>5. \A n \in B : term[n] \in Nat /\ term'[n] \in Nat /\ term'[n] >= term[n]
  BY DEF RaftInv, LeadershipTypeOK
<1>6. ReadsCurrent(B)'
  BY <1>1, <1>2, <1>4, <1>5 DEF ReadsCurrent, statusVars
<1>7. RequestBase'
  BY <1>4, <1>6 DEF RequestBase
<1>8. LeaderShownIsCurrent'
  BY <1>2 DEF RaftInv, LeaderShownIsCurrent, Current, statusVars
<1> QED BY <1>3, <1>7, <1>8 DEF RaftInv

LEMMA ElectKeeps ==
  ASSUME RaftInv, UNCHANGED statusVars, NEW n \in Nodes, NEW Q \in SUBSET Nodes, Elect(n, Q)
  PROVE  RaftInv'
<1> DEFINE t == Len(elected) + 1
<1>1. /\ elected \in Seq(Nodes) /\ Len(elected) \in Nat /\ t \in Nat /\ t <= MaxTerm
      /\ elected' = Append(elected, n)
  BY DEF RaftInv, LeadershipTypeOK, Elect
<1>2. /\ elected' \in Seq(Nodes) /\ Len(elected') = t /\ elected'[t] = n
      /\ \A i \in 1..Len(elected) : elected'[i] = elected[i]
  BY <1>1
<1>3. /\ n \in Q /\ Majority(Q)
      /\ term' = [m \in Nodes |-> IF m \in Q THEN t ELSE term[m]]
      /\ leads' = [m \in Nodes |-> IF m \in Q THEN m = n ELSE leads[m]]
      /\ view' = [m \in Nodes |-> IF m = n THEN n ELSE IF m \in Q THEN None ELSE view[m]]
      /\ UNCHANGED <<up, stops>>
  BY DEF Elect
<1>4. \A m \in Nodes : term[m] \in 0..MaxTerm /\ term[m] <= Len(elected)
  BY DEF RaftInv, LeadershipTypeOK, KnowsWinner
<1> HIDE DEF t
<1>5. LeadershipTypeOK'
  <2>1. term' \in [Nodes -> 0..MaxTerm]
    BY <1>1, <1>3, <1>4, LeadershipAssumption
  <2>2. leads' \in [Nodes -> BOOLEAN] /\ view' \in [Nodes -> Nodes \cup {None}]
    BY <1>3, Zenon DEF RaftInv, LeadershipTypeOK
  <2> QED BY <1>1, <1>2, <1>3, <2>1, <2>2 DEF RaftInv, LeadershipTypeOK
<1>6. KnowsWinner'
  <2> SUFFICES ASSUME NEW m \in Nodes
               PROVE  /\ term'[m] <= Len(elected')
                      /\ leads'[m] => term'[m] >= 1 /\ elected'[term'[m]] = m
                      /\ view'[m] # None => term'[m] >= 1 /\ elected'[term'[m]] = view'[m]
    BY DEF KnowsWinner
  <2>1. t >= 1 /\ t = Len(elected) + 1
    BY <1>1 DEF t
  <2>2. CASE m \in Q
    <3>1. term'[m] = t
      BY <1>3, <2>2
    <3>2. CASE m = n
      BY <1>1, <1>2, <1>3, <2>1, <3>1, <3>2
    <3>3. CASE m # n
      <4>1. leads'[m] = FALSE /\ view'[m] = None
        BY <1>3, <2>2, <3>3, Zenon
      <4> QED BY <1>1, <1>2, <3>1, <4>1
    <3> QED BY <3>2, <3>3
  <2>3. CASE m \notin Q
    <3>1. term'[m] = term[m] /\ leads'[m] = leads[m] /\ view'[m] = view[m]
      BY <1>3, <2>3
    <3>2. leads[m] \/ view[m] # None => term[m] \in 1..Len(elected)
      BY <1>1, <1>4 DEF RaftInv, KnowsWinner
    <3> QED BY <1>2, <1>4, <2>1, <1>1, <3>1, <3>2 DEF RaftInv, KnowsWinner
  <2> QED BY <2>2, <2>3
<1>7. NewestVoted'
  <2>1. Q \subseteq InTerm(Len(elected))'
    BY <1>1, <1>2, <1>3 DEF InTerm
  <2>2. InTerm(Len(elected))' \in SUBSET Nodes
    BY DEF InTerm
  <2>3. Majority(InTerm(Len(elected))')
    BY <1>3, <2>1, <2>2, MajorityGrows
  <2> QED BY <2>3 DEF NewestVoted, Majority
<1>8. Len(elected') >= Len(elected) /\ \A m \in Nodes : term'[m] >= term[m]
  BY <1>1, <1>2, <1>3, <1>4 DEF t
<1> QED BY <1>2, <1>5, <1>6, <1>7, <1>8, MemberKeeps

\* A step of one member that holds no election: its term may rise.
LEMMA MemberUpdate ==
  ASSUME RaftInv, UNCHANGED <<statusVars, elected>>, NEW n \in Nodes,
         LeadershipTypeOK',
         \A m \in Nodes \ {n} : term'[m] = term[m] /\ leads'[m] = leads[m] /\ view'[m] = view[m],
         term'[n] >= term[n], term'[n] <= Len(elected),
         leads'[n] => term'[n] >= 1 /\ elected[term'[n]] = n,
         view'[n] # None => term'[n] >= 1 /\ elected[term'[n]] = view'[n]
  PROVE  RaftInv'
<1>1. \A m \in Nodes : term[m] \in Nat /\ term'[m] \in Nat /\ term'[m] >= term[m]
  <2>1. \A m \in Nodes : term[m] \in Nat /\ term'[m] \in Nat
    BY LeadershipAssumption DEF RaftInv, LeadershipTypeOK
  <2>2. \A m \in Nodes : m # n => term'[m] = term[m]
    OBVIOUS
  <2> QED BY <2>1, <2>2
<1>2. KnowsWinner'
  BY DEF RaftInv, KnowsWinner
<1>3. Len(elected) \in Nat
  BY DEF RaftInv, LeadershipTypeOK
<1>4. InTerm(Len(elected)) \subseteq InTerm(Len(elected))'
  BY <1>1, <1>3 DEF InTerm
<1>5. InTerm(Len(elected))' \in SUBSET Nodes
  BY DEF InTerm
<1>6. Majority(InTerm(Len(elected))')
  BY <1>4, <1>5, MajorityGrows DEF RaftInv, NewestVoted
<1>7. NewestVoted'
  BY <1>6 DEF NewestVoted, Majority
<1> QED BY <1>1, <1>2, <1>3, <1>7, MemberKeeps

LEMMA MemberStepKeeps ==
  ASSUME RaftInv, UNCHANGED statusVars, MemberStep
  PROVE  RaftInv'
<1>1. PICK n \in Nodes : LeadershipStep(n) \/ Shutdown(n) \/ Start(n)
  BY DEF MemberStep
<1>2. /\ LeadershipTypeOK /\ term[n] <= Len(elected) /\ term[n] \in Nat
      /\ leads[n] => term[n] >= 1 /\ elected[term[n]] = n
      /\ view[n] # None => term[n] >= 1 /\ elected[term[n]] = view[n]
  BY DEF RaftInv, KnowsWinner, LeadershipTypeOK
<1>3. ASSUME NEW Q \in SUBSET Nodes, Elect(n, Q) PROVE RaftInv'
  BY <1>3, ElectKeeps
<1>4. ASSUME NEW l \in Nodes, Hear(n, l) PROVE RaftInv'
  <2>1. /\ leads[l] /\ term[n] <= term[l]
        /\ term' = [term EXCEPT ![n] = term[l]]
        /\ leads' = [leads EXCEPT ![n] = FALSE]
        /\ view' = [view EXCEPT ![n] = l]
        /\ UNCHANGED <<up, elected, stops>>
    BY <1>4 DEF Hear, IsLeader
  <2>2. term[l] >= 1 /\ elected[term[l]] = l /\ term[l] <= Len(elected) /\ term[l] \in 0..MaxTerm
    BY <2>1 DEF RaftInv, KnowsWinner, LeadershipTypeOK
  <2>3. LeadershipTypeOK'
    BY <1>2, <2>1, <2>2 DEF LeadershipTypeOK
  <2> QED BY <1>2, <2>1, <2>2, <2>3, MemberUpdate, Zenon DEF LeadershipTypeOK
<1>5. CASE LoseContact(n)
  <2>1. LeadershipTypeOK'
    BY <1>2, <1>5 DEF LoseContact, LeadershipTypeOK
  <2>2. /\ term' = term /\ elected' = elected
        /\ \A m \in Nodes \ {n} : leads'[m] = leads[m] /\ view'[m] = view[m]
        /\ leads'[n] = FALSE /\ view'[n] = None
    BY <1>2, <1>5 DEF LoseContact, LeadershipTypeOK
  <2> QED BY <1>2, <2>1, <2>2, MemberUpdate
<1>6. CASE Shutdown(n)
  <2>1. LeadershipTypeOK'
    BY <1>2, <1>6, LeadershipAssumption DEF Shutdown, LeadershipTypeOK
  <2>2. /\ term' = term /\ elected' = elected
        /\ \A m \in Nodes \ {n} : leads'[m] = leads[m] /\ view'[m] = view[m]
        /\ leads'[n] = FALSE /\ view'[n] = None
    BY <1>2, <1>6 DEF Shutdown, LeadershipTypeOK
  <2> QED BY <1>2, <2>1, <2>2, MemberUpdate
<1>7. CASE Start(n)
  <2>1. LeadershipTypeOK'
    BY <1>2, <1>7 DEF Start, LeadershipTypeOK
  <2> QED BY <1>2, <1>7, <2>1, MemberUpdate DEF Start, LeadershipTypeOK
<1> QED BY <1>1, <1>3, <1>4, <1>5, <1>6, <1>7 DEF LeadershipStep

-----------------------------------------------------------------------------
LEMMA StatusStepKeeps ==
  ASSUME RaftInv, UNCHANGED leadVars, StatusStep
  PROVE  RaftInv'
<1> USE DEF leadVars
<1>1. LeadershipTypeOK' /\ KnowsWinner' /\ NewestVoted'
  BY DEF RaftInv, LeadershipTypeOK, KnowsWinner, NewestVoted, InTerm, Majority
<1>2. Len(elected) \in Nat /\ Len(elected) <= MaxTerm /\ MaxTerm \in Nat
  BY LeadershipAssumption DEF RaftInv, LeadershipTypeOK
<1>3. CASE AskAll
  <2>1. /\ read' = [n \in Nodes |-> Waiting] /\ shown' = None
        /\ since' = Len(elected) /\ asking' = TRUE
    BY <1>3 DEF AskAll
  <2>2. StatusTypeOK' /\ since' <= Len(elected')
    BY <1>2, <2>1 DEF StatusTypeOK
  <2>3. ReadsCurrent(InTerm(Len(elected)))'
    BY <2>1, ReadAssumption DEF ReadsCurrent, InTerm
  <2>4. InTerm(Len(elected))' \in SUBSET Nodes /\ Majority(InTerm(Len(elected))')
    BY <1>1 DEF InTerm, NewestVoted, Majority
  <2>5. RequestBase'
    BY <2>3, <2>4 DEF RequestBase
  <2> QED BY <1>1, <2>1, <2>2, <2>5 DEF RaftInv, LeaderShownIsCurrent
<1>4. ASSUME NEW n \in Nodes, NEW v \in Nodes \cup {None, Unreachable},
             read' = [read EXCEPT ![n] = v], UNCHANGED <<asking, shown, since>>,
             v \in Nodes => v = view[n]
      PROVE  RaftInv'
  <2>1. StatusTypeOK' /\ since' <= Len(elected')
    BY <1>4 DEF RaftInv, StatusTypeOK
  <2>2. \A l : Current(l)' = Current(l)
    BY <1>4 DEF Current
  <2>3. PICK B \in SUBSET Nodes : Majority(B) /\ ReadsCurrent(B)
    BY DEF RaftInv, RequestBase
  <2>4. n \in B /\ v \in Nodes => Current(v)
    <3> SUFFICES ASSUME n \in B, v \in Nodes PROVE Current(v)
      OBVIOUS
    <3>1. view[n] = v /\ v # None
      BY <1>4, LeadershipAssumption
    <3>2. term[n] \in 1..Len(elected) /\ elected[term[n]] = v
      BY <1>2, <3>1 DEF RaftInv, KnowsWinner, LeadershipTypeOK
    <3>3. term[n] >= since
      BY <2>3 DEF ReadsCurrent
    <3> QED BY <3>2, <3>3 DEF Current
  <2>5. \A m \in B : read'[m] \in Nodes => Current(read'[m])
    <3>1. \A m \in Nodes : read'[m] = IF m = n THEN v ELSE read[m]
      BY <1>4 DEF RaftInv, StatusTypeOK
    <3> QED BY <2>3, <2>4, <3>1 DEF ReadsCurrent
  <2>6. ReadsCurrent(B)'
    BY <1>4, <2>2, <2>3, <2>5 DEF ReadsCurrent
  <2>7. RequestBase'
    BY <2>3, <2>6 DEF RequestBase
  <2> QED BY <1>1, <1>4, <2>1, <2>7 DEF RaftInv, LeaderShownIsCurrent
<1>5. ASSUME NEW n \in Nodes, GetClusterState(n) PROVE RaftInv'
  <2>1. view[n] \in Nodes \cup {None, Unreachable}
    BY DEF RaftInv, LeadershipTypeOK
  <2> QED BY <1>4, <1>5, <2>1, Zenon DEF GetClusterState
<1>6. ASSUME NEW n \in Nodes, NoAnswer(n) PROVE RaftInv'
  BY <1>4, <1>6, ReadAssumption, Zenon DEF NoAnswer
<1>7. CASE ShowLeader
  <2>1. PICK B \in SUBSET Nodes : Majority(B) /\ ReadsCurrent(B)
    BY DEF RaftInv, RequestBase
  <2>2. ASSUME NEW l \in Nodes, HasMajority(l) PROVE Current(l)
    <3>1. Votes(l) \in SUBSET Nodes /\ Majority(Votes(l))
      BY <2>2 DEF Votes, HasMajority
    <3>2. PICK n \in Votes(l) : n \in B
      BY <2>1, <3>1, MajoritiesMeet
    <3> QED BY <2>1, <3>2 DEF Votes, ReadsCurrent
  <2>3. shown' # None => shown' \in Nodes /\ HasMajority(shown')
    BY <1>7 DEF ShowLeader
  <2>4. UNCHANGED <<read, since>> /\ asking' = FALSE
    BY <1>7 DEF ShowLeader
  <2>5. StatusTypeOK' /\ since' <= Len(elected')
    BY <2>3, <2>4, Zenon DEF RaftInv, StatusTypeOK
  <2>6. ReadsCurrent(B)'
    BY <2>1, <2>4 DEF ReadsCurrent, Current
  <2>7. RequestBase'
    BY <2>1, <2>6 DEF RequestBase
  <2>8. LeaderShownIsCurrent'
    BY <2>2, <2>3, <2>4 DEF Current, LeaderShownIsCurrent
  <2> QED BY <1>1, <2>5, <2>7, <2>8 DEF RaftInv
<1> QED BY <1>3, <1>5, <1>6, <1>7 DEF StatusStep

LEMMA StutterKeeps ==
  ASSUME RaftInv, UNCHANGED <<leadVars, statusVars>>
  PROVE  RaftInv'
BY DEF leadVars, statusVars, RaftInv, LeadershipTypeOK, StatusTypeOK, KnowsWinner,
       NewestVoted, InTerm, Majority, RequestBase, ReadsCurrent, Current, LeaderShownIsCurrent

\* handleRaft counts the votes against all the schedulers.  With any number of
\* them, however late each is read and whichever fail to answer, the leader it
\* names was not replaced before the request arrived.
THEOREM ShownLeaderIsCurrent == RaftSpec => []LeaderShownIsCurrent
<1>1. RaftInit => RaftInv
  BY InitRaftInv
<1>2. RaftInv /\ [RaftNext]_<<leadVars, statusVars>> => RaftInv'
  BY MemberStepKeeps, StatusStepKeeps, StutterKeeps DEF RaftNext
<1>3. RaftInv => LeaderShownIsCurrent
  BY DEF RaftInv
<1> QED BY <1>1, <1>2, <1>3, PTL DEF RaftSpec
=============================================================================
