---------------------------- MODULE GatewayProofs ----------------------------
(***************************************************************************)
(* The job API of the gateway, for any number of schedulers, elections,    *)
(* stops and lost answers: what a request stores (OneJobPerAnswer), and    *)
(* that its walk finds a leader that stays (SteadyLeaderServes).  Then     *)
(* GET /health, for any set of components (HealthIsWitnessed).             *)
(***************************************************************************)
EXTENDS Gateway, ClusterHealth, TLAPS

RaftTypeOK == LeadershipTypeOK /\ StatusTypeOK

JobTypeOK ==
  /\ cached \in DOMAIN Members
  /\ req \in [kind : Kinds, phase : Phases, start : DOMAIN Members, pos : 0..(Steps - 1)]
  /\ code \in {0, 200, 201, 400, 404, 502}
  /\ rows \in Nat /\ ghosts \in Nat /\ lost \in Nat
  /\ trouble \in BOOLEAN /\ steady \subseteq Nodes

\* While a request is under way every job it stored, or may store, belongs to a
\* call that was given up, but for the one that the call under way has stored.
Accounted ==
  /\ req.phase # "idle" => code = 0 /\ ~trouble
  /\ req.phase \in {"call", "pause", "admitted"} => rows + ghosts <= lost
  /\ req.phase = "stored" => rows >= 1
  /\ InHandler => req.kind = "submit"
  /\ req.phase # "idle" /\ req.kind # "submit" => rows + ghosts = 0

\* The members the walk has behind it do not lead all along ...
Passed ==
  req.phase # "idle" /\ lost = 0 =>
    \A i \in 0..(req.pos - 1) : Members[At(req.start, i)] \notin steady

\* ... because one that does is leading now.
SteadyLead == \A n \in steady : IsLeader(n)

JobInv ==
  /\ JobTypeOK
  /\ Accounted /\ OneJobPerAnswer
  /\ Passed /\ SteadyLead /\ SteadyLeaderServes

-----------------------------------------------------------------------------
\* A walk has at least one round, and a round a call for each member.
LEMMA WalkLength ==
  /\ Len(Members) \in Nat \ {0} /\ DOMAIN Members = 1..Len(Members)
  /\ \A i \in DOMAIN Members : Members[i] \in Nodes
  /\ Steps \in Nat /\ Steps >= Len(Members)
<1>1. Members \in Seq(Nodes) /\ Len(Members) \in Nat /\ DOMAIN Members = 1..Len(Members)
  BY GatewayAssumption
<1>2. Len(Members) # 0
  BY <1>1, GatewayAssumption, LeadershipAssumption
<1>3. retryRounds \in Nat /\ retryRounds >= 1
  BY GatewayAssumption
<1>4. \A a, b \in Nat : a >= 1 => a * b \in Nat /\ a * b >= b
  OBVIOUS
<1>5. \A i \in DOMAIN Members : Members[i] \in Nodes
  BY <1>1
<1> QED BY <1>1, <1>2, <1>3, <1>4, <1>5 DEF Steps

\* Members are called by their place in the list.
LEMMA AtIsMember ==
  ASSUME NEW start \in DOMAIN Members, NEW pos \in Nat
  PROVE  At(start, pos) \in DOMAIN Members
<1>1. \A a \in Nat, b \in Nat \ {0} : a % b \in 0..(b - 1)
  OBVIOUS
<1>2. start - 1 + pos \in Nat
  BY WalkLength
<1>3. (start - 1 + pos) % Len(Members) \in 0..(Len(Members) - 1)
  BY <1>1, <1>2, WalkLength, Zenon
<1> QED BY <1>3, WalkLength DEF At

\* One round of the walk calls every member, wherever it starts.
LEMMA RoundCoversAll ==
  ASSUME NEW start \in DOMAIN Members, NEW n \in Nodes
  PROVE  \E i \in 0..(Steps - 1) : Members[At(start, i)] = n
<1> DEFINE L == Len(Members)
<1>1. PICK j \in 1..L : Members[j] = n
  BY GatewayAssumption
<1>2. L \in Nat \ {0} /\ start \in 1..L
  BY WalkLength
<1>3. \A a \in Nat, b \in Nat \ {0} : a < b => a % b = a /\ (a + b) % b = a
  OBVIOUS
<1> HIDE DEF L
<1>4. CASE j >= start
  <2>1. start - 1 + (j - start) = j - 1
    BY <1>1, <1>2
  <2>2. (j - 1) % L = j - 1
    BY <1>1, <1>2, <1>3
  <2>3. At(start, j - start) = j
    BY <2>1, <2>2, <1>1 DEF At, L
  <2> QED BY <1>1, <1>2, <1>4, <2>3, WalkLength DEF L
<1>5. CASE j < start
  <2>1. start - 1 + (j - start + L) = (j - 1) + L
    BY <1>1, <1>2
  <2>2. ((j - 1) + L) % L = j - 1
    BY <1>1, <1>2, <1>3
  <2>3. At(start, j - start + L) = j
    BY <2>1, <2>2, <1>1 DEF At, L
  <2> QED BY <1>1, <1>2, <1>5, <2>3, WalkLength DEF L
<1> QED BY <1>1, <1>2, <1>4, <1>5

LEMMA IdleType ==
  Idle \in [kind : Kinds, phase : Phases, start : DOMAIN Members, pos : 0..(Steps - 1)]
BY WalkLength DEF Idle, Kinds, Phases

\* A step that leaves the request alone, while fewer members have led all along.
LEMMA LeadersOnly ==
  ASSUME JobInv, UNCHANGED <<cached, req, code, rows, ghosts, lost, trouble>>,
         steady' \subseteq steady, SteadyLead'
  PROVE  JobInv'
<1>1. JobTypeOK' /\ Accounted' /\ OneJobPerAnswer'
  BY DEF JobInv, JobTypeOK, Accounted, OneJobPerAnswer, InHandler
<1>2. Passed'
  BY DEF JobInv, Passed
<1>3. SteadyLeaderServes'
  BY DEF JobInv, SteadyLeaderServes
<1> QED BY <1>1, <1>2, <1>3 DEF JobInv

\* route after a failed call: the walk goes on, or the last failure is answered.
LEMMA FailedCall ==
  ASSUME JobTypeOK, NEW err, CallFailed(err)
  PROVE  \/ /\ retryable(err)
            /\ req' \in [kind : Kinds, phase : {"call", "pause"},
                         start : DOMAIN Members, pos : 0..(Steps - 1)]
            /\ req'.kind = req.kind /\ req'.start = req.start /\ req'.pos = req.pos + 1
            /\ code' = code
         \/ /\ req' = Idle /\ code' = Codes[err]
            /\ retryable(err) => req.pos = Steps - 1
<1>1. CASE retryable(err) /\ req.pos + 1 < Steps
  <2>1. req.pos + 1 \in 0..(Steps - 1)
    BY <1>1, WalkLength DEF JobTypeOK
  <2>2. PICK p \in {"call", "pause"} : req' = [req EXCEPT !.pos = req.pos + 1, !.phase = p]
    BY <1>1, Zenon DEF CallFailed
  <2>3. code' = code
    BY <1>1 DEF CallFailed
  <2>4. /\ req.kind \in Kinds /\ req.start \in DOMAIN Members
        /\ req' = [kind |-> req.kind, phase |-> p, start |-> req.start, pos |-> req.pos + 1]
    BY <2>2, ZenonT(30) DEF JobTypeOK
  <2> QED BY <1>1, <2>1, <2>3, <2>4
<1>2. CASE ~(retryable(err) /\ req.pos + 1 < Steps)
  BY <1>2, WalkLength DEF CallFailed, Respond, JobTypeOK
<1> QED BY <1>1, <1>2

\* A call that fails keeps the invariant when what it may have stored is counted
\* among the lost calls, and when the member that made the walk go on was not
\* leading all along.
LEMMA FailedCallKeeps ==
  ASSUME JobInv, req.phase # "idle", NEW err \in DOMAIN Codes, CallFailed(err),
         cached' = cached, steady' \subseteq steady, SteadyLead',
         rows' \in Nat, ghosts' \in Nat, lost' \in Nat, trouble' \in BOOLEAN,
         lost' >= lost, rows' + ghosts' <= 1 + lost',
         retryable(err) => rows' + ghosts' <= lost',
         retryable(err) => ~trouble',
         retryable(err) /\ lost' = 0 => Target \notin steady,
         err = "Internal" => trouble',
         err \in {"InvalidArgument", "NotFound"} => rows' + ghosts' = 0,
         req.kind # "submit" => rows' + ghosts' = 0
  PROVE  JobInv'
<1>1. JobTypeOK /\ code = 0 /\ lost \in Nat
  BY DEF JobInv, Accounted, JobTypeOK
<1>2. CASE /\ retryable(err)
           /\ req' \in [kind : Kinds, phase : {"call", "pause"},
                        start : DOMAIN Members, pos : 0..(Steps - 1)]
           /\ req'.kind = req.kind /\ req'.start = req.start /\ req'.pos = req.pos + 1
           /\ code' = code
  <2>1. JobTypeOK'
    BY <1>1, <1>2 DEF JobTypeOK, Phases
  <2>2. Accounted'
    BY <1>1, <1>2, Zenon DEF Accounted, InHandler
  <2>3. OneJobPerAnswer' /\ SteadyLeaderServes'
    <3>1. code' # 201 /\ code' \notin {400, 404} /\ code' # 502
      BY <1>1, <1>2
    <3> QED BY <3>1, ZenonT(30) DEF OneJobPerAnswer, SteadyLeaderServes
  <2>4. Passed'
    <3> SUFFICES ASSUME lost' = 0, NEW i \in 0..(req'.pos - 1)
                 PROVE  Members[At(req'.start, i)] \notin steady'
      BY DEF Passed
    <3>1. lost = 0 /\ Target \notin steady
      BY <1>1, <1>2
    <3>2. i \in 0..(req.pos - 1) \/ i = req.pos
      BY <1>1, <1>2 DEF JobTypeOK
    <3> QED BY <1>2, <3>1, <3>2 DEF JobInv, Passed, Target
  <2> QED BY <2>1, <2>2, <2>3, <2>4 DEF JobInv
<1>3. CASE req' = Idle /\ code' = Codes[err] /\ (retryable(err) => req.pos = Steps - 1)
  <2>1. /\ code' \in {400, 404, 502} /\ code' # 201
        /\ code' = 502 => retryable(err) \/ err = "Internal"
        /\ code' \in {400, 404} => err \in {"InvalidArgument", "NotFound"}
    BY <1>3 DEF Codes, retryable
  <2>2. JobTypeOK'
    BY <1>1, <1>3, <2>1, IdleType DEF JobTypeOK
  <2>3. req'.phase = "idle"
    BY <1>3 DEF Idle
  <2>4. Accounted' /\ Passed'
    BY <2>3 DEF Accounted, Passed, InHandler
  <2>5. OneJobPerAnswer'
    <3>1. ASSUME retryable(err), lost' = 0 PROVE rows' + ghosts' = 0
      <4>1. rows' + ghosts' <= lost'
        BY <3>1, Zenon
      <4>2. \A a, b, c \in Nat : c = 0 /\ a + b <= c => a + b = 0
        OBVIOUS
      <4> QED BY <3>1, <4>1, <4>2, Zenon
    <3>2. code' = 502 /\ ~trouble' /\ lost' = 0 => rows' + ghosts' = 0
      BY <2>1, <3>1, ZenonT(30)
    <3>3. code' \in {400, 404} => rows' + ghosts' = 0
      BY <2>1, ZenonT(30)
    <3> QED BY <2>1, <3>2, <3>3, ZenonT(30) DEF OneJobPerAnswer
  <2>6. SteadyLeaderServes'
    <3> SUFFICES ASSUME code' = 502, ~trouble', lost' = 0, NEW n \in steady' PROVE FALSE
      BY DEF SteadyLeaderServes
    <3>1. retryable(err)
      BY <2>1, ZenonT(30)
    <3>2. lost = 0 /\ Target \notin steady
      BY <1>1, <3>1
    <3>3. req.pos = Steps - 1 /\ n \in Nodes /\ n \in steady
      BY <1>1, <1>3, <3>1 DEF JobTypeOK
    <3>4. PICK i \in 0..(Steps - 1) : Members[At(req.start, i)] = n
      BY <1>1, <3>3, RoundCoversAll DEF JobTypeOK
    <3>5. i \in 0..(req.pos - 1) \/ i = req.pos
      BY <3>3, <3>4, WalkLength
    <3> QED BY <3>2, <3>3, <3>4, <3>5 DEF JobInv, Passed, Target
  <2> QED BY <2>2, <2>4, <2>5, <2>6 DEF JobInv
<1> QED BY <1>1, <1>2, <1>3, FailedCall

-----------------------------------------------------------------------------
LEMMA InitJobInv == GatewayInit => JobInv
<1> SUFFICES ASSUME GatewayInit PROVE JobInv
  OBVIOUS
<1> USE DEF GatewayInit
<1>1. JobTypeOK
  BY IdleType, Zenon DEF JobTypeOK
<1>2. req.phase = "idle"
  BY DEF Idle
<1>3. code # 502 /\ code # 201 /\ code \notin {400, 404}
  OBVIOUS
<1>4. OneJobPerAnswer /\ SteadyLeaderServes
  BY <1>3 DEF OneJobPerAnswer, SteadyLeaderServes
<1> QED BY <1>1, <1>2, <1>4 DEF JobInv, Accounted, Passed, SteadyLead, InHandler

\* A new request starts with clean accounts.
LEMMA ReceiveKeeps ==
  ASSUME JobInv, NEW k \in Kinds, Receive(k), UNCHANGED leadVars
  PROVE  JobInv'
<1>1. /\ JobTypeOK /\ req.phase = "idle" /\ cached' = cached
      /\ rows' = 0 /\ ghosts' = 0 /\ lost' = 0 /\ trouble' = FALSE
      /\ steady' = {n \in Nodes : IsLeader(n)}
  BY DEF JobInv, Receive
<1>2. SteadyLead'
  BY <1>1 DEF SteadyLead, IsLeader, leadVars
<1>3. CASE k = "malformed"
  <2>1. code' = 400 /\ req' = req
    BY <1>3 DEF Receive
  <2>2. JobTypeOK'
    BY <1>1, <2>1, ZenonT(30) DEF JobTypeOK
  <2>3. req'.phase = "idle" /\ code' # 201 /\ code' # 502
    BY <1>1, <2>1
  <2>4. OneJobPerAnswer' /\ SteadyLeaderServes'
    BY <1>1, <2>3 DEF OneJobPerAnswer, SteadyLeaderServes
  <2> QED BY <1>2, <2>2, <2>3, <2>4 DEF JobInv, Accounted, Passed, InHandler
<1>4. CASE k # "malformed"
  <2>1. /\ code' = 0
        /\ req' = [kind |-> k, phase |-> "call", start |-> cached, pos |-> 0]
    BY <1>4 DEF Receive
  <2>2. JobTypeOK'
    <3>1. /\ cached \in DOMAIN Members /\ 0 \in 0..(Steps - 1) /\ "call" \in Phases
          /\ code' \in {0, 200, 201, 400, 404, 502}
      BY <1>1, <2>1, WalkLength DEF JobTypeOK, Phases
    <3> QED BY <1>1, <2>1, <3>1, ZenonT(30) DEF JobTypeOK
  <2>3. code' # 201 /\ code' \notin {400, 404} /\ code' # 502
    BY <2>1
  <2>4. OneJobPerAnswer' /\ SteadyLeaderServes'
    BY <1>1, <2>3 DEF OneJobPerAnswer, SteadyLeaderServes
  <2>5. Accounted' /\ Passed'
    BY <1>1, <2>1 DEF Accounted, Passed, InHandler
  <2> QED BY <1>2, <2>2, <2>4, <2>5 DEF JobInv
<1> QED BY <1>3, <1>4

\* A definitive answer ends the request.
LEMMA AnsweredKeeps ==
  ASSUME JobInv, NEW c \in {200, 201, 502}, Respond(c),
         cached' \in DOMAIN Members, UNCHANGED rows, UNCHANGED <<leadVars, steady>>,
         ghosts' \in Nat, lost' \in Nat, trouble' \in BOOLEAN,
         rows' + ghosts' <= 1 + lost',
         c = 201 => rows >= 1,
         c = 502 => trouble'
  PROVE  JobInv'
<1>1. JobTypeOK /\ req' = Idle /\ code' = c
  BY DEF JobInv, Respond
<1>2. JobTypeOK'
  BY <1>1, IdleType DEF JobTypeOK
<1>3. req'.phase = "idle" /\ code' \notin {400, 404}
  BY <1>1 DEF Idle
<1>4. OneJobPerAnswer' /\ SteadyLeaderServes'
  BY <1>1, <1>3, ZenonT(30) DEF OneJobPerAnswer, SteadyLeaderServes
<1>5. SteadyLead'
  BY DEF JobInv, SteadyLead, IsLeader, leadVars
<1> QED BY <1>2, <1>3, <1>4, <1>5 DEF JobInv, Accounted, Passed, InHandler

LEMMA SteadyStays ==
  ASSUME SteadyLead, UNCHANGED <<leadVars, steady>>
  PROVE  SteadyLead'
BY DEF SteadyLead, IsLeader, leadVars

LEMMA CallRejectedKeeps ==
  ASSUME JobInv, CallRejected, UNCHANGED leadVars
  PROVE  JobInv'
<1>1. /\ req.phase = "call" /\ UNCHANGED <<cached, rows, ghosts, lost, trouble, steady>>
      /\ JobTypeOK /\ SteadyLead' /\ ~trouble
      /\ rows + ghosts <= lost
      /\ req.kind # "submit" => rows + ghosts = 0
  BY SteadyStays DEF CallRejected, JobInv, Accounted
<1>2. /\ rows' \in Nat /\ ghosts' \in Nat /\ lost' \in Nat /\ trouble' \in BOOLEAN
      /\ lost' >= lost /\ rows' + ghosts' <= 1 + lost' /\ rows' + ghosts' <= lost'
  BY <1>1 DEF JobTypeOK
<1>3. ASSUME NEW err \in {"Unavailable", "FailedPrecondition"}, CallFailed(err), ~IsLeader(Target)
      PROVE  JobInv'
  <2>1. Target \notin steady
    BY <1>3 DEF JobInv, SteadyLead
  <2>2. err \in DOMAIN Codes /\ err \notin {"InvalidArgument", "NotFound", "Internal"}
    BY <1>3 DEF Codes
  <2> QED BY <1>1, <1>2, <1>3, <2>1, <2>2, FailedCallKeeps
<1>4. CASE CallFailed("InvalidArgument") /\ req.kind = "unnamed"
  <2>1. rows' + ghosts' = 0
    BY <1>1, <1>4
  <2>2. "InvalidArgument" \in DOMAIN Codes /\ ~retryable("InvalidArgument")
    BY DEF Codes, retryable
  <2> QED BY <1>1, <1>2, <1>4, <2>1, <2>2, FailedCallKeeps
<1> QED BY <1>3, <1>4 DEF CallRejected, IsLeader

LEMMA CallReadKeeps ==
  ASSUME JobInv, CallRead, UNCHANGED leadVars
  PROVE  JobInv'
<1>1. /\ req.phase = "call" /\ req.kind \notin Writes /\ UNCHANGED <<rows, ghosts, lost, steady>>
      /\ JobTypeOK /\ SteadyLead'
      /\ rows + ghosts = 0
  BY SteadyStays DEF CallRead, JobInv, Accounted, Writes
<1>2. /\ rows' \in Nat /\ ghosts' \in Nat /\ lost' \in Nat
      /\ lost' >= lost /\ rows' + ghosts' <= 1 + lost' /\ rows' + ghosts' = 0
  BY <1>1 DEF JobTypeOK
<1>3. CASE CallSucceeded(200) /\ UNCHANGED trouble
  <2>1. cached' \in DOMAIN Members /\ Respond(200) /\ trouble' \in BOOLEAN
    BY <1>1, <1>3, AtIsMember DEF CallSucceeded, JobTypeOK
  <2> QED BY <1>1, <1>2, <2>1, AnsweredKeeps
<1>4. ASSUME NEW err \in {"NotFound", "Internal"}, CallFailed(err), cached' = cached,
             trouble' \in BOOLEAN, err = "Internal" => trouble'
      PROVE  JobInv'
  <2>1. err \in DOMAIN Codes /\ ~retryable(err)
    BY <1>4 DEF Codes, retryable
  <2> QED BY <1>1, <1>2, <1>4, <2>1, FailedCallKeeps
<1>5. trouble \in BOOLEAN
  BY <1>1 DEF JobTypeOK
<1> QED BY <1>3, <1>4, <1>5, Zenon DEF CallRead

\* The call moves on to the next phase of its handler.
LEMMA PhaseKeeps ==
  ASSUME JobInv, req.phase # "idle", NEW p \in Phases \ {"idle"},
         req' = [req EXCEPT !.phase = p], rows' \in Nat,
         p \in {"call", "pause", "admitted"} => rows' + ghosts <= lost,
         p = "stored" => rows' >= 1 /\ rows' + ghosts <= 1 + lost,
         p \in {"admitted", "stored"} => req.kind = "submit",
         req.kind # "submit" => rows' + ghosts = 0,
         UNCHANGED <<cached, code, ghosts, lost, trouble, steady, leadVars>>
  PROVE  JobInv'
<1>1. JobTypeOK /\ code = 0 /\ ~trouble /\ SteadyLead'
  BY SteadyStays DEF JobInv, Accounted
<1>2. /\ req' \in [kind : Kinds, phase : Phases, start : DOMAIN Members, pos : 0..(Steps - 1)]
      /\ req'.phase = p /\ req'.kind = req.kind /\ req'.start = req.start /\ req'.pos = req.pos
  BY <1>1 DEF JobTypeOK
<1>3. JobTypeOK'
  BY <1>1, <1>2 DEF JobTypeOK
<1>4. code' # 201 /\ code' \notin {400, 404} /\ code' # 502
  BY <1>1
<1>5. rows' + ghosts' <= 1 + lost'
  BY <1>1 DEF JobTypeOK, Phases
<1>6. OneJobPerAnswer' /\ SteadyLeaderServes'
  BY <1>4, <1>5 DEF OneJobPerAnswer, SteadyLeaderServes
<1>7. Accounted' /\ Passed'
  BY <1>1, <1>2 DEF Accounted, Passed, InHandler, JobInv
<1> QED BY <1>1, <1>3, <1>6, <1>7 DEF JobInv

LEMMA HandlerKeeps ==
  ASSUME JobInv, UNCHANGED leadVars, Admit \/ PauseEnds \/ CreateJobWithOutbox
  PROVE  JobInv'
<1>1. JobTypeOK /\ Accounted
  BY DEF JobInv
<1>2. CASE Admit
  <2>1. rows \in Nat /\ "admitted" \in Phases \ {"idle"}
    BY <1>1 DEF JobTypeOK, Phases
  <2> QED BY <1>1, <1>2, <2>1, PhaseKeeps DEF Admit, Accounted
<1>3. CASE PauseEnds
  <2>1. rows \in Nat /\ "call" \in Phases \ {"idle"}
    BY <1>1 DEF JobTypeOK, Phases
  <2> QED BY <1>1, <1>3, <2>1, PhaseKeeps DEF PauseEnds, Accounted
<1>4. CASE CreateJobWithOutbox
  <2>1. /\ req.phase = "admitted" /\ rows' = rows + 1 /\ req.kind = "submit"
        /\ rows + ghosts <= lost
        /\ rows \in Nat /\ ghosts \in Nat /\ lost \in Nat
    BY <1>1, <1>4 DEF CreateJobWithOutbox, Accounted, InHandler, JobTypeOK
  <2>2. /\ rows' \in Nat /\ "stored" \in Phases \ {"idle"}
        /\ rows' >= 1 /\ rows' + ghosts <= 1 + lost
    BY <2>1 DEF Phases
  <2> QED BY <1>4, <2>1, <2>2, PhaseKeeps DEF CreateJobWithOutbox
<1> QED BY <1>2, <1>3, <1>4

LEMMA CreateEndsKeeps ==
  ASSUME JobInv, UNCHANGED leadVars, CreateJobFails \/ Created
  PROVE  JobInv'
<1>1. /\ JobTypeOK /\ Accounted /\ InHandler /\ req.kind = "submit"
      /\ rows + ghosts <= 1 + lost
  BY DEF JobInv, OneJobPerAnswer, Accounted, InHandler, CreateJobFails, Created
<1>2. CASE CreateJobFails
  <2>1. /\ req.phase = "admitted" /\ rows + ghosts <= lost
        /\ rows' = rows \/ rows' = rows + 1
        /\ CallFailed("Internal") /\ trouble' = TRUE /\ UNCHANGED <<cached, ghosts, lost, steady>>
    BY <1>1, <1>2 DEF CreateJobFails, Accounted
  <2>2. /\ rows' \in Nat /\ ghosts' \in Nat /\ lost' \in Nat
        /\ lost' >= lost /\ rows' + ghosts' <= 1 + lost'
    BY <1>1, <2>1 DEF JobTypeOK
  <2>3. "Internal" \in DOMAIN Codes /\ ~retryable("Internal")
    BY DEF Codes, retryable
  <2>4. SteadyLead'
    BY <2>1, SteadyStays DEF JobInv
  <2> QED BY <1>1, <2>1, <2>2, <2>3, <2>4, FailedCallKeeps, Zenon
<1>3. CASE Created
  <2>1. /\ Respond(201) /\ cached' \in DOMAIN Members /\ rows >= 1
        /\ UNCHANGED <<rows, ghosts, lost, trouble, steady>>
    BY <1>1, <1>3, AtIsMember DEF Created, CallSucceeded, Accounted, JobTypeOK
  <2>2. ghosts' \in Nat /\ lost' \in Nat /\ trouble' \in BOOLEAN /\ rows' + ghosts' <= 1 + lost'
    BY <1>1, <2>1 DEF JobTypeOK
  <2> QED BY <2>1, <2>2, AnsweredKeeps
<1> QED BY <1>2, <1>3

\* A call given up after its admission is counted as lost, with its transaction.
LEMMA GiveUpCounts ==
  ASSUME JobInv, InHandler, GiveUp, UNCHANGED rows
  PROVE  /\ rows' \in Nat /\ ghosts' \in Nat /\ lost' \in Nat
         /\ lost' >= lost /\ lost' # 0
         /\ rows' + ghosts' <= lost' /\ rows' + ghosts' <= 1 + lost'
<1>1. rows \in Nat /\ ghosts \in Nat /\ lost \in Nat
  BY DEF JobInv, JobTypeOK
<1>2. CASE req.phase = "admitted"
  BY <1>1, <1>2 DEF JobInv, Accounted, GiveUp
<1>3. CASE req.phase = "stored"
  BY <1>1, <1>3 DEF JobInv, OneJobPerAnswer, GiveUp
<1> QED BY <1>2, <1>3 DEF InHandler

LEMMA BrokenCallKeeps ==
  ASSUME JobInv, InHandler, GiveUp, CallFailed("Unavailable"),
         UNCHANGED <<cached, rows, trouble>>, steady' \subseteq steady, SteadyLead'
  PROVE  JobInv'
<1>1. /\ rows' \in Nat /\ ghosts' \in Nat /\ lost' \in Nat
      /\ lost' >= lost /\ lost' # 0
      /\ rows' + ghosts' <= lost' /\ rows' + ghosts' <= 1 + lost'
  BY GiveUpCounts
<1>2. req.phase # "idle" /\ req.kind = "submit" /\ ~trouble /\ trouble \in BOOLEAN
  BY DEF JobInv, Accounted, InHandler, JobTypeOK
<1>3. "Unavailable" \in DOMAIN Codes
  BY DEF Codes
<1> QED BY <1>1, <1>2, <1>3, FailedCallKeeps, Zenon

LEMMA LeftoverKeeps ==
  ASSUME JobInv, UNCHANGED leadVars, LoseAnswer \/ GhostEnds \/ DeadlineExpires
  PROVE  JobInv'
<1>1. JobTypeOK /\ Accounted /\ SteadyLead
  BY DEF JobInv
<1>2. CASE LoseAnswer
  BY <1>1, <1>2, SteadyStays, BrokenCallKeeps DEF LoseAnswer
<1>3. CASE GhostEnds
  <2>1. /\ ghosts > 0 /\ ghosts' = ghosts - 1
        /\ rows' = rows \/ rows' = rows + 1
        /\ UNCHANGED <<cached, req, code, lost, trouble, steady>>
        /\ rows \in Nat /\ ghosts \in Nat /\ lost \in Nat
    BY <1>1, <1>3 DEF GhostEnds, JobTypeOK
  <2>2. /\ rows' \in Nat /\ ghosts' \in Nat /\ rows' >= rows
        /\ rows' + ghosts' <= rows + ghosts /\ rows + ghosts # 0
        /\ \A b \in Nat : rows + ghosts <= b => rows' + ghosts' <= b
        /\ rows >= 1 => rows' >= 1
    <3>1. CASE rows' = rows
      BY <2>1, <3>1
    <3>2. CASE rows' = rows + 1
      BY <2>1, <3>2
    <3> QED BY <2>1, <3>1, <3>2
  <2>3. JobTypeOK'
    BY <1>1, <2>1, <2>2 DEF JobTypeOK
  <2>4. Accounted'
    <3>1. rows + ghosts <= lost => rows' + ghosts' <= lost
      BY <2>1, <2>2, Zenon
    <3> QED BY <1>1, <2>1, <2>2, <3>1, Zenon DEF Accounted, InHandler
  <2>5. OneJobPerAnswer'
    <3>1. rows' + ghosts' <= 1 + lost' /\ (code' = 201 => rows' >= 1)
      <4>1. 1 + lost \in Nat
        BY <2>1
      <4>2. rows + ghosts <= 1 + lost => rows' + ghosts' <= 1 + lost
        BY <2>2, <4>1, Zenon
      <4> QED BY <2>1, <2>2, <4>2, ZenonT(30) DEF JobInv, OneJobPerAnswer
    <3>2. code' \notin {400, 404} /\ ~(code' = 502 /\ ~trouble' /\ lost' = 0)
      BY <2>1, <2>2, ZenonT(30) DEF JobInv, OneJobPerAnswer
    <3> QED BY <3>1, <3>2, ZenonT(30) DEF OneJobPerAnswer
  <2>6. Passed' /\ SteadyLead' /\ SteadyLeaderServes'
    BY <1>1, <2>1, SteadyStays DEF JobInv, Passed, SteadyLeaderServes
  <2> QED BY <2>3, <2>4, <2>5, <2>6 DEF JobInv
<1>4. CASE DeadlineExpires
  <2>1. /\ Respond(502) /\ trouble' = TRUE /\ UNCHANGED <<cached, rows, steady>>
    BY <1>4 DEF DeadlineExpires, Codes
  <2>2. ghosts' \in Nat /\ lost' \in Nat /\ rows' + ghosts' <= 1 + lost'
    BY <1>1, <1>4, GiveUpCounts DEF DeadlineExpires, JobTypeOK, JobInv, OneJobPerAnswer
  <2> QED BY <1>1, <2>1, <2>2, AnsweredKeeps DEF JobTypeOK
<1> QED BY <1>2, <1>3, <1>4

LEMMA StopKeeps ==
  ASSUME JobInv, LeadershipTypeOK, NEW n \in Nodes, Stop(n)
  PROVE  JobInv'
<1>1. /\ steady' = steady \ {n} /\ steady \subseteq Nodes /\ SteadyLead
      /\ UNCHANGED <<cached, rows, trouble>>
  BY DEF Stop, JobInv, JobTypeOK
<1>2. \A m \in Nodes \ {n} : up'[m] = up[m] /\ leads'[m] = leads[m]
  BY DEF Stop, Shutdown, LeadershipTypeOK
<1>3. SteadyLead'
  BY <1>1, <1>2 DEF SteadyLead, IsLeader
<1>4. CASE InHandler /\ Target = n
  BY <1>1, <1>3, <1>4, BrokenCallKeeps DEF Stop
<1>5. CASE ~(InHandler /\ Target = n)
  BY <1>1, <1>3, <1>5, LeadersOnly DEF Stop
<1> QED BY <1>4, <1>5

\* The steps of the job API leave the raft group alone, and the others leave the
\* request alone.
LEMMA NextJobInv ==
  ASSUME RaftTypeOK, JobInv, [GatewayNext]_gatewayVars
  PROVE  JobInv'
<1>1. CASE ElectionStep
  <2>1. /\ steady' \subseteq steady /\ SteadyLead'
        /\ UNCHANGED <<cached, req, code, rows, ghosts, lost, trouble>>
    BY <1>1 DEF ElectionStep, SteadyLead, IsLeader
  <2> QED BY <2>1, LeadersOnly
<1>2. ASSUME NEW n \in Nodes, Stop(n) PROVE JobInv'
  BY <1>2, StopKeeps DEF RaftTypeOK
<1>3. CASE JobStep /\ UNCHANGED leadVars
  BY <1>3, ReceiveKeeps, CallRejectedKeeps, CallReadKeeps, HandlerKeeps, CreateEndsKeeps,
     LeftoverKeeps
  DEF JobStep, JobProgress
<1>4. CASE UNCHANGED <<leadVars, jobVars>>
  BY <1>4, LeadersOnly, SteadyStays DEF jobVars, JobInv
<1> QED BY <1>1, <1>2, <1>3, <1>4 DEF GatewayNext, gatewayVars

-----------------------------------------------------------------------------
\* The values the raft group and GET /raft leave behind.
LEMMA RaftTypes == RaftSpec => []RaftTypeOK
<1> USE LeadershipAssumption DEF RaftTypeOK
<1>1. ASSUME RaftInit PROVE RaftTypeOK
  <2>1. elected \in Seq(Nodes) /\ Len(elected) = 0 /\ 0 \in 0..MaxTerm /\ 0 \in 0..MaxStops
    BY <1>1 DEF RaftInit, LeadershipInit
  <2>2. LeadershipTypeOK
    BY <1>1, <2>1 DEF RaftInit, LeadershipInit, LeadershipTypeOK
  <2> QED BY <1>1, <2>1, <2>2, Zenon DEF RaftInit, StatusInit, StatusTypeOK
<1>2. ASSUME RaftTypeOK, MemberStep PROVE LeadershipTypeOK'
  <2>1. PICK n \in Nodes : LeadershipStep(n) \/ Shutdown(n) \/ Start(n)
    BY <1>2 DEF MemberStep
  <2>2. ASSUME NEW Q \in SUBSET Nodes, Elect(n, Q) PROVE LeadershipTypeOK'
    <3>1. /\ elected \in Seq(Nodes) /\ Len(elected) + 1 \in 0..MaxTerm
          /\ elected' = Append(elected, n)
      BY <1>2, <2>2 DEF LeadershipTypeOK, Elect
    <3>2. elected' \in Seq(Nodes) /\ Len(elected') = Len(elected) + 1
      BY <3>1
    <3> QED BY <1>2, <2>2, <3>1, <3>2 DEF LeadershipTypeOK, Elect
  <2>3. ASSUME NEW l \in Nodes, Hear(n, l) PROVE LeadershipTypeOK'
    BY <1>2, <2>3 DEF LeadershipTypeOK, Hear
  <2>4. CASE LoseContact(n) \/ Start(n)
    BY <1>2, <2>4, Zenon DEF LeadershipTypeOK, LoseContact, Start
  <2>5. CASE Shutdown(n)
    <3>1. stops + 1 \in 0..MaxStops
      BY <1>2, <2>5 DEF LeadershipTypeOK, Shutdown
    <3> QED BY <1>2, <2>5, <3>1 DEF LeadershipTypeOK, Shutdown
  <2> QED BY <2>1, <2>2, <2>3, <2>4, <2>5 DEF LeadershipStep
<1>3. ASSUME RaftTypeOK, StatusStep PROVE StatusTypeOK'
  <2>1. Len(elected) \in 0..MaxTerm
    BY <1>3 DEF LeadershipTypeOK
  <2>2. CASE AskAll
    BY <2>1, <2>2 DEF AskAll, StatusTypeOK
  <2>3. ASSUME NEW n \in Nodes, GetClusterState(n) \/ NoAnswer(n) PROVE StatusTypeOK'
    BY <1>3, <2>3, Zenon DEF GetClusterState, NoAnswer, StatusTypeOK, LeadershipTypeOK
  <2>4. CASE ShowLeader
    BY <1>3, <2>4, Zenon DEF ShowLeader, StatusTypeOK
  <2> QED BY <1>3, <2>2, <2>3, <2>4 DEF StatusStep
<1>4. UNCHANGED leadVars /\ LeadershipTypeOK => LeadershipTypeOK'
  BY DEF leadVars, LeadershipTypeOK
<1>5. UNCHANGED statusVars /\ StatusTypeOK => StatusTypeOK'
  BY DEF statusVars, StatusTypeOK
<1>6. RaftTypeOK /\ [RaftNext]_<<leadVars, statusVars>> => RaftTypeOK'
  BY <1>2, <1>3, <1>4, <1>5 DEF RaftNext
<1> QED BY <1>1, <1>6, PTL DEF RaftSpec

\* With the gateway's requests running, the raft group and GET /raft behave as they
\* do on their own.
THEOREM GatewayKeepsRaft == GatewaySpec => RaftSpec
<1>1. GatewayInit => RaftInit
  BY DEF GatewayInit
<1>2. [GatewayNext]_gatewayVars => [RaftNext]_<<leadVars, statusVars>>
  <2> SUFFICES ASSUME [GatewayNext]_gatewayVars PROVE [RaftNext]_<<leadVars, statusVars>>
    OBVIOUS
  <2>1. CASE ElectionStep /\ UNCHANGED statusVars
    BY <2>1 DEF ElectionStep, RaftNext, MemberStep
  <2>2. CASE (\E n \in Nodes : Stop(n)) /\ UNCHANGED statusVars
    BY <2>2 DEF Stop, RaftNext, MemberStep
  <2>3. CASE StatusStep /\ UNCHANGED leadVars
    BY <2>3 DEF RaftNext
  <2> QED BY <2>1, <2>2, <2>3 DEF GatewayNext, gatewayVars
<1> QED BY <1>1, <1>2, PTL DEF GatewaySpec, RaftSpec

LEMMA GatewayInductive == GatewaySpec => [](RaftTypeOK /\ JobInv)
<1>1. GatewayInit => JobInv
  BY InitJobInv
<1>2. RaftTypeOK /\ JobInv /\ [GatewayNext]_gatewayVars => JobInv'
  BY NextJobInv
<1>3. RaftSpec => []RaftTypeOK
  BY RaftTypes
<1> QED BY <1>1, <1>2, <1>3, GatewayKeepsRaft, PTL DEF GatewaySpec

\* route and the handlers of the job API leave only values their types allow; in
\* particular no walk has more than retryRounds rounds.
THEOREM GatewayTypeCorrect == GatewaySpec => []GatewayTypeOK
<1>1. RaftTypeOK /\ JobInv => GatewayTypeOK
  BY DEF RaftTypeOK, JobInv, JobTypeOK, GatewayTypeOK
<1> QED BY <1>1, GatewayInductive, PTL

\* SubmitJob behind route: for any schedulers, elections, stops and lost answers, a
\* request stores at most one job and one for each lost call, and none if refused.
THEOREM SubmissionsCounted == GatewaySpec => []OneJobPerAnswer
<1>1. JobInv => OneJobPerAnswer
  BY DEF JobInv
<1> QED BY <1>1, GatewayInductive, PTL

\* route: for any number of schedulers and whichever is cached, the walk meets every
\* member, so one that leads throughout serves the request.
THEOREM SteadyLeaderFound == GatewaySpec => []SteadyLeaderServes
<1>1. JobInv => SteadyLeaderServes
  BY DEF JobInv
<1> QED BY <1>1, GatewayInductive, PTL

(***************************************************************************)
(* ClusterHealth.                                                          *)
(***************************************************************************)

\* What the history sets hold while a request is with the observer: a component
\* that works now has worked, and one that does not has not.
HealthInv ==
  /\ working \in [Components -> BOOLEAN] /\ checking \in BOOLEAN
  /\ result \in [Components -> {"WAITING"} \cup ServingStatus]
  /\ checking => \A c \in Components : IF working[c] THEN c \in upWhile ELSE c \in downWhile
  /\ HealthIsWitnessed

LEMMA InitHealthInv == HealthInit => HealthInv
<1> SUFFICES ASSUME HealthInit PROVE HealthInv
  OBVIOUS
<1>1. status # 200 /\ status # 503
  BY DEF HealthInit
<1>2. \A c \in Components : result[c] = "WAITING"
  BY DEF HealthInit
<1>3. HealthIsWitnessed
  BY <1>1, <1>2 DEF HealthIsWitnessed
<1> QED BY <1>3, Zenon DEF HealthInit, HealthInv, ServingStatus

LEMMA NextHealthInv == HealthInv /\ [HealthNext]_healthVars => HealthInv'
<1> SUFFICES ASSUME HealthInv, [HealthNext]_healthVars PROVE HealthInv'
  OBVIOUS
<1> USE DEF HealthInv
<1>1. CASE UNCHANGED healthVars
  BY <1>1 DEF healthVars, HealthIsWitnessed
<1>2. CASE handleHealth
  <2>1. status' # 200 /\ status' # 503 /\ \A c \in Components : result'[c] = "WAITING"
    BY <1>2 DEF handleHealth
  <2>2. HealthIsWitnessed'
    BY <2>1 DEF HealthIsWitnessed
  <2> QED BY <1>2, <2>2 DEF handleHealth
<1>3. CASE ObserverFails
  <2>1. status' # 200 /\ status' # 503
    BY <1>3 DEF ObserverFails
  <2>2. HealthIsWitnessed'
    BY <1>3, <2>1 DEF ObserverFails, HealthIsWitnessed
  <2> QED BY <1>3, <2>2, Zenon DEF ObserverFails
<1>4. CASE ClusterCheck
  <2>1. /\ checking' = FALSE /\ UNCHANGED <<working, result, upWhile, downWhile>>
        /\ \A c \in Components : result[c] \in ServingStatus
    BY <1>4 DEF ClusterCheck
  <2>2. status' = 200 => \A c \in Components : result[c] = "SERVING"
    BY <1>4 DEF ClusterCheck, AllServe
  <2>3. status' = 503 => \E c \in Components : result[c] = "NOT_SERVING"
    BY <1>4, <2>1 DEF ClusterCheck, AllServe, ServingStatus
  <2>4. HealthIsWitnessed'
    BY <2>1, <2>2, <2>3 DEF HealthIsWitnessed
  <2> QED BY <2>1, <2>4, Zenon
<1>5. ASSUME NEW c \in Components, componentHealth(c) PROVE HealthInv'
  BY <1>5 DEF componentHealth, HealthIsWitnessed, ServingStatus
<1>6. ASSUME NEW c \in Components, CheckTimesOut(c) PROVE HealthInv'
  BY <1>6 DEF CheckTimesOut, HealthIsWitnessed, ServingStatus
<1>7. ASSUME NEW c \in Components, Change(c) PROVE HealthInv'
  BY <1>7 DEF Change, HealthIsWitnessed
<1> QED BY <1>1, <1>2, <1>3, <1>4, <1>5, <1>6, <1>7 DEF HealthNext

\* ClusterCheck reports only what each component was at some time of the request,
\* for any set of components, however they fail and recover meanwhile.
THEOREM HealthWitnessed == HealthSpec => []HealthIsWitnessed
<1>1. HealthInv => HealthIsWitnessed
  BY DEF HealthInv
<1> QED BY <1>1, InitHealthInv, NextHealthInv, PTL DEF HealthSpec
=============================================================================
