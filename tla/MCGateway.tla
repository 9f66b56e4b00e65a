----------------------------- MODULE MCGateway -----------------------------
EXTENDS Gateway

CONSTANTS s1, s2, s3

ThreeSchedulers == <<s1, s2, s3>>

\* Bound: a behaviour has GET /raft requests or a request of the job API, which
\* share nothing but the members they ask ...
OneApi == (req = Idle /\ code = 0 /\ cached = 1) \/ (since = 0 /\ read = [n \in Nodes |-> Unreachable])

\* ... and that is one request, at any time and with any member cached: what an
\* earlier one left behind.  Once it is answered, only its leftovers go on.
OneRequest == code = 0 \/ ghosts' # ghosts

OneRequestSpec ==
  /\ GatewayInit /\ [][GatewayNext /\ OneApi' /\ OneRequest]_gatewayVars
  /\ GatewayFairness
=============================================================================
