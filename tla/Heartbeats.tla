----------------------------- MODULE Heartbeats -----------------------------
(***************************************************************************)
(* One worker's heartbeat loop and its record in the registry of every     *)
(* scheduler, with time: the ticker, the fan-out and its timeout on the    *)
(* one side, the ages against the TTLs on the other, and the sweep that    *)
(* forgets a dead worker.  Time passes in steps of half a second, the      *)
(* largest unit of which all the durations in the code are multiples.      *)
(* The registries share nothing, and a scheduler affects the others only   *)
(* by how long its call takes, so the schedulers that are not followed are *)
(* modelled by that.                                                       *)
(***************************************************************************)
EXTENDS Naturals, FiniteSets

CONSTANTS Schedulers,       \* the schedulers whose registry is followed
          Others,           \* stands for the calls to the other schedulers
          Interval,         \* 4: heartbeat.Interval, 2 s
          perCallTimeout,   \* 3: 1.5 s
          staleTTL,         \* 10: 5 s
          deadTTL,          \* 16: 8 s
          Capacity          \* the worker's concurrency cap

ASSUME HeartbeatAssumption ==
  /\ Interval \in Nat /\ perCallTimeout \in Nat /\ staleTTL \in Nat /\ deadTTL \in Nat
  /\ 0 < perCallTimeout /\ perCallTimeout < Interval
  /\ 2 * Interval <= staleTTL /\ 4 * Interval <= deadTTL
  /\ Capacity \in Nat \ {0} /\ Others \notin Schedulers

VARIABLES running,    \* the worker's process
          load,       \* its inflight jobs
          loop,       \* what Run does: "register", "wait" for the ticker, "beat"
          sample,     \* the load that the fan-out reports
          open,       \* the calls that have not ended, by scheduler
          elapsed,    \* the age of the fan-out
          timer,      \* time to the next tick
          tick,       \* a tick is in the ticker's channel
          serving,    \* serving[s]: the scheduler runs
          reg,        \* reg[s]: its record of the worker, or Absent
          doomed,     \* doomed[s]: a sweep of s found it dead and reclaims its jobs
          late,       \* late[s]: load in a call given up that may still arrive
          missed,     \* history: beats sent since the last one that s recorded
          calm        \* no more failures

workerVars == <<running, load, loop, sample, open, elapsed, timer, tick>>
schedulerVars == <<serving, reg, doomed>>
heartbeatVars == <<workerVars, schedulerVars, late, missed, calm>>

Absent == [age |-> 0, inflight |-> Capacity + 1]

Nothing == Capacity + 1

MaxAge == deadTTL + 1

\* As many missed beats as the properties tell apart.
Enough == 4

Later(a) == IF a < MaxAge THEN a + 1 ELSE a

More(k) == IF k < Enough THEN k + 1 ELSE k

-----------------------------------------------------------------------------
(* registry.go *)

Known(s) == reg[s] # Absent

\* Mutant: a heartbeat only refreshes a record that is there.
RecordKnown(s, inflight) ==
  reg' = IF Known(s) THEN [reg EXCEPT ![s] = [age |-> 0, inflight |-> inflight]] ELSE reg

Record(s, inflight) == reg' = [reg EXCEPT ![s] = [age |-> 0, inflight |-> inflight]]

\* Mutant: placements go to every worker on record.
KnownIsFresh(s) == Known(s)

Fresh(s) == Known(s) /\ reg[s].age <= staleTTL

Available(s) == serving[s] /\ Fresh(s) /\ reg[s].inflight < Capacity

\* Snapshot: what GET /workers shows.
Alive(s) == serving[s] /\ Known(s) /\ reg[s].age <= deadTTL

Dead(s) == Known(s) /\ reg[s].age > deadTTL

-----------------------------------------------------------------------------
(* The worker. *)

FanOut(l, inflight) ==
  /\ loop' = l
  /\ sample' = inflight
  /\ open' = Schedulers \cup {Others}
  /\ elapsed' = 0

\* The process starts, and registers everywhere with no load.
Boot ==
  /\ ~running
  /\ running' = TRUE /\ load' = 0
  /\ FanOut("register", 0)
  /\ timer' = Interval /\ tick' = FALSE
  /\ UNCHANGED <<schedulerVars, late, missed, calm>>

\* The ticker fires into a channel of one.
Beat ==
  /\ running /\ loop = "wait" /\ tick
  /\ tick' = FALSE
  /\ FanOut("beat", load)
  /\ missed' = [s \in Schedulers |-> More(missed[s])]
  /\ UNCHANGED <<running, load, timer, schedulerVars, late, calm>>

\* RegisterWorker or Heartbeat of s handles the report: of the fan-out under way
\* or, late, of one that was given up.  Registration is followed by a first beat
\* later than others: it counts as one beat missed.
Deliver(s) ==
  /\ s \in open /\ serving[s]
  /\ Record(s, sample)
  /\ open' = open \ {s}
  /\ missed' = [missed EXCEPT ![s] = IF loop = "register" THEN 1 ELSE 0]
  /\ UNCHANGED <<running, load, loop, sample, elapsed, timer, tick, serving, doomed, late, calm>>

DeliverLate(s) ==
  /\ late[s] # Nothing /\ serving[s]
  /\ Record(s, late[s])
  /\ late' = [late EXCEPT ![s] = Nothing]
  /\ missed' = [missed EXCEPT ![s] = IF ~running THEN Enough
                                     ELSE IF loop = "register" THEN 1 ELSE 0]
  /\ UNCHANGED <<workerVars, serving, doomed, calm>>

\* Mutant: a call may last longer than the interval.
OutlastsInterval == elapsed > Interval

\* perCallTimeout: every call has ended by then.
TimedOut == elapsed >= perCallTimeout

OthersEnd ==
  /\ Others \in open
  /\ open' = open \ {Others}
  /\ UNCHANGED <<running, load, loop, sample, elapsed, timer, tick, schedulerVars,
                 late, missed, calm>>

\* A call fails, because the scheduler is down or does not answer in time.
GiveUp(s) ==
  /\ s \in open
  /\ ~serving[s] \/ ~calm
  /\ open' = open \ {s}
  /\ late' \in {late, [late EXCEPT ![s] = sample]}
  /\ UNCHANGED <<running, load, loop, sample, elapsed, timer, tick, schedulerVars, missed, calm>>

\* Mutant: every fan-out starts a new ticker.
TickerRestarts ==
  /\ running /\ loop # "wait" /\ open = {}
  /\ loop' = "wait" /\ elapsed' = 0 /\ sample' = 0
  /\ timer' = Interval
  /\ UNCHANGED <<running, load, open, tick, schedulerVars, late, missed, calm>>

\* fanOut returns: Run waits for the ticker, which starts after registration.
FanOutEnds ==
  /\ running /\ loop # "wait" /\ open = {}
  /\ loop' = "wait" /\ elapsed' = 0 /\ sample' = 0
  /\ timer' = IF loop = "register" THEN Interval ELSE timer
  /\ UNCHANGED <<running, load, open, tick, schedulerVars, late, missed, calm>>

\* A job is accepted or finishes.
ChangeLoad ==
  /\ running
  /\ load' \in {k \in {load - 1, load + 1} : k \in 0..Capacity}
  /\ UNCHANGED <<running, loop, sample, open, elapsed, timer, tick, schedulerVars,
                 late, missed, calm>>

Crash ==
  /\ running /\ ~calm
  /\ running' = FALSE /\ load' = 0
  /\ loop' = "wait" /\ sample' = 0 /\ open' = {} /\ elapsed' = 0
  /\ timer' = Interval /\ tick' = FALSE
  /\ late' \in {[s \in Schedulers |-> IF s \in S THEN sample ELSE late[s]] : S \in SUBSET (open \ {Others})}
  /\ missed' = [s \in Schedulers |-> Enough]
  /\ UNCHANGED <<schedulerVars, calm>>

-----------------------------------------------------------------------------
(* The schedulers. *)

\* reaper.sweep, on whichever scheduler leads: the list of the dead is taken,
\* their jobs are reclaimed, and then they are forgotten, whatever was recorded in
\* the meantime.  A sweep whose reclaim fails leaves the record.
SweepFinds(s) ==
  /\ serving[s] /\ ~doomed[s] /\ Dead(s)
  /\ doomed' = [doomed EXCEPT ![s] = TRUE]
  /\ UNCHANGED <<workerVars, serving, reg, late, missed, calm>>

SweepForgets(s) ==
  /\ doomed[s]
  /\ doomed' = [doomed EXCEPT ![s] = FALSE]
  /\ reg' \in {reg, [reg EXCEPT ![s] = Absent]}
  /\ UNCHANGED <<workerVars, serving, late, missed, calm>>

StopScheduler(s) ==
  /\ serving[s] /\ ~calm
  /\ serving' = [serving EXCEPT ![s] = FALSE]
  /\ reg' = [reg EXCEPT ![s] = Absent]
  /\ doomed' = [doomed EXCEPT ![s] = FALSE]
  /\ UNCHANGED <<workerVars, late, missed, calm>>

StartScheduler(s) ==
  /\ ~serving[s]
  /\ serving' = [serving EXCEPT ![s] = TRUE]
  /\ UNCHANGED <<workerVars, reg, doomed, late, missed, calm>>

-----------------------------------------------------------------------------
\* Half a second.  What is due happens first.
Pass ==
  /\ ~(running /\ loop = "wait" /\ tick)
  /\ ~(running /\ loop # "wait" /\ open = {})
  /\ ~(open # {} /\ TimedOut)
  /\ elapsed' = IF open # {} THEN elapsed + 1 ELSE elapsed
  /\ IF running /\ loop # "register"
     THEN /\ timer' = IF timer = 1 THEN Interval ELSE timer - 1
          /\ tick' = (tick \/ timer = 1)
     ELSE UNCHANGED <<timer, tick>>
  /\ reg' = [s \in Schedulers |->
               IF Known(s) THEN [reg[s] EXCEPT !.age = Later(reg[s].age)] ELSE Absent]
  /\ UNCHANGED <<running, load, loop, sample, open, serving, doomed, late, missed, calm>>

Calm == ~calm /\ calm' = TRUE
        /\ UNCHANGED <<workerVars, schedulerVars, late, missed>>

HeartbeatInit ==
  /\ running = FALSE /\ load = 0
  /\ loop = "wait" /\ sample = 0 /\ open = {} /\ elapsed = 0
  /\ timer = Interval /\ tick = FALSE
  /\ serving = [s \in Schedulers |-> TRUE]
  /\ reg = [s \in Schedulers |-> Absent]
  /\ doomed = [s \in Schedulers |-> FALSE]
  /\ late = [s \in Schedulers |-> Nothing]
  /\ missed = [s \in Schedulers |-> Enough]
  /\ calm = FALSE

WorkerStep == Boot \/ Beat \/ OthersEnd \/ FanOutEnds \/ ChangeLoad \/ Crash

SchedulerStep(s) ==
  \/ Deliver(s) \/ DeliverLate(s) \/ GiveUp(s)
  \/ SweepFinds(s) \/ SweepForgets(s)
  \/ StopScheduler(s) \/ StartScheduler(s)

HeartbeatNext == WorkerStep \/ (\E s \in Schedulers : SchedulerStep(s)) \/ Pass \/ Calm

HeartbeatSpec == HeartbeatInit /\ [][HeartbeatNext]_heartbeatVars

\* Time passes and what is due is done; a sweep ends and a scheduler comes back.
\* The worker need not, nor need a late call arrive.
Progress ==
  \/ Pass \/ Beat \/ OthersEnd \/ FanOutEnds
  \/ \E s \in Schedulers : Deliver(s) \/ GiveUp(s)

Recover(s) == SweepForgets(s) \/ StartScheduler(s)

HeartbeatFairness ==
  /\ WF_heartbeatVars(Progress)
  /\ \A s \in Schedulers : WF_heartbeatVars(Recover(s))

-----------------------------------------------------------------------------
(***************************************************************************)
(* Properties                                                              *)
(***************************************************************************)

HeartbeatTypeOK ==
  /\ running \in BOOLEAN /\ load \in 0..Capacity /\ calm \in BOOLEAN
  /\ loop \in {"register", "wait", "beat"} /\ sample \in 0..Capacity
  /\ open \subseteq Schedulers \cup {Others} /\ elapsed \in 0..perCallTimeout
  /\ timer \in 1..Interval /\ tick \in BOOLEAN
  /\ serving \in [Schedulers -> BOOLEAN] /\ doomed \in [Schedulers -> BOOLEAN]
  /\ reg \in [Schedulers -> [age : 0..MaxAge, inflight : 0..Capacity] \cup {Absent}]
  /\ late \in [Schedulers -> 0..Capacity \cup {Nothing}]
  /\ missed \in [Schedulers -> 0..Enough]

\* cmd/scheduler: "one missed beat is tolerated, four means presumed dead".
\* However late each beat arrives, a scheduler finds a worker that runs stale only
\* after two beats in a row that it has not received, and dead only after four:
\* one fewer, each, when the last thing it received was the registration.
TTLsCountBeats ==
  \A s \in Schedulers :
    Known(s) => /\ reg[s].age > staleTTL => missed[s] >= 2
                /\ reg[s].age > deadTTL => missed[s] >= 4

\* heartbeat.go: "a slow scheduler must not delay reports to the others past the
\* tick".  Whenever the ticker fires, the loop is waiting for it.
BeatsKeepPace == tick => loop = "wait"

\* registry.go Available and Snapshot: a worker that crashed for good is offered no
\* jobs any more and is not shown alive by any scheduler, even when its last
\* reports arrive after the crash and no sweep ever finds it.
CrashNoticed ==
  <>[]~running => <>[](\A s \in Schedulers : ~Available(s) /\ ~Alive(s))

\* heartbeat.go: "Reporting to all members keeps every registry warm".  Once
\* failures end, every scheduler, those that restarted or had forgotten the worker
\* included, comes to know it as fresh and with the load it has.
LoadKnown ==
  \A k \in 0..Capacity :
    <>[](calm /\ running /\ load = k)
      => <>[](\A s \in Schedulers : Fresh(s) /\ reg[s].inflight = k)
=============================================================================
