--------------------------- MODULE JobStoreProofs ---------------------------
(***************************************************************************)
(* What every statement of internal/store does to the two tables, for any  *)
(* number of jobs and workers.  The facts the pipeline's proof needs are   *)
(* collected in two action predicates: Evolves, which every statement      *)
(* satisfies, and Keeps, for those that close no command.  A statement is  *)
(* then a step of DispatchIntent, or none, because the commands it closes  *)
(* as dispatched are history (MovedPast).                                  *)
(***************************************************************************)
EXTENDS PipelineRefinement, TLAPS

StoreTypeOK ==
  /\ jobs \in [Jobs -> JobRow]
  /\ outbox \in Seq(CommandRow)

\* A pending job has a newest command.
HasCommand == \A j \in Jobs : jobs[j].status = "pending" => \E r \in Rows : IsNewest(r, j)

\* Its job has left "pending", or has a newer command: row r is history.
MovedPast(r) ==
  \/ jobs[outbox[r].job].status # "pending"
  \/ \E q \in Rows : q > r /\ outbox[q].job = outbox[r].job

\* A command closed as dispatched belongs to a job that moved on.
ClosedMovedPast == \A r \in Rows : outbox[r].status = "dispatched" => MovedPast(r)

Evolves ==
  /\ StoreTypeOK'
  /\ Rows \subseteq Rows'
  /\ \A r \in Rows : /\ outbox'[r].job = outbox[r].job
                     /\ outbox'[r].attempts >= outbox[r].attempts
  /\ \A j \in Jobs : jobs'[j].attempts >= jobs[j].attempts
  /\ \A q \in Rows' \ Rows : /\ outbox'[q].status = "pending" /\ \A r \in Rows : r < q
                            /\ jobs[outbox'[q].job].status # "pending"
                            /\ jobs'[outbox'[q].job].status = "pending"
  /\ \A j \in Jobs : jobs[j].status # "absent" => jobs'[j].status # "absent"
  /\ \A j \in Jobs : jobs[j].status # "pending" /\ jobs'[j].status = "pending"
                       => \E q \in Rows' \ Rows : outbox'[q].job = j
  /\ HasCommand => HasCommand'

Keeps == Evolves /\ \A r \in Rows : outbox'[r].status = outbox[r].status

-----------------------------------------------------------------------------
\* The rows of the outbox are its indexes, and each is well typed.
LEMMA RowsAreIndexes ==
  ASSUME StoreTypeOK
  PROVE  /\ Len(outbox) \in Nat
         /\ Rows = 1..Len(outbox)
         /\ \A r \in Rows : outbox[r] \in CommandRow
BY DEF StoreTypeOK, Rows

\* No statement at all.
LEMMA UnchangedKeeps ==
  ASSUME StoreTypeOK, UNCHANGED <<jobs, outbox>>
  PROVE  Keeps
<1>1. StoreTypeOK' /\ (HasCommand => HasCommand') /\ Rows' = Rows
  BY DEF StoreTypeOK, HasCommand, IsNewest, Rows
<1>2. \A r \in Rows : outbox[r].attempts \in Nat
  BY RowsAreIndexes DEF CommandRow
<1>3. \A j \in Jobs : jobs[j].attempts \in Nat
  BY DEF StoreTypeOK, JobRow
<1> QED BY <1>1, <1>2, <1>3 DEF Keeps, Evolves

\* A statement on the jobs table alone that makes no job pending.
LEMMA JobUpdateKeeps ==
  ASSUME StoreTypeOK, UNCHANGED outbox,
         jobs' \in [Jobs -> JobRow],
         \A j \in Jobs : /\ jobs'[j].attempts >= jobs[j].attempts
                         /\ jobs'[j].status = jobs[j].status
                              \/ jobs'[j].status \notin {"absent", "pending"}
  PROVE  Keeps
<1>1. StoreTypeOK' /\ Rows' = Rows
  BY DEF StoreTypeOK, Rows
<1>2. HasCommand => HasCommand'
  BY <1>1 DEF HasCommand, IsNewest
<1>3. \A r \in Rows : outbox[r].attempts \in Nat
  BY RowsAreIndexes DEF CommandRow
<1> QED BY <1>1, <1>2, <1>3 DEF Keeps, Evolves

\* MarkScheduled makes no job pending and touches no command.
LEMMA MarkScheduledKeeps ==
  ASSUME StoreTypeOK, NEW j \in Jobs, NEW w \in Workers,
         MarkScheduled(j, w)
  PROVE  Keeps
<1>1. jobs' \in [Jobs -> JobRow]
  BY Zenon DEF StoreTypeOK, MarkScheduled, JobRow, JobStatus
<1>2. \A i \in Jobs : /\ jobs'[i].attempts = jobs[i].attempts
                      /\ jobs[i].attempts \in Nat
                      /\ jobs'[i].status = jobs[i].status \/ jobs'[i].status = "scheduled"
  BY DEF StoreTypeOK, MarkScheduled, JobRow
<1> QED BY <1>1, <1>2, JobUpdateKeeps DEF MarkScheduled

\* It takes the job out of "pending".
LEMMA MarkScheduledPlaces ==
  ASSUME StoreTypeOK, NEW j \in Jobs, NEW w \in Workers, MarkScheduled(j, w)
  PROVE  jobs'[j].status = "scheduled" /\ UNCHANGED outbox
BY DEF StoreTypeOK, JobRow, MarkScheduled

\* MarkRunning makes none pending either; it only raises a counter.
LEMMA MarkRunningKeeps ==
  ASSUME StoreTypeOK, NEW j \in Jobs, MarkRunning(j)
  PROVE  Keeps
<1>1. jobs' \in [Jobs -> JobRow]
  BY DEF StoreTypeOK, MarkRunning, JobRow, JobStatus
<1>2. \A i \in Jobs : /\ jobs'[i].attempts >= jobs[i].attempts
                      /\ jobs'[i].status = jobs[i].status \/ jobs'[i].status = "running"
  BY DEF StoreTypeOK, MarkRunning, JobRow
<1> QED BY <1>1, <1>2, JobUpdateKeeps DEF MarkRunning

\* Nor does MarkFinished.
LEMMA MarkFinishedKeeps ==
  ASSUME StoreTypeOK, NEW j \in Jobs,
         NEW succeeded \in BOOLEAN, MarkFinished(j, succeeded)
  PROVE  Keeps
<1>1. jobs' \in [Jobs -> JobRow]
  BY Zenon DEF StoreTypeOK, MarkFinished, JobRow, JobStatus
<1>2. \A i \in Jobs : /\ jobs'[i].attempts = jobs[i].attempts
                      /\ jobs[i].attempts \in Nat
                      /\ jobs'[i].status = jobs[i].status \/ jobs'[i].status \in Terminal
  BY DEF StoreTypeOK, MarkFinished, JobRow, Terminal
<1> QED BY <1>1, <1>2, JobUpdateKeeps DEF MarkFinished, Terminal

-----------------------------------------------------------------------------
(* Statements on the outbox. *)

\* An update of one command that leaves its job alone and lowers no counter.
LEMMA CommandUpdateEvolves ==
  ASSUME StoreTypeOK, UNCHANGED jobs, NEW r \in Rows, NEW c \in CommandRow,
         c.job = outbox[r].job, c.attempts >= outbox[r].attempts,
         outbox' = [outbox EXCEPT ![r] = c]
  PROVE  Evolves /\ Rows' = Rows /\ outbox'[r] = c /\ \A q \in Rows : q # r => outbox'[q] = outbox[q]
<1>1. outbox' \in Seq(CommandRow) /\ Len(outbox') = Len(outbox)
  BY RowsAreIndexes DEF StoreTypeOK
<1>2. Rows' = Rows
  BY DEF Rows
<1>3. outbox'[r] = c /\ \A q \in Rows : q # r => outbox'[q] = outbox[q]
  BY DEF Rows
<1>4. \A q \in Rows : /\ outbox'[q].job = outbox[q].job
                      /\ outbox'[q].attempts >= outbox[q].attempts
  <2> SUFFICES ASSUME NEW q \in Rows
               PROVE  /\ outbox'[q].job = outbox[q].job
                      /\ outbox'[q].attempts >= outbox[q].attempts
    OBVIOUS
  <2>1. outbox[q].attempts \in Nat
    BY RowsAreIndexes DEF CommandRow
  <2> QED BY <2>1, <1>3
<1>5. HasCommand => HasCommand'
  BY <1>2, <1>4 DEF HasCommand, IsNewest
<1>6. \A j \in Jobs : jobs[j].attempts \in Nat
  BY DEF StoreTypeOK, JobRow
<1> QED BY <1>1, <1>2, <1>3, <1>4, <1>5, <1>6 DEF Evolves, StoreTypeOK

\* MarkOutboxDispatched changes the status of one command.
LEMMA MarkOutboxDispatchedEvolves ==
  ASSUME StoreTypeOK, NEW r \in Rows, MarkOutboxDispatched(r)
  PROVE  /\ Evolves /\ Rows' = Rows
         /\ outbox'[r].status = "dispatched"
         /\ \A q \in Rows : q # r => outbox'[q].status = outbox[q].status
<1> DEFINE c == [outbox[r] EXCEPT !.status = "dispatched"]
<1>1. outbox[r] \in CommandRow
  BY RowsAreIndexes
<1>2. c \in CommandRow /\ c.job = outbox[r].job /\ c.attempts = outbox[r].attempts
      /\ c.attempts \in Nat /\ c.status = "dispatched"
  BY <1>1 DEF CommandRow, CommandStatus
<1>3. outbox' = [outbox EXCEPT ![r] = c] /\ UNCHANGED jobs
  BY DEF MarkOutboxDispatched
<1>4. c.attempts >= outbox[r].attempts
  BY <1>2
<1> HIDE DEF c
<1> QED BY <1>2, <1>3, <1>4, CommandUpdateEvolves, Zenon

\* So does MarkOutboxFailed.
LEMMA MarkOutboxFailedEvolves ==
  ASSUME StoreTypeOK, NEW r \in Rows, MarkOutboxFailed(r)
  PROVE  /\ Evolves /\ Rows' = Rows
         /\ outbox'[r].status = "failed"
         /\ \A q \in Rows : q # r => outbox'[q].status = outbox[q].status
<1> DEFINE c == [outbox[r] EXCEPT !.status = "failed"]
<1>1. outbox[r] \in CommandRow
  BY RowsAreIndexes
<1>2. c \in CommandRow /\ c.job = outbox[r].job /\ c.attempts = outbox[r].attempts
      /\ c.attempts \in Nat /\ c.status = "failed"
  BY <1>1 DEF CommandRow, CommandStatus
<1>3. outbox' = [outbox EXCEPT ![r] = c] /\ UNCHANGED jobs
  BY DEF MarkOutboxFailed
<1>4. c.attempts >= outbox[r].attempts
  BY <1>2
<1> HIDE DEF c
<1> QED BY <1>2, <1>3, <1>4, CommandUpdateEvolves, Zenon

\* RecordOutboxFailure raises the counter of one command.
LEMMA RecordOutboxFailureKeeps ==
  ASSUME StoreTypeOK, NEW r \in Rows, RecordOutboxFailure(r)
  PROVE  Keeps
<1> DEFINE c == [outbox[r] EXCEPT !.attempts = @ + 1]
<1>1. outbox[r] \in CommandRow
  BY RowsAreIndexes
<1>2. c \in CommandRow /\ c.job = outbox[r].job /\ c.attempts >= outbox[r].attempts
      /\ c.status = outbox[r].status
  BY <1>1 DEF CommandRow
<1>3. outbox' = [outbox EXCEPT ![r] = c] /\ UNCHANGED jobs
  BY DEF RecordOutboxFailure
<1> HIDE DEF c
<1>4. Evolves /\ outbox'[r] = c /\ \A q \in Rows : q # r => outbox'[q] = outbox[q]
  BY <1>2, <1>3, CommandUpdateEvolves, Zenon
<1>5. \A q \in Rows : outbox'[q].status = outbox[q].status
  BY <1>2, <1>4
<1> QED BY <1>4, <1>5 DEF Keeps

-----------------------------------------------------------------------------
(* Transactions that insert commands. *)

\* Where the elements of s \o t come from.
LEMMA ConcatElements ==
  ASSUME NEW S, NEW s \in Seq(S), NEW t \in Seq(S)
  PROVE  /\ s \o t \in Seq(S)
         /\ \A r \in DOMAIN s : r \in DOMAIN (s \o t) /\ (s \o t)[r] = s[r]
         /\ \A q \in DOMAIN (s \o t) \ DOMAIN s :
              /\ q - Len(s) \in 1..Len(t) /\ (s \o t)[q] = t[q - Len(s)]
              /\ \A r \in DOMAIN s : r < q
         /\ \A i \in 1..Len(t) : /\ Len(s) + i \in DOMAIN (s \o t) \ DOMAIN s
                                 /\ (s \o t)[Len(s) + i] = t[i]
<1> DEFINE m == Len(s)
           n == Len(t)
           c == s \o t
<1>1. m \in Nat /\ n \in Nat /\ DOMAIN s = 1..m /\ DOMAIN t = 1..n
  OBVIOUS
<1>2. c \in Seq(S) /\ Len(c) = m + n /\ DOMAIN c = 1..(m + n)
  OBVIOUS
<1>3. \A r \in 1..(m + n) : c[r] = IF r <= m THEN s[r] ELSE t[r - m]
  OBVIOUS
<1> HIDE DEF m, n, c
<1>4. \A r \in 1..m : r \in 1..(m + n) /\ c[r] = s[r]
  BY <1>1, <1>3
<1>5. \A q \in 1..(m + n) : q \notin 1..m => /\ q - m \in 1..n /\ c[q] = t[q - m]
                                           /\ \A r \in 1..m : r < q
  BY <1>1, <1>3
<1>6. \A i \in 1..n : m + i \in 1..(m + n) /\ m + i \notin 1..m /\ c[m + i] = t[i]
  <2> SUFFICES ASSUME NEW i \in 1..n
               PROVE  m + i \in 1..(m + n) /\ m + i \notin 1..m /\ c[m + i] = t[i]
    OBVIOUS
  <2>1. m + i \in 1..(m + n) /\ m + i \notin 1..m /\ ~(m + i <= m) /\ (m + i) - m = i
    BY <1>1
  <2> QED BY <2>1, <1>3
<1> QED BY <1>1, <1>2, <1>4, <1>5, <1>6 DEF m, n, c

\* Commands are only appended, and whatever becomes pending is among their jobs.
LEMMA InsertKeeps ==
  ASSUME StoreTypeOK, jobs' \in [Jobs -> JobRow],
         NEW new \in Seq(CommandRow), outbox' = outbox \o new,
         \A i \in 1..Len(new) : new[i].status = "pending",
         \A i, k \in 1..Len(new) : new[i].job = new[k].job => i = k,
         \A i \in 1..Len(new) : /\ jobs[new[i].job].status # "pending"
                                 /\ jobs'[new[i].job].status = "pending",
         \A j \in Jobs : jobs[j].status # "absent" => jobs'[j].status # "absent",
         \A j \in Jobs : jobs'[j].attempts = jobs[j].attempts,
         \A j \in Jobs : jobs'[j].status = "pending" =>
                          jobs[j].status = "pending" \/ \E i \in 1..Len(new) : new[i].job = j
  PROVE  Keeps
<1> DEFINE m == Len(outbox)
           n == Len(new)
<1>1. /\ outbox \in Seq(CommandRow) /\ outbox' = outbox \o new
      /\ m \in Nat /\ n \in Nat /\ Rows = 1..m
  BY RowsAreIndexes DEF StoreTypeOK
<1>2. outbox' \in Seq(CommandRow)
  BY <1>1, ConcatElements
<1>3. \A q \in Rows' \ Rows : q - m \in 1..n /\ outbox'[q] = new[q - m] /\ \A r \in Rows : r < q
  BY <1>1, ConcatElements DEF Rows
<1>4. \A i \in 1..n : m + i \in Rows' \ Rows /\ outbox'[m + i] = new[i]
  BY <1>1, ConcatElements DEF Rows
<1>5. \A r \in Rows : r \in Rows' /\ outbox'[r] = outbox[r]
  BY <1>1, ConcatElements DEF Rows
<1>6. \A i \in 1..n : /\ new[i].status = "pending"
                      /\ jobs[new[i].job].status # "pending" /\ jobs'[new[i].job].status = "pending"
  OBVIOUS
<1>7. Rows' \subseteq Nat
  BY <1>2 DEF Rows
<1> HIDE DEF m, n
<1>8. \A j \in Jobs : jobs[j].status # "pending" /\ jobs'[j].status = "pending"
                        => \E q \in Rows' \ Rows : outbox'[q].job = j
  <2> SUFFICES ASSUME NEW j \in Jobs, jobs[j].status # "pending", jobs'[j].status = "pending"
               PROVE  \E q \in Rows' \ Rows : outbox'[q].job = j
    BY Zenon
  <2>1. PICK i \in 1..n : new[i].job = j
    BY DEF n
  <2>2. m + i \in Rows' \ Rows /\ outbox'[m + i] = new[i]
    BY <1>4, Zenon
  <2>3. outbox'[m + i].job = j
    BY <2>1, <2>2
  <2> QED BY <2>2, <2>3, Zenon
<1>9. HasCommand => HasCommand'
  <2> SUFFICES ASSUME HasCommand, NEW j \in Jobs, jobs'[j].status = "pending"
               PROVE  \E r \in Rows' : IsNewest(r, j)'
    BY DEF HasCommand
  <2>1. CASE \E i \in 1..n : new[i].job = j
    <3> PICK i \in 1..n : new[i].job = j
      BY <2>1
    <3>1. \A q \in Rows' : outbox'[q].job = j => q <= m + i
      <4> SUFFICES ASSUME NEW q \in Rows', outbox'[q].job = j PROVE q <= m + i
        BY Zenon
      <4>1. CASE q \in Rows
        BY <4>1, <1>1, <1>7
      <4>2. CASE q \notin Rows
        <5>1. q - m \in 1..n /\ new[q - m].job = new[i].job
          BY <4>2, <1>3, Zenon
        <5>2. q - m = i
          BY <5>1 DEF n
        <5> QED BY <5>2, <1>1, <1>7
      <4> QED BY <4>1, <4>2
    <3> QED BY <3>1, <1>4, Zenon DEF IsNewest
  <2>2. CASE ~ \E i \in 1..n : new[i].job = j
    <3>1. PICK r \in Rows : IsNewest(r, j)
      BY <2>2 DEF HasCommand, n
    <3>2. \A q \in Rows' : outbox'[q].job = j => q \in Rows
      <4> SUFFICES ASSUME NEW q \in Rows', outbox'[q].job = j, q \notin Rows PROVE FALSE
        BY Zenon
      <4>1. q - m \in 1..n /\ outbox'[q] = new[q - m]
        BY <1>3, Zenon
      <4> QED BY <4>1, <2>2
    <3> QED BY <3>1, <3>2, <1>5, Zenon DEF IsNewest
  <2> QED BY <2>1, <2>2
<1>10. \A j \in Jobs : jobs'[j].attempts >= jobs[j].attempts
  BY DEF StoreTypeOK, JobRow
<1>11. \A r \in Rows : /\ outbox'[r].job = outbox[r].job
                       /\ outbox'[r].status = outbox[r].status
                       /\ outbox'[r].attempts >= outbox[r].attempts
  <2>1. \A r \in Rows : outbox[r].attempts \in Nat
    BY RowsAreIndexes DEF CommandRow
  <2>2. \A x \in Nat : x >= x
    OBVIOUS
  <2> QED BY <2>1, <2>2, <1>5, Zenon
<1>12. StoreTypeOK'
  BY <1>2 DEF StoreTypeOK
<1>13. \A q \in Rows' \ Rows : /\ outbox'[q].status = "pending" /\ \A r \in Rows : r < q
                              /\ jobs[outbox'[q].job].status # "pending"
                              /\ jobs'[outbox'[q].job].status = "pending"
  <2> SUFFICES ASSUME NEW q \in Rows' \ Rows
               PROVE  /\ outbox'[q].status = "pending" /\ jobs[outbox'[q].job].status # "pending"
                      /\ jobs'[outbox'[q].job].status = "pending"
    BY <1>3, Zenon
  <2>1. q - m \in 1..n /\ outbox'[q] = new[q - m]
    BY <1>3, Zenon
  <2> QED BY <2>1, <1>6
<1>14. Rows \subseteq Rows'
  BY <1>5
<1> QED BY <1>8, <1>9, <1>10, <1>11, <1>12, <1>13, <1>14, Zenon DEF Keeps, Evolves

\* CreateJobWithOutbox inserts the command with the job.
LEMMA CreateJobWithOutboxKeeps ==
  ASSUME StoreTypeOK, NEW j \in Jobs, CreateJobWithOutbox(j)
  PROVE  Keeps
<1> DEFINE new == <<NewCommand(j)>>
<1>1. jobs' \in [Jobs -> JobRow]
  BY Zenon DEF StoreTypeOK, CreateJobWithOutbox, JobRow, JobStatus
<1>2. /\ jobs[j].status = "absent" /\ jobs'[j].status = "pending"
      /\ \A i \in Jobs : /\ jobs'[i].attempts = jobs[i].attempts
                         /\ i # j => jobs'[i].status = jobs[i].status
  BY DEF StoreTypeOK, CreateJobWithOutbox, JobRow
<1>3. NewCommand(j) \in CommandRow
  BY DEF NewCommand, CommandRow, CommandStatus
<1>4. outbox' = outbox \o new /\ new \in Seq(CommandRow) /\ Len(new) = 1
  BY <1>3 DEF CreateJobWithOutbox, StoreTypeOK
<1>5. new[1].job = j /\ new[1].status = "pending"
  BY DEF NewCommand
<1> HIDE DEF new
<1>6. /\ \A i \in 1..Len(new) : new[i].status = "pending"
      /\ \A i, k \in 1..Len(new) : new[i].job = new[k].job => i = k
  BY <1>4, <1>5
<1>7. \A i \in Jobs : jobs'[i].status = "pending" =>
                       jobs[i].status = "pending" \/ \E k \in 1..Len(new) : new[k].job = i
  BY <1>2, <1>4, <1>5
<1>8. /\ \A i \in Jobs : jobs'[i].attempts = jobs[i].attempts
      /\ \A i \in Jobs : jobs[i].status # "absent" => jobs'[i].status # "absent"
  BY <1>2
<1>9. \A i \in 1..Len(new) : jobs[new[i].job].status # "pending" /\ jobs'[new[i].job].status = "pending"
  BY <1>2, <1>4, <1>5
<1> QED BY <1>1, <1>4, <1>6, <1>7, <1>8, <1>9, InsertKeeps, Zenon

\* ReclaimJobs inserts a command for every job it makes pending.
LEMMA ReclaimJobsKeeps ==
  ASSUME StoreTypeOK, NEW w \in Workers, ReclaimJobs(w)
  PROVE  Keeps
<1> DEFINE S == InFlightOf(w)
<1>1. S \subseteq Jobs
  BY DEF InFlightOf
<1>2. PICK e \in Enumerations(S) : outbox' = outbox \o [i \in DOMAIN e |-> NewCommand(e[i])]
  BY Zenon DEF ReclaimJobs
<1>3. PICK n \in Nat : /\ e \in [1..n -> Jobs] /\ DOMAIN e = 1..n
                       /\ \A i \in 1..n : e[i] \in S
                       /\ \A j \in S : \E i \in 1..n : e[i] = j
                       /\ \A i, k \in 1..n : e[i] = e[k] => i = k
  <2>1. PICK n \in 0..Cardinality(S) : e \in [1..n -> S]
    BY DEF Enumerations, Lists
  <2> QED BY <1>1, <2>1 DEF Enumerations, Lists
<1>4. jobs' \in [Jobs -> JobRow]
  BY Zenon DEF StoreTypeOK, ReclaimJobs, JobRow, JobStatus
<1>5. \A j \in Jobs : /\ jobs'[j].attempts = jobs[j].attempts
                      /\ IF j \in S THEN jobs[j].status # "pending" /\ jobs'[j].status = "pending"
                         ELSE jobs'[j].status = jobs[j].status
  BY Zenon DEF StoreTypeOK, ReclaimJobs, JobRow, InFlightOf
<1> HIDE DEF S
<1> DEFINE new == [i \in DOMAIN e |-> NewCommand(e[i])]
<1>6. \A i \in 1..n : NewCommand(e[i]) \in CommandRow
  BY <1>3 DEF NewCommand, CommandRow, CommandStatus
<1>7. new \in Seq(CommandRow) /\ Len(new) = n
  BY <1>1, <1>3, <1>6
<1>8. \A i \in 1..n : new[i].job = e[i] /\ new[i].status = "pending"
  BY <1>3 DEF NewCommand
<1>9. outbox' = outbox \o new
  BY <1>2
<1> HIDE DEF new
<1>10. \A j \in Jobs : jobs'[j].status = "pending" =>
                        jobs[j].status = "pending" \/ \E i \in 1..Len(new) : new[i].job = j
  BY <1>3, <1>5, <1>7, <1>8
<1>11. \A i, k \in 1..Len(new) : new[i].job = new[k].job => i = k
  BY <1>3, <1>7, <1>8
<1>12. /\ \A i \in 1..Len(new) : new[i].status = "pending"
       /\ \A j \in Jobs : jobs'[j].attempts = jobs[j].attempts
  BY <1>5, <1>7, <1>8
<1>13. \A i \in 1..Len(new) : jobs[new[i].job].status # "pending" /\ jobs'[new[i].job].status = "pending"
  BY <1>3, <1>5, <1>7, <1>8
<1>14. \A j \in Jobs : jobs[j].status # "absent" => jobs'[j].status # "absent"
  BY <1>5
<1> QED BY <1>4, <1>7, <1>9, <1>10, <1>11, <1>12, <1>13, <1>14, InsertKeeps, Zenon
-----------------------------------------------------------------------------
(* What a step of the pipeline does to the tables. *)

\* A job past its command stays past it: becoming pending again inserts a newer one.
LEMMA MovedPastStays ==
  ASSUME StoreTypeOK, Evolves, NEW r \in Rows, MovedPast(r)
  PROVE  MovedPast(r)'
<1> DEFINE j == outbox[r].job
<1>1. /\ r \in Rows' /\ j \in Jobs /\ outbox'[r].job = j
  BY RowsAreIndexes DEF Evolves, CommandRow
<1>2. CASE \E q \in Rows : q > r /\ outbox[q].job = j
  BY <1>2, <1>1 DEF MovedPast, Evolves
<1>3. CASE jobs[j].status # "pending" /\ jobs'[j].status = "pending"
  <2>1. PICK q \in Rows' \ Rows : outbox'[q].job = j
    BY <1>3, <1>1 DEF Evolves
  <2>2. r < q
    BY <2>1 DEF Evolves
  <2>3. q > r
    BY <2>2
  <2> QED BY <2>1, <2>3, <1>1 DEF MovedPast
<1>4. CASE jobs'[j].status # "pending"
  BY <1>4, <1>1 DEF MovedPast
<1> QED BY <1>2, <1>3, <1>4 DEF MovedPast

\* The statements on a job's row, by its worker or a relay that abandons it.
MarkJob(j) ==
  \/ MarkRunning(j)
  \/ \E w \in Workers : MarkScheduled(j, w)
  \/ \E succeeded \in BOOLEAN : MarkFinished(j, succeeded)

\* The statements on a command's row, but for the one that gives up on it.
MarkCommand(r) ==
  \/ MarkOutboxDispatched(r) /\ MovedPast(r)
  \/ RecordOutboxFailure(r)

Statement ==
  \/ UNCHANGED <<jobs, outbox>>
  \/ \E j \in Jobs : CreateJobWithOutbox(j)
  \/ \E j \in Jobs : jobs[j].status # "absent" /\ MarkJob(j)
  \/ \E r \in Rows : MarkCommand(r)
  \/ \E w \in Workers : ReclaimJobs(w)

Closes ==
  /\ Evolves
  /\ \A r \in Rows : \/ outbox'[r].status = outbox[r].status
                     \/ outbox'[r].status = "dispatched" /\ MovedPast(r)

LEMMA KeepsCloses == Keeps => Closes
BY DEF Keeps, Closes

LEMMA StatementCloses ==
  ASSUME StoreTypeOK, Statement
  PROVE  Closes
<1>1. CASE UNCHANGED <<jobs, outbox>>
  BY <1>1, UnchangedKeeps, KeepsCloses
<1>2. ASSUME NEW j \in Jobs, CreateJobWithOutbox(j) PROVE Closes
  BY <1>2, CreateJobWithOutboxKeeps, KeepsCloses
<1>3. ASSUME NEW j \in Jobs, MarkJob(j) PROVE Closes
  BY <1>3, MarkRunningKeeps, MarkScheduledKeeps, MarkFinishedKeeps, KeepsCloses DEF MarkJob
<1>4. ASSUME NEW r \in Rows, MarkCommand(r) PROVE Closes
  <2>1. CASE MarkOutboxDispatched(r) /\ MovedPast(r)
    BY <2>1, MarkOutboxDispatchedEvolves DEF Closes
  <2>2. CASE RecordOutboxFailure(r)
    BY <2>2, RecordOutboxFailureKeeps, KeepsCloses
  <2> QED BY <1>4, <2>1, <2>2 DEF MarkCommand
<1>5. ASSUME NEW w \in Workers, ReclaimJobs(w) PROVE Closes
  BY <1>5, ReclaimJobsKeeps, KeepsCloses
<1> QED BY <1>1, <1>2, <1>3, <1>4, <1>5 DEF Statement

-----------------------------------------------------------------------------
(* The refinement: every statement is a step of DispatchIntent or none. *)

Tables == StoreTypeOK /\ HasCommand /\ ClosedMovedPast

\* The commands of pending jobs are closed only by giving up on them.
Settles ==
  /\ Evolves
  /\ \A r \in Rows : \/ outbox'[r].status = outbox[r].status
                     \/ outbox'[r].status = "dispatched" /\ MovedPast(r)
                     \/ outbox'[r].status = "failed"

\* What the intent of a job is, read off its row and its newest command.
LEMMA IntentIs ==
  ASSUME NEW j \in Jobs
  PROVE  /\ jobs[j].status = "absent" => IntentOf(j) = "unsubmitted"
         /\ jobs[j].status \notin {"absent", "pending"} => IntentOf(j) = "released"
BY DEF IntentOf

\* The commands a step inserts are newer than the others, and for jobs that were
\* not pending: the newest command of a pending job stays its newest.
LEMMA NewestStays ==
  ASSUME StoreTypeOK, Settles, NEW j \in Jobs, jobs[j].status = "pending", NEW r \in Rows, IsNewest(r, j)
  PROVE  r \in Rows' /\ IsNewest(r, j)'
<1>1. r \in Rows' /\ outbox'[r].job = j
  BY DEF Settles, Evolves, IsNewest
<1>2. ASSUME NEW q \in Rows', outbox'[q].job = j PROVE q \in Rows /\ outbox[q].job = j
  BY <1>2 DEF Settles, Evolves
<1> QED BY <1>1, <1>2 DEF IsNewest

\* A job has one newest command.
LEMMA NewestIsOne ==
  ASSUME StoreTypeOK, NEW j \in Jobs, NEW q \in Rows, NEW r \in Rows, IsNewest(q, j), IsNewest(r, j)
  PROVE  q = r
<1>1. q \in Nat /\ r \in Nat
  BY RowsAreIndexes
<1>2. q <= r /\ r <= q
  BY DEF IsNewest
<1> QED BY <1>1, <1>2

\* The newest command of a pending job waits, or was given up on.
LEMMA PendingIntent ==
  Tables => \A j \in Jobs : jobs[j].status = "pending" =>
            \E r \in Rows :
              /\ IsNewest(r, j) /\ ~MovedPast(r)
              /\ \/ outbox[r].status = "pending" /\ IntentOf(j) = "waiting"
                 \/ outbox[r].status = "failed" /\ IntentOf(j) = "dropped"
<1> SUFFICES ASSUME Tables, NEW j \in Jobs, jobs[j].status = "pending"
             PROVE  \E r \in Rows :
                      /\ IsNewest(r, j) /\ ~MovedPast(r)
                      /\ \/ outbox[r].status = "pending" /\ IntentOf(j) = "waiting"
                         \/ outbox[r].status = "failed" /\ IntentOf(j) = "dropped"
  OBVIOUS
<1>1. StoreTypeOK
  BY DEF Tables
<1>2. PICK r \in Rows : IsNewest(r, j)
  BY DEF Tables, HasCommand
<1>3. ~MovedPast(r)
  <2>1. Rows \subseteq Nat
    BY <1>1, RowsAreIndexes
  <2> QED BY <1>2, <2>1 DEF MovedPast, IsNewest
<1>4. outbox[r].status \in {"pending", "failed"}
  <2>1. outbox[r].status \in {"pending", "dispatched", "failed"}
    BY <1>1, RowsAreIndexes DEF CommandRow, CommandStatus
  <2> QED BY <1>3, <2>1 DEF Tables, ClosedMovedPast
<1>5. \A q \in Rows : IsNewest(q, j) => q = r
  BY <1>1, <1>2, NewestIsOne
<1>6. CASE outbox[r].status = "pending"
  <2>1. \E q \in PendingRows : IsNewest(q, j)
    BY <1>2, <1>6 DEF PendingRows
  <2>2. IntentOf(j) = "waiting"
    BY <2>1 DEF IntentOf
  <2> QED BY <1>2, <1>3, <1>6, <2>2
<1>7. CASE outbox[r].status = "failed"
  <2>1. ~\E q \in PendingRows : IsNewest(q, j)
    BY <1>5, <1>7 DEF PendingRows
  <2>2. \E q \in Rows : IsNewest(q, j) /\ outbox[q].status = "failed"
    BY <1>2, <1>7
  <2>3. IntentOf(j) = "dropped"
    BY <2>1, <2>2 DEF IntentOf
  <2> QED BY <1>2, <1>3, <1>7, <2>3
<1> QED BY <1>4, <1>6, <1>7

LEMMA PendingIntentNext ==
  (Tables => \A j \in Jobs : jobs[j].status = "pending" =>
            \E r \in Rows :
              /\ IsNewest(r, j) /\ ~MovedPast(r)
              /\ \/ outbox[r].status = "pending" /\ IntentOf(j) = "waiting"
                 \/ outbox[r].status = "failed" /\ IntentOf(j) = "dropped")'
BY PendingIntent, PTL

\* The intent of a job whose status stays: it stays, or is dropped by the
\* statement that closes its newest command.
LEMMA IntentStays ==
  ASSUME Tables, Settles, Tables', NEW j \in Jobs, jobs'[j].status = jobs[j].status
  PROVE  \/ IntentOf(j)' = IntentOf(j)
         \/ /\ IntentOf(j) = "waiting" /\ IntentOf(j)' = "dropped"
            /\ \E r \in Rows : outbox[r].job = j /\ outbox'[r].status # outbox[r].status
<1>1. StoreTypeOK /\ StoreTypeOK'
  BY DEF Tables
<1>2. CASE jobs[j].status # "pending"
  BY <1>2 DEF IntentOf
<1>3. CASE jobs[j].status = "pending"
  <2>1. PICK r \in Rows :
           /\ IsNewest(r, j) /\ ~MovedPast(r)
           /\ \/ outbox[r].status = "pending" /\ IntentOf(j) = "waiting"
              \/ outbox[r].status = "failed" /\ IntentOf(j) = "dropped"
    BY <1>3, PendingIntent
  <2>2. PICK q \in Rows' :
           /\ IsNewest(q, j)' /\ ~MovedPast(q)'
           /\ \/ outbox'[q].status = "pending" /\ IntentOf(j)' = "waiting"
              \/ outbox'[q].status = "failed" /\ IntentOf(j)' = "dropped"
    BY <1>3, PendingIntentNext
  <2>3. q = r
    <3>1. r \in Rows' /\ IsNewest(r, j)'
      BY <1>1, <1>3, <2>1, NewestStays
    <3>2. q \in Nat /\ r \in Nat
      BY <1>1, <3>1 DEF StoreTypeOK, Rows
    <3>3. q <= r /\ r <= q
      BY <2>2, <3>1 DEF IsNewest
    <3> QED BY <3>2, <3>3
  <2>4. \/ outbox'[r].status = outbox[r].status
        \/ outbox'[r].status = "failed"
    BY <2>1 DEF Settles
  <2>5. outbox[r].job = j
    BY <2>1 DEF IsNewest
  <2> QED BY <2>1, <2>2, <2>3, <2>4, <2>5
<1> QED BY <1>2, <1>3

\* A job that becomes pending has a new command waiting for it.
LEMMA IntentReturns ==
  ASSUME Tables, Settles, Tables', NEW j \in Jobs,
         jobs[j].status # "pending", jobs'[j].status = "pending"
  PROVE  IntentOf(j)' = "waiting"
<1>1. PICK q \in Rows' : /\ IsNewest(q, j)'
                         /\ \/ outbox'[q].status = "pending" /\ IntentOf(j)' = "waiting"
                            \/ outbox'[q].status = "failed" /\ IntentOf(j)' = "dropped"
  BY PendingIntentNext
<1>2. PICK p \in Rows' \ Rows : outbox'[p].job = j
  BY DEF Settles, Evolves
<1>3. q \notin Rows
  <2>1. p \in Nat /\ q \in Nat
    BY <1>1, <1>2 DEF Settles, Evolves, StoreTypeOK, Rows
  <2>2. p <= q
    BY <1>1, <1>2 DEF IsNewest
  <2>3. q \in Rows => q < p
    BY <1>2 DEF Settles, Evolves
  <2> QED BY <2>1, <2>2, <2>3
<1>4. outbox'[q].status = "pending"
  BY <1>1, <1>3 DEF Settles, Evolves
<1> QED BY <1>1, <1>4

\* The other jobs keep their intent.
Untouched(j) ==
  /\ jobs'[j].status = jobs[j].status
  /\ \A r \in Rows : outbox[r].job = j => outbox'[r].status = outbox[r].status

LEMMA UntouchedIntent ==
  ASSUME Tables, Settles, Tables', NEW j \in Jobs, Untouched(j)
  PROVE  IntentOf(j)' = IntentOf(j)
BY IntentStays DEF Untouched

\* A statement on one job or one of its commands is a step of that job's intent.
LEMMA OneIntent ==
  ASSUME Tables, Settles, Tables', NEW j \in Jobs,
         \A k \in Jobs \ {j} : Untouched(k),
         jobs[j].status = "absent" => jobs'[j].status \in {"absent", "pending"},
         jobs[j].status = "pending" => jobs'[j].status # "absent",
         jobs[j].status \notin {"absent", "pending"} => jobs'[j].status \notin {"absent", "pending"}
  PROVE  [Intent!Next]_([k \in Jobs |-> IntentOf(k)])
<1>1. \A k \in Jobs \ {j} : IntentOf(k)' = IntentOf(k)
  BY UntouchedIntent
<1> DEFINE I == [k \in Jobs |-> IntentOf(k)]
<1>2. /\ I \in [Jobs -> {IntentOf(k) : k \in Jobs}] /\ I[j] = IntentOf(j)
      /\ I' = [I EXCEPT ![j] = IntentOf(j)']
  BY <1>1, Zenon
<1>3. CASE IntentOf(j)' = IntentOf(j)
  <2>1. I' = I
    BY <1>1, <1>3
  <2> QED BY <2>1
<1>4. CASE IntentOf(j) = "unsubmitted" /\ IntentOf(j)' = "waiting"
  <2>1. Intent!Submit(j)
    BY <1>2, <1>4 DEF Intent!Submit
  <2> QED BY <2>1 DEF Intent!Next
<1>5. CASE IntentOf(j) \in {"waiting", "dropped"} /\ IntentOf(j)' = "released"
  <2>1. Intent!Release(j)
    BY <1>2, <1>5 DEF Intent!Release
  <2> QED BY <2>1 DEF Intent!Next
<1>6. CASE IntentOf(j) = "waiting" /\ IntentOf(j)' = "dropped"
  <2>1. Intent!Drop(j)
    BY <1>2, <1>6 DEF Intent!Drop
  <2> QED BY <2>1 DEF Intent!Next
<1>7. CASE jobs'[j].status = jobs[j].status
  BY <1>3, <1>6, <1>7, IntentStays
<1>8. CASE jobs'[j].status # jobs[j].status
  <2>1. CASE jobs[j].status = "absent"
    BY <1>4, <1>8, <2>1, IntentIs, IntentReturns
  <2>2. CASE jobs[j].status = "pending"
    <3>1. IntentOf(j) \in {"waiting", "dropped"}
      BY <2>2, PendingIntent
    <3>2. IntentOf(j)' = "released"
      BY <1>8, <2>2 DEF IntentOf
    <3> QED BY <1>5, <3>1, <3>2
  <2>3. CASE jobs[j].status \notin {"absent", "pending"}
    <3>1. IntentOf(j) = "released" /\ IntentOf(j)' = "released"
      BY <2>3 DEF IntentOf
    <3> QED BY <1>3, <3>1
  <2> QED BY <2>1, <2>2, <2>3
<1> QED BY <1>7, <1>8

\* The reaper's transaction requeues the jobs of the dead worker, all at once.
LEMMA ReclaimIntent ==
  ASSUME Tables, Settles, Tables', NEW w \in Workers, ReclaimJobs(w)
  PROVE  [Intent!Next]_([k \in Jobs |-> IntentOf(k)])
<1> DEFINE S == InFlightOf(w)
           I == [k \in Jobs |-> IntentOf(k)]
<1>1. StoreTypeOK /\ S \in SUBSET Jobs
  BY DEF Tables, InFlightOf
<1>2. \A k \in S : IntentOf(k) = "released" /\ IntentOf(k)' = "waiting"
  <2> SUFFICES ASSUME NEW k \in S PROVE IntentOf(k) = "released" /\ IntentOf(k)' = "waiting"
    OBVIOUS
  <2>1. k \in Jobs /\ jobs[k].status \in {"scheduled", "running"}
    BY Zenon DEF InFlightOf
  <2>2. jobs'[k].status = "pending"
    BY <1>1, <2>1, Zenon DEF ReclaimJobs, StoreTypeOK, JobRow
  <2> QED BY <2>1, <2>2, IntentIs, IntentReturns
<1>3. \A k \in Jobs \ S : IntentOf(k)' = IntentOf(k)
  <2> SUFFICES ASSUME NEW k \in Jobs \ S PROVE Untouched(k)
    BY UntouchedIntent, Zenon
  <2>1. jobs'[k] = jobs[k]
    BY Zenon DEF ReclaimJobs
  <2>2. Keeps
    BY <1>1, ReclaimJobsKeeps
  <2> QED BY <2>1, <2>2 DEF Untouched, Keeps
<1> HIDE DEF S
<1>4. \A k \in S : I[k] = "released"
  BY <1>1, <1>2
<1>5. I' = [k \in Jobs |-> IF k \in S THEN "waiting" ELSE I[k]]
  BY <1>1, <1>2, <1>3
<1>6. Intent!Requeue(S)
  BY <1>4, <1>5 DEF Intent!Requeue
<1> QED BY <1>1, <1>6 DEF Intent!Next

\* Every step of the pipeline is a step of the intent or leaves it alone.
LEMMA IntentStep ==
  ASSUME Tables, Tables', Statement \/ \E r \in Rows : MarkOutboxFailed(r)
  PROVE  [Intent!Next]_([k \in Jobs |-> IntentOf(k)])
<1>1. StoreTypeOK
  BY DEF Tables
<1> DEFINE Refined == [Intent!Next]_([k \in Jobs |-> IntentOf(k)])
<1>2. Settles
  BY <1>1, StatementCloses, MarkOutboxFailedEvolves DEF Closes, Settles
<1>3. CASE UNCHANGED <<jobs, outbox>>
  <2>1. \A k \in Jobs : IntentOf(k)' = IntentOf(k)
    BY <1>2, <1>3, UntouchedIntent DEF Untouched
  <2> QED BY <2>1
<1>4. ASSUME NEW j \in Jobs, CreateJobWithOutbox(j) PROVE Refined
  <2>1. jobs[j].status = "absent" /\ jobs'[j].status = "pending"
    BY <1>1, <1>4 DEF CreateJobWithOutbox, StoreTypeOK, JobRow
  <2>2. \A k \in Jobs \ {j} : jobs'[k] = jobs[k]
    BY <1>1, <1>4 DEF CreateJobWithOutbox, StoreTypeOK
  <2>3. Keeps
    BY <1>1, <1>4, CreateJobWithOutboxKeeps
  <2>4. \A k \in Jobs \ {j} : Untouched(k)
    BY <2>2, <2>3 DEF Untouched, Keeps
  <2> QED BY <1>2, <2>1, <2>4, OneIntent
<1>5. ASSUME NEW j \in Jobs, jobs[j].status # "absent", MarkJob(j) PROVE Refined
  <2>1. outbox' = outbox
    BY <1>5 DEF MarkJob, MarkRunning, MarkScheduled, MarkFinished
  <2>2. \A k \in Jobs \ {j} : jobs'[k] = jobs[k]
    BY <1>1, <1>5 DEF MarkJob, MarkRunning, MarkScheduled, MarkFinished, StoreTypeOK
  <2>3. jobs'[j].status \notin {"absent", "pending"}
    BY <1>1, <1>5 DEF MarkJob, MarkRunning, MarkScheduled, MarkFinished, StoreTypeOK, JobRow
  <2>4. \A k \in Jobs \ {j} : Untouched(k)
    BY <2>1, <2>2 DEF Untouched
  <2> QED BY <1>2, <1>5, <2>3, <2>4, OneIntent
<1>6. ASSUME NEW r \in Rows, MarkCommand(r) \/ MarkOutboxFailed(r) PROVE Refined
  <2>1. jobs' = jobs
    BY <1>6 DEF MarkCommand, MarkOutboxDispatched, MarkOutboxFailed, RecordOutboxFailure
  <2>2. \A q \in Rows \ {r} : outbox'[q] = outbox[q]
    BY <1>1, <1>6 DEF MarkCommand, MarkOutboxDispatched, MarkOutboxFailed, RecordOutboxFailure,
                      StoreTypeOK, Rows
  <2>3. outbox[r].job \in Jobs
    BY <1>1, <1>6, RowsAreIndexes DEF CommandRow
  <2>4. \A k \in Jobs \ {outbox[r].job} : Untouched(k)
    BY <2>1, <2>2 DEF Untouched
  <2> QED BY <1>2, <2>1, <2>3, <2>4, OneIntent
<1>7. ASSUME NEW w \in Workers, ReclaimJobs(w) PROVE Refined
  BY <1>2, <1>7, ReclaimIntent
<1> QED BY <1>3, <1>4, <1>5, <1>6, <1>7 DEF Statement
=============================================================================
