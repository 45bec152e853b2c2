---------------------------- MODULE ControlJobs ----------------------------
(***************************************************************************)
(* The control worker's loop and its own job queue (worker.py, jobs.py).   *)
(* A loop asks its sources of work in turn, from a cursor on, until one of *)
(* them advances, and then records a heartbeat.  The last source is the    *)
(* queue of jobs that belong to no reconciliation: in production each one  *)
(* is put aside for the operator; a worker with handlers claims them under *)
(* a lease instead.  Workers die, run longer than their lease, and operate *)
(* on the queue two at a time.                                             *)
(***************************************************************************)
EXTENDS Naturals, Sequences, FiniteSets, SequenceTheorems, WellFoundedInduction, TLAPS

CONSTANTS
  Workers,      \* worker processes
  Others,       \* the sources before the job queue, in order
  Jobs,         \* jobs, oldest first: 1 .. n
  Linked,       \* jobs that belong to a reconciliation
  Lease,        \* lease of a claim, in clock ticks
  MaxNow, MaxAttempts, MaxResumes, MaxDeaths   \* bounds

ASSUME JobsAssumption ==
  /\ Jobs \subseteq Nat \ {0} /\ Linked \subseteq Jobs
  /\ Others \in Seq(STRING) /\ Lease \in Nat

VARIABLES
  mode,       \* "production" or "handlers"
  job,        \* [Jobs -> row of jobs]
  attempt,    \* [Jobs -> sequence of rows of job_attempts]
  worker,     \* [Workers -> loop state]
  backlog,    \* sources that have something to advance
  broken,     \* sources whose tick raises
  selected,   \* the selected generation is the one the workers run
  now, left

vars == <<mode, job, attempt, worker, backlog, broken, selected, now, left>>

Sources == Append(Others, "jobs")

NoFence == [job |-> 0, attempt |-> 0]

NoResult == [attempt |-> "none", job |-> "none"]

Started == [cursor |-> 1, at |-> "loop", fence |-> NoFence, result |-> NoResult]

\* A row waits in the queue, or was left running by a worker that is gone.
Init ==
  /\ mode \in {"production", "handlers"}
  /\ \E old \in SUBSET (Jobs \ Linked) :
       /\ job = [j \in Jobs |-> [st |-> IF j \in old THEN "running" ELSE "queued",
                                 current |-> IF j \in old THEN 1 ELSE 0]]
       /\ attempt = [j \in Jobs |-> IF j \in old
                       THEN <<[st |-> "running", by |-> "gone", deadline |-> 1]>> ELSE <<>>]
       /\ Cardinality(old) <= 1
  /\ worker = [w \in Workers |-> Started]
  /\ backlog \in SUBSET {Others[i] : i \in 1 .. Len(Others)} /\ broken = {}
  /\ selected = TRUE /\ now = 0
  /\ left = [resume |-> MaxResumes, death |-> MaxDeaths]

---------------------------------------------------------------------------
(* The queue. *)

\* A faulty variant: attempts that have ended count too.
LatestExpired_Faulty(j) == \E i \in 1 .. Len(attempt[j]) : attempt[j][i].deadline < now

\* Some attempt runs beyond its lease.
LatestExpired(j) == \E i \in 1 .. Len(attempt[j]) : attempt[j][i].st = "running" /\ attempt[j][i].deadline < now

\* The rows claim and quarantine_unlinked select: unlinked, and queued or
\* left running beyond their lease.
Claimable == {j \in Jobs \ Linked : job[j].st = "queued" \/ LatestExpired(j)}

Oldest == CHOOSE j \in Claimable : \A k \in Claimable : j <= k

ExpireCurrent(j) ==
  IF job[j].current = 0 THEN attempt[j]
  ELSE [attempt[j] EXCEPT ![job[j].current].st = "expired"]

\* A faulty variant: the attempt before is left as it is.
Claimed_Faulty(j, w) == Append(attempt[j], [st |-> "running", by |-> w, deadline |-> now + Lease])

Claimed(j, w) == Append(ExpireCurrent(j), [st |-> "running", by |-> w, deadline |-> now + Lease])

Claim(w, j) ==
  /\ job[j].current < MaxAttempts
  /\ attempt' = [attempt EXCEPT ![j] = Claimed(j, w)]
  /\ job' = [job EXCEPT ![j] = [st |-> "running", current |-> @.current + 1]]

Quarantine(j) ==
  /\ attempt' = [attempt EXCEPT ![j] =
       IF job[j].current > 0 /\ attempt[j][job[j].current].st = "running" THEN ExpireCurrent(j) ELSE @]
  /\ job' = [job EXCEPT ![j].st = "waiting-for-operator"]

\* The attempt is the job's current one, still running, and within its lease.
Active(f) ==
  /\ job[f.job].current = f.attempt
  /\ attempt[f.job][f.attempt].st = "running" /\ now < attempt[f.job][f.attempt].deadline

\* What a transaction that has loaded both rows will write: the state of the
\* attempt, and that of the job unless it is loaded with it already.
ResultOf(f, st) == [attempt |-> st, job |-> IF job[f.job].st = st THEN "kept" ELSE st]

\* The rows are written by their keys, whatever has become of them since.
Finish(f, result) ==
  /\ attempt' = [attempt EXCEPT ![f.job][f.attempt].st = result.attempt]
  /\ job' = [job EXCEPT ![f.job].st = IF result.job = "kept" THEN @ ELSE result.job]

---------------------------------------------------------------------------
(* The loop. *)

HasWork(s) == IF s = "jobs" THEN Claimable # {} ELSE s \in backlog \cup broken

\* The sources in the order this loop asks them, those without work passed over.
Index(w, offset) == ((worker[w].cursor - 1 + offset) % Len(Sources)) + 1

Asked(w) ==
  {Index(w, k) : k \in {k \in 0 .. Len(Sources) - 1 :
     HasWork(Sources[Index(w, k)]) /\ \A e \in 0 .. k - 1 : ~HasWork(Sources[Index(w, e)])}}

Advanced(i) == (i % Len(Sources)) + 1

Ready(w) == worker[w].at = "loop" /\ selected

\* A source of its own advances.
RunSource(w) ==
  /\ Ready(w)
  /\ \E i \in Asked(w) :
       /\ Sources[i] \notin broken \cup {"jobs"}
       /\ worker' = [worker EXCEPT ![w].cursor = Advanced(i)]
       /\ backlog' = backlog \ {Sources[i]}
  /\ UNCHANGED <<mode, job, attempt, broken, selected, now, left>>

\* A tick that raises ends the process: the next one starts at the first source.
SourceRaises(w) ==
  /\ Ready(w)
  /\ \E i \in Asked(w) : Sources[i] \in broken
  /\ worker' = [worker EXCEPT ![w] = Started]
  /\ UNCHANGED <<mode, job, attempt, backlog, broken, selected, now, left>>

RunQuarantine(w) ==
  /\ Ready(w) /\ mode = "production"
  /\ \E i \in Asked(w) :
       /\ Sources[i] = "jobs" /\ Quarantine(Oldest)
       /\ worker' = [worker EXCEPT ![w].cursor = Advanced(i)]
  /\ UNCHANGED <<mode, backlog, broken, selected, now, left>>

\* A job without a handler fails at once; otherwise the handler runs.
RunClaim(w) ==
  /\ Ready(w) /\ mode = "handlers"
  /\ \E i \in Asked(w) :
       /\ Sources[i] = "jobs" /\ Claim(w, Oldest)
       /\ worker' = [worker EXCEPT ![w] = [cursor |-> Advanced(i), at |-> "handler",
                       fence |-> [job |-> Oldest, attempt |-> job[Oldest].current + 1],
                       result |-> NoResult]]
  /\ UNCHANGED <<mode, backlog, broken, selected, now, left>>

Verdicts == {"succeeded", "failed", "waiting-for-operator"}

\* The handler returns, and the transaction of its result finds the claim to
\* stand.  It reads both rows without locking them.
HandlerReturns(w) ==
  /\ worker[w].at = "handler" /\ Active(worker[w].fence)
  /\ \E st \in Verdicts :
       worker' = [worker EXCEPT ![w].at = "commit", ![w].result = ResultOf(worker[w].fence, st)]
  /\ UNCHANGED <<mode, job, attempt, backlog, broken, selected, now, left>>

\* The transaction commits.
CommitResult(w) ==
  /\ worker[w].at = "commit"
  /\ Finish(worker[w].fence, worker[w].result)
  /\ worker' = [worker EXCEPT ![w].at = "loop", ![w].fence = NoFence, ![w].result = NoResult]
  /\ UNCHANGED <<mode, backlog, broken, selected, now, left>>

\* StaleAttempt is not caught: the process ends with it.
HandlerIsLate(w) ==
  /\ worker[w].at = "handler" /\ ~Active(worker[w].fence)
  /\ worker' = [worker EXCEPT ![w] = Started]
  /\ UNCHANGED <<mode, job, attempt, backlog, broken, selected, now, left>>

\* The worker keeps its claim (JobService.heartbeat).  Its transaction writes
\* the deadline of the attempt alone, which nothing reads once the attempt no
\* longer runs, so that check and write are one step.
Heartbeat(w) ==
  /\ worker[w].at = "handler" /\ Active(worker[w].fence)
  /\ LET f == worker[w].fence
     IN  /\ attempt[f.job][f.attempt].deadline # now + Lease
         /\ attempt' = [attempt EXCEPT ![f.job][f.attempt].deadline = now + Lease]
  /\ UNCHANGED <<mode, job, worker, backlog, broken, selected, now, left>>

\* completed_loop refuses to vouch for a generation that is not selected.
NotSelected(w) ==
  /\ worker[w].at = "loop" /\ ~selected
  /\ worker' = [worker EXCEPT ![w] = Started]
  /\ worker' # worker
  /\ UNCHANGED <<mode, job, attempt, backlog, broken, selected, now, left>>

---------------------------------------------------------------------------
(* The operator, the clock and the faults. *)

Resume(j) ==
  /\ left.resume > 0 /\ job[j].st = "waiting-for-operator"
  /\ job' = [job EXCEPT ![j].st = "queued"]
  /\ left' = [left EXCEPT !.resume = @ - 1]
  /\ UNCHANGED <<mode, attempt, worker, backlog, broken, selected, now>>

WorkArrives(s) ==
  /\ s \notin backlog /\ backlog' = backlog \cup {s}
  /\ UNCHANGED <<mode, job, attempt, worker, broken, selected, now, left>>

Spend == left.death > 0 /\ left' = [left EXCEPT !.death = @ - 1]

Dies(w) ==
  /\ Spend /\ worker[w].at \in {"handler", "commit"}
  /\ worker' = [worker EXCEPT ![w] = Started]
  /\ UNCHANGED <<mode, job, attempt, backlog, broken, selected, now>>

Breaks(s) ==
  /\ Spend /\ broken' = broken \cup {s} /\ s \notin broken
  /\ UNCHANGED <<mode, job, attempt, worker, backlog, selected, now>>

Selection ==
  /\ Spend /\ selected' = ~selected
  /\ UNCHANGED <<mode, job, attempt, worker, backlog, broken, now>>

Tick ==
  /\ now < MaxNow /\ now' = now + 1
  /\ UNCHANGED <<mode, job, attempt, worker, backlog, broken, selected, left>>

Run(w) ==
  RunSource(w) \/ SourceRaises(w) \/ RunQuarantine(w) \/ RunClaim(w) \/ NotSelected(w)

Next ==
  \/ \E w \in Workers : \/ Run(w) \/ HandlerReturns(w) \/ CommitResult(w) \/ HandlerIsLate(w)
                        \/ Heartbeat(w) \/ Dies(w)
  \/ \E j \in Jobs : Resume(j)
  \/ \E i \in 1 .. Len(Others) : WorkArrives(Others[i]) \/ Breaks(Others[i])
  \/ Selection \/ Tick

Ends(w) == HandlerReturns(w) \/ CommitResult(w) \/ HandlerIsLate(w)

\* Every worker goes on looping, handlers return, and time passes.
Fairness ==
  /\ \A w \in Workers : WF_vars(Run(w)) /\ WF_vars(Ends(w))
  /\ WF_vars(Tick)

Spec == Init /\ [][Next]_vars /\ Fairness

---------------------------------------------------------------------------
(* Properties. *)

\* Rows, attempts and loops have their types.
TypeOK ==
  /\ \A j \in Jobs : job[j].st \in {"queued", "running", "succeeded", "failed", "waiting-for-operator"}
                     /\ job[j].current = Len(attempt[j])
  /\ \A w \in Workers : worker[w].cursor \in 1 .. Len(Sources)
                        /\ (worker[w].at # "loop") = (worker[w].fence # NoFence)
                        /\ (worker[w].at = "commit") = (worker[w].result # NoResult)

\* An attempt that lost its lease after its last check wrote its result all
\* the same: its row is not the current one and has not expired.
WroteLate(j) == \E i \in 1 .. Len(attempt[j]) : i < job[j].current /\ attempt[j][i].st # "expired"

\* However claims, deaths, late handlers and the operator interleave, a job
\* has at most one running attempt, the current one, and has it only while it
\* is itself running; where job and attempt disagree, an overtaken attempt has
\* written its result between them, and the rows tell which.
OneRunningAttempt ==
  \A j \in Jobs : \A i \in 1 .. Len(attempt[j]) :
    attempt[j][i].st = "running" => i = job[j].current /\ (job[j].st = "running" \/ WroteLate(j))

Committing(j) == \E w \in Workers : worker[w].at = "commit" /\ worker[w].fence.job = j

\* A job that has ended stays as it ended: no attempt that lost its lease, and
\* no claim of what looks abandoned, takes it up or overwrites its result,
\* unless a result is past its check and not committed, or has been committed
\* late before.
EndedForGood ==
  [][\A j \in Jobs : job[j].st \in {"succeeded", "failed"} /\ ~WroteLate(j) /\ ~Committing(j)
       => job'[j] = job[j] /\ attempt'[j] = attempt[j]]_vars

\* The jobs of a reconciliation are never claimed, run or put aside here.
LinkedUntouched == \A j \in Linked : job[j] = [st |-> "queued", current |-> 0]

\* Claims, late handlers, deaths, quarantine and resumption, in any order, leave
\* every job with at most one attempt that can still end it, and leave the jobs
\* of reconciliations alone.
JobsSound == TypeOK /\ OneRunningAttempt /\ LinkedUntouched

\* In production every job that belongs to no reconciliation, one a dead worker
\* left running included, ends up with the operator, whatever the other
\* sources have to do, unless one of them raises or the generation is not the
\* selected one.
UnlinkedPutAside ==
  \A j \in Jobs \ Linked :
    (mode = "production") ~> (job[j].st = "waiting-for-operator" \/ broken # {} \/ ~selected)

\* A source that has work is asked for it, however busy the others are.
NoSourceStarves ==
  \A i \in 1 .. Len(Others) :
    (Others[i] \in backlog) ~> (Others[i] \notin backlog \/ broken # {} \/ ~selected)
---------------------------------------------------------------------------
(* JobsSound and EndedForGood for every queue and any number of workers.    *)
(* The inductive invariant adds the types and two facts: the rows of a job  *)
(* are as many as the number it carries, and a worker in a handler, or with *)
(* a result to commit, holds the number of an existing row of a job of no   *)
(* reconciliation.                                                          *)

JobStates == {"queued", "running", "succeeded", "failed", "waiting-for-operator"}

Rows == [st : JobStates \cup {"expired"}, by : Workers \cup {"gone"}, deadline : Nat]

Results == [attempt : Verdicts, job : Verdicts \cup {"kept"}]

Loops == [cursor : 1 .. Len(Sources), at : {"loop", "handler", "commit"},
          fence : [job : Nat, attempt : Nat],
          result : Results \cup {NoResult}]

JobsTypes ==
  /\ job \in [Jobs -> [st : JobStates, current : Nat]]
  /\ attempt \in [Jobs -> Seq(Rows)]
  /\ worker \in [Workers -> Loops]
  /\ now \in Nat

Numbered == \A j \in Jobs : job[j].current = Len(attempt[j])

Fenced ==
  \A w \in Workers :
    LET f == worker[w].fence
    IN  /\ IF worker[w].at = "loop" THEN f = NoFence
           ELSE f.job \in Jobs \ Linked /\ f.attempt \in 1 .. Len(attempt[f.job])
        /\ IF worker[w].at = "commit" THEN worker[w].result \in Results
           ELSE worker[w].result = NoResult

JobsInv == JobsTypes /\ Numbered /\ OneRunningAttempt /\ LinkedUntouched /\ Fenced

\* A queue that is not empty has an oldest job.
LEMMA OldestClaimable ==
  ASSUME JobsInv, Claimable # {}
  PROVE  Oldest \in Claimable
<1>1. Claimable \subseteq Nat
  BY JobsAssumption, Zenon DEF Claimable
<1>2. \E j \in Claimable : \A k \in Claimable : ~(<<k, j>> \in OpToRel(<, Nat))
  BY <1>1, NatLessThanWellFounded, WFMin, Zenon
<1>3. \A k \in Nat, j \in Nat : k < j => <<k, j>> \in OpToRel(<, Nat)
  BY DEF OpToRel
<1>4. \E j \in Claimable : \A k \in Claimable : j <= k
  <2>1. PICK j \in Claimable : \A k \in Claimable : ~(<<k, j>> \in OpToRel(<, Nat))
    BY <1>2, Zenon
  <2>2. ASSUME NEW k \in Claimable PROVE j <= k
    <3>1. ~(k < j)
      BY <1>1, <1>3, <2>1, Zenon
    <3> QED BY <3>1, <1>1
  <2> QED BY <2>2
<1> QED BY <1>4 DEF Oldest

\* What a worker is asked to look at is a source.
LEMMA AskedSources ==
  ASSUME JobsInv, NEW w \in Workers, NEW i \in Asked(w)
  PROVE  /\ i \in 1 .. Len(Sources) /\ Advanced(i) \in 1 .. Len(Sources)
         /\ HasWork(Sources[i])
<1> DEFINE n == Len(Sources)
<1>1. n \in Nat \ {0}
  BY JobsAssumption, AppendProperties, LenProperties DEF Sources
<1>2. \A a \in Nat : (a % n) + 1 \in 1 .. n
  BY <1>1
<1>3. PICK k \in 0 .. n - 1 : i = Index(w, k) /\ HasWork(Sources[Index(w, k)])
  BY DEF Asked
<1>4. worker[w].cursor - 1 + k \in Nat
  BY <1>1 DEF JobsInv, JobsTypes, Loops
<1>5. i \in 1 .. n
  BY <1>2, <1>3, <1>4, Zenon DEF Index
<1>6. Advanced(i) \in 1 .. n
  BY <1>1, <1>2, <1>5 DEF Advanced
<1> QED BY <1>3, <1>5, <1>6

\* Expiring the current row of a job leaves it no running row.
LEMMA ExpiredRows ==
  ASSUME JobsInv, NEW j \in Jobs
  PROVE  /\ ExpireCurrent(j) \in Seq(Rows)
         /\ Len(ExpireCurrent(j)) = Len(attempt[j])
         /\ \A i \in 1 .. Len(attempt[j]) : ExpireCurrent(j)[i].st # "running"
<1> DEFINE s == attempt[j]
           c == job[j].current
<1>1. s \in Seq(Rows) /\ c \in Nat /\ c = Len(s)
  BY DEF JobsInv, JobsTypes, Numbered
<1>2. \A i \in 1 .. Len(s) : s[i] \in Rows /\ (s[i].st = "running" => i = c)
  BY <1>1, ElementOfSeq DEF JobsInv, OneRunningAttempt
<1>3. CASE c = 0
  <2>1. ExpireCurrent(j) = s
    BY <1>3 DEF ExpireCurrent
  <2>2. \A i \in 1 .. Len(s) : FALSE
    BY <1>1, <1>3
  <2> QED BY <1>1, <2>1, <2>2
<1>4. CASE c # 0
  <2>1. s[c] \in Rows /\ c \in 1 .. Len(s)
    BY <1>1, <1>2, <1>4
  <2>2. [s[c] EXCEPT !.st = "expired"] \in Rows
    BY <2>1 DEF Rows
  <2>3. ExpireCurrent(j) = [s EXCEPT ![c] = [s[c] EXCEPT !.st = "expired"]]
    BY <1>4 DEF ExpireCurrent
  <2>4. [s[c] EXCEPT !.st = "expired"].st = "expired"
    BY <2>1 DEF Rows
  <2> HIDE DEF s, c
  <2>5. /\ ExpireCurrent(j) \in Seq(Rows) /\ Len(ExpireCurrent(j)) = Len(s)
        /\ \A i \in 1 .. Len(s) : ExpireCurrent(j)[i] =
             IF i = c THEN [s[c] EXCEPT !.st = "expired"] ELSE s[i]
    BY <1>1, <2>1, <2>2, <2>3, ExceptSeq
  <2>6. \A i \in 1 .. Len(s) : ExpireCurrent(j)[i].st # "running"
    BY <2>5, <2>4, <1>2, Zenon
  <2> QED BY <2>5, <2>6 DEF s
<1> QED BY <1>3, <1>4
\* What a step does to the rows of one job: it keeps the invariant when the
\* new rows are typed, numbered, not fewer, and at most the last one runs.
LEMMA RowStep ==
  ASSUME JobsInv, NEW j \in Jobs \ Linked, NEW r, NEW s,
         r \in [st : JobStates, current : Nat], s \in Seq(Rows),
         r.current = Len(s), Len(attempt[j]) <= Len(s),
         \A i \in 1 .. Len(s) :
           s[i].st = "running" => /\ i = r.current
                                  /\ \/ r.st = "running"
                                     \/ \E e \in 1 .. Len(s) : e < r.current /\ s[e].st # "expired",
         job' = [job EXCEPT ![j] = r], attempt' = [attempt EXCEPT ![j] = s]
  PROVE  /\ job' \in [Jobs -> [st : JobStates, current : Nat]]
         /\ attempt' \in [Jobs -> Seq(Rows)]
         /\ Numbered' /\ OneRunningAttempt' /\ LinkedUntouched'
         /\ \A k \in Jobs : Len(attempt[k]) <= Len(attempt'[k])
<1>1. /\ job \in [Jobs -> [st : JobStates, current : Nat]]
      /\ attempt \in [Jobs -> Seq(Rows)]
  BY DEF JobsInv, JobsTypes
<1>2. /\ job' \in [Jobs -> [st : JobStates, current : Nat]]
      /\ attempt' \in [Jobs -> Seq(Rows)]
  BY <1>1
<1>3. /\ job'[j] = r /\ attempt'[j] = s
      /\ \A k \in Jobs \ {j} : job'[k] = job[k] /\ attempt'[k] = attempt[k]
  BY <1>1
<1>4. Numbered'
  BY <1>3 DEF JobsInv, Numbered
<1>5. OneRunningAttempt'
  <2> SUFFICES ASSUME NEW k \in Jobs, NEW i \in 1 .. Len(attempt'[k]), attempt'[k][i].st = "running"
               PROVE  i = job'[k].current /\ (job'[k].st = "running" \/ WroteLate(k)')
    BY DEF OneRunningAttempt
  <2>1. CASE k = j
    BY <1>3, <2>1 DEF WroteLate
  <2>2. CASE k # j
    BY <1>3, <2>2 DEF JobsInv, OneRunningAttempt, WroteLate
  <2> QED BY <2>1, <2>2
<1>6. LinkedUntouched'
  BY <1>3, JobsAssumption DEF JobsInv, LinkedUntouched
<1>7. \A k \in Jobs : Len(attempt[k]) <= Len(attempt'[k])
  <2> SUFFICES ASSUME NEW k \in Jobs PROVE Len(attempt[k]) <= Len(attempt'[k])
    OBVIOUS
  <2>1. Len(attempt[k]) \in Nat
    BY <1>1, LenProperties
  <2> QED BY <1>3, <2>1
<1> QED BY <1>2, <1>4, <1>5, <1>6, <1>7

\* What a step does to one worker: rows only ever become more, so the other
\* workers keep the rows they hold the number of.
LEMMA WorkerStep ==
  ASSUME JobsInv, NEW w \in Workers, NEW x,
         x \in Loops,
         IF x.at = "loop" THEN x.fence = NoFence
         ELSE x.fence.job \in Jobs \ Linked /\ x.fence.attempt \in 1 .. Len(attempt'[x.fence.job]),
         IF x.at = "commit" THEN x.result \in Results ELSE x.result = NoResult,
         \A k \in Jobs : Len(attempt[k]) <= Len(attempt'[k]),
         attempt' \in [Jobs -> Seq(Rows)],
         worker' = [worker EXCEPT ![w] = x]
  PROVE  /\ worker' \in [Workers -> Loops]
         /\ Fenced'
<1>1. worker \in [Workers -> Loops]
  BY DEF JobsInv, JobsTypes
<1>2. worker' \in [Workers -> Loops]
  BY <1>1
<1>3. worker'[w] = x /\ \A v \in Workers \ {w} : worker'[v] = worker[v]
  BY <1>1
<1>4. \A k \in Jobs : Len(attempt[k]) \in Nat /\ Len(attempt'[k]) \in Nat
  BY LenProperties DEF JobsInv, JobsTypes
<1>5. ASSUME NEW v \in Workers
      PROVE  /\ IF worker'[v].at = "loop" THEN worker'[v].fence = NoFence
                ELSE /\ worker'[v].fence.job \in Jobs \ Linked
                     /\ worker'[v].fence.attempt \in 1 .. Len(attempt'[worker'[v].fence.job])
             /\ IF worker'[v].at = "commit" THEN worker'[v].result \in Results
                ELSE worker'[v].result = NoResult
  <2>1. CASE v = w
    BY <1>3, <2>1
  <2>2. CASE v # w
    <3>1. worker'[v] = worker[v]
      BY <1>3, <2>2
    <3>2. /\ IF worker[v].at = "loop" THEN worker[v].fence = NoFence
             ELSE /\ worker[v].fence.job \in Jobs \ Linked
                  /\ worker[v].fence.attempt \in 1 .. Len(attempt[worker[v].fence.job])
          /\ IF worker[v].at = "commit" THEN worker[v].result \in Results
             ELSE worker[v].result = NoResult
      BY DEF JobsInv, Fenced
    <3> QED BY <3>1, <3>2, <1>4
  <2> QED BY <2>1, <2>2
<1> QED BY <1>2, <1>5 DEF Fenced

\* The initial rows.
LEMMA JobsInitially == Init => JobsInv
<1> SUFFICES ASSUME Init PROVE JobsInv
  OBVIOUS
<1>1. PICK old \in SUBSET (Jobs \ Linked) :
        /\ job = [j \in Jobs |-> [st |-> IF j \in old THEN "running" ELSE "queued",
                                  current |-> IF j \in old THEN 1 ELSE 0]]
        /\ attempt = [j \in Jobs |-> IF j \in old
                        THEN <<[st |-> "running", by |-> "gone", deadline |-> 1]>> ELSE <<>>]
  BY Zenon DEF Init
<1>2. 1 \in 1 .. Len(Sources)
  <2>1. Len(Sources) \in Nat \ {0}
    BY JobsAssumption, AppendProperties, LenProperties DEF Sources
  <2> QED BY <2>1
<1>3. \A j \in Jobs : IF j \in old THEN attempt[j] = <<[st |-> "running", by |-> "gone", deadline |-> 1]>>
                      ELSE attempt[j] = <<>>
  BY <1>1
<1>4. [st |-> "running", by |-> "gone", deadline |-> 1] \in Rows
  BY DEF Rows, JobStates
<1>5. ASSUME NEW j \in Jobs
      PROVE  attempt[j] \in Seq(Rows) /\ Len(attempt[j]) = IF j \in old THEN 1 ELSE 0
  <2> DEFINE row == [st |-> "running", by |-> "gone", deadline |-> 1]
  <2>1. row \in Rows
    BY <1>4
  <2> HIDE DEF row
  <2>2. <<row>> \in Seq(Rows) /\ Len(<<row>>) = 1
    BY <2>1
  <2>3. CASE j \in old
    BY <1>3, <2>2, <2>3, Zenon DEF row
  <2>4. CASE j \notin old
    BY <1>3, <2>4, EmptySeq, Zenon
  <2> QED BY <2>3, <2>4
<1>6. JobsTypes
  <2>1. attempt \in [Jobs -> Seq(Rows)]
    BY <1>1, <1>5
  <2>2. job \in [Jobs -> [st : JobStates, current : Nat]]
    BY <1>1 DEF JobStates
  <2>3. worker \in [Workers -> Loops]
    BY <1>2 DEF Init, Started, NoFence, NoResult, Loops
  <2> QED BY <2>1, <2>2, <2>3 DEF Init, JobsTypes
<1>7. Numbered
  BY <1>1, <1>5 DEF Numbered
<1>8. OneRunningAttempt
  BY <1>1, <1>3, <1>5 DEF OneRunningAttempt
<1>9. LinkedUntouched
  BY <1>1, JobsAssumption DEF LinkedUntouched
<1>10. Fenced
  BY DEF Init, Started, Fenced
<1> QED BY <1>6, <1>7, <1>8, <1>9, <1>10 DEF JobsInv
\* A claim takes the oldest job up: its current row, if it has one, expires,
\* and the new row is the only one that runs.
LEMMA ClaimKeeps == ASSUME JobsInv, NEW w \in Workers, RunClaim(w) PROVE JobsInv'
<1>1. PICK i \in Asked(w) :
        /\ Sources[i] = "jobs" /\ Claim(w, Oldest)
        /\ worker' = [worker EXCEPT ![w] = [cursor |-> Advanced(i), at |-> "handler",
                        fence |-> [job |-> Oldest, attempt |-> job[Oldest].current + 1],
                        result |-> NoResult]]
  BY Zenon DEF RunClaim
<1>2. Advanced(i) \in 1 .. Len(Sources) /\ Claimable # {}
  BY <1>1, AskedSources DEF HasWork
<1>3. Oldest \in Jobs \ Linked
  BY <1>2, OldestClaimable DEF Claimable
<1> DEFINE j == Oldest
           row == [st |-> "running", by |-> w, deadline |-> now + Lease]
           r == [st |-> "running", current |-> job[j].current + 1]
           s == Claimed(j, w)
           x == [cursor |-> Advanced(i), at |-> "handler",
                 fence |-> [job |-> j, attempt |-> job[j].current + 1], result |-> NoResult]
<1>4. job[j] \in [st : JobStates, current : Nat] /\ job[j].current = Len(attempt[j])
  BY <1>3 DEF JobsInv, JobsTypes, Numbered
<1>5. row \in Rows
  BY JobsAssumption DEF JobsInv, JobsTypes, Rows, JobStates
<1>6. /\ ExpireCurrent(j) \in Seq(Rows) /\ Len(ExpireCurrent(j)) = Len(attempt[j])
      /\ \A k \in 1 .. Len(attempt[j]) : ExpireCurrent(j)[k].st # "running"
  BY <1>3, ExpiredRows
<1>7. /\ s \in Seq(Rows) /\ Len(s) = Len(attempt[j]) + 1
      /\ \A k \in 1 .. Len(attempt[j]) : s[k] = ExpireCurrent(j)[k]
  <2> HIDE DEF row
  <2>1. s = Append(ExpireCurrent(j), row)
    BY DEF Claimed, row
  <2> QED BY <1>5, <1>6, <2>1, AppendProperties
<1>8. /\ r \in [st : JobStates, current : Nat] /\ r.current = Len(s) /\ Len(attempt[j]) <= Len(s)
      /\ \A k \in 1 .. Len(s) : s[k].st = "running" => k = r.current /\ r.st = "running"
  BY <1>4, <1>6, <1>7 DEF JobStates
<1>9. job' = [job EXCEPT ![j] = r] /\ attempt' = [attempt EXCEPT ![j] = s]
  BY <1>1 DEF Claim
<1>10. worker' = [worker EXCEPT ![w] = x]
  BY <1>1
<1>11. x \in Loops
  BY <1>2, <1>3, <1>4, JobsAssumption DEF Loops, NoResult
<1>12. now' = now
  BY DEF RunClaim
<1>13. x.at = "handler" /\ x.result = NoResult /\ x.fence.job = j /\ x.fence.attempt = Len(attempt[j]) + 1 /\ r.current = Len(s)
  BY <1>4, <1>8
<1> HIDE DEF j, r, s, x
<1>14. /\ job' \in [Jobs -> [st : JobStates, current : Nat]]
       /\ attempt' \in [Jobs -> Seq(Rows)]
       /\ Numbered' /\ OneRunningAttempt' /\ LinkedUntouched'
       /\ \A k \in Jobs : Len(attempt[k]) <= Len(attempt'[k])
  BY <1>3, <1>7, <1>8, <1>9, RowStep, Zenon DEF j
<1>15. attempt'[j] = s
  BY <1>3, <1>9 DEF j, JobsInv, JobsTypes
<1>16. x.fence.job \in Jobs \ Linked /\ x.fence.attempt \in 1 .. Len(attempt'[x.fence.job])
  BY <1>3, <1>4, <1>7, <1>13, <1>15 DEF j
<1>17. /\ worker' \in [Workers -> Loops]
       /\ Fenced'
  BY <1>10, <1>11, <1>13, <1>14, <1>16, WorkerStep, Zenon
<1> QED BY <1>12, <1>14, <1>17 DEF JobsInv, JobsTypes

\* Putting the oldest job aside expires the row that still runs.
LEMMA QuarantineKeeps == ASSUME JobsInv, NEW w \in Workers, RunQuarantine(w) PROVE JobsInv'
<1>1. PICK i \in Asked(w) :
        /\ Sources[i] = "jobs" /\ Quarantine(Oldest)
        /\ worker' = [worker EXCEPT ![w].cursor = Advanced(i)]
  BY Zenon DEF RunQuarantine
<1>2. Advanced(i) \in 1 .. Len(Sources) /\ Claimable # {}
  BY <1>1, AskedSources DEF HasWork
<1>3. Oldest \in Jobs \ Linked
  BY <1>2, OldestClaimable DEF Claimable
<1> DEFINE j == Oldest
           c == job[j].current
           r == [job[j] EXCEPT !.st = "waiting-for-operator"]
           s == IF c > 0 /\ attempt[j][c].st = "running" THEN ExpireCurrent(j) ELSE attempt[j]
           x == [worker[w] EXCEPT !.cursor = Advanced(i)]
<1>4. job[j] \in [st : JobStates, current : Nat] /\ c = Len(attempt[j]) /\ attempt[j] \in Seq(Rows)
  BY <1>3 DEF JobsInv, JobsTypes, Numbered
<1>5. /\ ExpireCurrent(j) \in Seq(Rows) /\ Len(ExpireCurrent(j)) = Len(attempt[j])
      /\ \A k \in 1 .. Len(attempt[j]) : ExpireCurrent(j)[k].st # "running"
  BY <1>3, ExpiredRows
<1>6. \A k \in 1 .. Len(attempt[j]) : attempt[j][k].st = "running" => k = c
  BY <1>3 DEF JobsInv, OneRunningAttempt
<1>7. /\ s \in Seq(Rows) /\ Len(s) = c
      /\ \A k \in 1 .. c : s[k].st # "running"
  BY <1>4, <1>5, <1>6
<1>8. /\ r \in [st : JobStates, current : Nat] /\ r.current = Len(s) /\ Len(attempt[j]) <= Len(s)
      /\ \A k \in 1 .. Len(s) : s[k].st = "running" => k = r.current /\ r.st = "running"
  BY <1>4, <1>7 DEF JobStates
<1>9. job' = [job EXCEPT ![j] = r] /\ attempt' = [attempt EXCEPT ![j] = s]
  BY <1>1, <1>3 DEF Quarantine, JobsInv, JobsTypes
<1>10. worker' = [worker EXCEPT ![w] = x]
  BY <1>1 DEF JobsInv, JobsTypes
<1>11. /\ x \in Loops
       /\ x.at = "loop" /\ x.fence = NoFence /\ x.result = NoResult
  BY <1>2, Zenon DEF RunQuarantine, Ready, JobsInv, JobsTypes, Fenced, Loops
<1>12. now' = now
  BY DEF RunQuarantine
<1> HIDE DEF j, r, s, x
<1>13. /\ job' \in [Jobs -> [st : JobStates, current : Nat]]
       /\ attempt' \in [Jobs -> Seq(Rows)]
       /\ Numbered' /\ OneRunningAttempt' /\ LinkedUntouched'
       /\ \A k \in Jobs : Len(attempt[k]) <= Len(attempt'[k])
  BY <1>3, <1>7, <1>8, <1>9, RowStep, Zenon DEF j
<1>14. /\ worker' \in [Workers -> Loops]
       /\ Fenced'
  BY <1>10, <1>11, <1>13, WorkerStep, Zenon
<1> QED BY <1>12, <1>13, <1>14 DEF JobsInv, JobsTypes
\* The row a worker holds the number of, while its claim stands.
LEMMA HeldRow ==
  ASSUME JobsInv, NEW w \in Workers, worker[w].at = "handler", Active(worker[w].fence)
  PROVE  LET f == worker[w].fence
         IN  /\ f.job \in Jobs \ Linked /\ f.attempt \in 1 .. Len(attempt[f.job])
             /\ f.attempt = job[f.job].current /\ f.attempt = Len(attempt[f.job])
             /\ job[f.job] \in [st : JobStates, current : Nat]
             /\ attempt[f.job] \in Seq(Rows) /\ attempt[f.job][f.attempt] \in Rows
<1> DEFINE f == worker[w].fence
<1>1. f.job \in Jobs \ Linked /\ f.attempt \in 1 .. Len(attempt[f.job])
  BY DEF JobsInv, Fenced
<1>2. /\ job[f.job] \in [st : JobStates, current : Nat] /\ attempt[f.job] \in Seq(Rows)
      /\ job[f.job].current = Len(attempt[f.job])
  BY <1>1 DEF JobsInv, JobsTypes, Numbered
<1>3. attempt[f.job][f.attempt] \in Rows
  BY <1>1, <1>2, ElementOfSeq
<1>4. f.attempt = job[f.job].current
  BY <1>1 DEF Active, JobsInv, OneRunningAttempt
<1> QED BY <1>1, <1>2, <1>3, <1>4

\* A worker goes back to its loop, and nothing else happens to the rows.
LEMMA LoopKeeps ==
  ASSUME JobsInv, NEW w \in Workers, NEW x, worker' = [worker EXCEPT ![w] = x],
         x \in Loops,
         x.at = "loop", x.fence = NoFence, x.result = NoResult, UNCHANGED <<job, attempt, now>>
  PROVE  JobsInv'
<1>1. \A k \in Jobs : Len(attempt[k]) <= Len(attempt'[k])
  <2>1. \A k \in Jobs : Len(attempt[k]) \in Nat
    BY LenProperties DEF JobsInv, JobsTypes
  <2> QED BY <2>1
<1>2. attempt' \in [Jobs -> Seq(Rows)]
  BY DEF JobsInv, JobsTypes
<1>3. /\ worker' \in [Workers -> Loops]
      /\ Fenced'
  BY <1>1, <1>2, WorkerStep, Zenon
<1> QED BY <1>3 DEF JobsInv, JobsTypes, Numbered, OneRunningAttempt, WroteLate, LinkedUntouched

\* A process that starts again.
LEMMA StartedKeeps ==
  ASSUME JobsInv, NEW w \in Workers, worker' = [worker EXCEPT ![w] = Started],
         UNCHANGED <<job, attempt, now>>
  PROVE  JobsInv'
<1>1. Len(Sources) \in Nat \ {0}
  BY JobsAssumption, AppendProperties, LenProperties DEF Sources
<1>2. /\ Started \in Loops
      /\ Started.at = "loop" /\ Started.fence = NoFence /\ Started.result = NoResult
  BY <1>1 DEF Started, NoFence, NoResult, Loops
<1> QED BY <1>2, LoopKeeps, Zenon

\* A source of its own advances: only the cursor and the backlog change.
LEMMA SourceKeeps == ASSUME JobsInv, NEW w \in Workers, RunSource(w) PROVE JobsInv'
<1>1. PICK i \in Asked(w) : worker' = [worker EXCEPT ![w].cursor = Advanced(i)]
  BY Zenon DEF RunSource
<1> DEFINE x == [worker[w] EXCEPT !.cursor = Advanced(i)]
<1>2. Advanced(i) \in 1 .. Len(Sources)
  BY AskedSources
<1>3. /\ x \in Loops
      /\ x.at = "loop" /\ x.fence = NoFence /\ x.result = NoResult
  BY <1>2, Zenon DEF RunSource, Ready, JobsInv, JobsTypes, Fenced, Loops
<1>4. worker' = [worker EXCEPT ![w] = x]
  BY <1>1 DEF JobsInv, JobsTypes
<1> HIDE DEF x
<1> QED BY <1>3, <1>4, LoopKeeps, Zenon DEF RunSource

\* A handler returns: its worker holds a result.
LEMMA ReturnKeeps == ASSUME JobsInv, NEW w \in Workers, HandlerReturns(w) PROVE JobsInv'
<1> DEFINE f == worker[w].fence
<1>1. PICK st \in Verdicts :
        worker' = [worker EXCEPT ![w].at = "commit", ![w].result = ResultOf(f, st)]
  BY Zenon DEF HandlerReturns
<1> DEFINE x == [worker[w] EXCEPT !.at = "commit", !.result = ResultOf(f, st)]
<1>2. worker[w] \in Loops /\ worker' = [worker EXCEPT ![w] = x]
  BY <1>1, Zenon DEF JobsInv, JobsTypes
<1>3. ResultOf(f, st) \in Results
  BY DEF ResultOf, Results
<1>4. x \in Loops /\ x.at = "commit" /\ x.fence = f /\ x.result \in Results
  BY <1>2, <1>3, Zenon DEF Loops
<1>5. f.job \in Jobs \ Linked /\ f.attempt \in 1 .. Len(attempt[f.job])
  BY DEF HandlerReturns, JobsInv, Fenced
<1>6. UNCHANGED <<job, attempt, now>>
  BY DEF HandlerReturns
<1>7. /\ \A k \in Jobs : Len(attempt[k]) <= Len(attempt'[k])
      /\ attempt' \in [Jobs -> Seq(Rows)]
  <2>1. attempt \in [Jobs -> Seq(Rows)]
    BY DEF JobsInv, JobsTypes
  <2>2. \A k \in Jobs : Len(attempt[k]) \in Nat
    BY <2>1, LenProperties
  <2> QED BY <1>6, <2>1, <2>2
<1>8. x.at # "loop" /\ x.fence.job \in Jobs \ Linked /\ x.fence.attempt \in 1 .. Len(attempt'[x.fence.job])
  BY <1>4, <1>5, <1>6
<1> HIDE DEF x
<1>9. worker' \in [Workers -> Loops] /\ Fenced'
  BY <1>2, <1>4, <1>7, <1>8, WorkerStep, Zenon
<1> QED BY <1>6, <1>9, Zenon DEF JobsInv, JobsTypes, Numbered, OneRunningAttempt, WroteLate, LinkedUntouched

\* A result is committed.  A row that still runs is the current one and not
\* the row written, which is then an earlier one that has not expired.
LEMMA CommitKeeps == ASSUME JobsInv, NEW w \in Workers, CommitResult(w) PROVE JobsInv'
<1> DEFINE f == worker[w].fence
           j == f.job
           st == worker[w].result.attempt
           row == [attempt[j][f.attempt] EXCEPT !.st = st]
           r == [job[j] EXCEPT !.st = IF worker[w].result.job = "kept" THEN @ ELSE worker[w].result.job]
           s == [attempt[j] EXCEPT ![f.attempt] = row]
           x == [worker[w] EXCEPT !.at = "loop", !.fence = NoFence, !.result = NoResult]
<1>1. /\ j \in Jobs \ Linked /\ f.attempt \in 1 .. Len(attempt[j]) /\ st \in Verdicts
      /\ worker[w] \in Loops /\ worker[w].result \in Results
  BY DEF CommitResult, JobsInv, JobsTypes, Fenced, Results
<1>2. /\ job[j] \in [st : JobStates, current : Nat] /\ attempt[j] \in Seq(Rows)
      /\ job[j].current = Len(attempt[j])
  BY <1>1 DEF JobsInv, JobsTypes, Numbered
<1>3. attempt[j][f.attempt] \in Rows
  BY <1>1, <1>2, ElementOfSeq, Zenon
<1>4. row \in Rows /\ row.st = st
  BY <1>1, <1>3, Zenon DEF Rows, JobStates, Verdicts
<1>5. st # "running" /\ st # "expired"
  BY <1>1 DEF Verdicts
<1>6. \A k \in 1 .. Len(attempt[j]) : attempt[j][k].st = "running" => k = job[j].current
  BY <1>1 DEF JobsInv, OneRunningAttempt
<1>7. /\ x \in Loops /\ x.at = "loop" /\ x.fence = NoFence /\ x.result = NoResult
      /\ worker' = [worker EXCEPT ![w] = x]
  BY <1>1, Zenon DEF NoFence, NoResult, Loops, CommitResult, JobsInv, JobsTypes
<1>8. attempt' = [attempt EXCEPT ![j] = s]
  BY <1>1 DEF CommitResult, Finish, JobsInv, JobsTypes
<1>9. r \in [st : JobStates, current : Nat] /\ r.current = job[j].current /\ job' = [job EXCEPT ![j] = r]
  <2>1. worker[w].result.job = "kept" \/ worker[w].result.job \in JobStates
    BY <1>1 DEF Results, Verdicts, JobStates
  <2>2. r \in [st : JobStates, current : Nat] /\ r.current = job[j].current
    BY <1>2, <2>1
  <2> QED BY <1>1, <2>2 DEF CommitResult, Finish, JobsInv, JobsTypes
<1>10. now' = now
  BY DEF CommitResult
<1> HIDE DEF row, r, j, f, st, x
<1>11. /\ s \in Seq(Rows) /\ Len(s) = Len(attempt[j])
       /\ \A k \in 1 .. Len(attempt[j]) : s[k] = IF k = f.attempt THEN row ELSE attempt[j][k]
  BY <1>1, <1>2, <1>4, ExceptSeq
<1> HIDE DEF s
<1>12. r.current = Len(s) /\ Len(attempt[j]) <= Len(s) /\ Len(s) \in Nat
  BY <1>2, <1>9, <1>11, LenProperties
<1>13. ASSUME NEW k \in 1 .. Len(s), s[k].st = "running"
       PROVE  k = r.current /\ \E e \in 1 .. Len(s) : e < r.current /\ s[e].st # "expired"
  <2>1. k # f.attempt /\ attempt[j][k].st = "running" /\ k \in 1 .. Len(attempt[j])
    BY <1>4, <1>5, <1>11, <1>13
  <2>2. k = r.current
    BY <1>6, <1>9, <2>1
  <2>3. f.attempt \in 1 .. Len(s) /\ f.attempt < r.current
    BY <1>1, <1>11, <1>12, <2>1, <2>2
  <2>4. s[f.attempt].st # "expired"
    <3>1. s[f.attempt] = row
      BY <1>1, <1>11
    <3> QED BY <3>1, <1>4, <1>5
  <2> QED BY <2>2, <2>3, <2>4
<1>14. /\ job' \in [Jobs -> [st : JobStates, current : Nat]]
       /\ attempt' \in [Jobs -> Seq(Rows)]
       /\ Numbered' /\ OneRunningAttempt' /\ LinkedUntouched'
       /\ \A k \in Jobs : Len(attempt[k]) <= Len(attempt'[k])
  BY <1>1, <1>8, <1>9, <1>11, <1>12, <1>13, RowStep, Zenon
<1>15. worker' \in [Workers -> Loops] /\ Fenced'
  BY <1>7, <1>14, WorkerStep, Zenon
<1> QED BY <1>10, <1>14, <1>15 DEF JobsInv, JobsTypes

\* A heartbeat moves the deadline of the row the worker holds.
LEMMA HeartbeatKeeps == ASSUME JobsInv, NEW w \in Workers, Heartbeat(w) PROVE JobsInv'
<1> DEFINE f == worker[w].fence
           j == f.job
           row == [attempt[j][f.attempt] EXCEPT !.deadline = now + Lease]
           s == [attempt[j] EXCEPT ![f.attempt] = row]
           r == job[j]
<1>1. /\ j \in Jobs \ Linked /\ f.attempt \in 1 .. Len(attempt[j])
      /\ f.attempt = job[j].current /\ f.attempt = Len(attempt[j])
      /\ job[j] \in [st : JobStates, current : Nat]
      /\ attempt[j] \in Seq(Rows) /\ attempt[j][f.attempt] \in Rows
  BY HeldRow, Zenon DEF Heartbeat
<1>2. row \in Rows
  <2>1. now + Lease \in Nat
    BY JobsAssumption, SMTT(20) DEF JobsInv, JobsTypes
  <2> QED BY <1>1, <2>1, SMTT(20) DEF Rows
<1>3. attempt' = [attempt EXCEPT ![j] = s]
  BY <1>1 DEF Heartbeat, JobsInv, JobsTypes
<1>4. job' = [job EXCEPT ![j] = r] /\ worker' = worker /\ now' = now
  BY DEF Heartbeat, JobsInv, JobsTypes
<1>5. \A k \in 1 .. Len(attempt[j]) : attempt[j][k].st = "running" => k = f.attempt
  BY <1>1, Zenon DEF JobsInv, OneRunningAttempt
<1> HIDE DEF row, j, f, r
<1>6. /\ s \in Seq(Rows) /\ Len(s) = Len(attempt[j])
      /\ \A k \in 1 .. Len(attempt[j]) : s[k] = IF k = f.attempt THEN row ELSE attempt[j][k]
  BY <1>1, <1>2, ExceptSeq
<1> HIDE DEF s
<1>7. r.current = Len(s) /\ Len(attempt[j]) <= Len(s)
  BY <1>1, <1>6 DEF r
<1>8. \A k \in 1 .. Len(s) :
        s[k].st = "running" => /\ k = r.current
                               /\ \/ r.st = "running"
                                  \/ \E e \in 1 .. Len(s) : e < r.current /\ s[e].st # "expired"
  <2>1. row.st = attempt[j][f.attempt].st
    BY <1>1 DEF row, Rows
  <2>2. \A k \in 1 .. Len(s) : s[k].st = attempt[j][k].st
    BY <1>6, <2>1
  <2>3. \A k \in 1 .. Len(attempt[j]) :
          attempt[j][k].st = "running" => k = r.current /\ (r.st = "running" \/ WroteLate(j))
    BY <1>1, Zenon DEF r, JobsInv, OneRunningAttempt
  <2> QED BY <1>6, <2>2, <2>3 DEF WroteLate, r
<1>9. /\ job' \in [Jobs -> [st : JobStates, current : Nat]]
      /\ attempt' \in [Jobs -> Seq(Rows)]
      /\ Numbered' /\ OneRunningAttempt' /\ LinkedUntouched'
      /\ \A k \in Jobs : Len(attempt[k]) <= Len(attempt'[k])
  BY <1>1, <1>3, <1>4, <1>6, <1>7, <1>8, RowStep, Zenon DEF r
<1>10. /\ worker' = [worker EXCEPT ![w] = worker[w]]
       /\ worker[w] \in Loops
  BY <1>4 DEF JobsInv, JobsTypes
<1>11. /\ worker[w].at # "loop" /\ worker[w].at # "commit" /\ worker[w].result = NoResult
       /\ worker[w].fence.job \in Jobs \ Linked
       /\ worker[w].fence.attempt \in 1 .. Len(attempt'[worker[w].fence.job])
  <2>1. worker[w].at = "handler" /\ worker[w].result = NoResult
    BY Zenon DEF Heartbeat, JobsInv, Fenced
  <2>2. attempt'[j] = s
    BY <1>1, <1>3 DEF JobsInv, JobsTypes
  <2> QED BY <1>1, <1>6, <2>1, <2>2 DEF j, f
<1>12. worker' \in [Workers -> Loops]
       /\ Fenced'
  BY <1>9, <1>10, <1>11, WorkerStep, Zenon
<1> QED BY <1>4, <1>9, <1>12 DEF JobsInv, JobsTypes

\* A job the operator resumes has no row that runs, or one written late.
LEMMA ResumeKeeps == ASSUME JobsInv, NEW j \in Jobs, Resume(j) PROVE JobsInv'
<1> DEFINE r == [job[j] EXCEPT !.st = "queued"]
<1>1. job[j].st = "waiting-for-operator" /\ job' = [job EXCEPT ![j] = r]
  BY DEF Resume, JobsInv, JobsTypes
<1>2. UNCHANGED <<attempt, worker, now>>
  BY DEF Resume
<1>3. j \in Jobs \ Linked
  BY <1>1 DEF JobsInv, LinkedUntouched
<1>4. job[j] \in [st : JobStates, current : Nat] /\ attempt[j] \in Seq(Rows) /\ job[j].current = Len(attempt[j])
  BY DEF JobsInv, JobsTypes, Numbered
<1>5. r \in [st : JobStates, current : Nat] /\ r.current = Len(attempt[j])
  BY <1>4 DEF JobStates
<1>6. \A k \in 1 .. Len(attempt[j]) :
        attempt[j][k].st = "running" =>
          k = r.current /\ \E e \in 1 .. Len(attempt[j]) : e < r.current /\ attempt[j][e].st # "expired"
  <2>1. r.current = job[j].current
    BY <1>4
  <2> HIDE DEF r
  <2> QED BY <1>1, <2>1 DEF JobsInv, OneRunningAttempt, WroteLate
<1>7. attempt' = [attempt EXCEPT ![j] = attempt[j]]
  BY <1>2 DEF JobsInv, JobsTypes
<1>8. Len(attempt[j]) <= Len(attempt[j])
  BY <1>4, LenProperties
<1> HIDE DEF r
<1>9. /\ job' \in [Jobs -> [st : JobStates, current : Nat]]
      /\ Numbered' /\ OneRunningAttempt' /\ LinkedUntouched'
  BY <1>1, <1>3, <1>4, <1>5, <1>6, <1>7, <1>8, RowStep, Zenon
<1> QED BY <1>2, <1>9 DEF JobsInv, JobsTypes, Fenced

LEMMA JobsStep == JobsInv /\ [Next]_vars => JobsInv'
<1> SUFFICES ASSUME JobsInv, [Next]_vars PROVE JobsInv'
  OBVIOUS
<1>1. ASSUME NEW w \in Workers, SourceRaises(w) \/ NotSelected(w) \/ HandlerIsLate(w) \/ Dies(w)
      PROVE  JobsInv'
  BY <1>1, StartedKeeps DEF SourceRaises, NotSelected, HandlerIsLate, Dies
<1>2. ASSUME UNCHANGED <<job, attempt, worker>>, now' \in Nat PROVE JobsInv'
  BY <1>2 DEF JobsInv, JobsTypes, Numbered, OneRunningAttempt, WroteLate, LinkedUntouched, Fenced
<1>3. ASSUME NEW i \in 1 .. Len(Others), WorkArrives(Others[i]) \/ Breaks(Others[i]) PROVE JobsInv'
  <2>1. UNCHANGED <<job, attempt, worker, now>>
    BY <1>3 DEF WorkArrives, Breaks
  <2> QED BY <1>2, <2>1 DEF JobsInv, JobsTypes
<1>4. CASE Selection
  <2>1. UNCHANGED <<job, attempt, worker, now>>
    BY <1>4 DEF Selection
  <2> QED BY <1>2, <2>1 DEF JobsInv, JobsTypes
<1>5. CASE Tick
  <2>1. UNCHANGED <<job, attempt, worker>> /\ now' \in Nat
    BY <1>5 DEF Tick, JobsInv, JobsTypes
  <2> QED BY <1>2, <2>1
<1>6. CASE UNCHANGED vars
  BY <1>2, <1>6 DEF vars, JobsInv, JobsTypes
<1> QED BY <1>1, <1>3, <1>4, <1>5, <1>6, SourceKeeps, ClaimKeeps, QuarantineKeeps, ReturnKeeps,
           CommitKeeps, HeartbeatKeeps, ResumeKeeps DEF Next, Run

\* The claims of worker.py, jobs.py leave, for every queue, number of workers and
\* length of lease, at most one attempt that can still end a job (JobsSound).
THEOREM JobsStaySound == Spec => []JobsSound
<1>1. JobsInv => JobsSound
  <2> SUFFICES ASSUME JobsInv PROVE TypeOK
    BY DEF JobsInv, JobsSound
  <2>1. ASSUME NEW w \in Workers PROVE (worker[w].at # "loop") = (worker[w].fence # NoFence)
    <3>1. NoFence.job \notin Jobs
      BY JobsAssumption DEF NoFence
    <3>2. IF worker[w].at = "loop" THEN worker[w].fence = NoFence ELSE worker[w].fence.job \in Jobs
      BY DEF JobsInv, Fenced
    <3> QED BY <3>1, <3>2, Zenon
  <2>2. \A w \in Workers : (worker[w].at = "commit") = (worker[w].result # NoResult)
    BY DEF JobsInv, JobsTypes, Fenced, NoResult, Results, Verdicts
  <2> QED BY <2>1, <2>2 DEF TypeOK, JobsInv, JobsTypes, Loops, Numbered, JobStates
<1> QED BY <1>1, JobsInitially, JobsStep, PTL DEF Spec

\* A job that has ended, and that no late result has reached or is about to
\* reach, is neither claimable nor held by a claim that stands.
LEMMA EndedStep == JobsInv /\ [Next]_vars =>
   [\A j \in Jobs : job[j].st \in {"succeeded", "failed"} /\ ~WroteLate(j) /\ ~Committing(j)
      => job'[j] = job[j] /\ attempt'[j] = attempt[j]]_vars
<1> SUFFICES ASSUME JobsInv, Next, NEW j \in Jobs, job[j].st \in {"succeeded", "failed"},
                    ~WroteLate(j), ~Committing(j)
             PROVE  job'[j] = job[j] /\ attempt'[j] = attempt[j]
  OBVIOUS
<1>1. \A i \in 1 .. Len(attempt[j]) : attempt[j][i].st # "running"
  BY DEF JobsInv, OneRunningAttempt
<1>2. j \notin Claimable
  BY <1>1 DEF Claimable, LatestExpired
<1>3. ASSUME NEW w \in Workers, RunClaim(w) \/ RunQuarantine(w)
      PROVE  job'[j] = job[j] /\ attempt'[j] = attempt[j]
  <2>1. PICK i \in Asked(w) : Sources[i] = "jobs" /\ (Claim(w, Oldest) \/ Quarantine(Oldest))
    BY <1>3 DEF RunClaim, RunQuarantine
  <2>2. Oldest \in Claimable
    BY <2>1, AskedSources, OldestClaimable DEF HasWork
  <2>3. Oldest # j /\ Oldest \in Jobs
    BY <1>2, <2>2 DEF Claimable
  <2> QED BY <2>1, <2>3 DEF Claim, Quarantine, JobsInv, JobsTypes
<1>4. ASSUME NEW w \in Workers, Heartbeat(w)
      PROVE  job'[j] = job[j] /\ attempt'[j] = attempt[j]
  <2>1. worker[w].fence.job # j /\ worker[w].fence.job \in Jobs
    BY <1>1, <1>4, HeldRow, Zenon DEF Heartbeat, Active
  <2> QED BY <1>4, <2>1, Zenon DEF Heartbeat, JobsInv, JobsTypes
<1>5. ASSUME NEW w \in Workers, CommitResult(w)
      PROVE  job'[j] = job[j] /\ attempt'[j] = attempt[j]
  <2>1. worker[w].fence.job # j
    BY <1>5 DEF CommitResult, Committing
  <2> QED BY <1>5, <2>1, Zenon DEF CommitResult, Finish, JobsInv, JobsTypes
<1>6. ASSUME NEW k \in Jobs, Resume(k) PROVE job'[j] = job[j] /\ attempt'[j] = attempt[j]
  BY <1>6 DEF Resume, JobsInv, JobsTypes
<1> QED BY <1>3, <1>4, <1>5, <1>6, Zenon DEF Next, Run, RunSource, SourceRaises, NotSelected, HandlerReturns,
           HandlerIsLate, Dies, WorkArrives, Breaks, Selection, Tick

\* What has ended stays as it ended: no claim of what looks abandoned, and no
\* handler whose result was still to be checked, changes a job that succeeded
\* or failed, for every queue and number of workers (EndedForGood).
THEOREM EndsAreFinal == Spec => EndedForGood
  BY JobsInitially, JobsStep, EndedStep, PTL DEF Spec, EndedForGood
=============================================================================
