---------------------------- MODULE PackagePlans ----------------------------
(***************************************************************************)
(* What the package API applies: the action plans of package_services.py,  *)
(* and the three kinds of apply behind them.                               *)
(*                                                                         *)
(*  - repair, remove and gc queue one job of agent operations;             *)
(*  - validate stages a validation run (package_validation_runner.py) the  *)
(*    worker's tick later projects the agents' results into;               *)
(*  - promote publishes the validated release (package_publication.py).    *)
(*                                                                         *)
(* A plan is stored under the digest of its request, so a plan's key here  *)
(* holds what the request holds: the inventory it was made from, or the    *)
(* commit and the run, or the publication preview.  Applies are serialised *)
(* by a lock of the one API process; previews, the worker, reports of the  *)
(* nodes, commits and crashes of the API process come in between, also     *)
(* between what an apply compares and what it then does.                   *)
(***************************************************************************)
EXTENDS Naturals, FiniteSets

CONSTANTS
    Kinds,        \* the dispatched actions: a subset of {"repair", "remove", "gc"}
    Requests,     \* the request identifiers callers use
    MaxInventory, \* how often the reported inventory changes
    MaxCommits,   \* how often the repository's head moves
    MaxRuns,      \* how many validation runs are previewed
    MaxPreviews,  \* how many publication previews are made
    MaxCrashes    \* how often the API process dies

VARIABLES
    plan,      \* the PackageActionPlan rows: key -> [state, expired]
    call,      \* the apply in progress: its plan, request and step, and what the
               \* inventory and the head were when it began
    jobs,      \* the jobs queued for a plan: <<key, request>>
    inventory, \* the version of the inventory the nodes report
    head,      \* the repository's head
    run,       \* the PackageValidationRun rows
    latest,    \* the run that was updated last
    ops,       \* per run, what became of its agent operations
    previews,  \* the publication previews the API process remembers
    known,     \* the previews the API process remembers having published
    published, \* the previews whose release was published
    count      \* previews made and crashes so far

vars == <<plan, call, jobs, inventory, head, run, latest, ops, previews, known, published, count>>

\* The rows and their fields.
Key == (Kinds \X (0 .. MaxInventory))
       \cup ({"validate"} \X (1 .. MaxRuns) \X (0 .. MaxCommits))
       \cup ({"promote"} \X (1 .. MaxPreviews) \X (0 .. MaxCommits))
PlanRow == [state : {"absent", "planned", "applying", "applied", "failed"}, expired : BOOLEAN]
RunRow == [state : {"none", "planned", "running", "passed", "failed", "retryable"},
           progress : {"counts", "linked"}]
Runs == 1 .. MaxRuns

Now == [inventory |-> inventory, head |-> head]
Idle == [key |-> <<>>, request |-> "none", step |-> "idle", since |-> [inventory |-> 0, head |-> 0]]

Init ==
    /\ plan = [k \in Key |-> [state |-> "absent", expired |-> FALSE]]
    /\ call = Idle
    /\ jobs = {}
    /\ inventory = 0
    /\ head = 0
    /\ run = [i \in Runs |-> [state |-> "none", progress |-> "counts"]]
    /\ latest = 0
    /\ ops = [i \in Runs |-> "none"]
    /\ previews = {}
    /\ known = {}
    /\ published = {}
    /\ count = [previews |-> 0, crashes |-> 0]

(***************************************************************************)
(* The plans.                                                              *)
(***************************************************************************)

\* create_action_plan: a digest that is already stored is left as it is.
Created(k) == [plan EXCEPT ![k] = IF @.state = "absent" THEN [state |-> "planned", expired |-> FALSE] ELSE @]

\* consume_action_plan: a plan that is planned, or that an earlier apply has
\* left behind.  An applied plan is replayed, an expired or failed one refused,
\* and both leave everything as it is.
Consumable(k) == ~plan[k].expired /\ plan[k].state \in {"planned", "applying"}

\* finish_action_plan.
Finished(k, state) == [plan EXCEPT ![k].state = state]

\* The preview's fifteen minutes pass.
Expire(k) ==
    /\ plan[k].state # "absent" /\ ~plan[k].expired
    /\ plan' = [plan EXCEPT ![k].expired = TRUE]
    /\ UNCHANGED <<call, jobs, inventory, head, run, latest, ops, previews, known, published, count>>

\* An apply begins: it fences the plan before it looks at anything else.
Apply(k, r) ==
    /\ call = Idle
    /\ Consumable(k)
    /\ plan' = [plan EXCEPT ![k].state = "applying"]
    /\ call' = [key |-> k, request |-> r, step |-> "consumed", since |-> Now]
    /\ UNCHANGED <<jobs, inventory, head, run, latest, ops, previews, known, published, count>>

At(actions, step) == call.step = step /\ call.key[1] \in actions
Go(step) == call' = [call EXCEPT !.step = step]

\* An apply raises: the caller sees the error, the plan stays "applying".
Raise == call' = Idle /\ UNCHANGED plan

(***************************************************************************)
(* Repair, remove and gc.                                                  *)
(***************************************************************************)

\* repair_preview, removal_preview and gc_preview.
PreviewDispatch(kind) ==
    /\ plan' = Created(<<kind, inventory>>)
    /\ UNCHANGED <<call, jobs, inventory, head, run, latest, ops, previews, known, published, count>>

\* The nodes report another inventory.
Report ==
    /\ inventory < MaxInventory
    /\ inventory' = inventory + 1
    /\ UNCHANGED <<plan, call, jobs, head, run, latest, ops, previews, known, published, count>>

\* A faulty variant: the preview is not made again before the operations go out.
Stale_Faulty == FALSE

\* repair and remove preview again and compare the digests; gc does not look.
Stale == call.key[1] # "gc" /\ call.key[2] # inventory

\* The comparison, which stores the new preview.  A removal that went stale
\* fails its plan, a repair raises.
Compare ==
    /\ At(Kinds, "consumed")
    /\ plan' = IF call.key[1] = "gc" THEN plan
               ELSE [Created(<<call.key[1], inventory>>) EXCEPT
                         ![call.key].state = IF Stale /\ call.key[1] = "remove" THEN "failed" ELSE @]
    /\ IF Stale THEN call' = Idle ELSE Go("compared")
    /\ UNCHANGED <<jobs, inventory, head, run, latest, ops, previews, known, published, count>>

\* _queue_package_operations, a transaction of its own: one job per request
\* identifier, which is unique among the jobs.
Queue ==
    /\ At(Kinds, "compared")
    /\ IF \E j \in jobs : j[2] = call.request
       THEN Raise /\ UNCHANGED jobs
       ELSE /\ jobs' = jobs \cup {<<call.key, call.request>>}
            /\ Go("done")
            /\ UNCHANGED plan
    /\ UNCHANGED <<inventory, head, run, latest, ops, previews, known, published, count>>

(***************************************************************************)
(* Validation.                                                             *)
(***************************************************************************)

\* validation_preview: the run updated last is used again unless it has failed.
PreviewValidate ==
    \E i \in Runs :
        /\ IF latest # 0 /\ run[latest].state # "failed"
           THEN i = latest /\ UNCHANGED <<run, latest>>
           ELSE /\ run[i].state = "none" /\ \A j \in Runs : j < i => run[j].state # "none"
                /\ run' = [run EXCEPT ![i] = [state |-> "planned", progress |-> "counts"]]
                /\ latest' = i
        /\ plan' = Created(<<"validate", i, head>>)
        /\ UNCHANGED <<call, jobs, inventory, head, ops, previews, known, published, count>>

\* A write to a run row.
Update(i, state, progress) ==
    /\ run' = [run EXCEPT ![i] = [state |-> state, progress |-> progress]]
    /\ latest' = i

\* validate, first: the head is compared with the preview's,
CompareRun ==
    /\ At({"validate"}, "consumed")
    /\ IF call.key[3] # head THEN Raise ELSE Go("compared") /\ UNCHANGED plan
    /\ UNCHANGED <<jobs, inventory, head, run, latest, ops, previews, known, published, count>>

\* then the run is marked running and its progress reset.
StartRun ==
    /\ At({"validate"}, "compared")
    /\ Update(call.key[2], "running", "counts")
    /\ Go("started")
    /\ UNCHANGED <<plan, jobs, inventory, head, ops, previews, known, published, count>>

\* PackageValidationRunner.__call__: a job under the run's own identifier, the
\* operations, and the run linked to them.  A second job of the same run breaks
\* the identifier's uniqueness, which validate does not catch.
StageRun ==
    /\ At({"validate"}, "started")
    /\ LET i == call.key[2]
       IN  IF ops[i] # "none"
           THEN Raise /\ UNCHANGED <<run, latest, ops>>
           ELSE /\ ops' = [ops EXCEPT ![i] = "queued"]
                /\ Update(i, run[i].state, "linked")
                /\ Go("staged")
                /\ UNCHANGED plan
    /\ UNCHANGED <<jobs, inventory, head, previews, known, published, count>>

\* The runner's failure to stage is answered by a retryable run.
StageFails ==
    /\ At({"validate"}, "started")
    /\ Update(call.key[2], "retryable", "counts")
    /\ Go("done")
    /\ UNCHANGED <<plan, jobs, inventory, head, ops, previews, known, published, count>>

\* validate, last: the runner's answer "running" is recorded over whatever the
\* run has become, with a progress that names no operations.
RecordRun ==
    /\ At({"validate"}, "staged")
    /\ Update(call.key[2], "running", "counts")
    /\ Go("done")
    /\ UNCHANGED <<plan, jobs, inventory, head, ops, previews, known, published, count>>

\* The agents finish prepare and health: with the evidence the policy requires,
\* without it, or not at all.
FinishOperations(i) ==
    /\ ops[i] = "queued"
    /\ \E result \in {"complete", "incomplete", "failed", "retry"} :
           ops' = [ops EXCEPT ![i] = result]
    /\ UNCHANGED <<plan, call, jobs, inventory, head, run, latest, previews, known, published, count>>

\* What tick makes of the operations' results.
Projected(result) == CASE result = "complete" -> "passed"
                       [] result \in {"incomplete", "failed"} -> "failed"
                       [] result = "retry" -> "retryable"

\* PackageValidationRunner.tick: a running run that names its operations.
TickRun(i) ==
    /\ run[i].state = "running" /\ run[i].progress = "linked"
    /\ ops[i] \notin {"none", "queued"}
    /\ Update(i, Projected(ops[i]), "linked")
    /\ UNCHANGED <<plan, call, jobs, inventory, head, ops, previews, known, published, count>>

(***************************************************************************)
(* Publication.                                                            *)
(***************************************************************************)

\* publication_candidate offers a validation only if the run has passed.
Validated == \E i \in Runs : run[i].state = "passed"

\* promotion_preview: the preview is kept in the process, its digest covers its
\* expiry, so every preview is a new one.
PreviewPromote ==
    /\ Validated
    /\ count.previews < MaxPreviews
    /\ count' = [count EXCEPT !.previews = @ + 1]
    /\ previews' = previews \cup {count'.previews}
    /\ plan' = Created(<<"promote", count'.previews, head>>)
    /\ UNCHANGED <<call, jobs, inventory, head, run, latest, ops, known, published>>

\* promote: the head is the preview's, and the process still has the preview.
\* A preview it has published is answered from memory.
CompareHead ==
    /\ At({"promote"}, "consumed")
    /\ IF call.key[3] # head \/ call.key[2] \notin previews
       THEN Raise
       ELSE Go(IF call.key[2] \in known THEN "done" ELSE "compared") /\ UNCHANGED plan
    /\ UNCHANGED <<jobs, inventory, head, run, latest, ops, previews, known, published, count>>

\* then the candidate's validation and evidence are read again,
CheckValidation ==
    /\ At({"promote"}, "compared")
    /\ IF Validated THEN Go("checked") /\ UNCHANGED plan ELSE Raise
    /\ UNCHANGED <<jobs, inventory, head, run, latest, ops, previews, known, published, count>>

\* and the publisher is called, whose answer is remembered.
Promote ==
    /\ At({"promote"}, "checked")
    /\ known' = known \cup {call.key[2]}
    /\ published' = published \cup {call.key[2]}
    /\ Go("done")
    /\ UNCHANGED <<plan, jobs, inventory, head, run, latest, ops, previews, count>>

\* The publisher refuses.
PromoteFails ==
    /\ At({"promote"}, "checked")
    /\ Raise
    /\ UNCHANGED <<jobs, inventory, head, run, latest, ops, previews, known, published, count>>

(***************************************************************************)
(* What every apply ends with, and the environment.                        *)
(***************************************************************************)

\* The last transaction of an apply.
Finish ==
    /\ call.step = "done"
    /\ plan' = Finished(call.key, "applied")
    /\ call' = Idle
    /\ UNCHANGED <<jobs, inventory, head, run, latest, ops, previews, known, published, count>>

\* The repository's head moves.
Commit ==
    /\ head < MaxCommits
    /\ head' = head + 1
    /\ UNCHANGED <<plan, call, jobs, inventory, run, latest, ops, previews, known, published, count>>

\* The API process dies and starts again: its memory is gone.
Crash ==
    /\ count.crashes < MaxCrashes
    /\ count' = [count EXCEPT !.crashes = @ + 1]
    /\ call' = Idle
    /\ previews' = {}
    /\ known' = {}
    /\ UNCHANGED <<plan, jobs, inventory, head, run, latest, ops, published>>

Next ==
    \/ \E k \in Key : Expire(k) \/ \E r \in Requests : Apply(k, r)
    \/ \E kind \in Kinds : PreviewDispatch(kind)
    \/ Report
    \/ Compare
    \/ Queue
    \/ PreviewValidate
    \/ CompareRun
    \/ StartRun
    \/ StageRun
    \/ StageFails
    \/ RecordRun
    \/ \E i \in Runs : FinishOperations(i) \/ TickRun(i)
    \/ PreviewPromote
    \/ CompareHead
    \/ CheckValidation
    \/ Promote
    \/ PromoteFails
    \/ Finish
    \/ Commit
    \/ Crash

(***************************************************************************)
(* Properties.                                                             *)
(***************************************************************************)

\* The types of the rows.
TypeOK ==
    /\ plan \in [Key -> PlanRow]
    /\ run \in [Runs -> RunRow]
    /\ ops \in [Runs -> {"none", "queued", "complete", "incomplete", "failed", "retry"}]
    /\ jobs \subseteq Key \X Requests
    /\ call.step \in {"idle", "consumed", "compared", "started", "staged", "checked", "done"}
    /\ known \subseteq published /\ known \subseteq previews

\* One plan sends its operations to the nodes once, however often it is applied
\* and whoever applies it: a second job needs a crash of the API process
\* between the job and the plan's last transaction, and another request
\* identifier.
QueuedOnce ==
    \A k \in Key : Cardinality({j \in jobs : j[1] = k}) <= 1 + count.crashes

\* A repair or removal goes out only if the inventory the operator saw in its
\* preview was still the reported one after the apply began: a report that came
\* before the apply is never overlooked, although one that comes between the
\* comparison and the job is.  A plan that has failed sends nothing more.
QueuedAsPreviewed ==
    [][\A j \in jobs' \ jobs :
           /\ j[1][1] = "gc" \/ j[1][2] >= call.since.inventory
           /\ plan[j[1]].state = "applying"]_vars

\* A validation run passes only on the agents' complete evidence for that very
\* run: PackageValidationRunner.tick.
PassedOnEvidence == \A i \in Runs : run[i].state = "passed" => ops[i] = "complete"

\* A release goes to the publisher only while a validation run of it stands as
\* passed, and only if the head was the preview's when the apply began, although
\* both may change between the preview and its promotion, and the head also
\* between its comparison and the publication.
PublishedValidated ==
    [][published' # published => Validated /\ call.key[3] = call.since.head]_vars

=============================================================================
