----------------------------- MODULE MCDelivery -----------------------------
(***************************************************************************)
(* The delivery of operations to the Rust agent, with the attempts and the *)
(* credentials of the Python agent: three instances in one run. A          *)
(* behaviour is about one of them, `sel', and leaves the variables of the  *)
(* others as they were.                                                    *)
(***************************************************************************)
EXTENDS AgentDelivery

CONSTANTS n1, ja

\* One node with two recipe operations of one job.
MCNodeOf == <<n1, n1>>
MCParentOf == <<ja, ja>>
MCCapabilities == {Operations}

VARIABLES
  attempts_now, attempts_kind, attempts_job, attempts_row, attempts_main,
  attempts_beat, attempts_effect, attempts_history, attempts_faults,
  credentials_agent, credentials_disk, credentials_ctrl, credentials_pc,
  credentials_todo, credentials_issued, credentials_boots,
  credentials_crashes,
  sel   \* the component this behaviour is about

attemptsVars == <<attempts_now, attempts_kind, attempts_job, attempts_row,
                  attempts_main, attempts_beat, attempts_effect,
                  attempts_history, attempts_faults>>
credentialsVars == <<credentials_agent, credentials_disk, credentials_ctrl,
                     credentials_pc, credentials_todo, credentials_issued,
                     credentials_boots, credentials_crashes>>

Node == INSTANCE NodeAttempts WITH
  Kinds <- {"probe", "update", "workload", "package"}, MaxTime <- 4,
  Lease <- 2, Attempts <- 2, MaxFaults <- 2, now <- attempts_now,
  kind <- attempts_kind, job <- attempts_job, row <- attempts_row,
  main <- attempts_main, beat <- attempts_beat, effect <- attempts_effect,
  history <- attempts_history, faults <- attempts_faults

Identity == INSTANCE NodeCredentials WITH
  Agents <- {"python", "rust"}, MaxGen <- 3, MaxCrashes <- 2,
  agent <- credentials_agent, disk <- credentials_disk,
  ctrl <- credentials_ctrl, pc <- credentials_pc, todo <- credentials_todo,
  issued <- credentials_issued, boots <- credentials_boots,
  crashes <- credentials_crashes

MCInit ==
  /\ sel \in {"delivery", "attempts", "credentials"}
  /\ DeliveryInit
  /\ Node!Init
  /\ sel # "attempts" => attempts_kind = "probe"
  /\ Identity!Init
  /\ sel # "credentials" => credentials_agent = "rust"

MCNext ==
  \/ sel = "delivery" /\ DeliveryNext
       /\ UNCHANGED <<attemptsVars, credentialsVars, sel>>
  \/ sel = "attempts" /\ Node!Next
       /\ UNCHANGED <<allVars, credentialsVars, sel>>
  \/ sel = "credentials" /\ Identity!Next
       /\ UNCHANGED <<allVars, attemptsVars, sel>>

\* The fairness of AgentDelivery, in the behaviours that are about it.
MainFair ==
  /\ WF_allVars(sel = "delivery" /\ Boot)
  /\ WF_allVars(sel = "delivery" /\ Begin)
  /\ WF_allVars(sel = "delivery" /\ (\E result \in HandlerResults : Execute(result)))
  /\ SF_allVars(sel = "delivery" /\ (\E o \in Operations : Resubmit(o)))
  /\ SF_allVars(sel = "delivery" /\ (\E r \in reports : Answered(r)))
  /\ SF_allVars(sel = "delivery" /\ (\E n \in Nodes, o \in Operations, lease \in Leases : Poll(n, o, lease)))
  /\ WF_allVars(sel = "delivery" /\ (Tick /\ UNCHANGED agentVars))

\* The fairness of NodeAttempts, in the behaviours that are about it.
NodeFair ==
  /\ WF_attemptsVars(sel = "attempts" /\ Node!Main)
  /\ WF_attemptsVars(sel = "attempts" /\ Node!Heartbeat)
  /\ WF_attemptsVars(sel = "attempts" /\ Node!Tick)
  /\ WF_attemptsVars(sel = "attempts" /\ Node!Expire)

\* The fairness of NodeCredentials, in the behaviours that are about it.
IdentityFair ==
  /\ WF_credentialsVars(sel = "credentials" /\ Identity!Step)
  /\ WF_credentialsVars(sel = "credentials" /\ Identity!Approve)
  /\ SF_credentialsVars(sel = "credentials" /\ (Identity!Activate /\ credentials_pc' = "write"))
  /\ SF_credentialsVars(sel = "credentials" /\ (Identity!Renew /\ credentials_pc' = "stage"))

all == <<allVars, attemptsVars, credentialsVars, sel>>

MCSpec == MCInit /\ [][MCNext]_all

-----------------------------------------------------------------------------
\* A result that the agent has stored leaves its journal in the end, and a
\* mutation whose lease has run out is surfaced to the operator by the polls
\* of its node, unless the node is retired or the operation is held back
\* again and again.
ResultsSurface ==
  /\ sel = "delivery" /\ MainFair => ResultsDrain
  /\ sel = "delivery" /\ MainFair => ExpirySurfaces

\* The Python agent completes an operation once, reports success only of what
\* was done, loses no result, and sends heartbeats only for the attempt it
\* runs; whatever its two threads write, the record of an attempt moves
\* forward, and every attempt is resolved in the end.
AttemptsResolve ==
  /\ [](sel = "attempts" =>
          /\ Node!TypeOK
          /\ Node!CompletedOnce
          /\ Node!SuccessIsReal
          /\ Node!NoResultLost
          /\ Node!HeartbeatBounded)
  /\ Node!RecordsForward
  /\ sel = "attempts" /\ NodeFair => Node!Resolves

\* Wherever the agent dies while it enrols or rotates, it can open its store
\* again with a credential that the control plane accepts, no key of an
\* issued certificate is lost, one credential is active, and enrolment and
\* rotation end unless they are in one of the named wedges.
CredentialsSurvive ==
  /\ [](sel = "credentials" =>
          /\ Identity!TypeOK
          /\ Identity!NeverLockedOut
          /\ Identity!KeyKept
          /\ Identity!Reopens
          /\ Identity!OneActive)
  /\ sel = "credentials" /\ IdentityFair => Identity!Rotates
  /\ sel = "credentials" /\ IdentityFair => Identity!Enrolls
=============================================================================
