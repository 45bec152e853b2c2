------------------------------- MODULE MCHost -------------------------------
(***************************************************************************)
(* The authority of the worker that publishes routes, with the upgrades of *)
(* the control host. A behaviour is about one of them, `sel', and leaves   *)
(* the variables of the other as they were.                                *)
(***************************************************************************)
EXTENDS WorkerAuthority, Sequences

\* Two plans of the same commit, the second accepted on newer evidence; two routes.
MCCommit == [r1 |-> 0, r2 |-> 0]
MCEvidence == [r1 |-> 0, r2 |-> 1]

VARIABLES
  upgrade_proc, upgrade_plan, upgrade_op, upgrade_journal, upgrade_file,
  upgrade_h, upgrade_tuf, upgrade_left,
  sel   \* the component this behaviour is about

upgradeVars == <<upgrade_proc, upgrade_plan, upgrade_op, upgrade_journal,
                 upgrade_file, upgrade_h, upgrade_tuf, upgrade_left>>

Upgrade == INSTANCE HostUpgrade WITH
  Generations <- {"g0", "g1", "g2"},
  Revision <- [g0 |-> "r0", g1 |-> "r1", g2 |-> "r2"],
  Authorizes <- [g0 |-> {}, g1 |-> {"g0"}, g2 |-> {"g1"}],
  Base <- [gen |-> "g1", prev |-> "g0"], Hosts <- {"fresh", "installed"},
  MaxOperations <- 2, MaxCrashes <- 1, MaxFailures <- 2,
  MaxPublications <- 1, proc <- upgrade_proc, plan <- upgrade_plan,
  op <- upgrade_op, journal <- upgrade_journal, file <- upgrade_file,
  h <- upgrade_h, tuf <- upgrade_tuf, left <- upgrade_left

MCInit ==
  /\ sel \in {"authority", "upgrade"}
  /\ Init
  /\ sel # "authority" => barred = {}
  /\ Upgrade!Init
  /\ sel # "upgrade" => upgrade_h = Upgrade!FreshHost

MCNext ==
  \/ sel = "authority" /\ Next
       /\ UNCHANGED <<upgradeVars, sel>>
  \/ sel = "upgrade" /\ Upgrade!Next
       /\ UNCHANGED <<vars, sel>>

\* The fairness of WorkerAuthority, in the behaviours that are about it.
MainFair ==
  /\ \A p \in Plans : SF_vars(sel = "authority" /\ (Next /\ PrepareAuthority(p)))
  /\ WF_vars(sel = "authority" /\ (Next /\ (Receive \/ Unavailable)))
  /\ WF_vars(sel = "authority" /\ (Next /\ (Publish \/ AuthorityLost)))

\* The fairness of HostUpgrade, in the behaviours that are about it.
UpgradeFair ==
  /\ WF_upgradeVars(sel = "upgrade" /\ Upgrade!JournalCreated)
  /\ WF_upgradeVars(sel = "upgrade" /\ Upgrade!Observe)
  /\ WF_upgradeVars(sel = "upgrade" /\ (Upgrade!Effect \/ Upgrade!Refuse \/ (Upgrade!Fail /\ Upgrade!Doomed(Head(upgrade_proc.todo)))))
  /\ WF_upgradeVars(sel = "upgrade" /\ Upgrade!Recover)
  /\ WF_upgradeVars(sel = "upgrade" /\ Upgrade!CandidateComesUp)
  /\ WF_upgradeVars(sel = "upgrade" /\ Upgrade!ServicesComeUp)

all == <<vars, upgradeVars, sel>>

MCSpec == MCInit /\ [][MCNext]_all

-----------------------------------------------------------------------------
\* The Hermes deployments that go out with a set of routes were decided for
\* exactly these routes at exactly this address, and a plan that has lost its
\* authority for good does not stay published.
AuthorityFollowed ==
  /\ [](TypeOK /\ DeploymentsMatchRoutes)
  /\ sel = "authority" /\ MainFair => LostAuthorityComesDown

\* However an upgrade of the control host is cut off, projection and pointer
\* agree or the intent says which wins, services run only against the
\* database of their own revision, the database is migrated only with a
\* backup to come back from, a terminal phase tells the truth, and an
\* operator who keeps recovering gets to one or to a named dead end.
UpgradeRecoverable ==
  /\ [](sel = "upgrade" =>
          /\ Upgrade!TypeOK
          /\ Upgrade!SelectionRecoverable
          /\ Upgrade!RunningServicesFit
          /\ Upgrade!MigratedOnlyWithBackup
          /\ Upgrade!TerminalIsExact)
  /\ sel = "upgrade" /\ UpgradeFair => Upgrade!RecoveryEndsOrStrands

\* What the design says of upgrades and rollbacks (UndisturbedEnds).
UpgradesComplete == sel = "upgrade" => Upgrade!UndisturbedEnds
=============================================================================
