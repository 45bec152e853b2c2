-------------------------- MODULE MCReconciliation --------------------------
EXTENDS Reconciliation

CONSTANTS n1, n2

\* The first reconciliation starts a workload on both nodes; the second installs
\* a release on one of them and probes it.
MCTargets == <<{n1, n2}, {n1}>>

MCRecOf == <<1, 1, 2>>

MCNodeOf == <<n1, n2, n1>>

MCDependsOn == <<{}, {1}, {}>>

-----------------------------------------------------------------------------
\* Whatever the order of ticks, results, lost authority, handoffs and requests
\* to cancel: operations are dispatched only under the lease of their nodes and
\* undone in reverse, only accepted routes are served, the owner of the
\* publication moves forward, a cancelled reconciliation is left alone,
\* unauthorised routes come down and cancellation converges.
PublicationsOwned ==
  /\ [](TypeOK /\ DispatchedUnderLease /\ ServedRoutesAreAccepted /\ UndoneInReverse)
  /\ OwnerMovesForward
  /\ CancelledUntouched
  /\ UnauthorisedRoutesComeDown
  /\ CancellationConverges
=============================================================================
