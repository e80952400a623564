---------------------------- MODULE MCFullyAsync ----------------------------
(***************************************************************************)
(* The fully asynchronous recipe under the configurations of the runs, one *)
(* of which is chosen in the initial state.                                *)
(***************************************************************************)
EXTENDS FullyAsync

\* Half an update of staleness, with and without partial rollout.
Stale(p) ==
    [total |-> 6, required |-> 2, trigger_step |-> 1, threshold |-> 50, partial |-> p,
     slots |-> 2, pending |-> 1, test_freq |-> 2, save_freq |-> 9, max_restarts |-> 0]

\* The on-policy pipeline with two trainer steps per synchronization.
OnPolicyPipeline(p) ==
    [Stale(p) EXCEPT !.total = 8, !.trigger_step = 2, !.threshold = 0, !.slots = 3, !.pending = 2]

\* One sample per step, a checkpoint per version, two crashes at any moments.
Restarted ==
    [Stale(FALSE) EXCEPT !.total = 5, !.required = 1, !.threshold = 0, !.slots = 1,
                         !.save_freq = 1, !.max_restarts = 2]

MCConfigs == {Stale(TRUE), Stale(FALSE), OnPolicyPipeline(TRUE), OnPolicyPipeline(FALSE), Restarted}

\* A whole update of staleness with partial rollout, and a feeder that never waits.
StarvingConfigs ==
    {[Stale(TRUE) EXCEPT !.total = 8, !.threshold = 100, !.pending = 10, !.save_freq = 1]}
=============================================================================
