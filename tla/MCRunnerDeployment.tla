------------------------- MODULE MCRunnerDeployment -------------------------
(* A RunnerDeployment and a RunnerSet whose template changes, a deployment that *)
(* is scaled while jobs end, one whose runners may not register in time, and    *)
(* both kinds with a list of owners that lags.                                  *)
EXTENDS RunnerDeployment

Rollout(direct) == [direct |-> direct, ephemeral |-> TRUE, from |-> 2, owners |-> 4,
                    tpl |-> 2, scale |-> 0, late |-> 0, lag |-> 0, time |-> 1]
Scaling(from, owners) == [direct |-> FALSE, ephemeral |-> TRUE, from |-> from, owners |-> owners,
                          tpl |-> 1, scale |-> 1, late |-> 0, lag |-> 0, time |-> 2]
Late == [direct |-> FALSE, ephemeral |-> FALSE, from |-> 1, owners |-> 3,
         tpl |-> 1, scale |-> 0, late |-> 1, lag |-> 0, time |-> 1]
Lagging(direct, tpl) == [direct |-> direct, ephemeral |-> TRUE, from |-> 1, owners |-> 3,
                    tpl |-> tpl, scale |-> 0, late |-> 0, lag |-> 1, time |-> 1]
MCModes == {Rollout(FALSE), Rollout(TRUE), Scaling(0, 3), Scaling(1, 3), Scaling(2, 2), Late,
            Lagging(FALSE, 1), Lagging(TRUE, 2)}
=============================================================================
