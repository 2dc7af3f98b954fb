--------------------------- MODULE MCLegacyRunner ---------------------------
(* An ephemeral and a static runner with a failed call, and an ephemeral one   *)
(* with a cache that lags behind; each with a crash or a deletion by a user.   *)
EXTENDS LegacyRunner

MCInit == Init /\ (ephemeral \/ ~lag)
MCNext == Next /\ (lag => faults' = 0)
MCSpec == MCInit /\ [][MCNext]_vars /\ Fairness
=============================================================================
