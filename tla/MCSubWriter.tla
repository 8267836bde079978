----------------------------- MODULE MCSubWriter -----------------------------
(* Finite instances of SubWriter for TLC.                                  *)
EXTENDS SubWriter, TLC

CONSTANTS r1, r2, m1, first, second

\* One message that is delivered twice: two goroutines of one relayer, which
\* encode its call for two runtimes when an upgrade comes in between.
NonceTasks == {<<r1, m1, first>>, <<r1, m1, second>>}

\* One message for both relayers.
VoteTasks == {<<r1, m1, first>>, <<r2, m1, first>>}

\* The two deliveries differ in nothing; only for the run without liveness.
DeliverySymmetry == Permutations(Deliveries)
=============================================================================
