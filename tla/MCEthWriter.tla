----------------------------- MODULE MCEthWriter -----------------------------
(* Finite instances of EthWriter for TLC.                                  *)
EXTENDS EthWriter

CONSTANTS r1, r2, r3, m1, m2, h1, h2

MCType == [m \in Messages |-> IF m = m1 THEN "erc20" ELSE "generic"]

AgreeingData == [r \in Relayers |-> [m \in Messages |-> h1]]

\* r3 is configured differently, for instance with other decimals.
DisagreeingData == [r \in Relayers |-> [m \in Messages |-> IF r = r3 THEN h2 ELSE h1]]

\* One message delivered twice to one relayer.
OptsTasks == {<<r1, m2, 1>>, <<r1, m2, 2>>}

QuorumTasks == {<<r1, m1, 1>>, <<r1, m1, 2>>, <<r2, m1, 1>>, <<r3, m1, 1>>}
=============================================================================
