------------------------------- MODULE MCRelay -------------------------------
(* Finite instances of Relay for TLC.                                      *)
EXTENDS Relay, TLC

CONSTANTS d1, d2, r1, r2, h1

\* The calldata of d2 is too short: a block with d1 before d2 fails after d1 was
\* sent, and is read again.
MCHandler == [d \in Deposits |-> IF d = d1 THEN "erc721" ELSE "short"]

AgreeingData == [r \in Relayers |-> [d \in Deposits |-> h1]]

MCTasks ==
    ({Self} \X Routed \X (1 .. BlockRetryLimit))
        \cup ((Relayers \ {Self}) \X Routed \X {1})
=============================================================================
