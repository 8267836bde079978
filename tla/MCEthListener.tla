---------------------------- MODULE MCEthListener ----------------------------
(* Finite instances of EthListener for TLC.                                *)
EXTENDS EthListener

CONSTANTS d1, d2, d3, d4, d5

\* A deposit whose calldata is too short, a log that does not decode, a resource
\* whose handler is not configured, and two that are fine.
MCHandler ==
    LET all == (d1 :> "generic") @@ (d2 :> "erc721") @@ (d3 :> "short")
               @@ (d4 :> "undecodable") @@ (d5 :> "unrecognised")
    IN  [d \in Deposits |-> all[d]]

\* The three handlers, and a resource whose handler is not configured.
MCThreeHandlers == (d1 :> "erc20") @@ (d2 :> "generic") @@ (d3 :> "erc721")
                   @@ (d4 :> "unrecognised")
=============================================================================
