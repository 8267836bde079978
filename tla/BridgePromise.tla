---------------------------- MODULE BridgePromise ----------------------------
(***************************************************************************)
(* What the relayers together promise, without saying how: a deposit takes *)
(* effect on the destination chain only after it can no longer be reverted *)
(* on the source chain and a quorum of relayers has attested it with the   *)
(* very data that takes effect; and it takes effect at most once, when the *)
(* quorum is a majority.                                                   *)
(***************************************************************************)
EXTENDS Integers, FiniteSets

CONSTANTS Relayers, Messages, Hashes, Threshold,
          Data  \* [Relayers -> [Messages -> Hashes]]: what r computes for m

VARIABLES settled,   \* the deposits that can no longer be reverted
          attested,  \* the <<relayer, deposit>> a relayer has taken up
          effects    \* the <<deposit, data>> that have taken effect

vars == <<settled, attested, effects>>

Init == settled = {} /\ attested = {} /\ effects = {}

\* More of the source chain becomes irreversible.
Settle ==
    /\ settled \subseteq settled'
    /\ settled' \subseteq Messages
    /\ UNCHANGED <<attested, effects>>

Attest(r, m) ==
    /\ m \in settled
    /\ attested' = attested \cup {<<r, m>>}
    /\ UNCHANGED <<settled, effects>>

Supporters(m, h) == {r \in Relayers : <<r, m>> \in attested /\ Data[r][m] = h}

Effect(m, h) ==
    /\ Cardinality(Supporters(m, h)) >= Threshold
    /\ 2 * Threshold > Cardinality(Relayers) => \A k \in Hashes : <<m, k>> \notin effects
    /\ effects' = effects \cup {<<m, h>>}
    /\ UNCHANGED <<settled, attested>>

Next ==
    \/ Settle
    \/ \E r \in Relayers, m \in Messages : Attest(r, m)
    \/ \E m \in Messages, h \in Hashes : Effect(m, h)

Spec == Init /\ [][Next]_vars
=============================================================================
