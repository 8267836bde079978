----------------------------- MODULE SourceChain -----------------------------
(***************************************************************************)
(* The chain a listener reads: a sequence of blocks, each the sequence of  *)
(* Deposit events the bridge contract emitted in it, as FilterLogs would   *)
(* return them.  The contract and the node are not in the repository; this *)
(* is what chains/ethereum/listener.go relies on.                          *)
(*                                                                         *)
(* A block is appended by Mine and taken back by Reorg.  A reorganisation  *)
(* never reaches deeper than MaxReorg blocks below the highest head there  *)
(* has been: final is the height of the last block that is safe from it.   *)
(***************************************************************************)
EXTENDS Integers, SequencesExt

CONSTANTS Deposits,   \* the deposits users may make, each mined at most once
          MaxHeight,  \* bound: the longest chain explored
          MaxLogs,    \* bound: the most deposits in one block
          MaxReorg    \* how deep a reorganisation may reach

ASSUME SourceChainAssumption ==
    /\ MaxHeight \in Nat
    /\ MaxLogs \in Nat
    /\ MaxReorg \in Nat

VARIABLES chain,  \* chain[h] is the sequence of deposits in block h
          final   \* blocks 1..final are never reverted

chainVars == <<chain, final>>

Height == Len(chain)

\* FilterLogs over one block: nothing for genesis or a block not mined yet.
Logs(h) == IF h \in DOMAIN chain THEN chain[h] ELSE << >>

Mined == {d \in Deposits : \E h \in DOMAIN chain :
                              \E i \in DOMAIN chain[h] : chain[h][i] = d}

NewBlocks == {b \in BoundedSeq(Deposits \ Mined, MaxLogs) : IsInjective(b)}

ChainInit == chain = << >> /\ final = 0

Mine ==
    /\ Height < MaxHeight
    /\ \E b \in NewBlocks : chain' = Append(chain, b)
    /\ final' = IF Height + 1 - MaxReorg > final
                THEN Height + 1 - MaxReorg ELSE final

Reorg ==
    /\ \E h \in final .. Height - 1 : chain' = SubSeq(chain, 1, h)
    /\ UNCHANGED final

ChainNext == Mine \/ Reorg
=============================================================================
