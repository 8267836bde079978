-------------------------- MODULE SourceChainProofs --------------------------
(***************************************************************************)
(* What a listener's proofs need to know of its chain: blocks up to final  *)
(* stay what they are, final only grows, and an event is mined at most     *)
(* once.  Only facts about the steps Mine and Reorg are stated here; the   *)
(* listeners' invariants carry ChainTypeOK and UniqueInv.                  *)
(***************************************************************************)
EXTENDS SourceChain, SequenceTheorems, TLAPS

ChainTypeOK ==
    /\ chain \in Seq(Seq(Deposits))
    /\ final \in Nat

\* An event is in one place of the chain.
UniqueInv ==
    \A g, h \in Nat : \A i \in DOMAIN Logs(g), j \in DOMAIN Logs(h) :
        Logs(g)[i] = Logs(h)[j] => g = h /\ i = j
-----------------------------------------------------------------------------
(* Logs of a block below final are deposits, and stay what they are.       *)

LEMMA LogsType ==
    ASSUME ChainTypeOK, NEW h \in Nat
    PROVE  Logs(h) \in Seq(Deposits)
  BY DEF ChainTypeOK, Logs

LEMMA LogsDomain ==
    ASSUME ChainTypeOK, NEW h \in Nat, NEW i \in DOMAIN Logs(h)
    PROVE  h \in 1 .. Height
  <1>1. DOMAIN chain = 1 .. Height
    BY LenProperties DEF ChainTypeOK, Height
  <1>2. h \in DOMAIN chain
    BY DEF Logs
  <1> QED BY <1>1, <1>2

LEMMA MineStable ==
    ASSUME SourceChainAssumption, ChainTypeOK, final <= Height, Mine
    PROVE  /\ chain' \in Seq(Seq(Deposits))
           /\ final' \in Nat
           /\ final <= final'
           /\ final' <= Height'
           /\ Height' - MaxReorg <= final'
           /\ \A h \in Nat : h <= final => Logs(h)' = Logs(h)
  <1>1. PICK b \in NewBlocks : chain' = Append(chain, b)
    BY DEF Mine
  <1>2. b \in Seq(Deposits)
    BY DEF NewBlocks, BoundedSeq, SeqOf
  <1>3. /\ chain' \in Seq(Seq(Deposits))
        /\ Len(chain') = Len(chain) + 1
        /\ \A h \in 1 .. Len(chain) : chain'[h] = chain[h]
    BY <1>1, <1>2, AppendProperties DEF ChainTypeOK
  <1>4. /\ DOMAIN chain = 1 .. Len(chain)
        /\ DOMAIN chain' = 1 .. Len(chain')
        /\ Len(chain) \in Nat
    BY <1>3, LenProperties DEF ChainTypeOK
  <1>5. /\ final' \in Nat
        /\ final <= final'
        /\ final' <= Height'
        /\ Height' - MaxReorg <= final'
    BY <1>3, <1>4 DEF Mine, SourceChainAssumption, ChainTypeOK, Height
  <1>6. ASSUME NEW h \in Nat, h <= final PROVE Logs(h)' = Logs(h)
    <2>1. h <= Len(chain)
      BY <1>4, <1>6 DEF Height, ChainTypeOK
    <2>2. h \in DOMAIN chain <=> h \in DOMAIN chain'
      BY <1>3, <1>4, <2>1
    <2>3. h \in DOMAIN chain => chain'[h] = chain[h]
      BY <1>3, <1>4
    <2> QED BY <2>2, <2>3 DEF Logs
  <1> QED BY <1>3, <1>5, <1>6

LEMMA ReorgStable ==
    ASSUME SourceChainAssumption, ChainTypeOK, final <= Height, Height - MaxReorg <= final, Reorg
    PROVE  /\ chain' \in Seq(Seq(Deposits))
           /\ final' = final
           /\ final <= Height'
           /\ Height' - MaxReorg <= final
           /\ \A h \in Nat : h <= final => Logs(h)' = Logs(h)
  <1>1. PICK k \in final .. Height - 1 : chain' = SubSeq(chain, 1, k)
    BY DEF Reorg
  <1>2. Len(chain) \in Nat /\ DOMAIN chain = 1 .. Len(chain)
    BY LenProperties DEF ChainTypeOK
  <1>3. k \in Nat /\ k <= Len(chain)
    BY <1>1, <1>2 DEF ChainTypeOK, Height
  <1>4. /\ chain' \in Seq(Seq(Deposits))
        /\ Len(chain') = k
        /\ \A h \in 1 .. k : chain'[h] = chain[h]
    BY <1>1, <1>2, <1>3, SubSeqProperties DEF ChainTypeOK
  <1>5. DOMAIN chain' = 1 .. k
    BY <1>4, LenProperties
  <1>6. \A h \in Nat : h <= final => Logs(h)' = Logs(h)
    BY <1>1, <1>2, <1>3, <1>4, <1>5 DEF Logs, ChainTypeOK
  <1>7. final' = final /\ final <= Height' /\ Height' - MaxReorg <= final
    BY <1>1, <1>2, <1>3, <1>4 DEF Reorg, Height, ChainTypeOK, SourceChainAssumption
  <1> QED BY <1>4, <1>6, <1>7

LEMMA LogType ==
    ASSUME ChainTypeOK, NEW h \in Nat, NEW i \in DOMAIN Logs(h)
    PROVE  i \in Nat /\ Logs(h)[i] \in Deposits
  <1>1. Logs(h) \in Seq(Deposits)
    BY LogsType
  <1>2. i \in 1 .. Len(Logs(h)) /\ Len(Logs(h)) \in Nat
    BY <1>1, LenProperties
  <1> QED BY <1>1, <1>2, ElementOfSeq

-----------------------------------------------------------------------------
(* Neither step puts an event in two places.                               *)

LEMMA MineUnique ==
    ASSUME ChainTypeOK, UniqueInv, Mine
    PROVE  UniqueInv'
  <1>1. PICK b \in NewBlocks : chain' = Append(chain, b)
    BY DEF Mine
  <1>2. /\ b \in Seq(Deposits \ Mined)
        /\ \A i, j \in DOMAIN b : b[i] = b[j] => i = j
    BY DEF NewBlocks, BoundedSeq, SeqOf, IsInjective
  <1>3. b \in Seq(Deposits) /\ DOMAIN b = 1 .. Len(b)
    BY <1>2, LenProperties DEF NewBlocks, BoundedSeq, SeqOf
  <1>4. /\ Len(chain) \in Nat
        /\ Len(chain') = Len(chain) + 1
        /\ DOMAIN chain = 1 .. Len(chain)
        /\ DOMAIN chain' = 1 .. Len(chain) + 1
        /\ \A h \in 1 .. Len(chain) : chain'[h] = chain[h]
        /\ chain'[Len(chain) + 1] = b
    BY <1>1, <1>3, AppendProperties, LenProperties DEF ChainTypeOK
  <1>5. ASSUME NEW h \in Nat
        PROVE  \/ h \in 1 .. Len(chain) /\ Logs(h)' = Logs(h)
               \/ h = Len(chain) + 1 /\ Logs(h)' = b
               \/ Logs(h)' = << >>
    BY <1>4 DEF Logs
  <1>6. ASSUME NEW i \in DOMAIN b PROVE b[i] \in Deposits \ Mined
    BY <1>2, <1>3, ElementOfSeq
  <1>7. ASSUME NEW h \in 1 .. Len(chain), NEW i \in DOMAIN Logs(h)
        PROVE  Logs(h)[i] \in Mined
    <2>1. Logs(h)[i] \in Deposits
      BY <1>4, LogType
    <2> QED BY <1>4, <1>7, <2>1 DEF Mined, Logs
  <1>8. ASSUME NEW g \in Nat, NEW h \in Nat,
               NEW i \in DOMAIN Logs(g)', NEW j \in DOMAIN Logs(h)',
               Logs(g)'[i] = Logs(h)'[j]
        PROVE  g = h /\ i = j
    <2>1. DOMAIN << >> = {}
      OBVIOUS
    <2>2. CASE Logs(g)' = Logs(g) /\ Logs(h)' = Logs(h)
      BY <1>8, <2>2 DEF UniqueInv
    <2>3. CASE g = Len(chain) + 1 /\ Logs(g)' = b /\ h = Len(chain) + 1 /\ Logs(h)' = b
      BY <1>2, <1>8, <2>3
    <2>4. CASE g \in 1 .. Len(chain) /\ Logs(g)' = Logs(g) /\ Logs(h)' = b
      BY <1>6, <1>7, <1>8, <2>4
    <2>5. CASE h \in 1 .. Len(chain) /\ Logs(h)' = Logs(h) /\ Logs(g)' = b
      BY <1>6, <1>7, <1>8, <2>5
    <2> QED BY <1>5, <1>8, <2>1, <2>2, <2>3, <2>4, <2>5
  <1> QED BY <1>8 DEF UniqueInv

LEMMA ReorgUnique ==
    ASSUME ChainTypeOK, UniqueInv, final <= Height, Reorg
    PROVE  UniqueInv'
  <1>1. PICK k \in final .. Height - 1 : chain' = SubSeq(chain, 1, k)
    BY DEF Reorg
  <1>2. Len(chain) \in Nat /\ DOMAIN chain = 1 .. Len(chain)
    BY LenProperties DEF ChainTypeOK
  <1>3. k \in Nat /\ k <= Len(chain)
    BY <1>1, <1>2 DEF ChainTypeOK, Height
  <1>4. /\ DOMAIN chain' = 1 .. k
        /\ \A h \in 1 .. k : chain'[h] = chain[h]
    BY <1>1, <1>2, <1>3, SubSeqProperties, LenProperties DEF ChainTypeOK
  <1>5. \A h \in Nat : Logs(h)' = Logs(h) \/ Logs(h)' = << >>
    BY <1>2, <1>3, <1>4 DEF Logs
  <1>6. ASSUME NEW h \in Nat, NEW i \in DOMAIN Logs(h)'
        PROVE  Logs(h)' = Logs(h)
    <2>1. DOMAIN << >> = {}
      OBVIOUS
    <2> QED BY <1>5, <1>6, <2>1
  <1> QED BY <1>6 DEF UniqueInv
=============================================================================
