-------------------------- MODULE SubListenerProofs --------------------------
(***************************************************************************)
(* Type correctness, NoSkip, FinalizedOnly, SentOncePerStart, MetadataFits *)
(* and StoredNeverRegresses of SubListener, for every chain, schedule of   *)
(* runtime upgrades, configuration and number of restarts.                 *)
(*                                                                         *)
(* IInv carries them: the block being read is final, so that neither it    *)
(* nor the blocks below it, on which its runtime depends, can change; what *)
(* lies up to the stored block is done, which is what a restart relies on; *)
(* what this incarnation has sent lies below the block it reads next.      *)
(***************************************************************************)
EXTENDS SubListener, SourceChainProofs, FiniteSetTheorems

InBlock == {"blockHash", "events", "metadata", "store"}

CursorInv ==
    /\ final <= Height
    /\ Height - MaxReorg <= final
    /\ stored <= final
    /\ from <= currentBlock
    /\ currentBlock = from \/ currentBlock - 1 <= final
    /\ pc # "down" /\ ~FreshStart /\ ~LatestBlockFlag => currentBlock >= stored

\* Block h is dealt with: its due transfers were handed to a writer.
Done(h) == \A i \in DOMAIN Logs(h) : Due(Logs(h)[i]) => Logs(h)[i] \in sent

ProcessingInv ==
    /\ pc \in InBlock => currentBlock <= final /\ retry > 0
    /\ pc \in {"events", "metadata", "store"} => events = Logs(currentBlock)
    /\ pc \in {"metadata", "store"} => Done(currentBlock)

StoreInv ==
    ~LatestBlockFlag => /\ from = StartBlock
                        /\ \A h \in from .. stored : Done(h)

DoneInv == \A h \in from .. currentBlock - 1 : Done(h)

\* What this incarnation sent lies below the current block, or in it when the
\* current block has been handled.
PlaceInv ==
    \A d \in Deposits : delivered[d] > 0 =>
        \E h \in Nat : /\ h <= final /\ h <= currentBlock
                       /\ pc \in {"poll", "blockHash", "events"} => h < currentBlock
                       /\ \E i \in DOMAIN Logs(h) : Logs(h)[i] = d

MetadataInv ==
    behind = "no" =>
        /\ pc \in {"poll", "blockHash", "events"} =>
               currentBlock <= final + 1 /\ meta = Version(currentBlock)
        /\ pc = "store" => meta = Version(currentBlock + 1)

IInv ==
    /\ TypeOK
    /\ CursorInv
    /\ ProcessingInv
    /\ StoreInv
    /\ DoneInv
    /\ UniqueInv
    /\ PlaceInv
    /\ MetadataInv
    /\ FinalizedOnly
    /\ SentOncePerStart
-----------------------------------------------------------------------------
(* The runtime of a block depends on the blocks below it alone.            *)

LEMMA VersionType ==
    ASSUME ChainTypeOK, NEW h \in Nat
    PROVE  Version(h) \in Nat
  <1>1. DOMAIN chain = 1 .. Len(chain) /\ Len(chain) \in Nat
    BY LenProperties DEF ChainTypeOK
  <1>2. IsFiniteSet(DOMAIN chain)
    BY <1>1, FS_Interval
  <1>3. IsFiniteSet({g \in DOMAIN chain : g < h /\ HasCodeUpdated(chain[g])})
    BY <1>2, FS_Subset
  <1> QED BY <1>3, FS_CardinalityType DEF Version

LEMMA VersionStable ==
    ASSUME ChainTypeOK, ChainTypeOK', final <= Height, final <= Height',
           \A g \in Nat : g <= final => Logs(g)' = Logs(g),
           NEW h \in Nat, h <= final + 1
    PROVE  Version(h)' = Version(h)
  <1>1. /\ DOMAIN chain = 1 .. Height /\ Height \in Nat
        /\ DOMAIN chain' = 1 .. Height' /\ Height' \in Nat
        /\ final \in Nat
    BY LenProperties DEF ChainTypeOK, Height
  <1>2. ASSUME NEW g \in Nat, g < h
        PROVE  /\ g \in DOMAIN chain <=> g \in DOMAIN chain'
               /\ g \in DOMAIN chain => chain'[g] = chain[g]
    <2>1. g <= final
      BY <1>1, <1>2
    <2>2. g \in DOMAIN chain <=> g \in DOMAIN chain'
      BY <1>1, <2>1
    <2>3. Logs(g)' = Logs(g)
      BY <2>1
    <2> QED BY <2>2, <2>3 DEF Logs
  <1>3. {g \in DOMAIN chain' : g < h /\ HasCodeUpdated(chain'[g])}
            = {g \in DOMAIN chain : g < h /\ HasCodeUpdated(chain[g])}
    BY <1>1, <1>2
  <1>4. \A b : HasCodeUpdated(b)' = HasCodeUpdated(b)
    BY DEF HasCodeUpdated
  <1> QED BY <1>3, <1>4 DEF Version, HasCodeUpdated

\* A block without an upgrade is followed by one of the same runtime.
LEMMA VersionNext ==
    ASSUME ChainTypeOK, NEW h \in Nat, ~HasCodeUpdated(Logs(h))
    PROVE  Version(h + 1) = Version(h)
  <1>1. DOMAIN chain = 1 .. Len(chain) /\ Len(chain) \in Nat
    BY LenProperties DEF ChainTypeOK
  <1>2. ASSUME NEW g \in DOMAIN chain
        PROVE  g < h + 1 /\ HasCodeUpdated(chain[g])
                   <=> g < h /\ HasCodeUpdated(chain[g])
    <2>1. CASE g = h
      <3>1. Logs(h) = chain[g]
        BY <1>2, <2>1 DEF Logs
      <3> QED BY <1>1, <2>1, <3>1
    <2>2. CASE g # h
      BY <1>1, <2>2
    <2> QED BY <2>1, <2>2
  <1>3. {g \in DOMAIN chain : g < h + 1 /\ HasCodeUpdated(chain[g])}
            = {g \in DOMAIN chain : g < h /\ HasCodeUpdated(chain[g])}
    BY <1>2
  <1> QED BY <1>3 DEF Version

(* A step that leaves the chain alone leaves alone what is said of it.     *)
LEMMA ChainFrame ==
    ASSUME UNCHANGED <<chain, final>>
    PROVE  /\ Height' = Height
           /\ \A h : Logs(h)' = Logs(h)
           /\ \A h : Version(h)' = Version(h)
           /\ UniqueInv' = UniqueInv
  <1>1. \A h : Logs(h)' = Logs(h)
    BY DEF Logs
  <1>2. \A h : Version(h)' = Version(h)
    BY DEF Version, HasCodeUpdated
  <1>3. UniqueInv' = UniqueInv
    BY <1>1 DEF UniqueInv
  <1> QED BY <1>1, <1>2, <1>3 DEF Height

\* What is done stays done: sent only grows.
LEMMA DoneStable ==
    ASSUME NEW h, Logs(h)' = Logs(h), sent \subseteq sent', Done(h)
    PROVE  Done(h)'
  BY DEF Done, Due
-----------------------------------------------------------------------------
(* Initially, and step by step.                                            *)

LEMMA InitIInv ==
    ASSUME SourceChainAssumption, ListenerAssumption, Init
    PROVE  IInv
  <1>1. TypeOK
    BY EmptySeq DEF Init, ChainInit, TypeOK, SourceChainAssumption, ListenerAssumption
  <1>2. \A h : DOMAIN Logs(h) = {}
    BY DEF Init, ChainInit, Logs
  <1>3. CursorInv
    BY EmptySeq DEF Init, ChainInit, CursorInv, Height, ListenerAssumption,
       SourceChainAssumption
  <1>4. ProcessingInv /\ MetadataInv
    BY DEF Init, ProcessingInv, InBlock, MetadataInv
  <1>5. StoreInv /\ DoneInv
    BY <1>2 DEF Init, StoreInv, DoneInv, Done
  <1>6. UniqueInv /\ PlaceInv
    BY <1>2 DEF Init, UniqueInv, PlaceInv
  <1>7. FinalizedOnly /\ SentOncePerStart
    BY DEF Init, FinalizedOnly, SentOncePerStart
  <1> QED BY <1>1, <1>3, <1>4, <1>5, <1>6, <1>7 DEF IInv

LEMMA ChainStepIInv ==
    ASSUME SourceChainAssumption, IInv, ChainStep
    PROVE  IInv'
  <1>1. /\ chain' \in Seq(Seq(Deposits))
        /\ final' \in Nat
        /\ final <= final'
        /\ final' <= Height'
        /\ Height' - MaxReorg <= final'
        /\ \A h \in Nat : h <= final => Logs(h)' = Logs(h)
    BY MineStable, ReorgStable
       DEF ChainStep, ChainNext, IInv, TypeOK, CursorInv, ChainTypeOK
  <1>2. UNCHANGED listenerVars
    BY DEF ChainStep
  <1>3. TypeOK'
    BY <1>1, <1>2 DEF IInv, TypeOK, listenerVars
  <1>4. Height \in Nat /\ Height' \in Nat /\ final <= Height'
    BY <1>1, LenProperties DEF IInv, TypeOK, Height
  <1>5. CursorInv'
    BY <1>1, <1>2 DEF IInv, TypeOK, CursorInv, listenerVars
  <1>6. ASSUME NEW h \in Nat, h <= final, Done(h)
        PROVE  Done(h)'
    BY <1>1, <1>2, <1>6, DoneStable DEF listenerVars
  <1>7. ProcessingInv'
    BY <1>1, <1>2, <1>6 DEF IInv, TypeOK, ProcessingInv, InBlock, listenerVars
  <1>8. StoreInv'
    BY <1>2, <1>6 DEF IInv, TypeOK, StoreInv, CursorInv, listenerVars
  <1>9. DoneInv'
    BY <1>2, <1>6 DEF IInv, TypeOK, DoneInv, CursorInv, listenerVars
  <1>10. UniqueInv'
    BY MineUnique, ReorgUnique
       DEF ChainStep, ChainNext, IInv, CursorInv, TypeOK, ChainTypeOK
  <1>11. PlaceInv'
    BY <1>1, <1>2 DEF IInv, TypeOK, PlaceInv, listenerVars
  <1>12. ASSUME NEW h \in Nat, h <= final + 1
         PROVE  Version(h)' = Version(h)
    BY <1>1, <1>3, <1>4, <1>12, VersionStable DEF IInv, TypeOK, CursorInv, ChainTypeOK
  <1>13. MetadataInv'
    <2>1. /\ currentBlock \in Nat /\ final \in Nat /\ currentBlock' = currentBlock
          /\ pc = "store" => currentBlock <= final
          /\ final' \in Nat /\ final <= final'
      BY <1>1, <1>2 DEF listenerVars, IInv, TypeOK, ProcessingInv, InBlock
    <2>2. ASSUME NEW b \in Nat, b = currentBlock,
                 behind = "no", pc \in {"poll", "blockHash", "events"}
          PROVE  currentBlock <= final' + 1 /\ meta = Version(b)'
      <3>1. currentBlock <= final + 1 /\ meta = Version(b)
        BY <2>2 DEF IInv, MetadataInv
      <3>2. currentBlock <= final' + 1
        <4>1. \A x, y, z \in Int : x <= y + 1 /\ y <= z => x <= z + 1
          OBVIOUS
        <4>2. currentBlock \in Int /\ final \in Int /\ final' \in Int /\ final <= final'
          BY <2>1
        <4> QED BY <3>1, <4>1, <4>2
      <3>3. Version(b)' = Version(b)
        BY <1>12, <2>2, <3>1
      <3> QED BY <3>1, <3>2, <3>3
    <2>3. ASSUME NEW b \in Nat, b = currentBlock + 1, behind = "no", pc = "store"
          PROVE  meta = Version(b)'
      <3>1. meta = Version(b)
        BY <2>3 DEF IInv, MetadataInv
      <3> QED BY <1>12, <2>1, <2>3, <3>1
    <2>4. PICK b \in Nat : b = currentBlock
      BY <2>1
    <2>5. PICK c \in Nat : c = currentBlock + 1
      BY <2>1
    <2>6. Version(currentBlock)' = Version(b)' /\ Version(currentBlock + 1)' = Version(c)'
      BY <2>1, <2>4, <2>5 DEF Version
    <2> QED BY <1>2, <2>2, <2>3, <2>4, <2>5, <2>6 DEF MetadataInv, listenerVars
  <1>14. FinalizedOnly'
    BY <1>1, <1>2 DEF IInv, TypeOK, FinalizedOnly, listenerVars
  <1>15. SentOncePerStart'
    BY <1>2 DEF IInv, SentOncePerStart, listenerVars
  <1> QED BY <1>3, <1>5, <1>7, <1>8, <1>9, <1>10, <1>11, <1>13, <1>14, <1>15 DEF IInv

LEMMA StartIInv ==
    ASSUME ListenerAssumption, IInv, Start
    PROVE  IInv'
  <1>1. UNCHANGED <<chain, final, sent, stored>>
    BY DEF Start, chainVars
  <1>2. /\ Height \in Nat /\ final \in Nat /\ stored \in Nat /\ StartBlock \in Nat
        /\ final <= Height /\ stored <= final
    BY LenProperties DEF IInv, TypeOK, CursorInv, Height, ListenerAssumption
  <1>3. /\ pc' = "poll" /\ currentBlock' = FirstBlock
        /\ from' = IF LatestBlockFlag THEN Height ELSE StartBlock
        /\ \A d \in Deposits : delivered'[d] = 0
    BY DEF Start
  <1>4. /\ FirstBlock \in Nat
        /\ LatestBlockFlag => FirstBlock = Height
        /\ ~LatestBlockFlag => /\ FirstBlock >= StartBlock
                               /\ FirstBlock = StartBlock \/ FirstBlock = stored
                               /\ ~FreshStart => FirstBlock >= stored
    BY <1>2 DEF FirstBlock, ResumeBlock
  <1>5. meta' = LatestVersion /\ LatestVersion \in Nat
    BY <1>2, VersionType DEF Start, LatestVersion, IInv, TypeOK, ChainTypeOK
  <1>6. TypeOK'
    BY <1>1, <1>2, <1>3, <1>4, <1>5, EmptySeq
       DEF IInv, TypeOK, Start, Behind, ListenerAssumption
  <1>7. CursorInv'
    <2>1. from' <= currentBlock' /\ (currentBlock' = from' \/ currentBlock' - 1 <= final)
      BY <1>2, <1>3, <1>4
    <2>2. ~FreshStart /\ ~LatestBlockFlag => currentBlock' >= stored
      BY <1>3, <1>4
    <2> QED BY <1>1, <1>2, <2>1, <2>2, ChainFrame DEF IInv, CursorInv
  <1>8. ProcessingInv'
    BY <1>3 DEF ProcessingInv, InBlock
  <1>9. \A h : Done(h)' = Done(h)
    BY <1>1, ChainFrame DEF Done, Due
  <1>10. StoreInv'
    BY <1>1, <1>3, <1>9 DEF IInv, StoreInv
  <1>11. DoneInv'
    <2>1. ASSUME NEW h \in from' .. currentBlock' - 1
          PROVE  Done(h)
      <3>1. ~LatestBlockFlag /\ h \in StartBlock .. stored
        BY <1>2, <1>3, <1>4, <2>1
      <3> QED BY <3>1 DEF IInv, StoreInv
    <2> QED BY <1>9, <2>1 DEF DoneInv
  <1>12. PlaceInv' /\ SentOncePerStart'
    BY <1>3 DEF PlaceInv, SentOncePerStart
  <1>13. MetadataInv'
    <2>1. behind' = "no" => LatestVersion = Version(FirstBlock) /\ FirstBlock <= final + 1
      BY DEF Start, Behind
    <2>2. Version(currentBlock)' = Version(FirstBlock)
      BY <1>1, <1>3 DEF Version, HasCodeUpdated
    <2> QED BY <1>1, <1>3, <1>5, <2>1, <2>2 DEF MetadataInv
  <1>14. FinalizedOnly' /\ UniqueInv'
    BY <1>1, ChainFrame DEF IInv, FinalizedOnly
  <1> QED BY <1>6, <1>7, <1>8, <1>10, <1>11, <1>12, <1>13, <1>14 DEF IInv

(* Most steps move pc, retry, events or stop and nothing the history       *)
(* depends on: what is left to look at is the type and the parts about pc. *)
LEMMA QuietStep ==
    ASSUME IInv,
           UNCHANGED <<chain, final, sent, delivered, stored, from, currentBlock, meta>>,
           pc' = "down" \/ pc # "down",
           \/ pc' \in {"down", "halted", "metadata"}
           \/ pc \in {"poll", "blockHash", "events"}
              /\ pc' \in {"poll", "blockHash", "events"}
           \/ pc' = pc,
           behind' = behind \/ behind' = "yes"
    PROVE  /\ CursorInv' /\ StoreInv' /\ DoneInv' /\ UniqueInv' /\ PlaceInv'
           /\ MetadataInv' /\ FinalizedOnly' /\ SentOncePerStart'
  <1>1. \A h : Done(h)' = Done(h)
    BY ChainFrame DEF Done, Due
  <1>2. CursorInv'
    BY ChainFrame DEF IInv, CursorInv
  <1>3. StoreInv' /\ DoneInv'
    BY <1>1 DEF IInv, StoreInv, DoneInv
  <1>4. UniqueInv' /\ FinalizedOnly' /\ SentOncePerStart'
    BY ChainFrame DEF IInv, FinalizedOnly, SentOncePerStart
  <1>5. PlaceInv'
    BY ChainFrame DEF IInv, PlaceInv
  <1>6. MetadataInv'
    <2>1. /\ Version(currentBlock)' = Version(currentBlock)
          /\ Version(currentBlock + 1)' = Version(currentBlock + 1)
      BY DEF Version, HasCodeUpdated
    <2> QED BY <2>1 DEF IInv, MetadataInv
  <1> QED BY <1>2, <1>3, <1>4, <1>5, <1>6

LEMMA ProcessIInv ==
    ASSUME IInv, CoreStop \/ Crash \/ UNCHANGED vars
    PROVE  IInv'
  <1>1. /\ UNCHANGED <<chain, final, sent, delivered, stored, from, currentBlock,
                       meta, events, retry, behind, starts>>
        /\ pc' = pc \/ (pc # "down" /\ pc' = "down")
        /\ stop' = stop \/ stop' = "closed"
    <2>1. CASE CoreStop
      <3>1. UNCHANGED <<chain, final, pc, currentBlock, retry, events, meta, stored,
                        starts, from, sent, delivered, behind>>
        BY <2>1 DEF CoreStop, chainVars, history
      <3>2. stop' = "closed"
        BY <2>1 DEF CoreStop
      <3> QED BY <3>1, <3>2
    <2>2. CASE Crash
      <3>1. UNCHANGED <<chain, final, currentBlock, retry, events, meta, stored, stop,
                        starts, from, sent, delivered, behind>>
        BY <2>2 DEF Crash, chainVars, process, history
      <3>2. pc # "down" /\ pc' = "down"
        BY <2>2 DEF Crash
      <3> QED BY <3>1, <3>2
    <2>3. CASE UNCHANGED vars
      BY <2>3 DEF vars, chainVars, listenerVars
    <2> QED BY <2>1, <2>2, <2>3
  <1>2. TypeOK'
    BY <1>1 DEF IInv, TypeOK
  <1>3. \A h : Logs(h)' = Logs(h) /\ Done(h)' = Done(h)
    BY <1>1, ChainFrame DEF Done, Due
  <1>4. ProcessingInv'
    BY <1>1, <1>3 DEF IInv, ProcessingInv, InBlock
  <1>5. /\ CursorInv' /\ StoreInv' /\ DoneInv' /\ UniqueInv' /\ PlaceInv'
        /\ MetadataInv' /\ FinalizedOnly' /\ SentOncePerStart'
    <2>1. CASE pc' = pc
      <3>1. Version(currentBlock)' = Version(currentBlock)
            /\ Version(currentBlock + 1)' = Version(currentBlock + 1)
        BY <1>1 DEF Version, HasCodeUpdated
      <3>2. CursorInv' /\ StoreInv' /\ DoneInv'
        BY <1>1, <1>3, <2>1, ChainFrame DEF IInv, CursorInv, StoreInv, DoneInv
      <3>3. UniqueInv' /\ PlaceInv' /\ FinalizedOnly' /\ SentOncePerStart'
        BY <1>1, <2>1, ChainFrame DEF IInv, PlaceInv, FinalizedOnly, SentOncePerStart
      <3>4. MetadataInv'
        BY <1>1, <2>1, <3>1 DEF IInv, MetadataInv
      <3> QED BY <3>2, <3>3, <3>4
    <2>2. CASE pc' = "down"
      BY <1>1, <2>2, QuietStep
    <2> QED BY <1>1, <2>1, <2>2
  <1> QED BY <1>2, <1>4, <1>5 DEF IInv

\* The top of the loop: a finalised block is the only one to be read.
LEMMA PollIInv ==
    ASSUME ListenerAssumption, IInv,
           Terminate \/ FatalPolling \/ FinalizedFails \/ FinalizedReady
    PROVE  IInv'
  <1>1. /\ UNCHANGED <<chain, final, sent, delivered, stored, from, currentBlock,
                       meta, behind, stop, starts>>
        /\ pc = "poll"
        /\ \/ pc' \in {"down", "halted"} /\ UNCHANGED <<retry, events>>
           \/ pc' = "poll" /\ retry > 0 /\ retry' = retry - 1 /\ events' = << >>
           \/ /\ pc' = "blockHash" /\ retry > 0 /\ currentBlock <= final
              /\ UNCHANGED <<retry, events>>
    BY DEF Terminate, FatalPolling, FinalizedFails, FinalizedReady, Finalized, Fails,
           Polling, Goto, chainVars, process, history
  <1>2. TypeOK'
    <2>1. events' \in Seq(Deposits)
      BY <1>1, EmptySeq DEF IInv, TypeOK
    <2>2. retry' \in 0 .. BlockRetryLimit
      BY <1>1 DEF IInv, TypeOK, ListenerAssumption
    <2> QED BY <1>1, <2>1, <2>2 DEF IInv, TypeOK
  <1>3. ProcessingInv'
    BY <1>1 DEF ProcessingInv, InBlock
  <1> QED BY <1>1, <1>2, <1>3, QuietStep DEF IInv

\* An attempt at a block ends before any of its transfers was handed on.
LEMMA AttemptEndsIInv ==
    ASSUME ListenerAssumption, IInv,
           BlockNotReady \/ GetBlockHashFails \/ ProcessEventsFails
    PROVE  IInv'
  <1>1. /\ UNCHANGED <<chain, final, sent, delivered, stored, from, currentBlock,
                       meta, behind, stop, starts>>
        /\ pc \in {"blockHash", "events"} /\ pc' = "poll"
        /\ \/ retry' = retry /\ events' = events
           \/ retry' = retry - 1 /\ events' = << >>
    BY DEF BlockNotReady, GetBlockHashFails, ProcessEventsFails, Fails, Goto,
           chainVars, process, history
  <1>2. retry > 0
    BY <1>1 DEF IInv, ProcessingInv, InBlock
  <1>3. TypeOK'
    <2>1. events' \in Seq(Deposits)
      BY <1>1, EmptySeq DEF IInv, TypeOK
    <2>2. retry' \in 0 .. BlockRetryLimit
      BY <1>1, <1>2 DEF IInv, TypeOK, ListenerAssumption
    <2> QED BY <1>1, <2>1, <2>2 DEF IInv, TypeOK
  <1>4. ProcessingInv'
    BY <1>1 DEF ProcessingInv, InBlock
  <1> QED BY <1>1, <1>3, <1>4, QuietStep DEF IInv

LEMMA GetBlockHashIInv ==
    ASSUME IInv, GetBlockHash
    PROVE  IInv'
  <1>1. /\ UNCHANGED <<chain, final, sent, delivered, stored, from, currentBlock,
                       meta, behind, stop, starts, retry>>
        /\ pc = "blockHash" /\ pc' = "events" /\ events' = Logs(currentBlock)
    BY DEF GetBlockHash, Goto, chainVars, process, history
  <1>2. events' \in Seq(Deposits)
    BY <1>1, LogsType DEF IInv, TypeOK, ChainTypeOK
  <1>3. TypeOK'
    BY <1>1, <1>2 DEF IInv, TypeOK
  <1>4. Logs(currentBlock)' = Logs(currentBlock)
    BY <1>1 DEF Logs
  <1>5. ProcessingInv'
    BY <1>1, <1>4 DEF IInv, ProcessingInv, InBlock
  <1> QED BY <1>1, <1>3, <1>5, QuietStep DEF IInv

\* The metadata change, or they are marked as too old.
LEMMA UpdateMetadataIInv ==
    ASSUME IInv, UpdateMetadata \/ UpdateMetadataFails
    PROVE  IInv'
  <1>1. /\ UNCHANGED <<chain, final, sent, delivered, stored, from, currentBlock,
                       events, stop, starts, retry>>
        /\ pc = "metadata" /\ pc' = "store"
        /\ \/ meta' = meta /\ behind' = "yes"
           \/ meta' = LatestVersion /\ behind' = Behind(LatestVersion, currentBlock + 1)
    BY DEF UpdateMetadata, UpdateMetadataFails, Goto, chainVars, process
  <1>2. LatestVersion \in Nat
    <2>1. Height + 1 \in Nat
      BY LenProperties DEF IInv, TypeOK, Height
    <2> QED BY <2>1, VersionType DEF LatestVersion, IInv, TypeOK, ChainTypeOK
  <1>3. TypeOK'
    BY <1>1, <1>2 DEF IInv, TypeOK, Behind
  <1>4. \A h : Logs(h)' = Logs(h) /\ Done(h)' = Done(h)
    BY <1>1, ChainFrame DEF Done, Due
  <1>5. Logs(currentBlock)' = Logs(currentBlock) /\ Done(currentBlock)' = Done(currentBlock)
    BY <1>1 DEF Logs, Done, Due
  <1>6. ProcessingInv'
    BY <1>1, <1>5 DEF IInv, ProcessingInv, InBlock
  <1>7. CursorInv' /\ StoreInv' /\ DoneInv'
    BY <1>1, <1>4, ChainFrame DEF IInv, CursorInv, StoreInv, DoneInv
  <1>8. UniqueInv' /\ PlaceInv' /\ FinalizedOnly' /\ SentOncePerStart'
    BY <1>1, ChainFrame DEF IInv, PlaceInv, FinalizedOnly, SentOncePerStart
  <1>9. MetadataInv'
    <2>1. Version(currentBlock + 1)' = Version(currentBlock + 1)
      BY <1>1 DEF Version, HasCodeUpdated
    <2>2. behind' = "no" => meta' = Version(currentBlock + 1)
      BY <1>1 DEF Behind
    <2> QED BY <1>1, <2>1, <2>2 DEF MetadataInv
  <1> QED BY <1>3, <1>6, <1>7, <1>8, <1>9 DEF IInv

\* handleEvents hands on exactly the due transfers of a final block, which this
\* incarnation has not sent before: they are in no other block.
LEMMA ProcessEventsIInv ==
    ASSUME IInv, ProcessEvents
    PROVE  IInv'
  <1>1. /\ UNCHANGED <<chain, final, stored, from, currentBlock, meta, behind, stop,
                       starts, retry, events>>
        /\ pc = "events" /\ meta = Version(currentBlock)
        /\ pc' = IF HasCodeUpdated(events) THEN "metadata" ELSE "store"
        /\ sent' = sent \cup Transfers
        /\ delivered' = [d \in Deposits |->
                            IF d \in Transfers THEN delivered[d] + 1 ELSE delivered[d]]
    BY DEF ProcessEvents, Goto, Decodes, chainVars, process
  <1>2. /\ currentBlock \in Nat /\ final \in Nat /\ currentBlock <= final
        /\ retry > 0 /\ events = Logs(currentBlock)
        /\ delivered \in [Deposits -> Nat]
    BY <1>1 DEF IInv, TypeOK, ProcessingInv, InBlock
  <1>3. Transfers = {d \in Routed : /\ Kind[d] # "codeUpdated"
                                    /\ \E i \in DOMAIN Logs(currentBlock) :
                                           Logs(currentBlock)[i] = d}
    BY <1>2 DEF Transfers
  <1>4. ASSUME NEW d \in Transfers
        PROVE  /\ d \in Deposits
               /\ \E i \in DOMAIN Logs(currentBlock) : Logs(currentBlock)[i] = d
    BY <1>2, <1>3, LogType DEF IInv, TypeOK, ChainTypeOK
  <1>5. ASSUME NEW d \in Transfers
        PROVE  delivered[d] = 0
    <2>1. ASSUME delivered[d] > 0 PROVE FALSE
      <3>1. PICK h \in Nat : h < currentBlock /\ \E i \in DOMAIN Logs(h) : Logs(h)[i] = d
        BY <1>1, <1>4, <2>1 DEF IInv, PlaceInv
      <3>2. h = currentBlock
        BY <1>2, <1>4, <3>1 DEF IInv, UniqueInv
      <3> QED BY <1>2, <3>1, <3>2
    <2>2. delivered[d] \in Nat
      BY <1>2, <1>4
    <2> QED BY <2>1, <2>2
  <1>6. TypeOK'
    <2>1. sent' \subseteq Deposits /\ delivered' \in [Deposits -> Nat]
      BY <1>1, <1>2, <1>4 DEF IInv, TypeOK
    <2> QED BY <1>1, <2>1 DEF IInv, TypeOK
  <1>7. \A h : Logs(h)' = Logs(h)
    BY <1>1 DEF Logs
  <1>8. ASSUME NEW h, Done(h) PROVE Done(h)'
    BY <1>1, <1>7, <1>8, DoneStable
  <1>9. ProcessingInv'
    <2>1. events' = Logs(currentBlock)' /\ retry' > 0 /\ currentBlock' <= final'
      BY <1>1, <1>2 DEF Logs
    <2>2. Done(currentBlock)'
      <3>1. \A i \in DOMAIN Logs(currentBlock) :
                Due(Logs(currentBlock)[i]) => Logs(currentBlock)[i] \in sent'
        BY <1>1, <1>3 DEF Due
      <3>2. Logs(currentBlock)' = Logs(currentBlock)
        BY <1>1 DEF Logs
      <3> QED BY <3>1, <3>2 DEF Done, Due
    <2> QED BY <2>1, <2>2 DEF ProcessingInv
  <1>10. CursorInv'
    BY <1>1, ChainFrame DEF IInv, CursorInv
  <1>11. StoreInv' /\ DoneInv'
    BY <1>1, <1>8 DEF IInv, StoreInv, DoneInv
  <1>12. UniqueInv'
    BY <1>1, ChainFrame DEF IInv
  <1>13. PlaceInv'
    <2>1. ASSUME NEW d \in Deposits, delivered'[d] > 0
          PROVE  \E h \in Nat : /\ h <= final /\ h <= currentBlock
                                /\ \E i \in DOMAIN Logs(h) : Logs(h)[i] = d
      <3>1. CASE d \in Transfers
        BY <1>2, <1>4, <3>1
      <3>2. CASE d \notin Transfers
        BY <1>1, <2>1, <3>2 DEF IInv, PlaceInv
      <3> QED BY <3>1, <3>2
    <2> QED BY <1>1, <1>7, <2>1 DEF PlaceInv
  <1>14. MetadataInv'
    <2>1. ASSUME ~HasCodeUpdated(events)
          PROVE  meta = Version(currentBlock + 1)
      BY <1>1, <1>2, <2>1, VersionNext DEF IInv, TypeOK, ChainTypeOK
    <2>2. Version(currentBlock + 1)' = Version(currentBlock + 1)
      BY <1>1 DEF Version, HasCodeUpdated
    <2> QED BY <1>1, <2>1, <2>2 DEF MetadataInv
  <1>15. FinalizedOnly'
    <2>1. ASSUME NEW d \in Transfers
          PROVE  \E h \in 1 .. final : \E i \in DOMAIN Logs(h) : Logs(h)[i] = d
      <3>1. currentBlock \in 1 .. final
        BY <1>2, <1>4, LogsDomain DEF IInv, TypeOK, ChainTypeOK
      <3> QED BY <1>4, <3>1
    <2> QED BY <1>1, <1>7, <2>1 DEF IInv, FinalizedOnly
  <1>16. SentOncePerStart'
    <2>1. ASSUME NEW d \in Deposits PROVE delivered'[d] <= 1
      <3>1. CASE d \in Transfers
        BY <1>1, <1>5, <3>1
      <3>2. CASE d \notin Transfers
        BY <1>1, <3>2 DEF IInv, SentOncePerStart
      <3> QED BY <3>1, <3>2
    <2> QED BY <2>1 DEF SentOncePerStart
  <1> QED BY <1>6, <1>9, <1>10, <1>11, <1>12, <1>13, <1>14, <1>15, <1>16 DEF IInv

LEMMA StoreBlockIInv ==
    ASSUME ListenerAssumption, IInv, StoreBlock
    PROVE  IInv'
  <1>1. /\ UNCHANGED <<chain, final, from, meta, behind, stop, starts, sent, delivered>>
        /\ pc = "store" /\ pc' = "poll"
        /\ currentBlock' = currentBlock + 1
        /\ stored' = currentBlock \/ stored' = stored
        /\ retry' = BlockRetryLimit /\ events' = << >>
    BY DEF StoreBlock, chainVars, history
  <1>2. /\ currentBlock \in Nat /\ stored \in Nat /\ from \in Nat /\ final \in Nat
        /\ stored <= final /\ from <= currentBlock /\ currentBlock <= final
        /\ Done(currentBlock)
    BY <1>1 DEF IInv, TypeOK, CursorInv, ProcessingInv, InBlock
  <1>3. TypeOK'
    <2>1. currentBlock' \in Nat /\ stored' \in Nat
      BY <1>1, <1>2
    <2>2. retry' \in 0 .. BlockRetryLimit
      BY <1>1 DEF ListenerAssumption
    <2> QED BY <1>1, <2>1, <2>2, EmptySeq DEF IInv, TypeOK
  <1>4. \A h : Logs(h)' = Logs(h) /\ Done(h)' = Done(h)
    BY <1>1, ChainFrame DEF Done, Due
  <1>5. CursorInv'
    <2>1. /\ stored' <= final /\ from <= currentBlock' /\ currentBlock' - 1 <= final
          /\ pc # "down" /\ (~FreshStart /\ ~LatestBlockFlag => currentBlock' >= stored')
      BY <1>1, <1>2 DEF IInv, CursorInv
    <2> QED BY <1>1, <2>1, ChainFrame DEF IInv, CursorInv
  <1>6. ProcessingInv'
    BY <1>1 DEF ProcessingInv, InBlock
  <1>7. \A h \in from .. currentBlock : Done(h)
    <2>1. \A h \in from .. currentBlock : h = currentBlock \/ h \in from .. currentBlock - 1
      BY <1>2
    <2> QED BY <1>2, <2>1 DEF IInv, DoneInv
  <1>8. StoreInv'
    <2>1. CASE stored' = stored
      BY <1>1, <1>4, <2>1 DEF IInv, StoreInv
    <2>2. CASE stored' = currentBlock
      BY <1>1, <1>4, <1>7, <2>2 DEF IInv, StoreInv
    <2> QED BY <1>1, <2>1, <2>2
  <1>9. DoneInv'
    <2>1. currentBlock' - 1 = currentBlock
      BY <1>1, <1>2
    <2> QED BY <1>1, <1>4, <1>7, <2>1 DEF DoneInv
  <1>10. UniqueInv' /\ FinalizedOnly' /\ SentOncePerStart'
    BY <1>1, ChainFrame DEF IInv, FinalizedOnly, SentOncePerStart
  <1>11. PlaceInv'
    <2>1. \A h \in Nat : h <= currentBlock => h < currentBlock'
      BY <1>1, <1>2
    <2>2. \A h \in Nat : h < currentBlock' => h <= currentBlock'
      BY <1>1, <1>2
    <2> QED BY <1>1, <1>4, <2>1, <2>2 DEF IInv, PlaceInv
  <1>12. MetadataInv'
    <2>1. Version(currentBlock)' = Version(currentBlock + 1)
      BY <1>1 DEF Version, HasCodeUpdated
    <2>2. currentBlock' <= final + 1
      BY <1>1, <1>2
    <2> QED BY <1>1, <2>1, <2>2 DEF IInv, MetadataInv
  <1> QED BY <1>3, <1>5, <1>6, <1>8, <1>9, <1>10, <1>11, <1>12 DEF IInv

LEMMA NextIInv ==
    ASSUME SourceChainAssumption, ListenerAssumption, IInv, [Next]_vars
    PROVE  IInv'
  <1>1. CASE ChainStep
    BY <1>1, ChainStepIInv
  <1>2. CASE Start
    BY <1>2, StartIInv
  <1>3. CASE CoreStop \/ Crash \/ UNCHANGED vars
    BY <1>3, ProcessIInv
  <1>4. CASE FinalizedFails \/ PollTop
    BY <1>4, PollIInv DEF PollTop
  <1>5. CASE BlockNotReady \/ GetBlockHashFails \/ ProcessEventsFails
    BY <1>5, AttemptEndsIInv
  <1>6. CASE GetBlockHash
    BY <1>6, GetBlockHashIInv
  <1>7. CASE ProcessEvents
    BY <1>7, ProcessEventsIInv
  <1>8. CASE UpdateMetadata \/ UpdateMetadataFails
    BY <1>8, UpdateMetadataIInv
  <1>9. CASE StoreBlock
    BY <1>9, StoreBlockIInv
  <1> QED BY <1>1, <1>2, <1>3, <1>4, <1>5, <1>6, <1>7, <1>8, <1>9 DEF Next, BlockStep
-----------------------------------------------------------------------------
\* The inductive invariant holds in every reachable state.
THEOREM Invariance == Spec => []IInv
  <1>1. Init => IInv
    BY InitIInv, SourceChainAssumption, ListenerAssumption
  <1>2. IInv /\ [Next]_vars => IInv'
    BY NextIInv, SourceChainAssumption, ListenerAssumption
  <1> QED BY <1>1, <1>2, PTL DEF Spec

\* Every variable keeps its type, and retry stays within 0 .. BlockRetryLimit
\* (listener.go: pollBlocks' locals, the metadata, the blockstore).
THEOREM TypeCorrect == Spec => []TypeOK
  <1>1. IInv => TypeOK
    BY DEF IInv
  <1> QED BY <1>1, Invariance, PTL

\* No transfer of the blocks left behind is skipped, over RPC failures,
\* undecodable blocks, reorganisations, crashes and restarts from the
\* blockstore (pollBlocks, processEvents, checkBlockstore).
THEOREM NoTransferIsSkipped == Spec => []NoSkip
  <1>1. IInv => NoSkip
    BY DEF IInv, DoneInv, Done, NoSkip
  <1> QED BY <1>1, Invariance, PTL

\* Only transfers of finalised blocks reach a writer (pollBlocks' comparison
\* with the finalised head).
THEOREM OnlyFinalizedIsSent == Spec => []FinalizedOnly
  <1>1. IInv => FinalizedOnly
    BY DEF IInv
  <1> QED BY <1>1, Invariance, PTL

\* One incarnation of the process sends a transfer at most once: an attempt
\* that fails has sent nothing (processEvents, handleEvents).
THEOREM OneDeliveryPerStart == Spec => []SentOncePerStart
  <1>1. IInv => SentOncePerStart
    BY DEF IInv
  <1> QED BY <1>1, Invariance, PTL

\* The metadata at hand are those of the runtime that encodes the next block,
\* unless they were too new, or not fetched, when they should have been
\* (handleEvents: updateMetatdata after CodeUpdated).
THEOREM MetadataFollowRuntime == Spec => []MetadataFits
  <1>1. IInv => MetadataFits
    BY DEF IInv, MetadataInv, MetadataFits
  <1> QED BY <1>1, Invariance, PTL

\* The blockstore only moves forward (checkBlockstore starts beyond it).
THEOREM BlockstoreMovesForward == Spec => StoredNeverRegresses
  <1>1. IInv /\ [Next]_vars => [~FreshStart /\ ~LatestBlockFlag => stored' >= stored]_vars
    <2> SUFFICES ASSUME IInv, Next, ~FreshStart, ~LatestBlockFlag
                 PROVE  stored' >= stored
      OBVIOUS
    <2>1. CASE StoreBlock
      BY <2>1 DEF StoreBlock, IInv, TypeOK, CursorInv
    <2>2. CASE ~StoreBlock
      <3>1. stored' = stored
        BY <2>2 DEF Next, ChainStep, listenerVars, Start, CoreStop, Crash, process,
           FinalizedFails, Fails, Goto, BlockNotReady, PollTop, Terminate, FatalPolling,
           FinalizedReady, BlockStep, GetBlockHash, GetBlockHashFails, ProcessEvents,
           ProcessEventsFails, UpdateMetadata, UpdateMetadataFails
      <3> QED BY <3>1 DEF IInv, TypeOK
    <2> QED BY <2>1, <2>2
  <1> QED BY <1>1, Invariance, PTL DEF Spec, StoredNeverRegresses
=============================================================================
