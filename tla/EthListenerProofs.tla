-------------------------- MODULE EthListenerProofs --------------------------
(***************************************************************************)
(* Type correctness, ConfirmedOnly, NoSkip, RedeliveryBound and            *)
(* StoredNeverRegresses of EthListener, for every chain, configuration and *)
(* number of restarts.                                                     *)
(*                                                                         *)
(* None of them is inductive alone.  IInv adds what carries them:          *)
(* the cursor never passes final + 1 (so a reorganisation cannot touch the *)
(* blocks left behind), the logs being handled are those of the current    *)
(* block, what has been handled of them is done, and every block up to the *)
(* stored one is done, which is what a restart relies on.                  *)
(***************************************************************************)
EXTENDS EthListener, SourceChainProofs

CursorInv ==
    /\ final <= Height
    /\ Height - MaxReorg <= final
    /\ stored <= final
    /\ from <= currentBlock
    /\ currentBlock = from \/ currentBlock - 1 <= final

ProcessingInv ==
    /\ pc \in {"filter", "logs", "store"} => currentBlock <= final /\ retry > 0
    /\ pc \in {"logs", "store"} => depositLogs = Logs(currentBlock)
    /\ pc = "logs" => /\ next <= Len(depositLogs) + 1
                      /\ DoneUpTo(currentBlock, next - 1)
    /\ pc = "store" => Done(currentBlock)

StoreInv ==
    ~LatestBlockFlag => /\ from = StartBlock
                        /\ \A h \in from .. stored : Done(h)

ResumeInv ==
    pc # "down" /\ ~FreshStart /\ ~LatestBlockFlag => currentBlock >= stored

IInv ==
    /\ TypeOK
    /\ CursorInv
    /\ ProcessingInv
    /\ StoreInv
    /\ ResumeInv
    /\ NoSkip
    /\ ConfirmedOnly
-----------------------------------------------------------------------------
(* What is done stays done: sent and lost only grow.                       *)
LEMMA DoneStable ==
    ASSUME NEW h, NEW n, Logs(h)' = Logs(h),
           sent \subseteq sent', lost \subseteq lost', DoneUpTo(h, n)
    PROVE  DoneUpTo(h, n)'
  BY DEF DoneUpTo, Excused

LEMMA ConfirmedStable ==
    ASSUME TypeOK, final \in Nat, final' \in Nat, final <= final', sent' = sent,
           \A h \in Nat : h <= final => Logs(h)' = Logs(h),
           ConfirmedOnly
    PROVE  ConfirmedOnly'
  BY DEF ConfirmedOnly

(* A step that leaves the chain and the history alone leaves alone what is *)
(* said of them.                                                           *)
LEMMA Frame ==
    ASSUME UNCHANGED <<chain, final, sent, lost>>
    PROVE  /\ Height' = Height
           /\ \A h : Logs(h)' = Logs(h)
           /\ \A h, n : DoneUpTo(h, n)' = DoneUpTo(h, n)
           /\ \A h : Done(h)' = Done(h)
           /\ ConfirmedOnly' = ConfirmedOnly
  <1>1. \A h : Logs(h)' = Logs(h)
    BY DEF Logs
  <1>2. \A h, n : DoneUpTo(h, n)' = DoneUpTo(h, n)
    BY <1>1 DEF DoneUpTo, Excused
  <1>3. \A h : Done(h)' = Done(h)
    BY <1>1, <1>2 DEF Done
  <1>4. ConfirmedOnly' = ConfirmedOnly
    BY <1>1 DEF ConfirmedOnly
  <1> QED BY <1>1, <1>2, <1>3, <1>4 DEF Height

(* The log at hand is a deposit of the current block, which is final.      *)
LEMMA AtLogFacts ==
    ASSUME IInv, AtLog
    PROVE  /\ Log \in Deposits
           /\ next \in DOMAIN Logs(currentBlock)
           /\ Log = Logs(currentBlock)[next]
           /\ currentBlock \in 1 .. final
           /\ next - 1 \in Nat
           /\ DoneUpTo(currentBlock, next - 1)
  <1>1. depositLogs = Logs(currentBlock) /\ next \in 1 .. Len(depositLogs)
    BY DEF IInv, TypeOK, ProcessingInv, AtLog
  <1>2. DOMAIN depositLogs = 1 .. Len(depositLogs)
    BY LenProperties DEF IInv, TypeOK
  <1>3. Log \in Deposits
    BY <1>1, <1>2, ElementOfSeq DEF IInv, TypeOK, Log
  <1>4. currentBlock \in 1 .. Height
    BY <1>1, <1>2, LogsDomain DEF IInv, TypeOK, ChainTypeOK
  <1> QED BY <1>1, <1>2, <1>3, <1>4 DEF IInv, TypeOK, ProcessingInv, AtLog, Log
-----------------------------------------------------------------------------
(* Initially, and step by step.                                            *)

LEMMA InitIInv ==
    ASSUME SourceChainAssumption, ListenerAssumption, Init
    PROVE  IInv
  <1>1. TypeOK
    BY EmptySeq DEF Init, ChainInit, TypeOK, SourceChainAssumption, ListenerAssumption
  <1>2. CursorInv /\ ProcessingInv /\ ResumeInv /\ NoSkip /\ ConfirmedOnly
    BY EmptySeq DEF Init, ChainInit, CursorInv, ProcessingInv, ResumeInv, NoSkip,
       ConfirmedOnly, Height, ListenerAssumption, SourceChainAssumption
  <1>3. StoreInv
    <2>1. ASSUME NEW h \in from .. stored PROVE Done(h)
      <3>1. Logs(h) = << >> /\ Len(<< >>) = 0
        BY EmptySeq DEF Init, ChainInit, Logs
      <3> QED BY <3>1 DEF Done, DoneUpTo
    <2> QED BY <2>1 DEF StoreInv, Init
  <1> QED BY <1>1, <1>2, <1>3 DEF IInv

LEMMA ChainStepIInv ==
    ASSUME SourceChainAssumption, IInv, ChainStep
    PROVE  IInv'
  <1>1. /\ chain' \in Seq(Seq(Deposits))
        /\ final' \in Nat
        /\ final <= final'
        /\ final' <= Height'
        /\ Height' - MaxReorg <= final'
        /\ \A h \in Nat : h <= final => Logs(h)' = Logs(h)
    BY MineStable, ReorgStable
       DEF ChainStep, ChainNext, IInv, TypeOK, CursorInv, ChainTypeOK
  <1>2. UNCHANGED listenerVars
    BY DEF ChainStep
  <1>3. TypeOK'
    BY <1>1, <1>2 DEF IInv, TypeOK, listenerVars
  <1>4. CursorInv'
    BY <1>1, <1>2 DEF IInv, TypeOK, CursorInv, listenerVars
  <1>5. ASSUME NEW h \in Nat, h <= final, NEW n, DoneUpTo(h, n)
        PROVE  DoneUpTo(h, n)'
    BY <1>1, <1>2, <1>5, DoneStable DEF listenerVars
  <1>6. ASSUME NEW h \in Nat, h <= final, Done(h)
        PROVE  Done(h)'
    <2>1. Logs(h)' = Logs(h)
      BY <1>1, <1>6
    <2> QED BY <1>5, <1>6, <2>1 DEF Done
  <1>7. ProcessingInv'
    BY <1>1, <1>2, <1>5, <1>6 DEF IInv, TypeOK, ProcessingInv, listenerVars
  <1>8. StoreInv'
    BY <1>2, <1>6 DEF IInv, TypeOK, StoreInv, CursorInv, listenerVars
  <1>9. NoSkip'
    BY <1>2, <1>6 DEF IInv, TypeOK, NoSkip, CursorInv, listenerVars
  <1>10. ConfirmedOnly'
    BY <1>1, <1>2, ConfirmedStable DEF IInv, TypeOK, listenerVars
  <1> QED BY <1>2, <1>3, <1>4, <1>7, <1>8, <1>9, <1>10
          DEF IInv, ResumeInv, listenerVars

LEMMA StartIInv ==
    ASSUME ListenerAssumption, IInv, Start
    PROVE  IInv'
  <1>1. UNCHANGED <<chain, final, sent, lost>>
    BY DEF Start, chainVars
  <1>2. Height \in Nat
    BY LenProperties DEF IInv, TypeOK, Height
  <1>3. TypeOK'
    BY <1>1, <1>2, EmptySeq DEF IInv, TypeOK, Start, ResumeBlock, ListenerAssumption
  <1>4. CursorInv'
    BY <1>1, <1>2, Frame DEF IInv, TypeOK, CursorInv, Start, ResumeBlock, ListenerAssumption
  <1>5. ProcessingInv'
    BY DEF Start, ProcessingInv
  <1>6. StoreInv'
    BY <1>1, Frame DEF IInv, StoreInv, Start
  <1>7. ResumeInv'
    BY DEF IInv, TypeOK, ResumeInv, Start, ResumeBlock, ListenerAssumption
  <1>8. NoSkip'
    BY <1>1, <1>2, Frame DEF IInv, TypeOK, NoSkip, StoreInv, Start, ResumeBlock, ListenerAssumption
  <1>9. ConfirmedOnly'
    BY <1>1, Frame DEF IInv
  <1> QED BY <1>3, <1>4, <1>5, <1>6, <1>7, <1>8, <1>9 DEF IInv

(* Most steps move pc, retry or next and nothing the history depends on:   *)
(* only the type, ProcessingInv and ResumeInv are left to look at.         *)
LEMMA QuietStep ==
    ASSUME IInv, UNCHANGED <<chain, final, sent, lost, stored, from, currentBlock>>
    PROVE  CursorInv' /\ StoreInv' /\ NoSkip' /\ ConfirmedOnly'
  <1>1. CursorInv'
    BY Frame DEF IInv, CursorInv
  <1>2. StoreInv' /\ NoSkip'
    BY Frame DEF IInv, StoreInv, NoSkip
  <1>3. ConfirmedOnly'
    BY Frame DEF IInv
  <1> QED BY <1>1, <1>2, <1>3

LEMMA ProcessIInv ==
    ASSUME IInv, CoreStop \/ Crash
    PROVE  IInv'
  <1>1. UNCHANGED <<chain, final, sent, lost, stored, from, currentBlock, depositLogs, next, retry>>
    BY DEF CoreStop, Crash, chainVars, process, history
  <1>2. TypeOK'
    BY <1>1 DEF IInv, TypeOK, CoreStop, Crash, process, history
  <1>3. ProcessingInv' /\ ResumeInv'
    BY <1>1, Frame DEF IInv, ProcessingInv, ResumeInv, CoreStop, Crash
  <1> QED BY <1>1, <1>2, <1>3, QuietStep DEF IInv

LEMMA PollIInv ==
    ASSUME ListenerAssumption, ConfirmationsAssumption, SourceChainAssumption, IInv,
           Terminate \/ FatalPolling \/ LatestBlockFails
    PROVE  IInv'
  <1>1. UNCHANGED <<chain, final, sent, lost, stored, from, currentBlock>>
    BY DEF Terminate, FatalPolling, LatestBlockFails, chainVars, process, history
  <1>2. TypeOK'
    BY DEF IInv, TypeOK, Terminate, FatalPolling, LatestBlockFails, Polling,
           chainVars, process, history
  <1>3. ProcessingInv' /\ ResumeInv'
    BY <1>1 DEF IInv, ProcessingInv, ResumeInv, Terminate, FatalPolling,
           LatestBlockFails, Polling
  <1> QED BY <1>1, <1>2, <1>3, QuietStep DEF IInv

(* The confirmations keep the block that is processed out of the reach of  *)
(* any reorganisation.                                                     *)
LEMMA LatestBlockReadyIInv ==
    ASSUME SourceChainAssumption, ListenerAssumption, ConfirmationsAssumption,
           IInv, LatestBlockReady
    PROVE  IInv'
  <1>1. UNCHANGED <<chain, final, sent, lost, stored, from, currentBlock>>
    BY DEF LatestBlockReady, chainVars, process, history
  <1>2. TypeOK'
    BY DEF IInv, TypeOK, LatestBlockReady, Polling, chainVars, process, history
  <1>3. Height \in Nat
    BY LenProperties DEF IInv, TypeOK, Height
  <1>4. currentBlock <= final
    BY <1>3 DEF IInv, TypeOK, CursorInv, LatestBlockReady, Confirmed,
       SourceChainAssumption, ListenerAssumption, ConfirmationsAssumption
  <1>5. retry' = retry /\ retry \in Nat /\ retry > 0 /\ pc' = "filter" /\ pc = "poll"
    BY DEF IInv, TypeOK, LatestBlockReady, Polling, ListenerAssumption
  <1>6. ProcessingInv' /\ ResumeInv'
    BY <1>1, <1>4, <1>5 DEF IInv, ProcessingInv, ResumeInv
  <1> QED BY <1>1, <1>2, <1>6, QuietStep DEF IInv

LEMMA BlockFailsIInv ==
    ASSUME ListenerAssumption, IInv, pc \in {"filter", "logs"}, BlockFails
    PROVE  IInv'
  <1>1. UNCHANGED <<chain, final, sent, lost, stored, from, currentBlock>>
    BY DEF BlockFails, chainVars, process, history
  <1>2. TypeOK'
    BY EmptySeq DEF IInv, TypeOK, ProcessingInv, BlockFails, ListenerAssumption,
       chainVars, process, history
  <1>3. ProcessingInv' /\ ResumeInv'
    BY <1>1 DEF IInv, ProcessingInv, ResumeInv, BlockFails
  <1> QED BY <1>1, <1>2, <1>3, QuietStep DEF IInv

LEMMA FilterLogsIInv ==
    ASSUME IInv, FilterLogs
    PROVE  IInv'
  <1>1. UNCHANGED <<chain, final, sent, lost, stored, from, currentBlock, retry>>
    BY DEF FilterLogs, chainVars, process, history
  <1>2. Logs(currentBlock) \in Seq(Deposits)
    BY LogsType DEF IInv, TypeOK, ChainTypeOK
  <1>3. TypeOK'
    BY <1>2 DEF IInv, TypeOK, FilterLogs, chainVars, process, history
  <1>4. depositLogs' = Logs(currentBlock)' /\ Len(depositLogs') \in Nat
    BY <1>1, <1>2, Frame, LenProperties DEF FilterLogs
  <1>5. DoneUpTo(currentBlock, next - 1)'
    BY DEF DoneUpTo, FilterLogs
  <1>6. ProcessingInv'
    BY <1>1, <1>4, <1>5 DEF IInv, ProcessingInv, FilterLogs
  <1>7. ResumeInv'
    BY <1>1 DEF IInv, ResumeInv, FilterLogs
  <1> QED BY <1>1, <1>3, <1>6, <1>7, QuietStep DEF IInv

(* The log at next is dealt with: it has been sent or is excused.  (b and  *)
(* k name the values of currentBlock and next before the step.)            *)
LEMMA NextLogIInv ==
    ASSUME IInv, AtLog, NextLog,
           NEW b, b = currentBlock, NEW k, k = next,
           sent \subseteq sent', lost \subseteq lost',
           sent' \subseteq sent \cup {Log},
           lost' \subseteq Deposits, delivered' \in [Deposits -> Nat],
           Log \in sent' \/ Excused(b, k)'
    PROVE  IInv'
  <1>1. UNCHANGED <<chain, final, stored, from, currentBlock, depositLogs, retry, pc>>
    BY DEF NextLog, chainVars, process
  <1>2. TypeOK'
    <2>1. sent' \subseteq Deposits
      BY AtLogFacts DEF IInv, TypeOK
    <2> QED BY <1>1, <2>1 DEF IInv, TypeOK, NextLog, process
  <1>3. \A h : Logs(h)' = Logs(h)
    BY <1>1 DEF Logs
  <1>4. ASSUME NEW h, NEW n, DoneUpTo(h, n) PROVE DoneUpTo(h, n)'
    BY <1>3, <1>4, DoneStable
  <1>5. ASSUME NEW h, Done(h) PROVE Done(h)'
    BY <1>3, <1>4, <1>5 DEF Done
  <1>6. CursorInv'
    BY <1>1 DEF IInv, CursorInv, Height
  <1>7. StoreInv' /\ NoSkip'
    BY <1>1, <1>5 DEF IInv, StoreInv, NoSkip
  <1>8. DoneUpTo(b, k)'
    <2>1. k \in Nat /\ DoneUpTo(b, k - 1) /\ Log = Logs(b)[k]
      BY AtLogFacts DEF IInv, TypeOK
    <2>2. DoneUpTo(b, k - 1)'
      BY <1>4, <2>1
    <2>3. ASSUME NEW i \in 1 .. k
          PROVE  Logs(b)'[i] \in sent' \/ Excused(b, i)'
      <3>1. CASE i = k
        BY <1>3, <2>1, <3>1
      <3>2. CASE i # k
        <4>1. i \in 1 .. k - 1
          BY <2>1, <3>2
        <4> QED BY <2>2, <4>1 DEF DoneUpTo
      <3> QED BY <3>1, <3>2
    <2> QED BY <2>3 DEF DoneUpTo
  <1>9. ProcessingInv'
    <2>1. next' <= Len(depositLogs') + 1
      BY <1>1, LenProperties DEF AtLog, NextLog, IInv, TypeOK
    <2>2. b = currentBlock' /\ k = next' - 1
      BY <1>1 DEF NextLog, IInv, TypeOK
    <2>3. DoneUpTo(currentBlock, next - 1)'
      BY <1>8, <2>2 DEF DoneUpTo, Excused, Logs
    <2>4. pc = "logs"
      BY DEF AtLog
    <2>5. depositLogs' = Logs(currentBlock)'
      BY <1>1, <2>4 DEF IInv, ProcessingInv, Logs
    <2> QED BY <1>1, <2>1, <2>3, <2>4, <2>5 DEF IInv, ProcessingInv
  <1>10. ConfirmedOnly'
    <2>1. ASSUME NEW d \in sent'
          PROVE  \E h \in 1 .. final : \E i \in DOMAIN Logs(h) : Logs(h)[i] = d
      <3>1. CASE d \in sent
        BY <3>1 DEF IInv, ConfirmedOnly
      <3>2. CASE d = Log
        BY <3>2, AtLogFacts
      <3> QED BY <2>1, <3>1, <3>2
    <2> QED BY <1>1, <1>3, <2>1 DEF ConfirmedOnly
  <1> QED BY <1>1, <1>2, <1>6, <1>7, <1>9, <1>10 DEF IInv, ResumeInv

LEMMA SkipUndecodableIInv ==
    ASSUME IInv, SkipUndecodable
    PROVE  IInv'
  <1>1. AtLog /\ NextLog /\ UNCHANGED <<sent, lost, delivered, chain>>
    BY DEF SkipUndecodable, NextLog, history, chainVars
  <1>2. ASSUME NEW b, b = currentBlock, NEW k, k = next PROVE Excused(b, k)'
    BY <1>1, <1>2, AtLogFacts DEF SkipUndecodable, Excused, Logs
  <1> QED BY <1>1, <1>2, NextLogIInv DEF IInv, TypeOK

LEMMA GenericRecordFailsIInv ==
    ASSUME IInv, GenericRecordFails
    PROVE  IInv'
  <1>1. AtLog /\ NextLog /\ UNCHANGED <<sent, delivered, chain>> /\ lost' = lost \cup {Log}
    BY DEF GenericRecordFails, NextLog, chainVars
  <1>2. Log \in Deposits
    BY <1>1, AtLogFacts
  <1>3. ASSUME NEW b, b = currentBlock, NEW k, k = next PROVE Excused(b, k)'
    BY <1>1, <1>3, AtLogFacts DEF Excused, Logs
  <1> QED BY <1>1, <1>2, <1>3, NextLogIInv DEF IInv, TypeOK

LEMMA SendIInv ==
    ASSUME IInv, Send
    PROVE  IInv'
  <1>1. AtLog /\ NextLog /\ UNCHANGED <<lost, chain>>
    BY DEF Send, NextLog, chainVars
  <1>2. Log \in Deposits
    BY <1>1, AtLogFacts
  <1>3. CASE Log \in Routed
    <2>1. sent' = sent \cup {Log} /\ delivered' = [delivered EXCEPT ![Log] = @ + 1]
      BY <1>3 DEF Send
    <2>2. delivered' \in [Deposits -> Nat]
      BY <1>2, <2>1 DEF IInv, TypeOK
    <2> QED BY <1>1, <1>2, <2>1, <2>2, NextLogIInv DEF IInv, TypeOK
  <1>4. CASE Log \notin Routed
    <2>1. UNCHANGED <<sent, delivered>>
      BY <1>4 DEF Send
    <2>2. ASSUME NEW b, b = currentBlock, NEW k, k = next PROVE Excused(b, k)'
      BY <1>1, <1>4, <2>2, AtLogFacts DEF Excused, Logs
    <2> QED BY <1>1, <2>1, <2>2, NextLogIInv DEF IInv, TypeOK
  <1> QED BY <1>3, <1>4

LEMMA UnrecognisedIInv ==
    ASSUME IInv, UnrecognisedHandler
    PROVE  IInv'
  <1>1. UNCHANGED <<chain, final, sent, lost, stored, from, currentBlock, retry, depositLogs>>
    BY DEF UnrecognisedHandler, chainVars, process, history
  <1>2. AtLog /\ pc = "logs" /\ pc' = "store"
    BY DEF UnrecognisedHandler, AtLog
  <1>3. TypeOK'
    BY <1>1 DEF IInv, TypeOK, UnrecognisedHandler, process, history
  <1>4. ASSUME NEW i \in 1 .. Len(Logs(currentBlock))
        PROVE  Logs(currentBlock)[i] \in sent \/ Excused(currentBlock, i)
    <2>1. /\ next \in Nat \ {0}
          /\ DoneUpTo(currentBlock, next - 1)
          /\ Handler[Logs(currentBlock)[next]] = "unrecognised"
      BY <1>2, AtLogFacts DEF UnrecognisedHandler, IInv, TypeOK
    <2>2. Len(Logs(currentBlock)) \in Nat
      BY LogsType, LenProperties DEF IInv, TypeOK, ChainTypeOK
    <2>3. CASE i < next
      BY <2>1, <2>2, <2>3 DEF DoneUpTo
    <2>4. CASE i >= next
      <3>1. next \in 1 .. i
        BY <2>1, <2>2, <2>4
      <3> QED BY <2>1, <3>1 DEF Excused
    <2> QED BY <2>1, <2>2, <2>3, <2>4
  <1>5. Done(currentBlock)
    BY <1>4 DEF Done, DoneUpTo
  <1>6. Done(currentBlock)' /\ depositLogs' = Logs(currentBlock)'
    BY <1>1, <1>2, <1>5 DEF Done, DoneUpTo, Excused, Logs, IInv, ProcessingInv
  <1>7. ProcessingInv' /\ ResumeInv'
    BY <1>1, <1>2, <1>6 DEF IInv, ProcessingInv, ResumeInv
  <1> QED BY <1>1, <1>3, <1>7, QuietStep DEF IInv

LEMMA BlockDoneIInv ==
    ASSUME IInv, BlockDone
    PROVE  IInv'
  <1>1. UNCHANGED <<chain, final, sent, lost, stored, from, currentBlock, retry, depositLogs>>
    BY DEF BlockDone, chainVars, process, history
  <1>2. TypeOK'
    BY <1>1 DEF IInv, TypeOK, BlockDone, process, history
  <1>3. /\ depositLogs = Logs(currentBlock)
        /\ next \in Nat /\ Len(depositLogs) \in Nat
        /\ next <= Len(depositLogs) + 1 /\ next > Len(depositLogs)
        /\ DoneUpTo(currentBlock, next - 1)
    BY LenProperties DEF BlockDone, IInv, TypeOK, ProcessingInv
  <1>4. next - 1 = Len(Logs(currentBlock))
    BY <1>3
  <1>5. Done(currentBlock)
    BY <1>3, <1>4 DEF Done
  <1>6. Done(currentBlock)' /\ depositLogs' = Logs(currentBlock)'
    BY <1>1, <1>3, <1>5 DEF Done, DoneUpTo, Excused, Logs
  <1>7. ProcessingInv' /\ ResumeInv'
    BY <1>1, <1>6 DEF IInv, ProcessingInv, ResumeInv, BlockDone
  <1> QED BY <1>1, <1>2, <1>7, QuietStep DEF IInv

(* The next block: the one left behind is done, and so is what a restart   *)
(* would skip.                                                             *)
LEMMA StoreBlockIInv ==
    ASSUME ListenerAssumption, IInv, StoreBlock
    PROVE  IInv'
  <1>1. UNCHANGED <<chain, final, sent, lost, from, stop>>
    BY DEF StoreBlock, chainVars, history
  <1>2. /\ pc = "store" /\ pc' = "poll"
        /\ currentBlock' = currentBlock + 1
        /\ stored' = currentBlock \/ stored' = stored
    BY DEF StoreBlock
  <1>3. Done(currentBlock) /\ currentBlock <= final
    BY <1>2 DEF IInv, ProcessingInv
  <1>4. /\ currentBlock \in Nat /\ stored \in Nat /\ from \in Nat /\ final \in Nat
        /\ stored <= final /\ from <= currentBlock
    BY DEF IInv, TypeOK, CursorInv
  <1>5. TypeOK'
    <2>1. currentBlock' \in Nat /\ stored' \in Nat
      BY <1>2, <1>4
    <2>2. depositLogs' = << >> /\ next' = 1 /\ retry' = BlockRetryLimit
          /\ UNCHANGED <<starts, delivered>>
      BY DEF StoreBlock, history
    <2> QED BY <1>1, <1>2, <2>1, <2>2, EmptySeq DEF IInv, TypeOK, ListenerAssumption
  <1>6. CursorInv'
    <2>1. stored' <= final' /\ from' <= currentBlock' /\ currentBlock' - 1 <= final'
      BY <1>1, <1>2, <1>3, <1>4
    <2> QED BY <1>1, <2>1, Frame DEF IInv, CursorInv
  <1>7. \A h \in from .. currentBlock : h = currentBlock \/ h \in from .. currentBlock - 1
    BY <1>4
  <1>8. NoSkip'
    <2>1. \A h \in from .. currentBlock : Done(h)
      BY <1>3, <1>7 DEF IInv, NoSkip
    <2>2. currentBlock' - 1 = currentBlock
      BY <1>2, <1>4
    <2> QED BY <1>1, <2>1, <2>2, Frame DEF NoSkip
  <1>9. StoreInv'
    <2>1. CASE stored' = stored
      BY <1>1, <2>1, Frame DEF IInv, StoreInv
    <2>2. CASE stored' = currentBlock
      <3>1. \A h \in from .. currentBlock : Done(h)
        BY <1>3, <1>7 DEF IInv, NoSkip
      <3> QED BY <1>1, <2>2, <3>1, Frame DEF IInv, StoreInv
    <2> QED BY <1>2, <2>1, <2>2
  <1>10. ProcessingInv'
    BY <1>2 DEF ProcessingInv
  <1>11. ResumeInv'
    BY <1>2, <1>4 DEF IInv, ResumeInv
  <1>12. ConfirmedOnly'
    BY <1>1, Frame DEF IInv
  <1> QED BY <1>5, <1>6, <1>8, <1>9, <1>10, <1>11, <1>12 DEF IInv

LEMMA StutterIInv ==
    ASSUME IInv, UNCHANGED vars
    PROVE  IInv'
  <1>1. UNCHANGED <<chain, final, sent, lost, stored, from, currentBlock>>
    BY DEF vars
  <1>2. TypeOK'
    BY DEF IInv, TypeOK, vars
  <1>3. ProcessingInv' /\ ResumeInv'
    BY <1>1, Frame DEF IInv, ProcessingInv, ResumeInv, vars
  <1> QED BY <1>1, <1>2, <1>3, QuietStep DEF IInv

LEMMA NextIInv ==
    ASSUME SourceChainAssumption, ListenerAssumption, ConfirmationsAssumption,
           IInv, [Next]_vars
    PROVE  IInv'
  <1>1. CASE ChainStep
    BY <1>1, ChainStepIInv
  <1>2. CASE Start
    BY <1>2, StartIInv
  <1>3. CASE CoreStop \/ Crash
    BY <1>3, ProcessIInv
  <1>4. CASE LatestBlockFails
    BY <1>4, PollIInv
  <1>5. CASE PollTop
    BY <1>5, PollIInv, LatestBlockReadyIInv DEF PollTop
  <1>6. CASE BlockStep
    <2>1. CASE FilterLogsFails
      BY <2>1, BlockFailsIInv DEF FilterLogsFails
    <2>2. CASE FilterLogs
      BY <2>2, FilterLogsIInv
    <2>3. CASE HandleLog
      <3>1. CASE SkipUndecodable
        BY <3>1, SkipUndecodableIInv
      <3>2. CASE HandlerLookupFails \/ ShortCalldata \/ Erc721RecordFails
        BY <3>2, BlockFailsIInv DEF HandlerLookupFails, ShortCalldata, Erc721RecordFails, AtLog
      <3>3. CASE UnrecognisedHandler
        BY <3>3, UnrecognisedIInv
      <3>4. CASE GenericRecordFails
        BY <3>4, GenericRecordFailsIInv
      <3>5. CASE Send
        BY <3>5, SendIInv
      <3> QED BY <2>3, <3>1, <3>2, <3>3, <3>4, <3>5 DEF HandleLog
    <2>4. CASE BlockDone
      BY <2>4, BlockDoneIInv
    <2>5. CASE StoreBlock
      BY <2>5, StoreBlockIInv
    <2> QED BY <1>6, <2>1, <2>2, <2>3, <2>4, <2>5 DEF BlockStep
  <1>7. CASE UNCHANGED vars
    BY <1>7, StutterIInv
  <1> QED BY <1>1, <1>2, <1>3, <1>4, <1>5, <1>6, <1>7 DEF Next
-----------------------------------------------------------------------------
\* The inductive invariant holds in every reachable state.
THEOREM Invariance == Spec => []IInv
  <1>1. Init => IInv
    BY InitIInv, SourceChainAssumption, ListenerAssumption
  <1>2. IInv /\ [Next]_vars => IInv'
    BY NextIInv, SourceChainAssumption, ListenerAssumption, ConfirmationsAssumption
  <1> QED BY <1>1, <1>2, PTL DEF Spec

\* Every variable keeps its type (listener.go: pollBlocks' locals, the
\* blockstore, the stop channel), and retry stays within 0 .. BlockRetryLimit.
THEOREM TypeCorrect == Spec => []TypeOK
  <1>1. IInv => TypeOK
    BY DEF IInv
  <1> QED BY <1>1, Invariance, PTL

\* The listener never sends a deposit that a reorganisation of at most
\* MaxReorg <= Confirmations blocks could take back (pollBlocks' check of
\* blockConfirmations).
THEOREM NothingUnconfirmedIsSent == Spec => []ConfirmedOnly
  <1>1. IInv => ConfirmedOnly
    BY DEF IInv
  <1> QED BY <1>1, Invariance, PTL

\* No deposit of the blocks left behind is skipped, over RPC failures, retries,
\* reorganisations, crashes and restarts from the blockstore, but for the
\* deposits the code itself lets go of (pollBlocks, getDepositEventsForBlock,
\* setupBlockstore).
THEOREM NoDepositIsSkipped == Spec => []NoSkip
  <1>1. IInv => NoSkip
    BY DEF IInv
  <1> QED BY <1>1, Invariance, PTL

\* The blockstore only moves forward (setupBlockstore starts beyond it).
THEOREM BlockstoreMovesForward == Spec => StoredNeverRegresses
  <1>1. IInv /\ [Next]_vars => [~FreshStart /\ ~LatestBlockFlag => stored' >= stored]_vars
    <2> SUFFICES ASSUME IInv, Next, ~FreshStart, ~LatestBlockFlag
                 PROVE  stored' >= stored
      OBVIOUS
    <2>1. CASE StoreBlock
      BY <2>1 DEF StoreBlock, IInv, TypeOK, ResumeInv
    <2>2. CASE ~StoreBlock
      <3>1. stored' = stored
        BY <2>2 DEF Next, ChainStep, listenerVars, Start, CoreStop, Crash, process,
           LatestBlockFails, PollTop, Terminate, FatalPolling, LatestBlockReady,
           BlockStep, FilterLogsFails, BlockFails, FilterLogs, HandleLog, SkipUndecodable,
           NextLog, HandlerLookupFails, UnrecognisedHandler, ShortCalldata,
           Erc721RecordFails, GenericRecordFails, Send, BlockDone
      <3> QED BY <3>1 DEF IInv, TypeOK
    <2> QED BY <2>1, <2>2
  <1> QED BY <1>1, Invariance, PTL DEF Spec, StoredNeverRegresses
-----------------------------------------------------------------------------
(* How often a deposit is sent.  A deposit is in one place of the chain,   *)
(* so that only the attempts at one block can send it, and each of them    *)
(* either fails, which costs a retry, or is the last one.                  *)

\* What has been sent is irreversible, and not beyond the current block.
PlaceInv ==
    \A d \in Deposits : delivered[d] > 0 =>
        \E h \in Nat : /\ h <= final /\ h <= currentBlock
                       /\ \E i \in DOMAIN Logs(h) : Logs(h)[i] = d

AttemptInv ==
    \A i \in DOMAIN Logs(currentBlock) :
        LET n == delivered[Logs(currentBlock)[i]] IN
        /\ pc \in {"poll", "filter", "halted"} => n + retry <= BlockRetryLimit
        /\ pc \in {"logs", "store"} => n + retry <= BlockRetryLimit + 1
        /\ pc = "logs" /\ next <= i => n + retry <= BlockRetryLimit

DeliveryInv ==
    /\ UniqueInv
    /\ PlaceInv
    /\ AttemptInv
    /\ RedeliveryBound

\* What was sent is where it was, so that nothing else on the chain was sent.
LEMMA ChainDelivery ==
    ASSUME SourceChainAssumption, IInv, DeliveryInv, ChainStep
    PROVE  DeliveryInv'
  <1>1. /\ final' \in Nat
        /\ final <= final'
        /\ \A h \in Nat : h <= final => Logs(h)' = Logs(h)
        /\ chain' \in Seq(Seq(Deposits))
    BY MineStable, ReorgStable
       DEF ChainStep, ChainNext, IInv, TypeOK, CursorInv, ChainTypeOK
  <1>2. UNCHANGED <<pc, currentBlock, retry, next, delivered>>
    BY DEF ChainStep, listenerVars
  <1>3. /\ final \in Nat /\ currentBlock \in Nat /\ retry \in 0 .. BlockRetryLimit
        /\ delivered \in [Deposits -> Nat]
    BY DEF IInv, TypeOK
  <1>4. UniqueInv'
    BY MineUnique, ReorgUnique
       DEF ChainStep, ChainNext, IInv, CursorInv, DeliveryInv, TypeOK, ChainTypeOK
  <1>5. PlaceInv'
    BY <1>1, <1>2, <1>3 DEF DeliveryInv, PlaceInv
  <1>6. AttemptInv'
    <2>1. CASE currentBlock <= final
      <3>1. Logs(currentBlock)' = Logs(currentBlock)
        BY <1>1, <1>2, <1>3, <2>1
      <3> QED BY <1>2, <3>1 DEF DeliveryInv, AttemptInv
    <2>2. CASE ~(currentBlock <= final)
      <3>1. ASSUME NEW i \in DOMAIN Logs(currentBlock)'
            PROVE  /\ Logs(currentBlock)'[i] \in Deposits
                   /\ delivered[Logs(currentBlock)'[i]] = 0
        <4> DEFINE d == Logs(currentBlock)'[i]
        <4>1. TypeOK'
          BY ChainStepIInv DEF IInv
        <4>2. d \in Deposits
          <5>1. \A h \in Nat : \A j \in DOMAIN Logs(h)' : Logs(h)'[j] \in Deposits
            <6>1. \A h \in Nat : Logs(h)' \in Seq(Deposits)
              BY <1>1 DEF Logs
            <6> QED BY <6>1, LenProperties, ElementOfSeq
          <5> QED BY <1>2, <1>3, <3>1, <5>1
        <4>3. ASSUME delivered[d] > 0 PROVE FALSE
          <5>1. PICK h \in Nat : /\ h <= final
                                 /\ \E j \in DOMAIN Logs(h) : Logs(h)[j] = d
            BY <4>2, <4>3 DEF DeliveryInv, PlaceInv
          <5>2. Logs(h)' = Logs(h)
            BY <1>1, <5>1
          <5>3. PICK j \in DOMAIN Logs(h)' : Logs(h)'[j] = Logs(currentBlock)'[i]
            BY <5>1, <5>2
          <5>4. h = currentBlock
            BY <1>2, <1>3, <1>4, <3>1, <5>3 DEF UniqueInv
          <5> QED BY <2>2, <5>1, <5>4
        <4>4. delivered[d] \in Nat
          BY <1>3, <4>2
        <4> QED BY <4>2, <4>3, <4>4
      <3>2. BlockRetryLimit \in Nat \/ retry <= BlockRetryLimit
        BY <1>3
      <3>3. pc \notin {"logs", "store"}
        BY <2>2 DEF IInv, ProcessingInv
      <3> QED BY <1>2, <1>3, <3>1, <3>2, <3>3 DEF AttemptInv
    <2> QED BY <2>1, <2>2
  <1>7. RedeliveryBound'
    BY <1>2 DEF DeliveryInv, RedeliveryBound
  <1> QED BY <1>4, <1>5, <1>6, <1>7 DEF DeliveryInv

LEMMA Monotone ==
    ASSUME NEW a \in Int, NEW b \in Int, NEW c \in Int, NEW d \in Int, a + b <= c, d <= b
    PROVE  a + d <= c
  OBVIOUS

\* A step that sends nothing may use up a retry, or come closer to the end of
\* the block.
LEMMA QuietDelivery ==
    ASSUME BlockRetryLimit \in Nat, IInv, DeliveryInv, TypeOK',
           UNCHANGED <<chain, final, currentBlock, delivered>>,
           \/ pc' = "down"
           \/ pc' = pc /\ retry' = retry /\ next' = next
           \/ /\ pc \in {"poll", "filter", "halted"}
              /\ pc' \in {"poll", "filter", "halted"}
              /\ retry' <= retry
           \/ pc \in {"filter", "logs"} /\ pc' = "poll" /\ retry' = retry - 1
           \/ pc = "filter" /\ pc' = "logs" /\ retry' = retry
           \/ pc = "logs" /\ pc' = "logs" /\ retry' = retry /\ next' = next + 1
           \/ pc = "logs" /\ pc' = "store" /\ retry' = retry
    PROVE  DeliveryInv'
  <1>1. \A h : Logs(h)' = Logs(h)
    BY DEF Logs
  <1>2. UniqueInv'
    BY <1>1 DEF DeliveryInv, UniqueInv
  <1>3. PlaceInv' /\ RedeliveryBound'
    BY <1>1 DEF DeliveryInv, PlaceInv, RedeliveryBound
  <1>4. ASSUME NEW i \in DOMAIN Logs(currentBlock), NEW n, n = delivered[Logs(currentBlock)[i]]
        PROVE  /\ pc' \in {"poll", "filter", "halted"} => n + retry' <= BlockRetryLimit
               /\ pc' \in {"logs", "store"} => n + retry' <= BlockRetryLimit + 1
               /\ pc' = "logs" /\ next' <= i => n + retry' <= BlockRetryLimit
    <2>1. /\ pc \in {"poll", "filter", "halted"} => n + retry <= BlockRetryLimit
          /\ pc \in {"logs", "store"} => n + retry <= BlockRetryLimit + 1
          /\ pc = "logs" /\ next <= i => n + retry <= BlockRetryLimit
      BY <1>4 DEF DeliveryInv, AttemptInv
    <2>2. i \in Nat /\ Logs(currentBlock)[i] \in Deposits
      BY <1>4, LogType DEF IInv, TypeOK, ChainTypeOK
    <2>3. /\ n \in Nat /\ retry \in Nat /\ retry' \in Nat /\ next \in Nat
          /\ retry <= BlockRetryLimit /\ BlockRetryLimit \in Int
      BY <1>4, <2>2 DEF IInv, TypeOK
    <2>4. CASE pc' = "down"
      BY <2>4
    <2>5. CASE pc' = pc /\ retry' = retry /\ next' = next
      BY <2>1, <2>5
    <2>6. CASE /\ pc \in {"poll", "filter", "halted"}
               /\ pc' \in {"poll", "filter", "halted"}
               /\ retry' <= retry
      <3>1. n + retry <= BlockRetryLimit
        BY <2>1, <2>6
      <3>2. n + retry' <= BlockRetryLimit
        <4>1. \A a, b, c, d \in Int : a + b <= c /\ d <= b => a + d <= c
          BY Monotone
        <4>2. n \in Int /\ retry \in Int /\ retry' \in Int /\ BlockRetryLimit \in Int
          BY <2>3
        <4>3. retry' <= retry
          BY <2>6
        <4> QED BY <3>1, <4>1, <4>2, <4>3
      <3>3. pc' # "logs" /\ pc' # "store"
        BY <2>6
      <3> QED BY <3>2, <3>3
    <2>7. CASE pc \in {"filter", "logs"} /\ pc' = "poll" /\ retry' = retry - 1
      BY <2>1, <2>3, <2>7
    <2>8. CASE pc = "filter" /\ pc' = "logs" /\ retry' = retry
      BY <2>1, <2>3, <2>8
    <2>9. CASE pc = "logs" /\ pc' = "logs" /\ retry' = retry /\ next' = next + 1
      BY <2>1, <2>2, <2>3, <2>9
    <2>10. CASE pc = "logs" /\ pc' = "store" /\ retry' = retry
      BY <2>1, <2>3, <2>10
    <2> QED BY <2>4, <2>5, <2>6, <2>7, <2>8, <2>9, <2>10
  <1>5. AttemptInv'
    BY <1>1, <1>4 DEF AttemptInv
  <1> QED BY <1>2, <1>3, <1>5 DEF DeliveryInv

LEMMA StartDelivery ==
    ASSUME ListenerAssumption, IInv, DeliveryInv, Start
    PROVE  DeliveryInv'
  <1>1. /\ UNCHANGED <<chain, final>>
        /\ \A d \in Deposits : delivered'[d] = 0
        /\ pc' = "poll" /\ retry' = BlockRetryLimit /\ BlockRetryLimit \in Nat
    BY DEF Start, chainVars, ListenerAssumption
  <1>2. \A h : Logs(h)' = Logs(h)
    BY <1>1 DEF Logs
  <1>3. UniqueInv' /\ PlaceInv' /\ RedeliveryBound'
    BY <1>1, <1>2 DEF DeliveryInv, UniqueInv, PlaceInv, RedeliveryBound
  <1>4. ASSUME NEW i \in DOMAIN Logs(currentBlock)'
        PROVE  delivered'[Logs(currentBlock)'[i]] = 0
    <2>1. TypeOK'
      BY StartIInv DEF IInv
    <2>2. currentBlock' \in Nat /\ Logs(currentBlock)' = Logs(currentBlock')
      BY <1>1, <2>1 DEF TypeOK, Logs
    <2>3. Logs(currentBlock')[i] \in Deposits
      BY <1>4, <2>2, LogType DEF IInv, TypeOK, ChainTypeOK
    <2> QED BY <1>1, <2>2, <2>3
  <1>5. AttemptInv'
    BY <1>1, <1>4 DEF AttemptInv
  <1> QED BY <1>3, <1>5 DEF DeliveryInv

LEMMA SendDelivery ==
    ASSUME ListenerAssumption, IInv, DeliveryInv, Send, Log \in Routed
    PROVE  DeliveryInv'
  <1>1. /\ UNCHANGED <<chain, final, currentBlock, retry, pc>>
        /\ pc = "logs" /\ next' = next + 1
        /\ delivered' = [delivered EXCEPT ![Log] = @ + 1]
    BY DEF Send, NextLog, AtLog, chainVars
  <1>2. /\ Log \in Deposits
        /\ next \in DOMAIN Logs(currentBlock)
        /\ Log = Logs(currentBlock)[next]
        /\ currentBlock \in 1 .. final
    BY AtLogFacts DEF Send
  <1>3. /\ delivered \in [Deposits -> Nat] /\ final \in Nat /\ next \in Nat
        /\ retry \in Nat /\ retry > 0 /\ BlockRetryLimit \in Nat
    BY <1>1 DEF IInv, TypeOK, ProcessingInv, ListenerAssumption
  <1>4. delivered[Log] + retry <= BlockRetryLimit
    BY <1>1, <1>2, <1>3 DEF DeliveryInv, AttemptInv
  <1>5. /\ delivered'[Log] = delivered[Log] + 1
        /\ \A d \in Deposits : d # Log => delivered'[d] = delivered[d]
    BY <1>1, <1>2, <1>3
  <1>6. \A h : Logs(h)' = Logs(h)
    BY <1>1 DEF Logs
  <1>7. UniqueInv'
    BY <1>6 DEF DeliveryInv, UniqueInv
  <1>8. PlaceInv'
    <2>1. ASSUME NEW d \in Deposits, delivered'[d] > 0
          PROVE  \E h \in Nat : /\ h <= final /\ h <= currentBlock
                                /\ \E i \in DOMAIN Logs(h) : Logs(h)[i] = d
      <3>1. CASE d = Log
        BY <1>2, <1>3, <3>1
      <3>2. CASE d # Log
        BY <1>5, <2>1, <3>2 DEF DeliveryInv, PlaceInv
      <3> QED BY <3>1, <3>2
    <2> QED BY <1>1, <1>6, <2>1 DEF PlaceInv
  <1>9. RedeliveryBound'
    <2>1. delivered[Log] \in Nat
      BY <1>2, <1>3
    <2>2. delivered[Log] + 1 <= BlockRetryLimit
      BY <1>3, <1>4, <2>1
    <2> QED BY <1>5, <2>2 DEF DeliveryInv, RedeliveryBound
  <1>10. ASSUME NEW i \in DOMAIN Logs(currentBlock), NEW d, d = Logs(currentBlock)[i]
         PROVE  /\ delivered'[d] + retry <= BlockRetryLimit + 1
                /\ next + 1 <= i => delivered'[d] + retry <= BlockRetryLimit
    <2>1. i \in Nat /\ d \in Deposits
      BY <1>10, LogType DEF IInv, TypeOK, ChainTypeOK
    <2>2. CASE i = next
      <3>1. d = Log /\ delivered[Log] \in Nat
        BY <1>2, <1>3, <1>10, <2>2
      <3> QED BY <1>3, <1>4, <1>5, <2>2, <3>1
    <2>3. CASE i # next
      <3>1. d # Log
        BY <1>2, <1>10, <2>3 DEF DeliveryInv, UniqueInv, IInv, TypeOK
      <3>2. delivered'[d] = delivered[d] /\ delivered[d] \in Nat
        BY <1>3, <1>5, <2>1, <3>1
      <3>3. /\ delivered[d] + retry <= BlockRetryLimit + 1
            /\ next <= i => delivered[d] + retry <= BlockRetryLimit
        BY <1>1, <1>10 DEF DeliveryInv, AttemptInv
      <3> QED BY <1>3, <2>1, <3>2, <3>3
    <2> QED BY <2>2, <2>3
  <1>11. AttemptInv'
    BY <1>1, <1>6, <1>10 DEF AttemptInv
  <1> QED BY <1>7, <1>8, <1>9, <1>11 DEF DeliveryInv

\* The next block has not been sent: what was sent is not beyond this one.
LEMMA StoreDelivery ==
    ASSUME ListenerAssumption, IInv, DeliveryInv, StoreBlock
    PROVE  DeliveryInv'
  <1>1. /\ UNCHANGED <<chain, final, delivered>>
        /\ currentBlock' = currentBlock + 1 /\ retry' = BlockRetryLimit /\ pc' = "poll"
    BY DEF StoreBlock, chainVars, history
  <1>2. /\ currentBlock \in Nat /\ final \in Nat /\ BlockRetryLimit \in Nat
        /\ delivered \in [Deposits -> Nat]
    BY DEF IInv, TypeOK, ListenerAssumption
  <1>3. \A h : Logs(h)' = Logs(h)
    BY <1>1 DEF Logs
  <1>4. UniqueInv' /\ RedeliveryBound'
    BY <1>1, <1>3 DEF DeliveryInv, UniqueInv, RedeliveryBound
  <1>5. PlaceInv'
    <2>1. \A h \in Nat : h <= currentBlock => h <= currentBlock'
      BY <1>1, <1>2
    <2> QED BY <1>1, <1>3, <2>1 DEF DeliveryInv, PlaceInv
  <1>6. ASSUME NEW b \in Nat, b = currentBlock + 1, NEW i \in DOMAIN Logs(b)
        PROVE  delivered[Logs(b)[i]] = 0
    <2>1. Logs(b)[i] \in Deposits
      BY LogType DEF IInv, TypeOK, ChainTypeOK
    <2>2. ASSUME delivered[Logs(b)[i]] > 0 PROVE FALSE
      <3>1. PICK h \in Nat : /\ h <= currentBlock
                             /\ \E j \in DOMAIN Logs(h) : Logs(h)[j] = Logs(b)[i]
        BY <2>1, <2>2 DEF DeliveryInv, PlaceInv
      <3>2. h = b
        BY <3>1 DEF DeliveryInv, UniqueInv
      <3> QED BY <1>2, <1>6, <3>1, <3>2
    <2>3. delivered[Logs(b)[i]] \in Nat
      BY <1>2, <2>1
    <2> QED BY <2>2, <2>3
  <1>7. AttemptInv'
    <2>1. currentBlock' \in Nat /\ currentBlock' = currentBlock + 1
      BY <1>1, <1>2
    <2>2. Logs(currentBlock)' = Logs(currentBlock')
      BY <1>1 DEF Logs
    <2>3. \A i \in DOMAIN Logs(currentBlock') : delivered[Logs(currentBlock')[i]] = 0
      BY <1>6, <2>1
    <2> QED BY <1>1, <1>2, <2>2, <2>3 DEF AttemptInv
  <1> QED BY <1>4, <1>5, <1>7 DEF DeliveryInv

LEMMA NextDelivery ==
    ASSUME SourceChainAssumption, ListenerAssumption, ConfirmationsAssumption,
           IInv, DeliveryInv, [Next]_vars
    PROVE  DeliveryInv'
  <1>1. TypeOK'
    BY NextIInv DEF IInv
  <1>2. CASE ChainStep
    BY <1>2, ChainDelivery
  <1>3. CASE Start
    BY <1>3, StartDelivery
  <1>4. CASE StoreBlock
    BY <1>4, StoreDelivery
  <1>5. CASE Send
    <2>1. CASE Log \in Routed
      BY <1>5, <2>1, SendDelivery
    <2>2. CASE Log \notin Routed
      BY <1>1, <1>5, <2>2, QuietDelivery DEF ListenerAssumption, Send, AtLog, NextLog, chainVars
    <2> QED BY <2>1, <2>2
  <1>6. CASE CoreStop \/ Crash \/ Terminate \/ UNCHANGED vars
    BY <1>1, <1>6, QuietDelivery DEF ListenerAssumption, CoreStop, Crash, Terminate, chainVars, process,
       history, vars
  <1>7. CASE FatalPolling \/ LatestBlockReady \/ LatestBlockFails
    BY <1>1, <1>7, QuietDelivery DEF ListenerAssumption, FatalPolling, LatestBlockReady, LatestBlockFails,
       Polling, chainVars, history, IInv, TypeOK
  <1>8. CASE FilterLogsFails \/ HandlerLookupFails \/ ShortCalldata \/ Erc721RecordFails
    BY <1>1, <1>8, QuietDelivery DEF ListenerAssumption, FilterLogsFails, HandlerLookupFails, ShortCalldata,
       Erc721RecordFails, BlockFails, AtLog, chainVars, history
  <1>9. CASE FilterLogs
    BY <1>1, <1>9, QuietDelivery DEF ListenerAssumption, FilterLogs, chainVars, history
  <1>10. CASE SkipUndecodable \/ GenericRecordFails
    BY <1>1, <1>10, QuietDelivery DEF ListenerAssumption, SkipUndecodable, GenericRecordFails, NextLog, AtLog,
       chainVars, history
  <1>11. CASE UnrecognisedHandler \/ BlockDone
    BY <1>1, <1>11, QuietDelivery DEF ListenerAssumption, UnrecognisedHandler, BlockDone, AtLog, chainVars,
       history
  <1> QED BY <1>2, <1>3, <1>4, <1>5, <1>6, <1>7, <1>8, <1>9, <1>10, <1>11
          DEF Next, PollTop, BlockStep, HandleLog

LEMMA InitDelivery ==
    ASSUME ListenerAssumption, Init
    PROVE  DeliveryInv
  <1>1. \A h : DOMAIN Logs(h) = {}
    BY DEF Init, ChainInit, Logs
  <1>2. \A d \in Deposits : delivered[d] = 0
    BY DEF Init
  <1> QED BY <1>1, <1>2 DEF DeliveryInv, UniqueInv, PlaceInv, AttemptInv, RedeliveryBound,
                            ListenerAssumption

\* One incarnation of the process sends a deposit at most BlockRetryLimit times,
\* however often a block fails after some of its deposits were sent
\* (pollBlocks: retry).
THEOREM RedeliveryIsBounded == Spec => []RedeliveryBound
  <1>1. Init => DeliveryInv
    BY InitDelivery, ListenerAssumption
  <1>2. IInv /\ DeliveryInv /\ [Next]_vars => DeliveryInv'
    BY NextDelivery, SourceChainAssumption, ListenerAssumption, ConfirmationsAssumption
  <1>3. DeliveryInv => RedeliveryBound
    BY DEF DeliveryInv
  <1> QED BY <1>1, <1>2, <1>3, Invariance, PTL DEF Spec
=============================================================================
