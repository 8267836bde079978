---------------------------- MODULE RelayProofs -----------------------------
(***************************************************************************)
(* The composition of listener and writer implements both of them, and     *)
(* together they keep the promise of BridgePromise: for every chain,       *)
(* every number of relayers, deposits, retries, crashes and restarts.      *)
(*                                                                         *)
(* What a step of Relay does to the variables of the listener is a step of *)
(* EthListener or nothing.  The same holds of the writer, provided a task  *)
(* is left for every delivery, which RedeliveryBound says.  The invariants *)
(* proved of the parts then hold of the whole, and carry the refinement:   *)
(* ConfirmedOnly's argument when a deposit is routed, VotesInv and         *)
(* AtMostOneExecuted when a proposal is executed.                          *)
(***************************************************************************)
EXTENDS Relay, FiniteSetTheorems, TLAPS

LP == INSTANCE EthListenerProofs WITH pc <- lpc, stop <- lstop
WP == INSTANCE EthWriterProofs WITH Messages <- Deposits
-----------------------------------------------------------------------------
LEMMA SameListenerAssumptions ==
    LP!SourceChainAssumption /\ LP!ListenerAssumption /\ LP!ConfirmationsAssumption
  BY PartsAssumption
    DEF L!SourceChainAssumption, LP!SourceChainAssumption, L!ListenerAssumption,
        LP!ListenerAssumption, L!ConfirmationsAssumption, LP!ConfirmationsAssumption,
        L!Handlers, LP!Handlers

LEMMA SameListener ==
    /\ L!Init <=> LP!Init
    /\ L!Next <=> LP!Next
    /\ L!vars = LP!vars /\ L!vars' = LP!vars'
  BY
    DEF L!chainVars, LP!chainVars, L!Height, LP!Height, L!Logs, LP!Logs, L!Mined,
        LP!Mined, L!NewBlocks, LP!NewBlocks, L!ChainInit, LP!ChainInit, L!Mine, LP!Mine,
        L!Reorg, LP!Reorg, L!ChainNext, LP!ChainNext, L!BoundedSeq, LP!BoundedSeq,
        L!SeqOf, LP!SeqOf, L!IsInjective, LP!IsInjective, L!Recognised, LP!Recognised,
        L!listenerVars, LP!listenerVars, L!vars, LP!vars, L!history, LP!history,
        L!process, LP!process, L!Init, LP!Init, L!ResumeBlock, LP!ResumeBlock, L!Start,
        LP!Start, L!CoreStop, LP!CoreStop, L!Crash, LP!Crash, L!Terminate, LP!Terminate,
        L!FatalPolling, LP!FatalPolling, L!Polling, LP!Polling, L!LatestBlockFails,
        LP!LatestBlockFails, L!Confirmed, LP!Confirmed, L!LatestBlockReady,
        LP!LatestBlockReady, L!BlockFails, LP!BlockFails, L!FilterLogsFails,
        LP!FilterLogsFails, L!FilterLogs, LP!FilterLogs, L!AtLog, LP!AtLog, L!Log,
        LP!Log, L!NextLog, LP!NextLog, L!SkipUndecodable, LP!SkipUndecodable,
        L!HandlerLookupFails, LP!HandlerLookupFails, L!UnrecognisedHandler,
        LP!UnrecognisedHandler, L!ShortCalldata, LP!ShortCalldata, L!Erc721RecordFails,
        LP!Erc721RecordFails, L!GenericRecordFails, LP!GenericRecordFails, L!Send,
        LP!Send, L!BlockDone, LP!BlockDone, L!StoreBlock, LP!StoreBlock, L!HandleLog,
        LP!HandleLog, L!PollTop, LP!PollTop, L!BlockStep, LP!BlockStep, L!ChainStep,
        LP!ChainStep, L!Next, LP!Next

LEMMA SameWriterAssumptions ==
    WP!ContractAssumption /\ WP!WriterAssumption
  BY PartsAssumption
    DEF W!ContractAssumption, WP!ContractAssumption, W!WriterAssumption,
        WP!WriterAssumption, W!Types, WP!Types, W!IsFiniteSet, WP!IsFiniteSet

LEMMA SameWriter ==
    /\ W!Init <=> WP!Init
    /\ W!Next <=> WP!Next
    /\ W!vars = WP!vars /\ W!vars' = WP!vars'
  BY
    DEF W!contractVars, WP!contractVars, W!Proposals, WP!Proposals, W!HandlerSucceeds,
        WP!HandlerSucceeds, W!HandlerReverts, WP!HandlerReverts, W!ExecuteProposal,
        WP!ExecuteProposal, W!CountVote, WP!CountVote, W!VoteExpired, WP!VoteExpired,
        W!VoteReverts, WP!VoteReverts, W!VoteProposal, WP!VoteProposal,
        W!CancelProposal, WP!CancelProposal, W!ContractInit, WP!ContractInit,
        W!taskVars, WP!taskVars, W!accountVars, WP!accountVars, W!worldVars,
        WP!worldVars, W!vars, WP!vars, W!Relayer, WP!Relayer, W!Message, WP!Message,
        W!Hash, WP!Hash, W!Proposal, WP!Proposal, W!Txs, WP!Txs, W!Tx, WP!Tx, W!Init,
        WP!Init, W!Goto, WP!Goto, W!Frame, WP!Frame, W!ReadOnly, WP!ReadOnly,
        W!ProposalIsComplete, WP!ProposalIsComplete, W!ProposalIsFinalized,
        WP!ProposalIsFinalized, W!ProposalIsPassed, WP!ProposalIsPassed, W!HasVoted,
        WP!HasVoted, W!ResolveMessage, WP!ResolveMessage, W!CheckComplete,
        WP!CheckComplete, W!CheckVoted, WP!CheckVoted, W!CheckPassed, WP!CheckPassed,
        W!LatestBlock, WP!LatestBlock, W!StopLoop, WP!StopLoop, W!FatalTx, WP!FatalTx,
        W!EnterLoop, WP!EnterLoop, W!LockIsFree, WP!LockIsFree, W!LockOpts, WP!LockOpts,
        W!UnlockOpts, WP!UnlockOpts, W!PendingNonce, WP!PendingNonce, W!UpdateOpts,
        WP!UpdateOpts, W!UpdateOptsFails, WP!UpdateOptsFails, W!Accept, WP!Accept,
        W!Submit, WP!Submit, W!SubmitFails, WP!SubmitFails, W!Recheck, WP!Recheck,
        W!TaskStep, WP!TaskStep, W!MineTx, WP!MineTx, W!DropTx, WP!DropTx, W!Cancel,
        WP!Cancel, W!CoreStop, WP!CoreStop, W!Crash, WP!Crash, W!Next, WP!Next,
        W!Cardinality, WP!Cardinality, W!Front, WP!Front
-----------------------------------------------------------------------------
(* The parts within the whole.                                             *)

LEMMA ListenerStep ==
    ASSUME [Next]_vars
    PROVE  [L!Next]_(L!vars)
  <1>1. CASE Start \/ CoreStop \/ SourceStep \/ PollFails
    BY <1>1 DEF Start, CoreStop, SourceStep, PollFails, L!Next
  <1>2. CASE Route \/ ReadBlock
    BY <1>2 DEF Route, ReadBlock, L!BlockStep, L!HandleLog, L!Next
  <1>3. CASE Poll
    BY <1>3 DEF Poll, L!Next
  <1>4. CASE ProcessEnds
    BY <1>4 DEF ProcessEnds, listenerVars, L!Next, L!vars
  <1>5. CASE (\E t \in Tasks : Write(t)) \/ OthersRoute \/ OthersFail \/ DestinationStep
    BY <1>5 DEF Write, OthersRoute, OthersFail, DestinationStep, listenerVars, L!vars
  <1>6. CASE UNCHANGED vars
    BY <1>6 DEF vars, L!vars
  <1> QED BY <1>1, <1>2, <1>3, <1>4, <1>5, <1>6 DEF Next

\* The process of Relay runs the listener as EthListener has it.
THEOREM ListenerWithin == Spec => LP!Spec
  <1>1. Init => LP!Init
    BY SameListener DEF Init
  <1>2. ASSUME [Next]_vars PROVE [LP!Next]_(LP!vars)
    <2>1. [L!Next]_(L!vars)
      BY <1>2, ListenerStep
    <2> QED BY <2>1, SameListener
  <1> QED BY <1>1, <1>2, PTL DEF Spec, LP!Spec

LEMMA ListenerInvariants == Spec => [](LP!IInv /\ LP!RedeliveryBound)
  <1>1. LP!Spec => []LP!IInv
    BY SameListenerAssumptions, LP!Invariance
       DEF LP!SourceChainAssumption, LP!ListenerAssumption, LP!ConfirmationsAssumption
  <1>2. LP!Spec => []LP!RedeliveryBound
    BY SameListenerAssumptions, LP!RedeliveryIsBounded
       DEF LP!SourceChainAssumption, LP!ListenerAssumption, LP!ConfirmationsAssumption
  <1> QED BY <1>1, <1>2, ListenerWithin, PTL

\* A delivery that is counted has a task of its own.
LEMMA RouteHasTask ==
    ASSUME LP!IInv, LP!RedeliveryBound', Route
    PROVE  <<Self, L!Log, delivered[L!Log] + 1>> \in Tasks
  <1>1. LP!AtLog /\ L!Log = LP!Log
    BY DEF Route, L!AtLog, LP!AtLog, L!Log, LP!Log
  <1>2. L!Log \in Deposits
    BY <1>1, SameListenerAssumptions, LP!AtLogFacts
       DEF LP!SourceChainAssumption, LP!ListenerAssumption, LP!ConfirmationsAssumption
  <1>3. delivered \in [Deposits -> Nat]
    BY DEF LP!IInv, LP!TypeOK
  <1>4. delivered' = [delivered EXCEPT ![L!Log] = @ + 1]
    BY DEF Route, L!Send
  <1>5. delivered'[L!Log] = delivered[L!Log] + 1 /\ delivered[L!Log] \in Nat
    BY <1>2, <1>3, <1>4
  <1>6. delivered'[L!Log] <= BlockRetryLimit
    BY <1>2 DEF LP!RedeliveryBound
  <1>7. delivered[L!Log] + 1 \in 1 .. BlockRetryLimit
    <2>1. BlockRetryLimit \in Nat
      BY PartsAssumption DEF L!ListenerAssumption
    <2> QED BY <1>5, <1>6, <2>1
  <1>8. L!Log \in Routed
    BY DEF Route
  <1> QED BY <1>7, <1>8, RelayAssumption

LEMMA WriterStep ==
    ASSUME LP!IInv, LP!RedeliveryBound', [Next]_vars
    PROVE  [W!Next]_(W!vars)
  <1>1. CASE Start \/ ReadBlock \/ Poll \/ PollFails \/ SourceStep
    BY <1>1 DEF Start, ReadBlock, Poll, PollFails, SourceStep, writerVars, W!vars
  <1>2. CASE Route
    BY <1>2, RouteHasTask DEF Route, W!Next
  <1>3. CASE CoreStop
    BY <1>3, RelayAssumption DEF CoreStop, W!Next
  <1>4. CASE ProcessEnds
    BY <1>4, RelayAssumption DEF ProcessEnds, W!Next
  <1>5. CASE \E t \in Tasks : Write(t)
    BY <1>5 DEF Write, W!Next
  <1>6. CASE OthersRoute \/ OthersFail
    BY <1>6 DEF OthersRoute, OthersFail, W!Next
  <1>7. CASE DestinationStep
    BY <1>7 DEF DestinationStep, W!Next
  <1>8. CASE UNCHANGED vars
    BY <1>8 DEF vars, W!vars
  <1> QED BY <1>1, <1>2, <1>3, <1>4, <1>5, <1>6, <1>7, <1>8 DEF Next

\* The processes of Relay run the writers as EthWriter has them.
THEOREM WriterWithin == Spec => WP!Spec
  <1>1. Init => WP!Init
    BY SameWriter DEF Init
  <1>2. ASSUME LP!IInv, LP!RedeliveryBound', [Next]_vars PROVE [WP!Next]_(WP!vars)
    <2>1. [W!Next]_(W!vars)
      BY <1>2, WriterStep
    <2> QED BY <2>1, SameWriter
  <1> QED BY <1>1, <1>2, ListenerInvariants, PTL DEF Spec, WP!Spec

WriterInv == WP!TypeOK /\ WP!VotesInv /\ WP!AtMostOneExecuted

LEMMA WriterInvariants == Spec => []WriterInv
  <1>1. WP!Spec => []WP!TypeOK
    BY SameWriterAssumptions, WP!TypeCorrect
       DEF WP!WriterAssumption, WP!ContractAssumption
  <1>2. WP!Spec => []WP!VotesInv
    BY SameWriterAssumptions, WP!VotesInvariance
       DEF WP!WriterAssumption, WP!ContractAssumption
  <1>3. WP!Spec => []WP!AtMostOneExecuted
    BY SameWriterAssumptions, WP!OneProposalPasses
       DEF WP!WriterAssumption, WP!ContractAssumption
  <1>4. WP!TypeOK /\ WP!VotesInv /\ WP!AtMostOneExecuted => WriterInv
    BY DEF WriterInv
  <1> QED BY <1>1, <1>2, <1>3, <1>4, WriterWithin, PTL
-----------------------------------------------------------------------------
(* The refinement.                                                         *)

Effects == {p \in W!Proposals : status[p] = "executed"}

\* What the state variables of the promise are in Relay.
LEMMA Mapping ==
    /\ Promise!Init <=> Irreversible = {} /\ resolved = {} /\ Effects = {}
    /\ Promise!vars = <<Irreversible, resolved, Effects>>
    /\ Promise!vars' = <<Irreversible', resolved', Effects'>>
  BY DEF Promise!Init, Promise!vars, Effects

LEMMA InitKeeps ==
    ASSUME Init
    PROVE  Promise!Init
  <1>1. Irreversible = {}
    BY DEF Init, L!Init, L!ChainInit, Irreversible
  <1>2. resolved = {}
    BY DEF Init, W!Init
  <1>3. Effects = {}
    BY DEF Init, W!Init, W!ContractInit, Effects
  <1> QED BY <1>1, <1>2, <1>3, Mapping

\* The source chain moves: what is irreversible stays irreversible.
LEMMA SourceKeeps ==
    ASSUME LP!IInv, SourceStep
    PROVE  Promise!Settle
  <1>1. L!ChainStep /\ UNCHANGED <<status, resolved>>
    BY DEF SourceStep, writerVars
  <1>2. LP!Mine \/ LP!Reorg
    BY <1>1
       DEF L!ChainStep, LP!ChainStep, L!ChainNext, LP!ChainNext, L!chainVars,
           LP!chainVars, L!Height, LP!Height, L!Logs, LP!Logs, L!Mined, LP!Mined,
           L!NewBlocks, LP!NewBlocks, L!ChainInit, LP!ChainInit, L!Mine, LP!Mine,
           L!Reorg, LP!Reorg, L!ChainNext, LP!ChainNext, L!BoundedSeq, LP!BoundedSeq,
           L!SeqOf, LP!SeqOf, L!IsInjective, LP!IsInjective
  <1>3. LP!TypeOK /\ LP!CursorInv
    BY DEF LP!IInv
  <1>4. /\ final \in Nat /\ final' \in Nat /\ final <= final'
        /\ \A h \in Nat : h <= final => LP!Logs(h)' = LP!Logs(h)
    BY <1>2, <1>3, SameListenerAssumptions, LP!MineStable, LP!ReorgStable
       DEF LP!SourceChainAssumption, LP!ListenerAssumption, LP!ConfirmationsAssumption,
           LP!TypeOK, LP!ChainTypeOK, LP!CursorInv
  <1>5. Irreversible \subseteq Irreversible' /\ Irreversible' \subseteq Deposits
    BY <1>4 DEF Irreversible, L!Logs, LP!Logs
  <1>6. Effects' = Effects
    BY <1>1 DEF Effects, W!Proposals
  <1> QED BY <1>1, <1>5, <1>6 DEF Promise!Settle, Effects

LEMMA SameSource ==
    ASSUME UNCHANGED <<chain, final>>
    PROVE  Irreversible' = Irreversible
  BY DEF Irreversible, L!Logs

LEMMA SameEffects ==
    ASSUME UNCHANGED status
    PROVE  Effects' = Effects
  BY DEF Effects, W!Proposals

\* A deposit that is routed is irreversible.
LEMMA AttestKeeps ==
    ASSUME NEW r \in Relayers, NEW m \in Irreversible,
           UNCHANGED <<chain, final, status>>,
           resolved' = resolved \cup {<<r, m>>}
    PROVE  Promise!Next
  <1>1. Promise!Attest(r, m)
    BY SameSource, SameEffects DEF Promise!Attest, Effects
  <1>2. m \in Deposits
    BY DEF Irreversible
  <1> QED BY <1>1, <1>2 DEF Promise!Next

LEMMA RouteKeeps ==
    ASSUME LP!IInv, Route
    PROVE  Promise!Next
  <1>1. LP!AtLog /\ L!Log = LP!Log
    BY DEF Route, L!AtLog, LP!AtLog, L!Log, LP!Log
  <1>2. /\ L!Log \in Deposits
        /\ next \in DOMAIN LP!Logs(currentBlock)
        /\ L!Log = LP!Logs(currentBlock)[next]
        /\ currentBlock \in 1 .. final
    BY <1>1, SameListenerAssumptions, LP!AtLogFacts
       DEF LP!SourceChainAssumption, LP!ListenerAssumption, LP!ConfirmationsAssumption
  <1>3. L!Log \in Irreversible
    BY <1>2 DEF Irreversible, L!Logs, LP!Logs
  <1>4. UNCHANGED <<chain, final, status>>
    BY DEF Route, L!Send, L!NextLog, L!chainVars, W!ResolveMessage, W!contractVars
  <1>5. resolved' = resolved \cup {<<Self, L!Log>>}
    BY DEF Route, W!ResolveMessage, W!Relayer, W!Message
  <1> QED BY <1>3, <1>4, <1>5, RelayAssumption, AttestKeeps

LEMMA OthersKeep ==
    ASSUME OthersRoute
    PROVE  Promise!Next
  <1>1. PICK t \in Tasks : t[2] \in Irreversible /\ W!ResolveMessage(t)
    BY DEF OthersRoute
  <1>2. t[1] \in Relayers
    BY PartsAssumption DEF W!WriterAssumption
  <1>3. UNCHANGED <<chain, final, status>> /\ resolved' = resolved \cup {<<t[1], t[2]>>}
    BY <1>1 DEF OthersRoute, listenerVars, W!ResolveMessage, W!contractVars, W!Relayer,
       W!Message
  <1> QED BY <1>1, <1>2, <1>3, AttestKeeps

\* What a transaction does to the status of the proposal it is about.
LEMMA ContractStep ==
    ASSUME WP!TypeOK, NEW r \in Relayers, NEW p \in W!Proposals,
           W!VoteProposal(r, p) \/ W!ExecuteProposal(p) \/ W!CancelProposal(p)
    PROVE  \/ status' = status
           \/ status[p] # "executed" /\ \E s : status' = [status EXCEPT ![p] = s]
  BY DEF W!VoteProposal, W!CountVote, W!VoteExpired, W!VoteReverts, W!ExecuteProposal,
         W!HandlerSucceeds, W!HandlerReverts, W!CancelProposal, W!contractVars

LEMMA StatusStep ==
    ASSUME WP!TypeOK, DestinationStep
    PROVE  \/ status' = status
           \/ \E p \in W!Proposals : \E s : /\ status[p] # "executed"
                                            /\ status' = [status EXCEPT ![p] = s]
  <1>1. CASE \E r \in Relayers : W!MineTx(r)
    <2>1. PICK r \in Relayers : W!MineTx(r)
      BY <1>1
    <2>2. pool[r] \in Seq(WP!Txs) /\ pool[r] # << >>
      BY <2>1 DEF W!MineTx, WP!TypeOK
    <2> DEFINE tx == Head(pool[r])
    <2>3. tx \in WP!Txs
      BY <2>2
    <2>4. tx.proposal \in W!Proposals
      BY <2>3 DEF WP!Txs, WP!Proposals, W!Proposals
    <2>5. W!VoteProposal(r, tx.proposal) \/ W!ExecuteProposal(tx.proposal)
      BY <2>1 DEF W!MineTx
    <2> QED BY <2>4, <2>5, ContractStep
  <1>2. CASE \E r \in Relayers : W!DropTx(r)
    BY <1>2 DEF W!DropTx, W!contractVars
  <1>3. CASE W!Cancel
    <2>1. PICK p \in W!Proposals : W!CancelProposal(p)
      BY <1>3 DEF W!Cancel
    <2>2. PICK r : r \in Relayers
      BY RelayAssumption
    <2> QED BY <2>1, <2>2, ContractStep
  <1> QED BY <1>1, <1>2, <1>3 DEF DestinationStep

\* A proposal is executed only when a quorum supports it, and the only one of
\* its deposit when the quorum is a majority.
LEMMA EffectKeeps ==
    ASSUME WriterInv, WriterInv', NEW p \in W!Proposals, status[p] # "executed",
           UNCHANGED <<chain, final, resolved>>,
           status' = [status EXCEPT ![p] = "executed"]
    PROVE  Promise!Effect(p[1], p[2])
  <1>1. /\ status \in [W!Proposals -> WP!Statuses]
        /\ votes' \in [W!Proposals -> SUBSET Relayers]
    BY DEF WriterInv, WP!TypeOK, WP!Proposals, W!Proposals
  <1>2. p = <<p[1], p[2]>> /\ p[1] \in Deposits /\ p[2] \in Hashes
    BY DEF W!Proposals
  <1>3. status'[p] = "executed"
    BY <1>1
  <1>4. Effects' = Effects \cup {p}
    BY <1>1 DEF Effects, W!Proposals
  <1>5. Cardinality(votes'[p]) >= Threshold
    <2>1. WP!QuorumInv'
      BY DEF WriterInv, WP!VotesInv
    <2> QED BY <1>3, <2>1 DEF WP!QuorumInv, WP!Proposals, W!Proposals, WP!Cardinality,
                              Cardinality
  <1>6. votes'[p] \subseteq Promise!Supporters(p[1], p[2])
    <2>1. \A r \in votes'[p] : <<r, p[1]>> \in resolved' /\ Data[r][p[1]] = p[2]
      BY DEF WriterInv, WP!VotesInv, WP!VotersInv, WP!Attests, WP!Proposals, W!Proposals
    <2> QED BY <1>1, <2>1 DEF Promise!Supporters
  <1>7. Cardinality(Promise!Supporters(p[1], p[2])) >= Threshold
    <2> DEFINE S == Promise!Supporters(p[1], p[2])
    <2>1. IsFiniteSet(Relayers) /\ Threshold \in Nat
      BY PartsAssumption DEF W!ContractAssumption, W!IsFiniteSet, IsFiniteSet
    <2>2. S \subseteq Relayers
      BY DEF Promise!Supporters
    <2>3. IsFiniteSet(S)
      BY <2>1, <2>2, FS_Subset
    <2>4. IsFiniteSet(votes'[p]) /\ Cardinality(votes'[p]) <= Cardinality(S)
      BY <1>6, <2>3, FS_Subset
    <2>5. Cardinality(votes'[p]) \in Nat /\ Cardinality(S) \in Nat
      BY <2>3, <2>4, FS_CardinalityType
    <2>6. \A a, b, t \in Nat : a >= t /\ a <= b => b >= t
      OBVIOUS
    <2> HIDE DEF S
    <2>7. Cardinality(S) >= Threshold
      BY <1>5, <2>1, <2>4, <2>5, <2>6
    <2> QED BY <2>7 DEF S
  <1>8. ASSUME 2 * Threshold > Cardinality(Relayers), NEW k \in Hashes, <<p[1], k>> \in Effects
        PROVE  FALSE
    <2>1. status[<<p[1], k>>] = "executed" /\ <<p[1], k>> \in W!Proposals
      BY <1>8 DEF Effects
    <2>2. status'[<<p[1], k>>] = "executed"
      BY <1>1, <2>1
    <2>3. k = p[2]
      BY <1>2, <1>3, <1>8, <2>2
         DEF WriterInv, WP!AtMostOneExecuted, WP!Cardinality, Cardinality
    <2> QED BY <1>2, <2>1, <2>3
  <1>9. UNCHANGED <<Irreversible, resolved>>
    BY SameSource
  <1> QED BY <1>2, <1>4, <1>7, <1>8, <1>9
      DEF Promise!Effect, Promise!Cardinality, Cardinality, Effects

LEMMA DestinationKeeps ==
    ASSUME WriterInv, WriterInv', DestinationStep
    PROVE  [Promise!Next]_(Promise!vars)
  <1>1. UNCHANGED <<chain, final>>
    BY DEF DestinationStep, listenerVars
  <1>2. UNCHANGED resolved
    BY DEF DestinationStep, W!MineTx, W!DropTx, W!Cancel
  <1>3. CASE status' = status
    BY <1>1, <1>2, <1>3, SameSource, SameEffects, Mapping
  <1>4. ASSUME NEW p \in W!Proposals, NEW s, status[p] # "executed",
               status' = [status EXCEPT ![p] = s]
        PROVE  [Promise!Next]_(Promise!vars)
    <2>1. CASE s = "executed"
      <3>1. Promise!Effect(p[1], p[2])
        BY <1>1, <1>2, <1>4, <2>1, EffectKeeps
      <3>2. p[1] \in Deposits /\ p[2] \in Hashes
        BY DEF W!Proposals
      <3> QED BY <3>1, <3>2 DEF Promise!Next
    <2>2. CASE s # "executed"
      <3>1. status \in [W!Proposals -> WP!Statuses]
        BY DEF WriterInv, WP!TypeOK, WP!Proposals, W!Proposals
      <3>2. Effects' = Effects
        BY <1>4, <2>2, <3>1 DEF Effects, W!Proposals
      <3> QED BY <1>1, <1>2, <3>2, SameSource, Mapping
    <2> QED BY <2>1, <2>2
  <1>5. WP!TypeOK
    BY DEF WriterInv
  <1> QED BY <1>3, <1>4, <1>5, StatusStep

\* Whatever else happens does not concern the promise.
LEMMA OtherwiseKeeps ==
    ASSUME \/ Start \/ ReadBlock \/ Poll \/ PollFails \/ CoreStop \/ ProcessEnds
           \/ (\E t \in Tasks : Write(t)) \/ OthersFail \/ UNCHANGED vars
    PROVE  UNCHANGED Promise!vars
  <1>1. UNCHANGED <<chain, final, resolved, status>>
    <2>1. CASE Start \/ Poll \/ PollFails
      BY <2>1 DEF Start, Poll, PollFails, writerVars, L!Start, L!PollTop, L!Terminate,
         L!FatalPolling, L!LatestBlockReady, L!LatestBlockFails, L!chainVars
    <2>2. CASE ReadBlock
      BY <2>2 DEF ReadBlock, writerVars, L!BlockStep, L!FilterLogsFails, L!FilterLogs,
         L!HandleLog, L!SkipUndecodable, L!HandlerLookupFails, L!UnrecognisedHandler,
         L!ShortCalldata, L!Erc721RecordFails, L!GenericRecordFails, L!Send, L!BlockFails,
         L!NextLog, L!BlockDone, L!StoreBlock, L!chainVars
    <2>3. CASE CoreStop \/ ProcessEnds
      BY <2>3 DEF CoreStop, ProcessEnds, L!CoreStop, L!Crash, L!chainVars, W!CoreStop,
         W!Crash, W!contractVars, listenerVars
    <2>4. CASE \E t \in Tasks : Write(t)
      BY <2>4 DEF Write, listenerVars, W!TaskStep, W!CheckComplete, W!CheckVoted,
         W!CheckPassed, W!LatestBlock, W!StopLoop, W!FatalTx, W!EnterLoop, W!LockOpts,
         W!UpdateOpts, W!UpdateOptsFails, W!Submit, W!SubmitFails, W!Recheck, W!ReadOnly,
         W!Frame, W!contractVars
    <2>5. CASE OthersFail
      BY <2>5 DEF OthersFail, listenerVars, W!CoreStop, W!Crash, W!contractVars
    <2>6. CASE UNCHANGED vars
      BY <2>6 DEF vars
    <2> QED BY <2>1, <2>2, <2>3, <2>4, <2>5, <2>6
  <1> QED BY <1>1, SameSource, SameEffects, Mapping

\* Relay implements BridgePromise: a deposit takes effect only after it has
\* become irreversible and a quorum has taken it up with the very data, and at
\* most once when the quorum is a majority (pollBlocks, ResolveMessage,
\* voteProposal and executeProposal of any number of relayers).
THEOREM PromiseIsKept == Spec => KeepsPromise
  <1>1. Init => Promise!Init
    BY InitKeeps
  <1>2. ASSUME LP!IInv, WriterInv, WriterInv', [Next]_vars
        PROVE  [Promise!Next]_(Promise!vars)
    <2>1. CASE SourceStep
      BY <1>2, <2>1, SourceKeeps DEF Promise!Next
    <2>2. CASE Route
      BY <1>2, <2>2, RouteKeeps
    <2>3. CASE OthersRoute
      BY <2>3, OthersKeep
    <2>4. CASE DestinationStep
      BY <1>2, <2>4, DestinationKeeps
    <2>5. CASE ~(SourceStep \/ Route \/ OthersRoute \/ DestinationStep)
      BY <1>2, <2>5, OtherwiseKeeps DEF Next
    <2> QED BY <2>1, <2>2, <2>3, <2>4, <2>5
  <1>3. Spec => [](LP!IInv /\ WriterInv)
    BY ListenerInvariants, WriterInvariants, PTL
  <1> QED BY <1>1, <1>2, <1>3, PTL DEF Spec, KeepsPromise, Promise!Spec
-----------------------------------------------------------------------------
(* What the promise means for Relay.                                       *)

\* Who was given a deposit was given one that cannot be reverted any more.
Settled == resolved \subseteq Relayers \X Irreversible

LEMMA PromiseSettles == Promise!Spec => []Settled
  <1>1. Promise!Init => Settled
    BY Mapping DEF Settled
  <1>2. ASSUME Settled, [Promise!Next]_(Promise!vars)
        PROVE  Settled'
    <2>1. CASE Promise!Settle
      BY <1>2, <2>1 DEF Settled, Promise!Settle
    <2>2. CASE \E r \in Relayers, m \in Deposits : Promise!Attest(r, m)
      BY <1>2, <2>2 DEF Settled, Promise!Attest
    <2>3. CASE \E m \in Deposits, h \in Hashes : Promise!Effect(m, h)
      BY <1>2, <2>3 DEF Settled, Promise!Effect
    <2>4. CASE UNCHANGED Promise!vars
      BY <1>2, <2>4, Mapping DEF Settled
    <2> QED BY <1>2, <2>1, <2>2, <2>3, <2>4 DEF Promise!Next
  <1> QED BY <1>1, <1>2, PTL DEF Promise!Spec

\* The relayers that were given a deposit and computed the data h for it.
Backers(m, h) == {r \in Relayers : <<r, m>> \in resolved /\ Data[r][m] = h}

\* A deposit with an executed proposal is in a block of the source chain that
\* no reorganisation reverts, a quorum of relayers computed the data that were
\* executed, and when the quorum is a majority no other data were.
EndToEnd ==
    \A m \in Deposits : \A h \in Hashes : status[<<m, h>>] = "executed" =>
        /\ m \in Irreversible
        /\ Cardinality(Backers(m, h)) >= Threshold
        /\ 2 * Threshold > Cardinality(Relayers) =>
              \A k \in Hashes : status[<<m, k>>] = "executed" => k = h

\* From the log the listener reads (getDepositEventsForBlock) to the execution
\* of the proposal (voteProposal, executeProposal), over both chains and any
\* number of relayers: nothing takes effect that was not deposited for good.
THEOREM DepositsTakeEffect == Spec => []EndToEnd
  <1>1. ASSUME Settled, WriterInv, WP!Attested
        PROVE  EndToEnd
    <2> SUFFICES ASSUME NEW m \in Deposits, NEW h \in Hashes,
                        status[<<m, h>>] = "executed"
                 PROVE  /\ m \in Irreversible
                        /\ Cardinality(Backers(m, h)) >= Threshold
                        /\ 2 * Threshold > Cardinality(Relayers) =>
                              \A k \in Hashes : status[<<m, k>>] = "executed" => k = h
      BY DEF EndToEnd
    <2>1. <<m, h>> \in WP!Proposals
      BY DEF WP!Proposals
    <2>2. PICK Q \in SUBSET Relayers :
             /\ WP!Cardinality(Q) >= Threshold
             /\ \A r \in Q : WP!Attests(r, <<m, h>>)
      BY <1>1, <2>1 DEF WP!Attested
    <2>3. WP!Cardinality(Q) = Cardinality(Q)
      BY DEF WP!Cardinality, Cardinality
    <2>4. IsFiniteSet(Relayers) /\ Threshold \in Nat /\ Threshold >= 1
      BY SameWriterAssumptions DEF WP!ContractAssumption, WP!IsFiniteSet, IsFiniteSet
    <2>5. Q \subseteq Backers(m, h) /\ Backers(m, h) \subseteq Relayers
      BY <2>2 DEF WP!Attests, Backers
    <2>6. /\ IsFiniteSet(Backers(m, h))
          /\ Cardinality(Q) \in Nat /\ Cardinality(Backers(m, h)) \in Nat
          /\ Cardinality(Q) <= Cardinality(Backers(m, h))
      BY <2>4, <2>5, FS_Subset, FS_CardinalityType
    <2>7. Cardinality(Backers(m, h)) >= Threshold
      BY <2>2, <2>3, <2>4, <2>6
    <2>8. Q # {}
      <3>1. Cardinality({}) = 0
        BY FS_EmptySet
      <3>2. ~(0 >= Threshold)
        BY <2>4
      <3> QED BY <2>2, <2>3, <3>1, <3>2
    <2>9. m \in Irreversible
      BY <1>1, <2>2, <2>8 DEF Settled, WP!Attests
    <2>10. 2 * Threshold > Cardinality(Relayers) =>
              \A k \in Hashes : status[<<m, k>>] = "executed" => k = h
      <3>1. WP!Cardinality(Relayers) = Cardinality(Relayers)
        BY DEF WP!Cardinality, Cardinality
      <3> QED BY <1>1, <3>1 DEF WriterInv, WP!AtMostOneExecuted
    <2> QED BY <2>7, <2>9, <2>10
  <1>2. WP!Spec => []WP!Attested
    BY SameWriterAssumptions, WP!PassedIsAttested
       DEF WP!WriterAssumption, WP!ContractAssumption
  <1>3. KeepsPromise => []Settled
    BY PromiseSettles DEF KeepsPromise
  <1> QED BY <1>1, <1>2, <1>3, WriterInvariants, WriterWithin, PromiseIsKept, PTL
=============================================================================
