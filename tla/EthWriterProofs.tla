--------------------------- MODULE EthWriterProofs ---------------------------
(***************************************************************************)
(* Two groups of theorems about EthWriter, for any number of relayers,     *)
(* messages and goroutines.                                                *)
(*                                                                         *)
(* The opts: LockDiscipline and NoNonceReuse, from OptsInv.  The           *)
(* strengthening is that a task about to submit still has a nonce that is  *)
(* not below the pending one: only the holder of the lock adds to the      *)
(* pool, mining moves a transaction from pending to mined, and dropping    *)
(* lowers the pending nonce.                                               *)
(*                                                                         *)
(* The votes: Attested and AtMostOneExecuted, from VotesInv, which follows *)
(* a vote from the message delivered to the relayer, through its task and  *)
(* its account's pool, to the contract.                                    *)
(***************************************************************************)
EXTENDS EthWriter, SequenceTheorems, FiniteSetTheorems, TLAPS

\* A task between UpdateOpts and UnlockOpts has a nonce no pending transaction has.
NonceInv ==
    \A t \in Tasks : pc[t] = "submit" =>
        nonce[Relayer(t)] >= mined[Relayer(t)] + Len(pool[Relayer(t)])

\* A task inside the loop has a retry left.
TriesInv ==
    \A t \in Tasks : pc[t] \in {"lock", "updateOpts", "submit", "recheck"} =>
        tries[t] < TxRetryLimit

OptsInv ==
    /\ TypeOK
    /\ TriesInv
    /\ LockDiscipline
    /\ NonceInv
    /\ NoNonceReuse

TaskInv == \A t \in Tasks : pc[t] # "idle" => <<Relayer(t), Message(t)>> \in resolved

PoolInv ==
    \A r \in Relayers : \A i \in DOMAIN pool[r] :
        pool[r][i].op = "vote" => Attests(r, pool[r][i].proposal)

VotersInv == \A p \in Proposals : \A r \in votes[p] : Attests(r, p)

QuorumInv ==
    \A p \in Proposals : status[p] \in {"passed", "executed"} =>
        Cardinality(votes[p]) >= Threshold

VotesInv ==
    /\ TaskInv
    /\ PoolInv
    /\ VotersInv
    /\ QuorumInv
-----------------------------------------------------------------------------
LEMMA TaskType ==
    ASSUME WriterAssumption, NEW t \in Tasks
    PROVE  /\ Relayer(t) \in Relayers
           /\ Message(t) \in Messages
           /\ Proposal(t) \in Proposals
           /\ t = <<Relayer(t), Message(t), t[3]>>
  BY DEF WriterAssumption, Relayer, Message, Proposal, Proposals, Hash

LEMMA TxType ==
    ASSUME WriterAssumption, TypeOK, NEW t \in Tasks
    PROVE  Tx(t) \in Txs
  BY TaskType DEF TypeOK, Tx, Txs

LEMMA ProposalType ==
    ASSUME NEW p \in Proposals
    PROVE  p[1] \in Messages /\ p[2] \in Hashes /\ p = <<p[1], p[2]>>
  BY DEF Proposals

\* What the steps of a task that only read have in common.
Quiet(t) ==
    \/ CheckComplete(t)
    \/ CheckVoted(t)
    \/ CheckPassed(t)
    \/ LatestBlock(t)
    \/ StopLoop(t)
    \/ FatalTx(t)
    \/ EnterLoop(t)
    \/ Recheck(t)

Elsewhere == Pcs \ (Critical \cup {"idle"})

LEMMA QuietStep ==
    ASSUME WriterAssumption, TypeOK, TriesInv, NEW t \in Tasks, Quiet(t)
    PROVE  /\ ReadOnly
           /\ pc[t] \in Elsewhere
           /\ \E l \in Elsewhere \ {"recheck"} :
                 pc' = [pc EXCEPT ![t] = l] /\ (l = "lock" => tries[t] < TxRetryLimit)
           /\ op' \in [Tasks -> {"vote", "execute"}]
           /\ \/ tries' = tries
              \/ /\ pc' = [pc EXCEPT ![t] = "loop"]
                 /\ tries[t] < TxRetryLimit
                 /\ tries' = [tries EXCEPT ![t] = @ + 1]
  <1> USE DEF Goto, Elsewhere, Pcs, Critical, Returned
  <1>0. op \in [Tasks -> {"vote", "execute"}]
    BY DEF TypeOK
  <1>1. CASE CheckComplete(t)
    BY <1>0, <1>1 DEF CheckComplete
  <1>2. CASE CheckVoted(t)
    BY <1>0, <1>2 DEF CheckVoted
  <1>3. CASE CheckPassed(t)
    BY <1>0, <1>3 DEF CheckPassed
  <1>4. CASE LatestBlock(t)
    BY <1>0, <1>4 DEF LatestBlock
  <1>5. CASE StopLoop(t)
    BY <1>0, <1>5 DEF StopLoop
  <1>6. CASE FatalTx(t)
    <2>1. ReadOnly /\ op' = op /\ tries' = tries /\ pc[t] = "loop"
      BY <1>6 DEF FatalTx
    <2>2. pc' = [pc EXCEPT ![t] = "fatal"]
      BY <1>6 DEF FatalTx
    <2>3. /\ "fatal" \in Elsewhere \ {"recheck"}
          /\ "loop" \in Elsewhere
          /\ "fatal" # "lock"
      OBVIOUS
    <2> HIDE DEF Elsewhere, Pcs, Critical, Returned
    <2> QED BY <1>0, <2>1, <2>2, <2>3
  <1>7. CASE EnterLoop(t)
    BY <1>0, <1>7 DEF EnterLoop
  <1>8. CASE Recheck(t)
    <2>1. ReadOnly /\ op' = op /\ pc[t] = "recheck"
      BY <1>8 DEF Recheck
    <2>2. tries[t] < TxRetryLimit
      BY <2>1 DEF TriesInv
    <2>3. \/ pc' = [pc EXCEPT ![t] = "returnTrue"] /\ tries' = tries
          \/ pc' = [pc EXCEPT ![t] = "loop"] /\ tries' = [tries EXCEPT ![t] = @ + 1]
      BY <1>8 DEF Recheck
    <2> QED BY <1>0, <2>1, <2>2, <2>3
  <1> QED BY <1>1, <1>2, <1>3, <1>4, <1>5, <1>6, <1>7, <1>8 DEF Quiet

\* The steps of the lock's holder, and the one that makes it so.
Locked(t) ==
    \/ LockOpts(t)
    \/ UpdateOpts(t)
    \/ UpdateOptsFails(t)
    \/ Submit(t)
    \/ SubmitFails(t)

LEMMA Steps ==
    ASSUME NEW t \in Tasks, TaskStep(t)
    PROVE  Quiet(t) \/ Locked(t)
  BY DEF TaskStep, Quiet, Locked

(* Accept, when the nonce is not below the pending one, loses or appends.  *)
LEMMA AcceptStep ==
    ASSUME WriterAssumption, OptsInv, NEW t \in Tasks, pc[t] = "submit", Accept(t)
    PROVE  /\ mined' = mined
           /\ clobbered' = clobbered
           /\ \/ pool' = pool
              \/ pool' = [pool EXCEPT ![Relayer(t)] = Append(@, Tx(t))]
  <1> DEFINE r == Relayer(t)
  <1>1. r \in Relayers
    BY TaskType
  <1>2. Len(pool[r]) \in Nat /\ mined[r] \in Nat /\ nonce[r] \in Nat
    BY <1>1, LenProperties DEF OptsInv, TypeOK
  <1>3. nonce[r] - mined[r] + 1 >= Len(pool[r]) + 1
    BY <1>2 DEF OptsInv, NonceInv
  <1> HIDE DEF r
  <1>4. \/ nonce[r] - mined[r] + 1 > Len(pool[r]) + 1
        \/ nonce[r] - mined[r] + 1 = Len(pool[r]) + 1
    BY <1>2, <1>3
  <1> QED BY <1>4 DEF Accept, r

(* What mining, dropping and appending do to an account.                   *)
LEMMA AppendPool ==
    ASSUME NEW r \in Relayers, NEW tx \in Txs, pool \in [Relayers -> Seq(Txs)],
           pool' = [pool EXCEPT ![r] = Append(@, tx)]
    PROVE  /\ pool' \in [Relayers -> Seq(Txs)]
           /\ Len(pool'[r]) = Len(pool[r]) + 1
           /\ \A i \in 1 .. Len(pool[r]) : pool'[r][i] = pool[r][i]
           /\ pool'[r][Len(pool[r]) + 1] = tx
  <1>1. pool[r] \in Seq(Txs)
    OBVIOUS
  <1>2. pool'[r] = Append(pool[r], tx)
    OBVIOUS
  <1>3. /\ Append(pool[r], tx) \in Seq(Txs)
        /\ Len(Append(pool[r], tx)) = Len(pool[r]) + 1
        /\ \A i \in 1 .. Len(pool[r]) : Append(pool[r], tx)[i] = pool[r][i]
        /\ Append(pool[r], tx)[Len(pool[r]) + 1] = tx
    BY <1>1, AppendProperties
  <1> QED BY <1>2, <1>3

LEMMA TailPool ==
    ASSUME NEW r \in Relayers, pool \in [Relayers -> Seq(Txs)], pool[r] # << >>,
           pool' = [pool EXCEPT ![r] = Tail(@)]
    PROVE  /\ pool' \in [Relayers -> Seq(Txs)]
           /\ Head(pool[r]) \in Txs
           /\ Len(pool[r]) \in Nat \ {0}
           /\ Len(pool'[r]) = Len(pool[r]) - 1
           /\ Head(pool[r]) = pool[r][1]
           /\ \A i \in 1 .. Len(pool'[r]) : pool'[r][i] = pool[r][i + 1]
  <1>1. pool[r] \in Seq(Txs)
    OBVIOUS
  <1>2. pool'[r] = Tail(pool[r])
    OBVIOUS
  <1>3. /\ Head(pool[r]) \in Txs
        /\ Tail(pool[r]) \in Seq(Txs)
        /\ Len(Tail(pool[r])) = Len(pool[r]) - 1
        /\ \A i \in 1 .. Len(Tail(pool[r])) : Tail(pool[r])[i] = pool[r][i + 1]
    BY <1>1, HeadTailProperties
  <1>4. Len(pool[r]) \in Nat \ {0} /\ Head(pool[r]) = pool[r][1]
    BY <1>1, EmptySeq
  <1> QED BY <1>2, <1>3, <1>4

LEMMA FrontProperties ==
    ASSUME NEW S, NEW s \in Seq(S), s # << >>
    PROVE  /\ Front(s) \in Seq(S)
           /\ Len(s) \in Nat \ {0}
           /\ Len(Front(s)) = Len(s) - 1
           /\ \A i \in 1 .. Len(s) - 1 : Front(s)[i] = s[i]
  <1>1. Len(s) \in Nat \ {0}
    BY EmptySeq
  <1>2. PICK n \in Nat : n = Len(s) - 1
    BY <1>1
  <1>3. \A i \in 1 .. n : s[i] \in S
    BY <1>1, <1>2, ElementOfSeq
  <1>4. /\ SubSeq(s, 1, n) \in Seq(S)
        /\ Len(SubSeq(s, 1, n)) = IF 1 <= n THEN n - 1 + 1 ELSE 0
        /\ \A i \in 1 .. n - 1 + 1 : SubSeq(s, 1, n)[i] = s[1 + i - 1]
    BY <1>3, SubSeqProperties
  <1>5. /\ Len(SubSeq(s, 1, n)) = n
        /\ \A i \in 1 .. n : SubSeq(s, 1, n)[i] = s[i]
    BY <1>4
  <1>6. Front(s) = SubSeq(s, 1, n)
    BY <1>2 DEF Front
  <1> QED BY <1>1, <1>2, <1>4, <1>5, <1>6

LEMMA FrontPool ==
    ASSUME NEW r \in Relayers, pool \in [Relayers -> Seq(Txs)], pool[r] # << >>,
           pool' = [pool EXCEPT ![r] = Front(@)]
    PROVE  /\ pool' \in [Relayers -> Seq(Txs)]
           /\ Len(pool[r]) \in Nat \ {0}
           /\ Len(pool'[r]) = Len(pool[r]) - 1
           /\ \A i \in 1 .. Len(pool'[r]) : pool'[r][i] = pool[r][i]
  <1>1. pool[r] \in Seq(Txs)
    OBVIOUS
  <1>2. /\ Front(pool[r]) \in Seq(Txs)
        /\ Len(pool[r]) \in Nat \ {0}
        /\ Len(Front(pool[r])) = Len(pool[r]) - 1
        /\ \A i \in 1 .. Len(pool[r]) - 1 : Front(pool[r])[i] = pool[r][i]
    BY <1>1, FrontProperties
  <1> QED BY <1>2
-----------------------------------------------------------------------------
(* Type correctness.                                                       *)

LEMMA HandlerType ==
    ASSUME TypeOK, NEW p \in Proposals, HandlerSucceeds(p) \/ HandlerReverts(p)
    PROVE  /\ status' \in [Proposals -> Statuses]
           /\ handlerFailures' \in Nat
  <1>1. status' \in [Proposals -> Statuses]
    BY DEF TypeOK, Statuses, HandlerSucceeds, HandlerReverts
  <1>2. handlerFailures' \in Nat
    BY DEF TypeOK, HandlerSucceeds, HandlerReverts
  <1> QED BY <1>1, <1>2

LEMMA ContractType ==
    ASSUME TypeOK, NEW r \in Relayers, NEW p \in Proposals,
           VoteProposal(r, p) \/ ExecuteProposal(p) \/ CancelProposal(p)
    PROVE  /\ status' \in [Proposals -> Statuses]
           /\ votes' \in [Proposals -> SUBSET Relayers]
           /\ handlerFailures' \in Nat
  <1>0. /\ status \in [Proposals -> Statuses]
        /\ votes \in [Proposals -> SUBSET Relayers]
        /\ handlerFailures \in Nat
    BY DEF TypeOK
  <1>1. CASE ExecuteProposal(p)
    BY <1>0, <1>1, HandlerType DEF ExecuteProposal
  <1>2. CASE CountVote(r, p)
    <2>1. votes' \in [Proposals -> SUBSET Relayers]
      BY <1>0, <1>2 DEF CountVote
    <2>2. \/ HandlerSucceeds(p) \/ HandlerReverts(p)
          \/ status' = [status EXCEPT ![p] = "active"] /\ UNCHANGED handlerFailures
      BY <1>2 DEF CountVote
    <2> QED BY <1>0, <2>1, <2>2, HandlerType DEF Statuses
  <1>3. CASE VoteExpired(r, p)
    BY <1>0, <1>3 DEF VoteExpired, Statuses
  <1>4. CASE VoteReverts(r, p)
    BY <1>0, <1>4 DEF VoteReverts, contractVars
  <1>5. CASE CancelProposal(p)
    BY <1>0, <1>5 DEF CancelProposal, Statuses
  <1> QED BY <1>1, <1>2, <1>3, <1>4, <1>5 DEF VoteProposal

LEMMA TypeStep ==
    ASSUME WriterAssumption, OptsInv, Next
    PROVE  TypeOK'
  <1> USE DEF OptsInv, Goto, Frame, ReadOnly, contractVars, taskVars, accountVars,
              worldVars
  <1>0. \A l : l \in Elsewhere \/ l \in Critical => l \in Pcs
    BY DEF Elsewhere, Pcs
  <1>1. ASSUME NEW t \in Tasks, ResolveMessage(t)
        PROVE  TypeOK'
    <2>1. <<Relayer(t), Message(t)>> \in Relayers \X Messages
      BY TaskType
    <2>2. resolved' \subseteq Relayers \X Messages
      BY <1>1, <2>1 DEF ResolveMessage, TypeOK
    <2>3. pc' \in [Tasks -> Pcs]
      BY <1>1 DEF ResolveMessage, TypeOK, Pcs, Returned
    <2> QED BY <1>1, <2>2, <2>3 DEF ResolveMessage, TypeOK
  <1>2. ASSUME NEW t \in Tasks, Quiet(t)
        PROVE  TypeOK'
    <2>0. /\ pc \in [Tasks -> Pcs]
          /\ tries \in [Tasks -> 0 .. TxRetryLimit]
          /\ TxRetryLimit \in Nat
      BY DEF TypeOK, WriterAssumption
    <2>1. tries' \in [Tasks -> 0 .. TxRetryLimit]
      <3>1. CASE tries' = tries
        BY <2>0, <3>1
      <3>2. CASE tries[t] < TxRetryLimit /\ tries' = [tries EXCEPT ![t] = @ + 1]
        BY <2>0, <3>2
      <3> QED BY <1>2, <3>1, <3>2, QuietStep
    <2>2. pc' \in [Tasks -> Pcs] /\ op' \in [Tasks -> {"vote", "execute"}]
      <3>1. PICK l \in Elsewhere : pc' = [pc EXCEPT ![t] = l]
        BY <1>2, QuietStep
      <3> QED BY <1>0, <1>2, <2>0, <3>1, QuietStep
    <2> QED BY <1>2, <2>1, <2>2, QuietStep DEF TypeOK
  <1>3. ASSUME NEW t \in Tasks, LockOpts(t)
        PROVE  TypeOK'
    BY <1>3 DEF LockOpts, TypeOK, Pcs, Critical
  <1>4. ASSUME NEW t \in Tasks, UpdateOpts(t)
        PROVE  TypeOK'
    <2>1. Relayer(t) \in Relayers
      BY TaskType
    <2>2. PendingNonce(Relayer(t)) \in Nat
      BY <2>1, LenProperties DEF PendingNonce, TypeOK
    <2> QED BY <1>4, <2>1, <2>2 DEF UpdateOpts, TypeOK, Pcs, Critical
  <1>5. ASSUME NEW t \in Tasks, UpdateOptsFails(t)
        PROVE  TypeOK'
    <2>1. tries[t] + 1 \in 0 .. TxRetryLimit
      BY <1>5 DEF UpdateOptsFails, TriesInv, TypeOK, WriterAssumption
    <2>2. tries' \in [Tasks -> 0 .. TxRetryLimit]
      BY <1>5, <2>1 DEF UpdateOptsFails, TypeOK
    <2> QED BY <1>5, <2>2 DEF UpdateOptsFails, UnlockOpts, TypeOK, Pcs, Returned
  <1>6. ASSUME NEW t \in Tasks, Submit(t) \/ SubmitFails(t)
        PROVE  TypeOK'
    <2>1. pc[t] = "submit" /\ Relayer(t) \in Relayers /\ Tx(t) \in Txs
      BY <1>6, TaskType, TxType DEF Submit, SubmitFails
    <2>2. pool' \in [Relayers -> Seq(Txs)] /\ mined' = mined /\ clobbered' = clobbered
      BY <1>6, <2>1, AcceptStep, AppendPool DEF Submit, SubmitFails, TypeOK
    <2>3. pc' \in [Tasks -> Pcs] /\ optsLock' \in [Relayers -> Tasks \cup {NoTask}]
      BY <1>6, <2>1 DEF Submit, SubmitFails, UnlockOpts, TypeOK, Pcs, Returned
    <2> QED BY <1>6, <2>2, <2>3 DEF Submit, SubmitFails, TypeOK
  <1>7. ASSUME NEW r \in Relayers, MineTx(r)
        PROVE  TypeOK'
    <2> DEFINE tx == Head(pool[r])
    <2>1. /\ pool' \in [Relayers -> Seq(Txs)]
          /\ tx.proposal \in Proposals
      BY <1>7, TailPool DEF MineTx, TypeOK, Txs
    <2>2. VoteProposal(r, tx.proposal) \/ ExecuteProposal(tx.proposal)
      BY <1>7 DEF MineTx
    <2>3. /\ status' \in [Proposals -> Statuses]
          /\ votes' \in [Proposals -> SUBSET Relayers]
          /\ handlerFailures' \in Nat
      BY <2>1, <2>2, ContractType
    <2>4. mined' \in [Relayers -> Nat]
      BY <1>7 DEF MineTx, TypeOK
    <2> QED BY <1>7, <2>1, <2>3, <2>4 DEF MineTx, TypeOK
  <1>8. ASSUME NEW r \in Relayers, DropTx(r)
        PROVE  TypeOK'
    <2>1. pool' \in [Relayers -> Seq(Txs)]
      BY <1>8, FrontPool DEF DropTx, TypeOK
    <2> QED BY <1>8, <2>1 DEF DropTx, TypeOK
  <1>9. ASSUME Cancel
        PROVE  TypeOK'
    BY <1>9 DEF Cancel, CancelProposal, TypeOK, Statuses
  <1>10. ASSUME NEW r \in Relayers, CoreStop(r)
         PROVE  TypeOK'
    BY <1>10 DEF CoreStop, TypeOK
  <1>11. ASSUME NEW r \in Relayers, Crash(r)
         PROVE  TypeOK'
    <2>1. pc' \in [Tasks -> Pcs]
      BY <1>11 DEF Crash, TypeOK, Pcs
    <2>2. op' \in [Tasks -> {"vote", "execute"}]
      BY <1>11 DEF Crash, TypeOK
    <2>3. tries' \in [Tasks -> 0 .. TxRetryLimit]
      BY <1>11 DEF Crash, TypeOK, WriterAssumption
    <2> QED BY <1>11, <2>1, <2>2, <2>3 DEF Crash, TypeOK
  <1> QED BY <1>1, <1>2, <1>3, <1>4, <1>5, <1>6, <1>7, <1>8, <1>9, <1>10, <1>11, Steps
          DEF Next, Locked

LEMMA TriesStep ==
    ASSUME WriterAssumption, OptsInv, Next
    PROVE  TriesInv'
  <1> DEFINE Inside == {"lock", "updateOpts", "submit", "recheck"}
  <1>0. /\ pc \in [Tasks -> Pcs]
        /\ tries \in [Tasks -> 0 .. TxRetryLimit]
        /\ \A t \in Tasks : pc[t] \in Inside => tries[t] < TxRetryLimit
    BY DEF OptsInv, TypeOK, TriesInv
  <1>1. ASSUME NEW t \in Tasks, NEW l, pc' = [pc EXCEPT ![t] = l], tries' = tries,
               l \in Inside => tries[t] < TxRetryLimit
        PROVE  TriesInv'
    BY <1>0, <1>1 DEF TriesInv
  <1>2. ASSUME NEW t \in Tasks, NEW n, pc' = [pc EXCEPT ![t] = "loop"],
               tries' = [tries EXCEPT ![t] = n]
        PROVE  TriesInv'
    BY <1>0, <1>2 DEF TriesInv
  <1>3. ASSUME UNCHANGED <<pc, tries>>
        PROVE  TriesInv'
    BY <1>0, <1>3 DEF TriesInv
  <1>4. ASSUME NEW t \in Tasks, ResolveMessage(t)
        PROVE  TriesInv'
    BY <1>1, <1>4 DEF ResolveMessage, Goto
  <1>5. ASSUME NEW t \in Tasks, Quiet(t)
        PROVE  TriesInv'
    <2>1. CASE tries' = tries
      <3>1. PICK l \in Elsewhere \ {"recheck"} :
               pc' = [pc EXCEPT ![t] = l] /\ (l = "lock" => tries[t] < TxRetryLimit)
        BY <1>5, QuietStep DEF OptsInv
      <3>2. l \in Inside => l = "lock"
        BY <3>1 DEF Elsewhere, Critical
      <3> QED BY <1>1, <2>1, <3>1, <3>2
    <2>2. CASE /\ pc' = [pc EXCEPT ![t] = "loop"]
               /\ tries' = [tries EXCEPT ![t] = @ + 1]
      BY <1>2, <2>2
    <2> QED BY <1>5, <2>1, <2>2, QuietStep DEF OptsInv
  <1>6. ASSUME NEW t \in Tasks, Locked(t)
        PROVE  TriesInv'
    <2>1. CASE UpdateOptsFails(t)
      <3>1. CASE op[t] = "vote"
        BY <1>2, <2>1, <3>1 DEF UpdateOptsFails, Goto
      <3>2. CASE op[t] # "vote"
        BY <1>1, <2>1, <3>2 DEF UpdateOptsFails, Goto
      <3> QED BY <3>1, <3>2
    <2>2. CASE ~UpdateOptsFails(t)
      <3>1. /\ pc[t] \in Inside
            /\ tries' = tries
            /\ \E l : pc' = [pc EXCEPT ![t] = l]
        BY <1>6, <2>2 DEF Locked, LockOpts, UpdateOpts, Submit, SubmitFails, Goto
      <3> QED BY <1>0, <1>1, <3>1
    <2> QED BY <2>1, <2>2
  <1>7. ASSUME NEW r \in Relayers, MineTx(r) \/ DropTx(r) \/ CoreStop(r)
        PROVE  TriesInv'
    BY <1>3, <1>7 DEF MineTx, DropTx, CoreStop, taskVars
  <1>8. ASSUME Cancel
        PROVE  TriesInv'
    BY <1>3, <1>8 DEF Cancel, taskVars
  <1>9. ASSUME NEW r \in Relayers, Crash(r)
        PROVE  TriesInv'
    <2>1. ASSUME NEW t \in Tasks, pc'[t] \in Inside
          PROVE  tries'[t] < TxRetryLimit
      BY <1>0, <1>9, <2>1 DEF Crash
    <2> QED BY <2>1 DEF TriesInv
  <1> QED BY <1>4, <1>5, <1>6, <1>7, <1>8, <1>9, Steps DEF Next
-----------------------------------------------------------------------------
(* The lock.                                                               *)

LEMMA LockStep ==
    ASSUME WriterAssumption, OptsInv, Next
    PROVE  LockDiscipline'
  <1>0. /\ pc \in [Tasks -> Pcs]
        /\ optsLock \in [Relayers -> Tasks \cup {NoTask}]
        /\ NoTask \notin Tasks
        /\ \A r \in Relayers : optsLock[r] = NoTask \/ Relayer(optsLock[r]) = r
        /\ \A t \in Tasks : pc[t] \in Critical <=> optsLock[Relayer(t)] = t
    BY TaskType DEF OptsInv, TypeOK, WriterAssumption, LockDiscipline
  <1>1. ASSUME /\ \A r \in Relayers : optsLock'[r] = NoTask \/ Relayer(optsLock'[r]) = r
               /\ \A t \in Tasks : pc'[t] \in Critical <=> optsLock'[Relayer(t)] = t
        PROVE  LockDiscipline'
    BY <1>1 DEF LockDiscipline
  <1>2. ASSUME optsLock' = optsLock,
               \A t \in Tasks : pc'[t] \in Critical <=> pc[t] \in Critical
        PROVE  LockDiscipline'
    BY <1>0, <1>1, <1>2
  <1>3. ASSUME NEW t \in Tasks, NEW l, pc' = [pc EXCEPT ![t] = l], optsLock' = optsLock,
               pc[t] \in Critical <=> l \in Critical
        PROVE  LockDiscipline'
    BY <1>0, <1>2, <1>3
  <1>4. ASSUME NEW t \in Tasks, NEW l, pc' = [pc EXCEPT ![t] = l], l \notin Critical,
               pc[t] \in Critical, optsLock' = [optsLock EXCEPT ![Relayer(t)] = NoTask]
        PROVE  LockDiscipline'
    <2>1. \A r \in Relayers : optsLock'[r] = NoTask \/ Relayer(optsLock'[r]) = r
      BY <1>0, <1>4
    <2>2. \A u \in Tasks : pc'[u] \in Critical <=> optsLock'[Relayer(u)] = u
      BY <1>0, <1>4, TaskType
    <2> QED BY <1>1, <2>1, <2>2
  <1>5. ASSUME NEW t \in Tasks, ResolveMessage(t)
        PROVE  LockDiscipline'
    BY <1>3, <1>5 DEF ResolveMessage, Goto, Critical
  <1>6. ASSUME NEW t \in Tasks, Quiet(t)
        PROVE  LockDiscipline'
    <2>1. PICK l \in Elsewhere : pc' = [pc EXCEPT ![t] = l]
      BY <1>6, QuietStep DEF OptsInv
    <2>2. optsLock' = optsLock /\ pc[t] \in Elsewhere
      BY <1>6, QuietStep DEF OptsInv, ReadOnly
    <2> QED BY <1>3, <2>1, <2>2 DEF Elsewhere
  <1>7. ASSUME NEW t \in Tasks, LockOpts(t)
        PROVE  LockDiscipline'
    <2>1. /\ optsLock[Relayer(t)] = NoTask
          /\ pc' = [pc EXCEPT ![t] = "updateOpts"]
          /\ optsLock' = [optsLock EXCEPT ![Relayer(t)] = t]
      BY <1>7 DEF LockOpts, LockIsFree, Goto
    <2>2. \A r \in Relayers : optsLock'[r] = NoTask \/ Relayer(optsLock'[r]) = r
      BY <1>0, <2>1
    <2>3. \A u \in Tasks : pc'[u] \in Critical <=> optsLock'[Relayer(u)] = u
      BY <1>0, <2>1, TaskType DEF Critical
    <2> QED BY <1>1, <2>2, <2>3
  <1>8. ASSUME NEW t \in Tasks, UpdateOpts(t)
        PROVE  LockDiscipline'
    BY <1>3, <1>8 DEF UpdateOpts, Goto, Critical
  <1>9. ASSUME NEW t \in Tasks, UpdateOptsFails(t) \/ Submit(t) \/ SubmitFails(t)
        PROVE  LockDiscipline'
    <2>1. /\ pc[t] \in Critical
          /\ optsLock' = [optsLock EXCEPT ![Relayer(t)] = NoTask]
      BY <1>9 DEF UpdateOptsFails, Submit, SubmitFails, UnlockOpts, Critical
    <2>2. PICK l \in {"loop", "returnTrue", "recheck"} : pc' = [pc EXCEPT ![t] = l]
      BY <1>9 DEF UpdateOptsFails, Submit, SubmitFails, Goto
    <2> QED BY <1>4, <2>1, <2>2 DEF Critical
  <1>10. ASSUME NEW r \in Relayers, MineTx(r) \/ DropTx(r) \/ CoreStop(r)
         PROVE  LockDiscipline'
    BY <1>2, <1>10 DEF MineTx, DropTx, CoreStop, taskVars
  <1>11. ASSUME Cancel
         PROVE  LockDiscipline'
    BY <1>2, <1>11 DEF Cancel, taskVars
  <1>12. ASSUME NEW r \in Relayers, Crash(r)
         PROVE  LockDiscipline'
    <2>1. \A u \in Relayers : optsLock'[u] = IF u = r THEN NoTask ELSE optsLock[u]
      BY <1>0, <1>12 DEF Crash
    <2>2. \A t \in Tasks : pc'[t] = IF Relayer(t) = r THEN "idle" ELSE pc[t]
      BY <1>12 DEF Crash
    <2>3. \A t \in Tasks : pc'[t] \in Critical <=> optsLock'[Relayer(t)] = t
      BY <1>0, <2>1, <2>2, TaskType DEF Critical
    <2> QED BY <1>0, <1>1, <2>1, <2>3
  <1> QED BY <1>5, <1>6, <1>7, <1>8, <1>9, <1>10, <1>11, <1>12, Steps DEF Next, Locked
-----------------------------------------------------------------------------
(* The nonce.                                                              *)

\* At most one task of a relayer is about to submit.
LEMMA OneSubmits ==
    ASSUME LockDiscipline, NEW t \in Tasks, NEW u \in Tasks, Relayer(t) = Relayer(u),
           Relayer(t) \in Relayers, pc[t] \in Critical, pc[u] \in Critical
    PROVE  t = u
  BY DEF LockDiscipline

LEMMA NonceStep ==
    ASSUME WriterAssumption, OptsInv, Next
    PROVE  NonceInv' /\ NoNonceReuse'
  <1>0. /\ pc \in [Tasks -> Pcs]
        /\ nonce \in [Relayers -> Nat]
        /\ mined \in [Relayers -> Nat]
        /\ pool \in [Relayers -> Seq(Txs)]
        /\ clobbered = {}
        /\ \A r \in Relayers : Len(pool[r]) \in Nat
    BY LenProperties DEF OptsInv, TypeOK, NoNonceReuse
  <1>1. ASSUME UNCHANGED <<nonce, mined, pool, clobbered>>,
               \A t \in Tasks : pc'[t] = "submit" => pc[t] = "submit"
        PROVE  NonceInv' /\ NoNonceReuse'
    BY <1>1 DEF OptsInv, NonceInv, NoNonceReuse
  <1>2. ASSUME NEW t \in Tasks, ResolveMessage(t)
        PROVE  NonceInv' /\ NoNonceReuse'
    BY <1>0, <1>1, <1>2 DEF ResolveMessage, Goto, accountVars
  <1>3. ASSUME NEW t \in Tasks, Quiet(t)
        PROVE  NonceInv' /\ NoNonceReuse'
    <2>1. PICK l \in Elsewhere : pc' = [pc EXCEPT ![t] = l]
      BY <1>3, QuietStep DEF OptsInv
    <2>2. UNCHANGED <<nonce, mined, pool, clobbered>>
      BY <1>3, QuietStep DEF OptsInv, ReadOnly, Frame, accountVars
    <2> QED BY <1>0, <1>1, <2>1, <2>2 DEF Elsewhere, Critical
  <1>4. ASSUME NEW t \in Tasks, LockOpts(t) \/ UpdateOptsFails(t)
        PROVE  NonceInv' /\ NoNonceReuse'
    <2>1. PICK l \in {"updateOpts", "loop", "returnTrue"} : pc' = [pc EXCEPT ![t] = l]
      BY <1>4 DEF LockOpts, UpdateOptsFails, Goto
    <2>2. UNCHANGED <<nonce, mined, pool, clobbered>>
      BY <1>4 DEF LockOpts, UpdateOptsFails, Frame, accountVars
    <2> QED BY <1>0, <1>1, <2>1, <2>2
  <1>5. ASSUME NEW t \in Tasks, UpdateOpts(t)
        PROVE  NonceInv' /\ NoNonceReuse'
    <2>1. /\ nonce' = [nonce EXCEPT ![Relayer(t)] = PendingNonce(Relayer(t))]
          /\ pc[t] \in Critical
          /\ pc' = [pc EXCEPT ![t] = "submit"]
          /\ UNCHANGED <<mined, pool, clobbered>>
      BY <1>5 DEF UpdateOpts, Goto, Frame, accountVars, Critical
    <2>2. ASSUME NEW u \in Tasks, pc'[u] = "submit"
          PROVE  nonce'[Relayer(u)] >= mined'[Relayer(u)] + Len(pool'[Relayer(u)])
      <3>1. CASE Relayer(u) = Relayer(t)
        BY <1>0, <2>1, <3>1, TaskType DEF PendingNonce
      <3>2. CASE Relayer(u) # Relayer(t)
        BY <1>0, <2>1, <2>2, <3>2, TaskType DEF OptsInv, NonceInv
      <3> QED BY <3>1, <3>2
    <2> QED BY <1>0, <2>1, <2>2 DEF NonceInv, NoNonceReuse
  <1>6. ASSUME NEW t \in Tasks, Submit(t) \/ SubmitFails(t)
        PROVE  NonceInv' /\ NoNonceReuse'
    <2>1. /\ pc[t] = "submit"
          /\ nonce' = nonce
          /\ Relayer(t) \in Relayers
      BY <1>6, TaskType DEF Submit, SubmitFails
    <2>2. PICK l \in {"recheck", "returnTrue"} : pc' = [pc EXCEPT ![t] = l]
      BY <1>6 DEF Submit, SubmitFails, Goto
    <2>3. /\ mined' = mined
          /\ clobbered' = clobbered
          /\ \/ pool' = pool
             \/ pool' = [pool EXCEPT ![Relayer(t)] = Append(@, Tx(t))]
      BY <1>6, <2>1, AcceptStep DEF Submit, SubmitFails, accountVars
    <2>4. ASSUME NEW u \in Tasks, pc'[u] = "submit"
          PROVE  nonce'[Relayer(u)] >= mined'[Relayer(u)] + Len(pool'[Relayer(u)])
      <3>1. u # t /\ pc[u] = "submit"
        BY <1>0, <2>2, <2>4
      <3>2. Relayer(u) # Relayer(t)
        BY <2>1, <3>1, OneSubmits DEF OptsInv, Critical
      <3>3. pool'[Relayer(u)] = pool[Relayer(u)]
        BY <1>0, <2>3, <3>2, TaskType
      <3> QED BY <2>1, <2>3, <3>1, <3>3 DEF OptsInv, NonceInv
    <2> QED BY <1>0, <2>3, <2>4 DEF NonceInv, NoNonceReuse
  <1>7. ASSUME NEW r \in Relayers, UNCHANGED <<pc, nonce, clobbered>>,
               \A q \in Relayers \ {r} : mined'[q] = mined[q] /\ pool'[q] = pool[q],
               mined'[r] \in Nat, Len(pool'[r]) \in Nat,
               mined'[r] + Len(pool'[r]) <= mined[r] + Len(pool[r])
        PROVE  NonceInv' /\ NoNonceReuse'
    <2>1. ASSUME NEW u \in Tasks, pc'[u] = "submit"
          PROVE  nonce'[Relayer(u)] >= mined'[Relayer(u)] + Len(pool'[Relayer(u)])
      <3>1. /\ Relayer(u) \in Relayers
            /\ nonce'[Relayer(u)] = nonce[Relayer(u)]
            /\ nonce[Relayer(u)] >= mined[Relayer(u)] + Len(pool[Relayer(u)])
        BY <1>7, <2>1, TaskType DEF OptsInv, NonceInv
      <3>2. CASE Relayer(u) = r
        <4>1. nonce[r] >= mined[r] + Len(pool[r])
          BY <3>1, <3>2
        <4>2. nonce[r] >= mined'[r] + Len(pool'[r])
          BY <1>0, <1>7, <4>1
        <4> QED BY <3>1, <3>2, <4>2
      <3>3. CASE Relayer(u) # r
        BY <1>7, <3>1, <3>3
      <3> QED BY <3>2, <3>3
    <2> QED BY <1>0, <1>7, <2>1 DEF NonceInv, NoNonceReuse
  <1>8. ASSUME NEW r \in Relayers, MineTx(r)
        PROVE  NonceInv' /\ NoNonceReuse'
    <2>1. /\ UNCHANGED <<pc, nonce, clobbered>>
          /\ mined' = [mined EXCEPT ![r] = @ + 1]
          /\ pool[r] # << >>
          /\ pool' = [pool EXCEPT ![r] = Tail(@)]
      BY <1>8 DEF MineTx, taskVars
    <2>2. Len(pool'[r]) = Len(pool[r]) - 1 /\ Len(pool[r]) \in Nat \ {0}
      BY <1>0, <2>1, TailPool
    <2>3. mined'[r] = mined[r] + 1 /\ mined[r] \in Nat
      BY <1>0, <2>1
    <2>4. /\ mined'[r] \in Nat
          /\ Len(pool'[r]) \in Nat
          /\ mined'[r] + Len(pool'[r]) <= mined[r] + Len(pool[r])
      BY <2>2, <2>3
    <2>5. \A q \in Relayers \ {r} : mined'[q] = mined[q] /\ pool'[q] = pool[q]
      BY <1>0, <2>1
    <2> QED BY <1>7, <2>1, <2>4, <2>5
  <1>9. ASSUME NEW r \in Relayers, DropTx(r)
        PROVE  NonceInv' /\ NoNonceReuse'
    <2>1. /\ UNCHANGED <<pc, nonce, clobbered, mined>>
          /\ pool[r] # << >>
          /\ pool' = [pool EXCEPT ![r] = Front(@)]
      BY <1>9 DEF DropTx, taskVars
    <2>2. Len(pool'[r]) = Len(pool[r]) - 1 /\ Len(pool[r]) \in Nat \ {0}
      BY <1>0, <2>1, FrontPool
    <2>3. /\ mined'[r] \in Nat
          /\ Len(pool'[r]) \in Nat
          /\ mined'[r] + Len(pool'[r]) <= mined[r] + Len(pool[r])
      BY <1>0, <2>1, <2>2
    <2>4. \A q \in Relayers \ {r} : mined'[q] = mined[q] /\ pool'[q] = pool[q]
      BY <1>0, <2>1
    <2> QED BY <1>7, <2>1, <2>3, <2>4
  <1>10. ASSUME Cancel \/ \E r \in Relayers : CoreStop(r)
         PROVE  NonceInv' /\ NoNonceReuse'
    BY <1>1, <1>10 DEF Cancel, CoreStop, taskVars, accountVars
  <1>11. ASSUME NEW r \in Relayers, Crash(r)
         PROVE  NonceInv' /\ NoNonceReuse'
    <2>1. /\ UNCHANGED <<mined, pool, clobbered>>
          /\ \A q \in Relayers \ {r} : nonce'[q] = nonce[q]
          /\ \A t \in Tasks : pc'[t] = IF Relayer(t) = r THEN "idle" ELSE pc[t]
      BY <1>0, <1>11 DEF Crash, accountVars
    <2>2. ASSUME NEW u \in Tasks, pc'[u] = "submit"
          PROVE  nonce'[Relayer(u)] >= mined'[Relayer(u)] + Len(pool'[Relayer(u)])
      <3>1. pc[u] = "submit" /\ Relayer(u) # r
        BY <2>1, <2>2
      <3> QED BY <2>1, <3>1, TaskType DEF OptsInv, NonceInv
    <2> QED BY <1>0, <2>1, <2>2 DEF NonceInv, NoNonceReuse
  <1> QED BY <1>2, <1>3, <1>4, <1>5, <1>6, <1>8, <1>9, <1>10, <1>11, Steps
          DEF Next, Locked
-----------------------------------------------------------------------------
LEMMA InitOpts ==
    ASSUME WriterAssumption, Init
    PROVE  OptsInv
  <1>1. TypeOK
    BY EmptySeq DEF Init, ContractInit, TypeOK, WriterAssumption, Pcs, Statuses
  <1>2. TriesInv /\ NonceInv /\ NoNonceReuse
    BY DEF Init, TriesInv, NonceInv, NoNonceReuse
  <1>3. LockDiscipline
    BY TaskType DEF Init, LockDiscipline, Critical, WriterAssumption
  <1> QED BY <1>1, <1>2, <1>3 DEF OptsInv

LEMMA StutterOpts ==
    ASSUME OptsInv, UNCHANGED vars
    PROVE  OptsInv'
  BY DEF OptsInv, TypeOK, TriesInv, LockDiscipline, NonceInv, NoNonceReuse, PendingNonce,
         vars

\* The invariant of the lock, the nonce and the retries holds in every run.
THEOREM OptsInvariance == Spec => []OptsInv
  <1> USE WriterAssumption
  <1>1. Init => OptsInv
    BY InitOpts
  <1>2. OptsInv /\ [Next]_vars => OptsInv'
    BY TypeStep, TriesStep, LockStep, NonceStep, StutterOpts DEF OptsInv
  <1> QED BY <1>1, <1>2, PTL DEF Spec

\* Every variable keeps its type; in particular no task makes more than
\* TxRetryLimit attempts.
THEOREM TypeCorrect == Spec => []TypeOK
  <1>1. OptsInv => TypeOK
    BY DEF OptsInv
  <1> QED BY <1>1, OptsInvariance, PTL

\* The lock is held by exactly the task inside the locked region, on every path
\* through the retry loops.
THEOREM TheLockIsKept == Spec => []LockDiscipline
  <1>1. OptsInv => LockDiscipline
    BY DEF OptsInv
  <1> QED BY <1>1, OptsInvariance, PTL

\* No transaction a relayer sends replaces one of its own that is pending.
THEOREM NonceIsNotReused == Spec => []NoNonceReuse
  <1>1. OptsInv => NoNonceReuse
    BY DEF OptsInv
  <1> QED BY <1>1, OptsInvariance, PTL
-----------------------------------------------------------------------------
(* The votes.                                                              *)

LEMMA AttestsStable ==
    ASSUME NEW r, NEW p, resolved \subseteq resolved', Attests(r, p)
    PROVE  Attests(r, p)'
  BY DEF Attests

\* Only the passing vote makes a proposal passed; votes are counted once.
LEMMA ContractVotes ==
    ASSUME ContractAssumption, TypeOK, QuorumInv, NEW r \in Relayers, NEW p \in Proposals,
           VoteProposal(r, p) \/ ExecuteProposal(p) \/ CancelProposal(p)
    PROVE  /\ QuorumInv'
           /\ \/ votes' = votes
              \/ VoteProposal(r, p) /\ votes' = [votes EXCEPT ![p] = @ \cup {r}]
  <1>0. /\ status \in [Proposals -> Statuses]
        /\ votes \in [Proposals -> SUBSET Relayers]
        /\ \A q \in Proposals : status[q] \in {"passed", "executed"} =>
              Cardinality(votes[q]) >= Threshold
    BY DEF TypeOK, QuorumInv
  <1>1. CASE ExecuteProposal(p)
    <2>1. /\ votes' = votes
          /\ \A q \in Proposals : status'[q] = status[q]
                \/ status[q] = "passed"
      BY <1>0, <1>1 DEF ExecuteProposal, HandlerSucceeds, HandlerReverts
    <2> QED BY <1>0, <2>1 DEF QuorumInv
  <1>2. CASE CountVote(r, p)
    <2>1. VoteProposal(r, p) /\ votes' = [votes EXCEPT ![p] = @ \cup {r}]
      BY <1>2 DEF CountVote, VoteProposal
    <2>2. ASSUME NEW q \in Proposals, status'[q] \in {"passed", "executed"}
          PROVE  Cardinality(votes'[q]) >= Threshold
      <3>1. CASE q = p
        <4>1. CASE Cardinality(votes[p] \cup {r}) >= Threshold
          BY <1>0, <2>1, <3>1, <4>1
        <4>2. CASE ~(Cardinality(votes[p] \cup {r}) >= Threshold)
          <5>1. status' = [status EXCEPT ![p] = "active"]
            BY <1>2, <4>2 DEF CountVote
          <5> QED BY <1>0, <2>2, <3>1, <5>1
        <4> QED BY <4>1, <4>2
      <3>2. CASE q # p
        <4>1. status'[q] = status[q]
          BY <1>0, <1>2, <3>2 DEF CountVote, HandlerSucceeds, HandlerReverts
        <4> QED BY <1>0, <2>1, <2>2, <3>2, <4>1
      <3> QED BY <3>1, <3>2
    <2> QED BY <2>1, <2>2 DEF QuorumInv
  <1>3. CASE VoteExpired(r, p) \/ CancelProposal(p)
    <2>1. votes' = votes /\ status' = [status EXCEPT ![p] = "cancelled"]
      BY <1>3 DEF VoteExpired, CancelProposal
    <2>2. \A q \in Proposals : status'[q] = status[q] \/ status'[q] = "cancelled"
      BY <1>0, <2>1
    <2> QED BY <1>0, <2>1, <2>2 DEF QuorumInv
  <1>4. CASE VoteReverts(r, p)
    BY <1>0, <1>4 DEF VoteReverts, contractVars, QuorumInv
  <1> QED BY <1>1, <1>2, <1>3, <1>4 DEF VoteProposal

\* What no step but those of the contract and the account disturbs.
LEMMA VotesFrame ==
    ASSUME VotesInv, UNCHANGED <<status, votes, pool>>, resolved \subseteq resolved',
           TaskInv'
    PROVE  VotesInv'
  <1>1. PoolInv'
    BY AttestsStable DEF VotesInv, PoolInv
  <1>2. VotersInv'
    BY AttestsStable DEF VotesInv, VotersInv
  <1>3. QuorumInv'
    BY DEF VotesInv, QuorumInv
  <1> QED BY <1>1, <1>2, <1>3 DEF VotesInv

\* A pool that only loses transactions.
LEMMA PoolFrame ==
    ASSUME PoolInv, UNCHANGED resolved,
           \A q \in Relayers : \A i \in DOMAIN pool'[q] :
               \E j \in DOMAIN pool[q] : pool'[q][i] = pool[q][j]
    PROVE  PoolInv'
  <1>1. ASSUME NEW q \in Relayers, NEW i \in DOMAIN pool'[q], pool'[q][i].op = "vote"
        PROVE  Attests(q, pool'[q][i].proposal)
    <2>1. PICK j \in DOMAIN pool[q] : pool'[q][i] = pool[q][j]
      OBVIOUS
    <2>2. Attests(q, pool[q][j].proposal)
      BY <1>1, <2>1 DEF PoolInv
    <2> QED BY <2>1, <2>2
  <1> QED BY <1>1 DEF PoolInv, Attests

\* A vote that is counted for a relayer that attests to the proposal.
LEMMA VotersFrame ==
    ASSUME VotersInv, UNCHANGED resolved, votes \in [Proposals -> SUBSET Relayers],
           NEW p \in Proposals, NEW r \in Relayers,
           votes' = votes \/ (votes' = [votes EXCEPT ![p] = @ \cup {r}] /\ Attests(r, p))
    PROVE  VotersInv'
  <1>1. ASSUME NEW q \in Proposals, NEW v \in votes'[q]
        PROVE  Attests(v, q)
    <2>1. CASE v \in votes[q]
      BY <2>1 DEF VotersInv
    <2>2. CASE v \notin votes[q]
      <3>1. q = p /\ v = r /\ Attests(r, p)
        BY <1>1, <2>2
      <3> QED BY <3>1
    <2> QED BY <2>1, <2>2
  <1> QED BY <1>1 DEF VotersInv, Attests

LEMMA VotesStep ==
    ASSUME WriterAssumption, ContractAssumption, OptsInv, VotesInv, Next
    PROVE  VotesInv'
  <1>0. /\ pc \in [Tasks -> Pcs]
        /\ pool \in [Relayers -> Seq(Txs)]
        /\ \A r \in Relayers : DOMAIN pool[r] = 1 .. Len(pool[r]) /\ Len(pool[r]) \in Nat
        /\ votes \in [Proposals -> SUBSET Relayers]
        /\ TypeOK
    BY LenProperties DEF OptsInv, TypeOK
  <1>1. ASSUME NEW t \in Tasks, ResolveMessage(t)
        PROVE  VotesInv'
    <2>1. /\ resolved' = resolved \cup {<<Relayer(t), Message(t)>>}
          /\ UNCHANGED <<status, votes, pool>>
          /\ \E l : pc' = [pc EXCEPT ![t] = l]
      BY <1>1 DEF ResolveMessage, Goto, contractVars, accountVars
    <2>2. TaskInv'
      BY <1>0, <2>1 DEF VotesInv, TaskInv
    <2> QED BY <2>1, <2>2, VotesFrame
  <1>2. ASSUME NEW t \in Tasks, pc[t] # "idle", NEW l, pc' = [pc EXCEPT ![t] = l],
               UNCHANGED <<status, votes, pool, resolved>>
        PROVE  VotesInv'
    <2>1. TaskInv'
      BY <1>0, <1>2 DEF VotesInv, TaskInv
    <2> QED BY <1>2, <2>1, VotesFrame
  <1>3. ASSUME NEW t \in Tasks, Quiet(t)
        PROVE  VotesInv'
    <2>1. PICK l \in Elsewhere : pc' = [pc EXCEPT ![t] = l]
      BY <1>3, QuietStep DEF OptsInv
    <2>2. pc[t] # "idle" /\ UNCHANGED <<status, votes, pool, resolved>>
      BY <1>3, QuietStep DEF OptsInv, Elsewhere, ReadOnly, Frame, contractVars, accountVars
    <2> QED BY <1>2, <2>1, <2>2
  <1>4. ASSUME NEW t \in Tasks, LockOpts(t) \/ UpdateOpts(t) \/ UpdateOptsFails(t)
        PROVE  VotesInv'
    <2>1. /\ pc[t] # "idle"
          /\ \E l : pc' = [pc EXCEPT ![t] = l]
          /\ UNCHANGED <<status, votes, pool, resolved>>
      BY <1>4 DEF LockOpts, UpdateOpts, UpdateOptsFails, Goto, Frame, contractVars, accountVars
    <2> QED BY <1>2, <2>1
  <1>5. ASSUME NEW t \in Tasks, Submit(t) \/ SubmitFails(t)
        PROVE  VotesInv'
    <2>1. /\ pc[t] = "submit"
          /\ \E l : pc' = [pc EXCEPT ![t] = l]
          /\ UNCHANGED <<status, votes, resolved>>
      BY <1>5 DEF Submit, SubmitFails, Goto, contractVars
    <2>2. \/ pool' = pool
          \/ pool' = [pool EXCEPT ![Relayer(t)] = Append(@, Tx(t))]
      BY <1>5, <2>1, AcceptStep DEF Submit, SubmitFails, accountVars
    <2>3. CASE pool' = pool
      BY <1>2, <2>1, <2>3
    <2>4. CASE pool' = [pool EXCEPT ![Relayer(t)] = Append(@, Tx(t))]
      <3>1. Attests(Relayer(t), Proposal(t))
        BY <2>1 DEF VotesInv, TaskInv, Attests, Proposal, Hash
      <3>2. /\ Relayer(t) \in Relayers
            /\ pool' \in [Relayers -> Seq(Txs)]
            /\ Len(pool'[Relayer(t)]) = Len(pool[Relayer(t)]) + 1
            /\ \A i \in 1 .. Len(pool[Relayer(t)]) :
                  pool'[Relayer(t)][i] = pool[Relayer(t)][i]
            /\ pool'[Relayer(t)][Len(pool[Relayer(t)]) + 1] = Tx(t)
        BY <1>0, <2>4, TaskType, TxType, AppendPool
      <3>3. ASSUME NEW r \in Relayers, NEW i \in DOMAIN pool'[r], pool'[r][i].op = "vote"
            PROVE  Attests(r, pool'[r][i].proposal)
        <4>1. CASE r # Relayer(t)
          <5>1. pool'[r] = pool[r]
            BY <1>0, <2>4, <3>2, <4>1
          <5> QED BY <3>3, <5>1 DEF VotesInv, PoolInv
        <4>2. CASE r = Relayer(t)
          <5>1. i \in 1 .. Len(pool[r]) + 1
            BY <3>2, <3>3, <4>2, LenProperties
          <5>2. CASE i = Len(pool[r]) + 1
            BY <3>1, <3>2, <4>2, <5>2 DEF Tx
          <5>3. CASE i # Len(pool[r]) + 1
            <6>1. i \in 1 .. Len(pool[r])
              BY <1>0, <5>1, <5>3
            <6> QED BY <1>0, <3>2, <3>3, <4>2, <6>1 DEF VotesInv, PoolInv
          <5> QED BY <5>2, <5>3
        <4> QED BY <4>1, <4>2
      <3>4. PoolInv'
        BY <2>1, <3>3 DEF PoolInv, Attests
      <3>5. TaskInv'
        BY <1>0, <2>1 DEF VotesInv, TaskInv
      <3>6. VotersInv' /\ QuorumInv'
        BY <2>1 DEF VotesInv, VotersInv, QuorumInv, Attests
      <3> QED BY <3>4, <3>5, <3>6 DEF VotesInv
    <2> QED BY <2>2, <2>3, <2>4
  <1>6. ASSUME NEW r \in Relayers, MineTx(r)
        PROVE  VotesInv'
    <2> DEFINE tx == Head(pool[r])
    <2>1. /\ UNCHANGED <<pc, resolved>>
          /\ pool[r] # << >>
          /\ pool' = [pool EXCEPT ![r] = Tail(@)]
          /\ IF tx.op = "vote" THEN VoteProposal(r, tx.proposal)
                               ELSE ExecuteProposal(tx.proposal)
      BY <1>6 DEF MineTx, taskVars
    <2>2. /\ pool' \in [Relayers -> Seq(Txs)]
          /\ tx \in Txs
          /\ Len(pool[r]) \in Nat \ {0}
          /\ Len(pool'[r]) = Len(pool[r]) - 1
          /\ tx = pool[r][1]
          /\ \A i \in 1 .. Len(pool'[r]) : pool'[r][i] = pool[r][i + 1]
      BY <1>0, <2>1, TailPool
    <2>3. TaskInv'
      BY <2>1 DEF VotesInv, TaskInv
    <2>4. PoolInv'
      <3>1. ASSUME NEW q \in Relayers, NEW i \in DOMAIN pool'[q]
            PROVE  \E j \in DOMAIN pool[q] : pool'[q][i] = pool[q][j]
        <4>1. CASE q = r
          <5>1. i \in 1 .. Len(pool'[r])
            BY <2>2, <3>1, <4>1, LenProperties
          <5>2. i + 1 \in DOMAIN pool[r]
            BY <1>0, <2>2, <5>1
          <5> QED BY <2>2, <4>1, <5>1, <5>2
        <4>2. CASE q # r
          BY <1>0, <2>1, <3>1, <4>2
        <4> QED BY <4>1, <4>2
      <3> QED BY <2>1, <3>1, PoolFrame DEF VotesInv
    <2>5. tx.op = "vote" => Attests(r, tx.proposal)
      <3>1. 1 \in DOMAIN pool[r]
        BY <1>0, <2>2
      <3> QED BY <2>2, <3>1 DEF VotesInv, PoolInv
    <2>6. PICK p \in Proposals : p = tx.proposal
      BY <2>2 DEF Txs
    <2> HIDE DEF tx
    <2>7. /\ QuorumInv'
          /\ \/ votes' = votes
             \/ votes' = [votes EXCEPT ![p] = @ \cup {r}] /\ VoteProposal(r, p)
      BY <1>0, <2>1, <2>6, ContractVotes DEF VotesInv
    <2>8. VotersInv'
      <3>1. CASE tx.op = "vote"
        BY <1>0, <2>1, <2>5, <2>6, <2>7, <3>1, VotersFrame DEF VotesInv
      <3>2. CASE tx.op # "vote"
        <4>1. votes' = votes
          BY <2>1, <3>2 DEF ExecuteProposal
        <4> QED BY <1>0, <2>1, <4>1, VotersFrame DEF VotesInv
      <3> QED BY <3>1, <3>2
    <2> QED BY <2>3, <2>4, <2>7, <2>8 DEF VotesInv
  <1>7. ASSUME NEW r \in Relayers, DropTx(r)
        PROVE  VotesInv'
    <2>1. /\ UNCHANGED <<pc, resolved, status, votes>>
          /\ pool[r] # << >>
          /\ pool' = [pool EXCEPT ![r] = Front(@)]
      BY <1>7 DEF DropTx, taskVars, contractVars
    <2>2. /\ pool' \in [Relayers -> Seq(Txs)]
          /\ Len(pool[r]) \in Nat \ {0}
          /\ Len(pool'[r]) = Len(pool[r]) - 1
          /\ \A i \in 1 .. Len(pool'[r]) : pool'[r][i] = pool[r][i]
      BY <1>0, <2>1, FrontPool
    <2>3. ASSUME NEW q \in Relayers, NEW i \in DOMAIN pool'[q]
          PROVE  i \in DOMAIN pool[q] /\ pool'[q][i] = pool[q][i]
      <3>1. CASE q = r
        <4>1. i \in 1 .. Len(pool'[r])
          BY <2>2, <2>3, <3>1, LenProperties
        <4> QED BY <1>0, <2>2, <3>1, <4>1
      <3>2. CASE q # r
        BY <1>0, <2>1, <2>3, <3>2
      <3> QED BY <3>1, <3>2
    <2>4. PoolInv'
      BY <2>1, <2>3, PoolFrame DEF VotesInv
    <2> QED BY <2>1, <2>4 DEF VotesInv, TaskInv, VotersInv, QuorumInv, Attests
  <1>8. ASSUME Cancel
        PROVE  VotesInv'
    <2>1. PICK p \in Proposals : CancelProposal(p)
      BY <1>8 DEF Cancel
    <2>2. votes' = votes /\ UNCHANGED <<pc, pool, resolved>>
      BY <1>8, <2>1 DEF Cancel, CancelProposal, taskVars, accountVars
    <2>3. QuorumInv'
      <3>1. \A q \in Proposals : status'[q] = status[q] \/ status'[q] = "cancelled"
        BY <2>1 DEF CancelProposal, OptsInv, TypeOK
      <3> QED BY <2>2, <3>1 DEF VotesInv, QuorumInv
    <2> QED BY <2>2, <2>3 DEF VotesInv, TaskInv, PoolInv, VotersInv, Attests
  <1>9. ASSUME NEW r \in Relayers, CoreStop(r)
        PROVE  VotesInv'
    <2>1. UNCHANGED <<pc, pool, resolved, status, votes>>
      BY <1>9 DEF CoreStop, taskVars, accountVars, contractVars
    <2> QED BY <2>1 DEF VotesInv, TaskInv, PoolInv, VotersInv, QuorumInv, Attests
  <1>10. ASSUME NEW r \in Relayers, Crash(r)
         PROVE  VotesInv'
    <2>1. /\ UNCHANGED <<pool, resolved, status, votes>>
          /\ \A t \in Tasks : pc'[t] = "idle" \/ pc'[t] = pc[t]
      BY <1>10 DEF Crash, accountVars, contractVars
    <2>2. TaskInv'
      BY <2>1 DEF VotesInv, TaskInv
    <2> QED BY <2>1, <2>2, VotesFrame
  <1> QED BY <1>1, <1>3, <1>4, <1>5, <1>6, <1>7, <1>8, <1>9, <1>10, Steps DEF Next, Locked
-----------------------------------------------------------------------------
\* The invariant of the votes holds in every run.
THEOREM VotesInvariance == Spec => []VotesInv
  <1> USE WriterAssumption, ContractAssumption
  <1>1. Init => VotesInv
    <2>1. ASSUME Init
          PROVE  VotesInv
      <3>1. TaskInv /\ VotersInv /\ QuorumInv
        BY <2>1 DEF Init, ContractInit, TaskInv, VotersInv, QuorumInv
      <3>2. \A r \in Relayers : pool[r] = << >> /\ DOMAIN pool[r] = {}
        BY <2>1 DEF Init
      <3>3. PoolInv
        BY <3>2 DEF PoolInv
      <3> QED BY <3>1, <3>3 DEF VotesInv
    <2> QED BY <2>1
  <1>2. OptsInv /\ VotesInv /\ [Next]_vars => VotesInv'
    <2>1. ASSUME VotesInv, UNCHANGED vars
          PROVE  VotesInv'
      BY <2>1 DEF VotesInv, TaskInv, PoolInv, VotersInv, QuorumInv, Attests, vars
    <2> QED BY <2>1, VotesStep
  <1> QED BY <1>1, <1>2, OptsInvariance, PTL DEF Spec

\* No proposal passes without a quorum of relayers that were given its message
\* and computed its data.
THEOREM PassedIsAttested == Spec => []Attested
  <1>1. ASSUME TypeOK, VotesInv
        PROVE  Attested
    <2>1. ASSUME NEW p \in Proposals, status[p] \in {"passed", "executed"}
          PROVE  \E Q \in SUBSET Relayers :
                    Cardinality(Q) >= Threshold /\ \A r \in Q : Attests(r, p)
      <3>1. votes[p] \in SUBSET Relayers
        BY <1>1, <2>1 DEF TypeOK
      <3>2. Cardinality(votes[p]) >= Threshold
        BY <1>1, <2>1 DEF VotesInv, QuorumInv
      <3>3. \A r \in votes[p] : Attests(r, p)
        BY <1>1, <2>1 DEF VotesInv, VotersInv
      <3> QED BY <3>1, <3>2, <3>3
    <2> QED BY <2>1 DEF Attested
  <1> QED BY <1>1, TypeCorrect, VotesInvariance, PTL

\* Disjoint subsets of a finite set are together no larger than the set.
LEMMA DisjointSets ==
    ASSUME NEW S, IsFiniteSet(S), NEW A \in SUBSET S, NEW B \in SUBSET S, A \cap B = {}
    PROVE  /\ Cardinality(A) \in Nat /\ Cardinality(B) \in Nat /\ Cardinality(S) \in Nat
           /\ Cardinality(A) + Cardinality(B) <= Cardinality(S)
  <1>1. IsFiniteSet(A) /\ IsFiniteSet(B)
    BY FS_Subset
  <1>2. A \cup B \in SUBSET S
    OBVIOUS
  <1>3. IsFiniteSet(A \cup B) /\ Cardinality(A \cup B) <= Cardinality(S)
    BY <1>2, FS_Subset
  <1>4. Cardinality(A \cap B) = 0
    BY FS_EmptySet
  <1>5. Cardinality(A \cup B) = Cardinality(A) + Cardinality(B) - Cardinality(A \cap B)
    BY <1>1, FS_Union
  <1>6. /\ Cardinality(A) \in Nat
        /\ Cardinality(B) \in Nat
        /\ Cardinality(S) \in Nat
    BY <1>1, FS_CardinalityType
  <1> QED BY <1>3, <1>4, <1>5, <1>6

\* When a majority is needed, two proposals for one message never both pass: a
\* relayer votes for the one hash it computes, so their voters are disjoint.
THEOREM OneProposalPasses == Spec => []AtMostOneExecuted
  <1>1. ASSUME ContractAssumption, TypeOK, VotesInv
        PROVE  AtMostOneExecuted
    <2>1. ASSUME 2 * Threshold > Cardinality(Relayers), NEW m \in Messages,
                 NEW h1 \in Hashes, NEW h2 \in Hashes, h1 # h2,
                 status[<<m, h1>>] \in {"passed", "executed"},
                 status[<<m, h2>>] \in {"passed", "executed"}
          PROVE  FALSE
      <3> DEFINE A == votes[<<m, h1>>]
                 B == votes[<<m, h2>>]
      <3>1. <<m, h1>> \in Proposals /\ <<m, h2>> \in Proposals
        BY DEF Proposals
      <3>2. A \in SUBSET Relayers /\ B \in SUBSET Relayers
        BY <1>1, <3>1 DEF TypeOK
      <3>3. Cardinality(A) >= Threshold /\ Cardinality(B) >= Threshold
        BY <1>1, <2>1, <3>1 DEF VotesInv, QuorumInv
      <3>4. /\ \A r \in A : Data[r][m] = h1
            /\ \A r \in B : Data[r][m] = h2
        BY <1>1, <3>1 DEF VotesInv, VotersInv, Attests
      <3>5. A \cap B = {}
        BY <2>1, <3>4
      <3> HIDE DEF A, B
      <3>6. /\ Cardinality(A) \in Nat /\ Cardinality(B) \in Nat
            /\ Cardinality(Relayers) \in Nat
            /\ Cardinality(A) + Cardinality(B) <= Cardinality(Relayers)
        BY <1>1, <3>2, <3>5, DisjointSets DEF ContractAssumption
      <3>7. Threshold \in Nat
        BY <1>1 DEF ContractAssumption
      <3> QED BY <2>1, <3>3, <3>6, <3>7
    <2> QED BY <2>1 DEF AtMostOneExecuted
  <1> QED BY <1>1, ContractAssumption, TypeCorrect, VotesInvariance, PTL
=============================================================================
