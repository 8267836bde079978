------------------------------ MODULE EthWriter ------------------------------
(***************************************************************************)
(* The Ethereum writers of all relayers (chains/ethereum/writer.go,        *)
(* writer_methods.go) over the bridge contract they vote on.  Every        *)
(* message the router delivers is a goroutine of its own (a task); the     *)
(* tasks of one relayer share the connection's transact opts under         *)
(* optsLock (connections/ethereum/connection.go) and one account, whose    *)
(* pending transactions the node keeps in nonce order.                     *)
(*                                                                         *)
(* A task reads the contract in one step and acts on it in a later one, so *)
(* everything may have changed in between.  An RPC is a step that may      *)
(* return an error (RpcAnswers); a transaction may be accepted although the *)
(* client sees an error, and an accepted one may be dropped by the node.   *)
(***************************************************************************)
EXTENDS BridgeContract, SequencesExt

CONSTANTS Tasks,         \* a subset of Relayers \X Messages \X Nat
          Type,          \* [Messages -> Types]
          Data,          \* [Relayers -> [Messages -> Hashes]]: what r hashes for m
          TxRetryLimit,  \* writer_methods.go: 10
          RpcAnswers,    \* {"ok"}, or {"ok", "error"} when an RPC may fail
          MaxDrops,      \* bound: pending transactions the nodes drop
          MaxCrashes,    \* bound: processes that crash and start again
          NoTask         \* the holder of a free lock

Types == {"erc20", "erc721", "generic", "unknown"}

ASSUME WriterAssumption ==
    /\ Tasks \subseteq Relayers \X Messages \X Nat
    /\ Type \in [Messages -> Types]
    /\ Data \in [Relayers -> [Messages -> Hashes]]
    /\ TxRetryLimit \in Nat \ {0}
    /\ RpcAnswers \in {{"ok"}, {"ok", "error"}}
    /\ MaxDrops \in Nat
    /\ MaxCrashes \in Nat
    /\ NoTask \notin Tasks

VARIABLES
    pc,        \* [Tasks -> Pcs]: where a task is
    op,        \* [Tasks -> {"vote", "execute"}]: the transaction it submits
    tries,     \* [Tasks -> Nat]: i of the retry loop
    optsLock,  \* [Relayers -> Tasks \cup {NoTask}]: the mutex and its holder
    nonce,     \* [Relayers -> Nat]: opts.Nonce
    mined,     \* [Relayers -> Nat]: transactions of the account mined so far
    pool,      \* [Relayers -> Seq(Txs)]: its pending ones, in nonce order
    stop,      \* [Relayers -> {"open", "closed"}]: the stop channel
    drops, crashes,  \* how often each has happened
    resolved,  \* history: the <<r, m>> that were delivered to a writer
    clobbered  \* history: pending transactions replaced by another one

taskVars == <<pc, op, tries>>
accountVars == <<mined, pool>>
worldVars == <<drops, crashes, stop>>
vars == <<status, votes, handlerFailures, pc, op, tries, optsLock, nonce,
          mined, pool, stop, drops, crashes, resolved, clobbered>>

Relayer(t) == t[1]
Message(t) == t[2]
\* mutants of Hash: the data of a proposal others have opened; a
\* configuration that changes with a restart
HashOfOpenProposal(t) ==
    IF \E h \in Hashes : status[<<Message(t), h>>] = "active"
    THEN CHOOSE h \in Hashes : status[<<Message(t), h>>] = "active"
    ELSE Data[Relayer(t)][Message(t)]
HashAfterRestart(t) ==
    IF crashes = 0 THEN Data[Relayer(t)][Message(t)]
    ELSE CHOOSE h \in Hashes : h # Data[Relayer(t)][Message(t)]

Hash(t) == Data[Relayer(t)][Message(t)]
Proposal(t) == <<Message(t), Hash(t)>>

Txs == [op : {"vote", "execute"}, proposal : Proposals]
Tx(t) == [op |-> op[t], proposal |-> Proposal(t)]

(* "returnTrue", "returnFalse" and "gaveUp" are the ways ResolveMessage    *)
(* returns, the last one after an error of LatestBlock; "fatal" is a task  *)
(* that does nothing more but report ErrFatalTx on sysErr, which waits for *)
(* the end of the process when the relayer is ending already (EthWatch).   *)
Returned == {"returnTrue", "returnFalse", "gaveUp", "fatal"}
Critical == {"updateOpts", "submit"}
Pcs == {"idle", "isComplete", "hasVoted", "isPassed", "latestBlock", "loop",
        "lock", "recheck"} \cup Critical \cup Returned

Init ==
    /\ ContractInit
    /\ pc = [t \in Tasks |-> "idle"]
    /\ op = [t \in Tasks |-> "vote"]
    /\ tries = [t \in Tasks |-> 0]
    /\ optsLock = [r \in Relayers |-> NoTask]
    /\ nonce = [r \in Relayers |-> 0]
    /\ mined = [r \in Relayers |-> 0]
    /\ pool = [r \in Relayers |-> << >>]
    /\ stop = [r \in Relayers |-> "open"]
    /\ drops = 0
    /\ crashes = 0
    /\ resolved = {}
    /\ clobbered = {}
-----------------------------------------------------------------------------
(* Steps of a task that only read.                                         *)

Goto(t, label) == pc' = [pc EXCEPT ![t] = label]

\* What a step that neither submits nor changes the world leaves alone.
Frame == UNCHANGED <<contractVars, accountVars, worldVars, resolved, clobbered>>
ReadOnly == Frame /\ UNCHANGED <<optsLock, nonce>>

\* The three status reads, each false when GetProposal fails.
ProposalIsComplete(t) == status[Proposal(t)] \in {"passed", "executed", "cancelled"}
ProposalIsFinalized(t) == status[Proposal(t)] \in {"executed", "cancelled"}
ProposalIsPassed(t) == status[Proposal(t)] = "passed"
HasVoted(t) == Relayer(t) \in votes[Proposal(t)]

\* router.Send: go writer.ResolveMessage(m).
ResolveMessage(t) ==
    /\ pc[t] = "idle"
    /\ Goto(t, IF Type[Message(t)] = "unknown" THEN "returnFalse" ELSE "isComplete")
    /\ resolved' = resolved \cup {<<Relayer(t), Message(t)>>}
    /\ UNCHANGED <<contractVars, op, tries, optsLock, nonce, accountVars,
                   worldVars, clobbered>>

\* shouldVote, its first read.
CheckComplete(t) ==
    /\ pc[t] = "isComplete"
    /\ \E rpc \in RpcAnswers :
          Goto(t, IF rpc = "ok" /\ ProposalIsComplete(t) THEN "isPassed" ELSE "hasVoted")
    /\ UNCHANGED <<op, tries>>
    /\ ReadOnly

\* mutant of CheckVoted: an error counts as a vote
CheckVotedPessimist(t) ==
    /\ pc[t] = "hasVoted"
    /\ \E rpc \in RpcAnswers :
          Goto(t, IF rpc = "error" \/ HasVoted(t) THEN "isPassed" ELSE "latestBlock")
    /\ UNCHANGED <<op, tries>>
    /\ ReadOnly

\* shouldVote, its second read.
CheckVoted(t) ==
    /\ pc[t] = "hasVoted"
    /\ \E rpc \in RpcAnswers :
          Goto(t, IF rpc = "ok" /\ HasVoted(t) THEN "isPassed" ELSE "latestBlock")
    /\ UNCHANGED <<op, tries>>
    /\ ReadOnly

\* Not to be voted on: an ERC20 proposal is left to others, any other one that
\* has passed is executed.
CheckPassed(t) ==
    /\ pc[t] = "isPassed"
    /\ \E rpc \in RpcAnswers :
          IF rpc = "ok" /\ ProposalIsPassed(t)
          THEN IF Type[Message(t)] = "erc20"
               THEN Goto(t, "returnTrue") /\ UNCHANGED op
               ELSE Goto(t, "loop") /\ op' = [op EXCEPT ![t] = "execute"]
          ELSE Goto(t, "returnFalse") /\ UNCHANGED op
    /\ UNCHANGED tries
    /\ ReadOnly

\* LatestBlock, so that watchThenExecute knows where to start; it does not
\* touch the contract and is left to a model of its own.
LatestBlock(t) ==
    /\ pc[t] = "latestBlock"
    /\ \E rpc \in RpcAnswers : Goto(t, IF rpc = "error" THEN "gaveUp" ELSE "loop")
    /\ UNCHANGED <<op, tries>>
    /\ ReadOnly
-----------------------------------------------------------------------------
(* voteProposal and executeProposal: the retry loop.                       *)

StopLoop(t) ==
    /\ pc[t] = "loop"
    /\ tries[t] < TxRetryLimit
    /\ stop[Relayer(t)] = "closed"
    /\ Goto(t, "returnTrue")
    /\ UNCHANGED <<op, tries>>
    /\ ReadOnly

\* Retries exhausted: ErrFatalTx on sysErr.
FatalTx(t) ==
    /\ pc[t] = "loop"
    /\ tries[t] = TxRetryLimit
    /\ Goto(t, "fatal")
    /\ UNCHANGED <<op, tries>>
    /\ ReadOnly

\* The stop channel is read before the lock is waited for.
EnterLoop(t) ==
    /\ pc[t] = "loop"
    /\ tries[t] < TxRetryLimit
    /\ stop[Relayer(t)] = "open"
    /\ Goto(t, "lock")
    /\ UNCHANGED <<op, tries>>
    /\ ReadOnly

\* mutant of LockIsFree: the opts are not locked
NoMutex(r) == TRUE

LockIsFree(r) == optsLock[r] = NoTask

\* LockAndUpdateOpts, up to optsLock.Lock().
LockOpts(t) ==
    /\ pc[t] = "lock"
    /\ LockIsFree(Relayer(t))
    /\ optsLock' = [optsLock EXCEPT ![Relayer(t)] = t]
    /\ Goto(t, "updateOpts")
    /\ UNCHANGED <<op, tries, nonce>>
    /\ Frame

UnlockOpts(t) == optsLock' = [optsLock EXCEPT ![Relayer(t)] = NoTask]

PendingNonce(r) == mined[r] + Len(pool[r])

\* LockAndUpdateOpts, the rest: the gas price and the pending nonce.
UpdateOpts(t) ==
    /\ pc[t] = "updateOpts"
    /\ nonce' = [nonce EXCEPT ![Relayer(t)] = PendingNonce(Relayer(t))]
    /\ Goto(t, "submit")
    /\ UNCHANGED <<op, tries, optsLock>>
    /\ Frame

\* mutant of UpdateOptsFails: an early return without UnlockOpts
UpdateOptsLeaks(t) ==
    /\ pc[t] = "updateOpts"
    /\ "error" \in RpcAnswers
    /\ tries' = [tries EXCEPT ![t] = @ + 1]
    /\ Goto(t, "loop")
    /\ UNCHANGED <<op, nonce, optsLock>>
    /\ Frame

\* An error unlocks; voteProposal tries again at once, executeProposal returns.
UpdateOptsFails(t) ==
    /\ pc[t] = "updateOpts"
    /\ "error" \in RpcAnswers
    /\ UnlockOpts(t)
    /\ IF op[t] = "vote"
       THEN /\ tries' = [tries EXCEPT ![t] = @ + 1]
            /\ Goto(t, "loop")
       ELSE /\ Goto(t, "returnTrue")
            /\ UNCHANGED tries
    /\ UNCHANGED <<op, nonce>>
    /\ Frame

(* What the node makes of a transaction with nonce opts.Nonce: the next    *)
(* one is queued last; a higher one waits for a gap to be filled, and is   *)
(* lost here; a nonce still pending replaces that transaction or is        *)
(* rejected; a lower one is rejected.                                      *)
Accept(t) ==
    LET r == Relayer(t)
        i == nonce[r] - mined[r] + 1 IN
    /\ UNCHANGED mined
    /\ IF i > Len(pool[r]) + 1
       THEN UNCHANGED <<pool, clobbered>>
       ELSE IF i = Len(pool[r]) + 1
       THEN /\ pool' = [pool EXCEPT ![r] = Append(@, Tx(t))]
            /\ UNCHANGED clobbered
       ELSE /\ i > 0
            /\ pool' = [pool EXCEPT ![r][i] = Tx(t)]
            /\ clobbered' = clobbered \cup {<<r, pool[r][i]>>}

\* The transaction is submitted, the opts are unlocked, and the task returns.
Submit(t) ==
    /\ pc[t] = "submit"
    /\ Accept(t)
    /\ UnlockOpts(t)
    /\ Goto(t, "returnTrue")
    /\ UNCHANGED <<contractVars, op, tries, nonce, worldVars, resolved>>

\* The client sees an error; the node may have accepted it all the same.
SubmitFails(t) ==
    /\ pc[t] = "submit"
    /\ "error" \in RpcAnswers
    /\ Accept(t) \/ UNCHANGED <<accountVars, clobbered>>
    /\ UnlockOpts(t)
    /\ Goto(t, "recheck")
    /\ UNCHANGED <<contractVars, op, tries, nonce, worldVars, resolved>>

\* After a failure: no need to retry what others have completed.
Recheck(t) ==
    /\ pc[t] = "recheck"
    /\ \E rpc \in RpcAnswers :
          IF rpc = "ok" /\ (IF op[t] = "vote" THEN ProposalIsComplete(t)
                                        ELSE ProposalIsFinalized(t))
          THEN Goto(t, "returnTrue") /\ UNCHANGED tries
          ELSE Goto(t, "loop") /\ tries' = [tries EXCEPT ![t] = @ + 1]
    /\ UNCHANGED op
    /\ ReadOnly

TaskStep(t) ==
    \/ CheckComplete(t)
    \/ CheckVoted(t)
    \/ CheckPassed(t)
    \/ LatestBlock(t)
    \/ StopLoop(t)
    \/ FatalTx(t)
    \/ EnterLoop(t)
    \/ LockOpts(t)
    \/ UpdateOpts(t)
    \/ UpdateOptsFails(t)
    \/ Submit(t)
    \/ SubmitFails(t)
    \/ Recheck(t)
-----------------------------------------------------------------------------
(* The destination chain and the processes.                                *)

\* The account's first pending transaction is mined.
MineTx(r) ==
    /\ pool[r] # << >>
    /\ LET tx == Head(pool[r]) IN
          IF tx.op = "vote" THEN VoteProposal(r, tx.proposal)
                            ELSE ExecuteProposal(tx.proposal)
    /\ mined' = [mined EXCEPT ![r] = @ + 1]
    /\ pool' = [pool EXCEPT ![r] = Tail(@)]
    /\ UNCHANGED <<taskVars, optsLock, nonce, worldVars, resolved, clobbered>>

\* The node forgets the last pending transaction: evicted, or restarted.
DropTx(r) ==
    /\ drops < MaxDrops
    /\ pool[r] # << >>
    /\ pool' = [pool EXCEPT ![r] = Front(@)]
    /\ drops' = drops + 1
    /\ UNCHANGED <<contractVars, taskVars, optsLock, nonce, mined, stop, crashes,
                   resolved, clobbered>>

Cancel ==
    /\ \E p \in Proposals : CancelProposal(p)
    /\ UNCHANGED <<taskVars, optsLock, nonce, accountVars, worldVars, resolved,
                   clobbered>>

\* Chain.Stop, after a signal or an error on sysErr.
CoreStop(r) ==
    /\ stop[r] = "open"
    /\ stop' = [stop EXCEPT ![r] = "closed"]
    /\ UNCHANGED <<contractVars, taskVars, optsLock, nonce, accountVars, drops,
                   crashes, resolved, clobbered>>

\* The process ends and a new one starts: goroutines and lock are gone, and
\* the listener may deliver any of the messages again.
Crash(r) ==
    /\ crashes < MaxCrashes
    /\ crashes' = crashes + 1
    /\ pc' = [t \in Tasks |-> IF Relayer(t) = r THEN "idle" ELSE pc[t]]
    /\ op' = [t \in Tasks |-> IF Relayer(t) = r THEN "vote" ELSE op[t]]
    /\ tries' = [t \in Tasks |-> IF Relayer(t) = r THEN 0 ELSE tries[t]]
    /\ optsLock' = [optsLock EXCEPT ![r] = NoTask]
    /\ nonce' = [nonce EXCEPT ![r] = 0]
    /\ stop' = [stop EXCEPT ![r] = "open"]
    /\ UNCHANGED <<contractVars, accountVars, drops, resolved, clobbered>>
-----------------------------------------------------------------------------
Next ==
    \/ \E t \in Tasks : ResolveMessage(t)
    \/ \E t \in Tasks : TaskStep(t)
    \/ \E r \in Relayers : MineTx(r)
    \/ \E r \in Relayers : DropTx(r)
    \/ Cancel
    \/ \E r \in Relayers : CoreStop(r)
    \/ \E r \in Relayers : Crash(r)

Spec == Init /\ [][Next]_vars

(* Every goroutine runs, every RPC answers, and pending transactions are   *)
(* mined.  Weak fairness is enough for the lock: a task takes it at most   *)
(* TxRetryLimit times, so it is not taken away for ever.                   *)
FairSpec ==
    /\ Spec
    /\ \A t \in Tasks : WF_vars(TaskStep(t))
    /\ \A r \in Relayers : WF_vars(MineTx(r))
-----------------------------------------------------------------------------
\* Every variable has its type.
TypeOK ==
    /\ status \in [Proposals -> Statuses]
    /\ votes \in [Proposals -> SUBSET Relayers]
    /\ handlerFailures \in Nat
    /\ pc \in [Tasks -> Pcs]
    /\ op \in [Tasks -> {"vote", "execute"}]
    /\ tries \in [Tasks -> 0 .. TxRetryLimit]
    /\ optsLock \in [Relayers -> Tasks \cup {NoTask}]
    /\ nonce \in [Relayers -> Nat]
    /\ mined \in [Relayers -> Nat]
    /\ pool \in [Relayers -> Seq(Txs)]
    /\ stop \in [Relayers -> {"open", "closed"}]
    /\ drops \in Nat
    /\ crashes \in Nat
    /\ resolved \subseteq Relayers \X Messages
    /\ clobbered \subseteq Relayers \X Txs

\* optsLock is held by exactly the task between LockAndUpdateOpts and
\* UnlockOpts: no error path of the retry loops leaks it, and no two
\* goroutines of a relayer have the opts at once.
LockDiscipline ==
    \A r \in Relayers :
        /\ optsLock[r] = NoTask \/ Relayer(optsLock[r]) = r
        /\ \A t \in Tasks : Relayer(t) = r =>
              (pc[t] \in Critical <=> optsLock[r] = t)

\* No transaction replaces one that is still pending: the nonce a task read
\* under the lock is not below the pending nonce when it submits, however the
\* tasks interleave and whatever the node mines or drops meanwhile.
NoNonceReuse == clobbered = {}

\* Who has been given m, and computes hash h for it.
Attests(r, p) == <<r, p[1]>> \in resolved /\ Data[r][p[1]] = p[2]

\* A proposal passes only if Threshold relayers were given its message and
\* computed its very data.
Attested ==
    \A p \in Proposals : status[p] \in {"passed", "executed"} =>
        \E Q \in SUBSET Relayers :
            Cardinality(Q) >= Threshold /\ \A r \in Q : Attests(r, p)

\* A message takes effect at most once: when a majority is needed, proposals
\* with different data for one message never both pass, although relayers may
\* disagree on the data, vote again after a crash, and race with each other.
AtMostOneExecuted ==
    2 * Threshold > Cardinality(Relayers) =>
        \A m \in Messages : \A h1, h2 \in Hashes :
            /\ status[<<m, h1>>] \in {"passed", "executed"}
            /\ status[<<m, h2>>] \in {"passed", "executed"}
            => h1 = h2

\* No goroutine waits for ever for the chain or for the lock: a message that is
\* being resolved is done with some day, so the lock is always released.
EveryTaskReturns ==
    \A t \in Tasks : pc[t] # "idle" ~> pc[t] \in Returned \cup {"idle"}

Quorum(p) == Cardinality({r \in Relayers : Attests(r, p)}) >= Threshold

Decided(p) == status[p] \in {"passed", "executed", "cancelled"}

\* What excuses a proposal from being decided: a lost vote, a crash or a stop,
\* a task that returned because LatestBlock failed, or one that gave up.
Hindered(p) ==
    \/ drops > 0
    \/ crashes > 0
    \/ \E r \in Relayers : stop[r] = "closed"
    \/ \E t \in Tasks : Proposal(t) = p /\ pc[t] \in {"gaveUp", "fatal"}

\* Once a quorum was given a message and agrees on its data, its proposal is
\* decided, unless hindered: votes are not lost to lost replies, races on the
\* nonce, or reads that failed.
EventuallyDecided ==
    \A p \in Proposals :
        (Quorum(p) /\ Type[p[1]] # "unknown") ~> (Decided(p) \/ Hindered(p))
=============================================================================
