------------------------------ MODULE SubWriter ------------------------------
(***************************************************************************)
(* The Substrate writers and connections of all relayers                   *)
(* (chains/substrate/writer.go, types.go, connection.go).  As on Ethereum, *)
(* a task is the goroutine of one delivered message; the tasks of a        *)
(* relayer share the connection's metadata and its cached nonce, the       *)
(* latter under nonceLock.                                                 *)
(*                                                                         *)
(* The cached nonce grows with every submission, also a failed one, and    *)
(* never shrinks: the chain tells the connection which nonces are used,    *)
(* not which are pending.                                                  *)
(***************************************************************************)
EXTENDS SubstrateNode

CONSTANTS Deliveries,       \* tell the deliveries of one message apart
          Tasks,            \* a subset of Relayers \X Messages \X Deliveries
          UnknownMessages,  \* those whose type ResolveMessage does not know
          BlockRetryLimit,  \* listener.go: 5
          ReadAnswers,      \* {"ok"}, or {"ok", "error"} when a query may fail
          SubmitAnswers,    \* the same of a signature, a submission, its subscription
          MaxStops,         \* bound: relayers that are stopped
          MaxCrashes,       \* bound: processes that crash and start again
          NoTask            \* the holder of a free lock

ASSUME WriterAssumption ==
    /\ Tasks \subseteq Relayers \X Messages \X Deliveries
    /\ UnknownMessages \subseteq Messages
    /\ BlockRetryLimit \in Nat \ {0}
    /\ ReadAnswers \in {{"ok"}, {"ok", "error"}}
    /\ SubmitAnswers \in {{"ok"}, {"ok", "error"}}
    /\ MaxStops \in Nat
    /\ MaxCrashes \in Nat
    /\ NoTask \notin Tasks

VARIABLES
    pc,         \* [Tasks -> Pcs]: where a task is
    tries,      \* [Tasks -> Nat]: i of the retry loop
    call,       \* [Tasks -> Versions]: the metadata that encoded prop.call
    draft,      \* [Tasks -> Drafts]: the extrinsic under construction
    event,      \* [Tasks -> Events]: the status that waits in sub.Chan()
    meta,       \* [Relayers -> Versions]: conn.meta
    nonce,      \* [Relayers -> Nat]: conn.nonce
    nonceLock,  \* [Relayers -> Tasks \cup {NoTask}]
    stop,       \* [Relayers -> {"open", "closed"}]: the stop channel
    crashes,    \* how many crashes there were
    encoded     \* history: [Relayers -> SUBSET Proposals], by any incarnation

taskVars == <<pc, tries, call, draft, event>>
connVars == <<meta, nonce, nonceLock>>
vars == <<nodeVars, taskVars, connVars, stop, crashes, encoded>>

Relayer(t) == t[1]
Message(t) == t[2]
\* mutant of Proposal: the call is encoded when it is used
ProposalEncodedLate(t) == <<Message(t), meta[Relayer(t)]>>

Proposal(t) == <<Message(t), call[t]>>

(* "gaveUp" is the return after BlockRetryLimit failures; "fatal" is a     *)
(* task with nothing left but an error to report on sysErr.                *)
Returned == {"returnTrue", "returnFalse", "gaveUp", "fatal"}
Critical == {"latestNonce", "submit"}
Pcs == {"idle", "create", "proposalValid", "runtimeVersion", "lock", "watch"}
          \cup Critical \cup Returned
Drafts == [meta : Versions, spec : Versions, nonce : Nat]
NoDraft == [meta |-> 0, spec |-> 0, nonce |-> 0]
Events == {"none", "inBlock", "dropped", "invalid"}

Init ==
    /\ NodeInit
    /\ pc = [t \in Tasks |-> "idle"]
    /\ tries = [t \in Tasks |-> 0]
    /\ call = [t \in Tasks |-> 0]
    /\ draft = [t \in Tasks |-> NoDraft]
    /\ event = [t \in Tasks |-> "none"]
    /\ meta = [r \in Relayers |-> 0]
    /\ nonce = [r \in Relayers |-> 0]
    /\ nonceLock = [r \in Relayers |-> NoTask]
    /\ stop = [r \in Relayers |-> "open"]
    /\ crashes = 0
    /\ encoded = [r \in Relayers |-> {}]
-----------------------------------------------------------------------------
(* ResolveMessage: the proposal, and the top of the retry loop.            *)

Goto(t, label) == pc' = [pc EXCEPT ![t] = label]

\* A task that returns forgets all but the call, which the properties name.
Return(t, label) ==
    /\ Goto(t, label)
    /\ tries' = [tries EXCEPT ![t] = 0]
    /\ draft' = [draft EXCEPT ![t] = NoDraft]
    /\ event' = [event EXCEPT ![t] = "none"]
    /\ UNCHANGED call

\* time.Sleep and continue: the next iteration starts over.
Retry(t) ==
    /\ Goto(t, "proposalValid")
    /\ tries' = [tries EXCEPT ![t] = @ + 1]
    /\ draft' = [draft EXCEPT ![t] = NoDraft]
    /\ event' = [event EXCEPT ![t] = "none"]
    /\ UNCHANGED call

Rest == UNCHANGED <<stop, crashes, encoded>>

\* The type is looked up, and the metadata the call is encoded with is copied.
ResolveMessage(t) ==
    /\ pc[t] = "idle"
    /\ Goto(t, IF Message(t) \in UnknownMessages THEN "fatal" ELSE "create")
    /\ call' = [call EXCEPT ![t] = meta[Relayer(t)]]
    /\ UNCHANGED <<nodeVars, tries, draft, event, connVars>> /\ Rest

\* The resource is known, and the call is encoded with the copied metadata: for
\* every delivery of the message anew.
CreateProposal(t) ==
    /\ pc[t] = "create"
    /\ Goto(t, "proposalValid")
    /\ encoded' = [encoded EXCEPT ![Relayer(t)] = @ \cup {Proposal(t)}]
    /\ UNCHANGED <<nodeVars, tries, call, draft, event, connVars, stop, crashes>>

\* resolveResourceId: an error, or a resource that is not found, is fatal.
CreateProposalFails(t) ==
    /\ pc[t] = "create"
    /\ "error" \in ReadAnswers
    /\ Goto(t, "fatal")
    /\ UNCHANGED <<nodeVars, tries, call, draft, event, connVars>> /\ Rest

\* mutant of HasVoted: the vote of any relayer counts
AnyHasVoted(t) == voters[Proposal(t)] # {}

HasVoted(t) == Relayer(t) \in voters[Proposal(t)]

Looping(t) == pc[t] = "proposalValid" /\ tries[t] < BlockRetryLimit

\* proposalValid: the proposal is complete, or has this relayer's vote.
IgnoreProposal(t) ==
    /\ Looping(t)
    /\ Approved(Proposal(t)) \/ HasVoted(t)
    /\ Return(t, "returnTrue")
    /\ UNCHANGED <<nodeVars, connVars>> /\ Rest

\* proposalValid: to be voted on.  SubmitTx copies the metadata at once; the
\* call of the proposal stays as it was encoded.
AcknowledgeProposal(t) ==
    /\ Looping(t)
    /\ ~Approved(Proposal(t)) /\ ~HasVoted(t)
    /\ Goto(t, "runtimeVersion")
    /\ draft' = [draft EXCEPT ![t].meta = meta[Relayer(t)]]
    /\ UNCHANGED <<nodeVars, tries, call, event, connVars>> /\ Rest

ProposalValidFails(t) ==
    /\ Looping(t)
    /\ "error" \in ReadAnswers
    /\ Retry(t)
    /\ UNCHANGED <<nodeVars, connVars>> /\ Rest

\* The loop ends, and nobody is told.
GiveUp(t) ==
    /\ pc[t] = "proposalValid"
    /\ tries[t] = BlockRetryLimit
    /\ Return(t, "gaveUp")
    /\ UNCHANGED <<nodeVars, connVars>> /\ Rest
-----------------------------------------------------------------------------
(* SubmitTx and watchSubmission.                                           *)

GetRuntimeVersion(t) ==
    /\ pc[t] = "runtimeVersion"
    /\ Goto(t, "lock")
    /\ draft' = [draft EXCEPT ![t].spec = runtime]
    /\ UNCHANGED <<nodeVars, tries, call, event, connVars>> /\ Rest

GetRuntimeVersionFails(t) ==
    /\ pc[t] = "runtimeVersion"
    /\ "error" \in ReadAnswers
    /\ Retry(t)
    /\ UNCHANGED <<nodeVars, connVars>> /\ Rest

LockNonce(t) ==
    /\ pc[t] = "lock"
    /\ nonceLock[Relayer(t)] = NoTask
    /\ nonceLock' = [nonceLock EXCEPT ![Relayer(t)] = t]
    /\ Goto(t, "latestNonce")
    /\ UNCHANGED <<nodeVars, tries, call, draft, event, meta, nonce>> /\ Rest

UnlockNonce(t) == nonceLock' = [nonceLock EXCEPT ![Relayer(t)] = NoTask]

\* mutant of LatestNonce: the cached nonce is not compared
LatestNonceOnly(r) == accountNonce[r]

LatestNonce(r) == IF accountNonce[r] > nonce[r] THEN accountNonce[r] ELSE nonce[r]

\* The nonce is at least the one on chain; the extrinsic is signed with it.
UpdateNonce(t) ==
    /\ pc[t] = "latestNonce"
    /\ LET n == LatestNonce(Relayer(t)) IN
          /\ nonce' = [nonce EXCEPT ![Relayer(t)] = n]
          /\ draft' = [draft EXCEPT ![t].nonce = n]
    /\ Goto(t, "submit")
    /\ UNCHANGED <<nodeVars, tries, call, event, meta, nonceLock>> /\ Rest

\* mutant of GetLatestNonceFails: an error path that keeps the lock
GetLatestNonceLeaks(t) ==
    /\ pc[t] = "latestNonce"
    /\ "error" \in ReadAnswers
    /\ Retry(t)
    /\ UNCHANGED <<nodeVars, connVars>> /\ Rest

\* mutant of GetLatestNonceFails: an error path that uses up a nonce
GetLatestNonceCounts(t) ==
    /\ pc[t] = "latestNonce"
    /\ "error" \in ReadAnswers
    /\ UnlockNonce(t)
    /\ nonce' = [nonce EXCEPT ![Relayer(t)] = @ + 1]
    /\ Retry(t)
    /\ UNCHANGED <<nodeVars, meta>> /\ Rest

GetLatestNonceFails(t) ==
    /\ pc[t] = "latestNonce"
    /\ "error" \in ReadAnswers
    /\ UnlockNonce(t)
    /\ Retry(t)
    /\ UNCHANGED <<nodeVars, meta, nonce>> /\ Rest

\* The nonce has been raised when the signature fails.
SignFails(t) ==
    /\ pc[t] = "latestNonce"
    /\ "error" \in SubmitAnswers
    /\ nonce' = [nonce EXCEPT ![Relayer(t)] = LatestNonce(Relayer(t))]
    /\ UnlockNonce(t)
    /\ Retry(t)
    /\ UNCHANGED <<nodeVars, meta>> /\ Rest

Extrinsic(t) ==
    [nonce |-> draft[t].nonce, spec |-> draft[t].spec, proposal |-> Proposal(t)]

\* The node can read the extrinsic and takes it.
Accepted(t) ==
    /\ draft[t].meta = runtime
    /\ Acceptable(Relayer(t), draft[t].nonce, draft[t].spec)

\* c.nonce++ and Unlock, whatever the submission returned.
UseNonce(t) ==
    /\ nonce' = [nonce EXCEPT ![Relayer(t)] = @ + 1]
    /\ UnlockNonce(t)
    /\ UNCHANGED meta

Submit(t) ==
    /\ pc[t] = "submit"
    /\ Accepted(t)
    /\ AddToPool(Relayer(t), Extrinsic(t))
    /\ UseNonce(t)
    /\ Goto(t, "watch")
    /\ UNCHANGED <<runtime, accountNonce, voters, best, drops, retractions, lost,
                   tries, call, draft, event>> /\ Rest

\* A nonce that nothing has used or will use, as the submission with it failed.
LosesNonce(t) ==
    LET r == Relayer(t) IN
        draft[t].nonce >= accountNonce[r] /\ ~PoolHas(r, draft[t].nonce)

\* The node rejects the extrinsic, or an error hides whether it was taken.
SubmitFails(t) ==
    /\ pc[t] = "submit"
    /\ ~Accepted(t) \/ "error" \in SubmitAnswers
    /\ \/ Accepted(t) /\ AddToPool(Relayer(t), Extrinsic(t)) /\ UNCHANGED lost
       \/ UNCHANGED pool /\ lost' = IF LosesNonce(t) THEN "yes" ELSE lost
    /\ UseNonce(t)
    /\ Retry(t)
    /\ UNCHANGED <<runtime, accountNonce, voters, best, drops, retractions>> /\ Rest

\* watchSubmission: in a block is good enough, final or not, with or without
\* a dispatch error; dropped and invalid are errors.
Status(t) ==
    /\ pc[t] = "watch"
    /\ \/ /\ event[t] = "inBlock"
          /\ Return(t, "returnTrue")
       \/ /\ event[t] \in {"dropped", "invalid"}
          /\ Retry(t)
    /\ UNCHANGED <<nodeVars, connVars>> /\ Rest

\* The subscription ends with an error; the extrinsic is where it was.
SubscriptionFails(t) ==
    /\ pc[t] = "watch"
    /\ "error" \in SubmitAnswers
    /\ Retry(t)
    /\ UNCHANGED <<nodeVars, connVars>> /\ Rest

\* TerminatedError, the only way the stop channel ends a task.
StopWatch(t) ==
    /\ pc[t] = "watch"
    /\ stop[Relayer(t)] = "closed"
    /\ Return(t, "returnFalse")
    /\ UNCHANGED <<nodeVars, connVars>> /\ Rest

TaskStep(t) ==
    \/ CreateProposal(t)
    \/ CreateProposalFails(t)
    \/ IgnoreProposal(t)
    \/ AcknowledgeProposal(t)
    \/ ProposalValidFails(t)
    \/ GiveUp(t)
    \/ GetRuntimeVersion(t)
    \/ GetRuntimeVersionFails(t)
    \/ LockNonce(t)
    \/ UpdateNonce(t)
    \/ GetLatestNonceFails(t)
    \/ SignFails(t)
    \/ Submit(t)
    \/ SubmitFails(t)
    \/ Status(t)
    \/ SubscriptionFails(t)
    \/ StopWatch(t)
-----------------------------------------------------------------------------
(* The chain and the processes.                                            *)

\* What the node tells the task that watches the extrinsic with nonce n.
Notify(r, n, what) ==
    event' = [t \in Tasks |->
                 IF /\ Relayer(t) = r /\ pc[t] = "watch"
                    /\ draft[t].nonce = n /\ event[t] = "none"
                 THEN what ELSE event[t]]

IncludeExtrinsic(r) ==
    \E e \in pool[r] :
        /\ Include(r, e)
        /\ Notify(r, e.nonce, "inBlock")
        /\ UNCHANGED <<pc, tries, call, draft, connVars>> /\ Rest

InvalidateExtrinsic(r) ==
    \E e \in pool[r] :
        /\ Invalidate(r, e)
        /\ Notify(r, e.nonce, "invalid")
        /\ UNCHANGED <<pc, tries, call, draft, connVars>> /\ Rest

DropExtrinsic(r) ==
    \E e \in pool[r] :
        /\ Drop(r, e)
        /\ Notify(r, e.nonce, "dropped")
        /\ UNCHANGED <<pc, tries, call, draft, connVars>> /\ Rest

ChainStep ==
    /\ Retract \/ Upgrade
    /\ UNCHANGED <<taskVars, connVars>> /\ Rest

\* updateMetatdata, called by the listener when it sees CodeUpdated; when it
\* fails the metadata stay as they are.
UpdateMetadata(r) ==
    /\ meta[r] # runtime
    /\ meta' = [meta EXCEPT ![r] = runtime]
    /\ UNCHANGED <<nodeVars, taskVars, nonce, nonceLock>> /\ Rest

\* Chain.Stop
CoreStop(r) ==
    /\ stop[r] = "open"
    /\ Cardinality({s \in Relayers : stop[s] = "closed"}) < MaxStops
    /\ stop' = [stop EXCEPT ![r] = "closed"]
    /\ UNCHANGED <<nodeVars, taskVars, connVars, crashes, encoded>>

\* The process ends and a new one connects; its listener may deliver any of
\* the messages again.
Crash(r) ==
    /\ crashes < MaxCrashes
    /\ crashes' = crashes + 1
    /\ LET reset(f, value) == [t \in Tasks |-> IF Relayer(t) = r THEN value ELSE f[t]] IN
          /\ pc' = reset(pc, "idle")
          /\ tries' = reset(tries, 0)
          /\ call' = reset(call, 0)
          /\ draft' = reset(draft, NoDraft)
          /\ event' = reset(event, "none")
    /\ meta' = [meta EXCEPT ![r] = runtime]
    /\ nonce' = [nonce EXCEPT ![r] = 0]
    /\ nonceLock' = [nonceLock EXCEPT ![r] = NoTask]
    /\ stop' = [stop EXCEPT ![r] = "open"]
    /\ UNCHANGED <<nodeVars, encoded>>

Next ==
    \/ \E t \in Tasks : ResolveMessage(t)
    \/ \E t \in Tasks : TaskStep(t)
    \/ \E r \in Relayers : IncludeExtrinsic(r)
    \/ \E r \in Relayers : InvalidateExtrinsic(r)
    \/ \E r \in Relayers : DropExtrinsic(r)
    \/ ChainStep
    \/ \E r \in Relayers : UpdateMetadata(r)
    \/ \E r \in Relayers : CoreStop(r)
    \/ \E r \in Relayers : Crash(r)

Spec == Init /\ [][Next]_vars

(* Every goroutine runs, every RPC answers, and the chain makes blocks and  *)
(* drops what has become invalid.  A task takes the lock at most            *)
(* BlockRetryLimit times, so weak fairness is enough for it.                *)
FairSpec ==
    /\ Spec
    /\ \A t \in Tasks : WF_vars(TaskStep(t))
    /\ \A r \in Relayers : WF_vars(IncludeExtrinsic(r)) /\ WF_vars(InvalidateExtrinsic(r))
-----------------------------------------------------------------------------
\* Every variable has its type.
TypeOK ==
    /\ runtime \in Versions
    /\ accountNonce \in [Relayers -> Nat]
    /\ pool \in [Relayers -> SUBSET Extrinsics]
    /\ voters \in [Proposals -> SUBSET Relayers]
    /\ best = NoBlock \/
          best \in [relayer : Relayers, extrinsic : Extrinsics, voters : SUBSET Relayers]
    /\ drops \in Nat /\ retractions \in Nat /\ crashes \in Nat
    /\ lost \in {"no", "yes"}
    /\ pc \in [Tasks -> Pcs]
    /\ tries \in [Tasks -> 0 .. BlockRetryLimit]
    /\ call \in [Tasks -> Versions]
    /\ draft \in [Tasks -> Drafts]
    /\ event \in [Tasks -> Events]
    /\ meta \in [Relayers -> Versions]
    /\ nonce \in [Relayers -> Nat]
    /\ nonceLock \in [Relayers -> Tasks \cup {NoTask}]
    /\ stop \in [Relayers -> {"open", "closed"}]
    /\ encoded \in [Relayers -> SUBSET Proposals]

\* nonceLock is held by exactly the task between getLatestNonce and the
\* submission: none of the error paths of SubmitTx leaks it.
NonceLockDiscipline ==
    \A r \in Relayers :
        /\ nonceLock[r] = NoTask \/ Relayer(nonceLock[r]) = r
        /\ \A t \in Tasks : Relayer(t) = r =>
              (pc[t] \in Critical <=> nonceLock[r] = t)

\* As long as no process was restarted, the nonce of a submission is neither
\* used nor pending: the cached nonce makes up for what the chain does not
\* count, through retracted blocks and extrinsics included meanwhile.
FreshNonce ==
    crashes = 0 => \A t \in Tasks : pc[t] = "submit" =>
        /\ draft[t].nonce >= accountNonce[Relayer(t)]
        /\ ~PoolHas(Relayer(t), draft[t].nonce)

\* Nonces the connection has used up, and no extrinsic will: everything
\* submitted after them waits in the node for ever.
Gap(r) == \E n \in accountNonce[r] .. nonce[r] - 1 : ~PoolHas(r, n)

\* Only an extrinsic that was lost, in a failed submission or by the node,
\* makes a gap: no read error, no race, no retracted block and no restart.
OnlyLossMakesGap == lost = "no" => \A r \in Relayers : ~Gap(r)

\* The relayers that have encoded the call of m for both runtimes: the message
\* was delivered to them again, by a block that was read again or a restart,
\* and an upgrade came in between.
Reencoders(m, v1, v2) == {r \in Relayers : {<<m, v1>>, <<m, v2>>} \subseteq encoded[r]}

\* An upgrade changes the encoding of a call, and with it the key of its votes,
\* so that a message may be approved once for each encoding.  For that two
\* quorums are needed, and whoever is in both has encoded it twice: no race of
\* an upgrade with a vote under way, no retracted block and no retry moves a
\* vote to another encoding.  As long as fewer than 2 * Threshold -
\* Cardinality(Relayers) relayers have, a message takes effect at most once.
TwiceApprovedTwiceEncoded ==
    \A m \in Messages : \A v1, v2 \in Versions :
        v1 # v2 /\ Approved(<<m, v1>>) /\ Approved(<<m, v2>>) =>
            Cardinality(Reencoders(m, v1, v2)) >= 2 * Threshold - Cardinality(Relayers)

\* A message that is being resolved is done with some day, unless a gap keeps
\* its extrinsic from being included: the wait in watchSubmission is the only
\* one without a limit.
EveryTaskReturnsOrGap ==
    \A t \in Tasks :
        pc[t] # "idle" ~> (pc[t] \in Returned \cup {"idle"} \/ Gap(Relayer(t)))

Backs(t, p) == pc[t] \notin {"idle", "create", "fatal"} /\ Proposal(t) = p
Quorum(p) == Cardinality({r \in Relayers : \E t \in Tasks : Relayer(t) = r /\ Backs(t, p)})
                 >= Threshold

\* What excuses a proposal from being approved.
Hindered(p) ==
    \/ lost = "yes" \/ crashes > 0
    \/ \E r \in Relayers : stop[r] = "closed"
    \/ \E t \in Tasks : Proposal(t) = p /\ pc[t] = "gaveUp"

\* Once a quorum has encoded the same call it is approved, unless an extrinsic
\* was lost, a relayer was stopped, or gave up.
EventuallyApproved == \A p \in Proposals : Quorum(p) ~> (Approved(p) \/ Hindered(p))
=============================================================================
