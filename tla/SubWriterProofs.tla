--------------------------- MODULE SubWriterProofs ---------------------------
(***************************************************************************)
(* Type correctness, FreshNonce, OnlyLossMakesGap and                      *)
(* TwiceApprovedTwiceEncoded of SubWriter, for any number of relayers,     *)
(* messages, goroutines, redeliveries, upgrades, retracted blocks, crashes *)
(* and stops.                                                              *)
(*                                                                         *)
(* The nonces: only the holder of nonceLock changes the cached nonce, so   *)
(* that the one it signs with is still the cached one when it submits      *)
(* (LockInv).  Everything pending lies below the cached nonce, and so does *)
(* what is used, as long as the process was not restarted (BelowInv).      *)
(*                                                                         *)
(* The votes: a vote, pending, counted or taken back with its block, is    *)
(* for a call its relayer has encoded (CallInv).  The quorums of two       *)
(* approved encodings share relayers, and those have encoded both.         *)
(***************************************************************************)
EXTENDS SubWriter, FiniteSetTheorems, TLAPS

\* Where a task counts an attempt, one is left.
TriesInv ==
    \A t \in Tasks :
        pc[t] \in {"runtimeVersion", "lock", "latestNonce", "submit", "watch"}
            => tries[t] < BlockRetryLimit

\* What may be retracted is what the account did last.
BestInv ==
    best # NoBlock => best.extrinsic.nonce + 1 = accountNonce[best.relayer]

LockInv ==
    /\ NonceLockDiscipline
    /\ \A t \in Tasks : pc[t] = "submit" => draft[t].nonce = nonce[Relayer(t)]

BelowInv ==
    crashes = 0 =>
        \A r \in Relayers : /\ accountNonce[r] <= nonce[r]
                            /\ \A e \in pool[r] : e.nonce < nonce[r]

NonceInv == TypeOK /\ TriesInv /\ BestInv /\ LockInv

\* The goroutines that hold a proposal they have encoded.
Voting(t) == pc[t] \notin {"idle", "create", "fatal"}

\* Whatever a relayer votes for, it has encoded.
CallInv ==
    /\ \A t \in Tasks : Voting(t) => Proposal(t) \in encoded[Relayer(t)]
    /\ \A r \in Relayers : \A e \in pool[r] : e.proposal \in encoded[r]
    /\ \A p \in Proposals : \A r \in voters[p] : p \in encoded[r]
    /\ best # NoBlock =>
          /\ best.extrinsic.proposal \in encoded[best.relayer]
          /\ \A r \in best.voters : best.extrinsic.proposal \in encoded[r]
-----------------------------------------------------------------------------
LEMMA TaskType ==
    ASSUME WriterAssumption, NEW t \in Tasks
    PROVE  Relayer(t) \in Relayers /\ Message(t) \in Messages
  BY DEF WriterAssumption, Relayer, Message

LEMMA ProposalType ==
    ASSUME WriterAssumption, TypeOK, NEW t \in Tasks
    PROVE  Proposal(t) \in Proposals
  BY TaskType DEF TypeOK, Proposal, Proposals

\* The steps of a task that neither hold the lock nor take it.
Quiet(t) ==
    \/ CreateProposal(t)
    \/ CreateProposalFails(t)
    \/ IgnoreProposal(t)
    \/ AcknowledgeProposal(t)
    \/ ProposalValidFails(t)
    \/ GiveUp(t)
    \/ GetRuntimeVersion(t)
    \/ GetRuntimeVersionFails(t)
    \/ Status(t)
    \/ SubscriptionFails(t)
    \/ StopWatch(t)

Locked(t) ==
    \/ LockNonce(t)
    \/ UpdateNonce(t)
    \/ GetLatestNonceFails(t)
    \/ SignFails(t)
    \/ Submit(t)
    \/ SubmitFails(t)

Elsewhere == Pcs \ (Critical \cup {"idle"})

LEMMA Steps ==
    ASSUME NEW t \in Tasks, TaskStep(t)
    PROVE  Quiet(t) \/ Locked(t)
  BY DEF TaskStep, Quiet, Locked

\* Return and Retry, whose guards leave an attempt.
LEMMA ReturnType ==
    ASSUME WriterAssumption, NodeAssumption, TypeOK, NEW t \in Tasks,
           NEW l \in Returned, Return(t, l)
    PROVE  /\ pc' = [pc EXCEPT ![t] = l] /\ l \in Elsewhere
           /\ tries' = [tries EXCEPT ![t] = 0]
           /\ tries' \in [Tasks -> 0 .. BlockRetryLimit]
           /\ draft' = [draft EXCEPT ![t] = NoDraft]
           /\ draft' \in [Tasks -> Drafts]
           /\ event' \in [Tasks -> Events]
           /\ call' = call
  <1>1. NoDraft \in Drafts /\ 0 \in 0 .. BlockRetryLimit /\ "none" \in Events
    BY DEF NoDraft, Drafts, Events, Versions, WriterAssumption, NodeAssumption, TypeOK
  <1> QED BY <1>1 DEF Return, Goto, TypeOK, Elsewhere, Pcs, Critical, Returned

LEMMA RetryType ==
    ASSUME WriterAssumption, NodeAssumption, TypeOK, NEW t \in Tasks,
           tries[t] < BlockRetryLimit, Retry(t)
    PROVE  /\ pc' = [pc EXCEPT ![t] = "proposalValid"] /\ "proposalValid" \in Elsewhere
           /\ tries' = [tries EXCEPT ![t] = @ + 1]
           /\ tries' \in [Tasks -> 0 .. BlockRetryLimit]
           /\ draft' = [draft EXCEPT ![t] = NoDraft]
           /\ draft' \in [Tasks -> Drafts]
           /\ event' \in [Tasks -> Events]
           /\ call' = call
  <1>1. NoDraft \in Drafts /\ "none" \in Events
    BY DEF NoDraft, Drafts, Events, Versions, NodeAssumption, TypeOK
  <1>2. tries[t] + 1 \in 0 .. BlockRetryLimit
    BY DEF WriterAssumption, TypeOK
  <1> QED BY <1>1, <1>2 DEF Retry, Goto, TypeOK, Elsewhere, Pcs, Critical, Returned

LEMMA QuietStep ==
    ASSUME WriterAssumption, NodeAssumption, TypeOK, TriesInv, NEW t \in Tasks, Quiet(t)
    PROVE  /\ UNCHANGED <<nodeVars, connVars, stop, crashes, call>>
           /\ pc[t] \in Elsewhere
           /\ \E l \in Elsewhere :
                 /\ pc' = [pc EXCEPT ![t] = l]
                 /\ l \in {"runtimeVersion", "lock", "watch"}
                       => tries' = tries /\ tries[t] < BlockRetryLimit
           /\ tries' \in [Tasks -> 0 .. BlockRetryLimit]
           /\ draft' \in [Tasks -> Drafts]
           /\ event' \in [Tasks -> Events]
           /\ \A u \in Tasks \ {t} : tries'[u] = tries[u] /\ draft'[u] = draft[u]
  <1> DEFINE Same == UNCHANGED <<nodeVars, connVars, stop, crashes, call>>
             Goal == /\ Same
                     /\ pc[t] \in Elsewhere
                     /\ \E l \in Elsewhere :
                           /\ pc' = [pc EXCEPT ![t] = l]
                           /\ l \in {"runtimeVersion", "lock", "watch"}
                                 => tries' = tries /\ tries[t] < BlockRetryLimit
                     /\ tries' \in [Tasks -> 0 .. BlockRetryLimit]
                     /\ draft' \in [Tasks -> Drafts]
                     /\ event' \in [Tasks -> Events]
                     /\ \A u \in Tasks \ {t} : tries'[u] = tries[u] /\ draft'[u] = draft[u]
  <1>0. /\ tries \in [Tasks -> 0 .. BlockRetryLimit]
        /\ draft \in [Tasks -> Drafts]
        /\ event \in [Tasks -> Events]
        /\ pc \in [Tasks -> Pcs]
    BY DEF TypeOK
  <1>1. ASSUME NEW l \in Returned, Return(t, l), Same, pc[t] \in {"proposalValid", "watch"}
        PROVE  Goal
    <2>1. \A u \in Tasks \ {t} : tries'[u] = tries[u] /\ draft'[u] = draft[u]
      BY <1>0, <1>1, ReturnType
    <2>2. pc[t] \in Elsewhere /\ l \notin {"runtimeVersion", "lock", "watch"}
      BY <1>1 DEF Elsewhere, Pcs, Critical, Returned
    <2> QED BY <1>1, <2>1, <2>2, ReturnType
  <1>2. ASSUME tries[t] < BlockRetryLimit, Retry(t), Same,
               pc[t] \in {"proposalValid", "runtimeVersion", "watch"}
        PROVE  Goal
    <2>1. \A u \in Tasks \ {t} : tries'[u] = tries[u] /\ draft'[u] = draft[u]
      BY <1>0, <1>2, RetryType
    <2>2. pc[t] \in Elsewhere
      BY <1>2 DEF Elsewhere, Pcs, Critical, Returned
    <2> QED BY <1>2, <2>1, <2>2, RetryType
  <1> USE DEF Rest, Looping, Goto
  <1>3. CASE CreateProposal(t) \/ CreateProposalFails(t)
    <2>1. Same /\ pc[t] = "create" /\ UNCHANGED <<tries, draft, event>>
      BY <1>3 DEF CreateProposal, CreateProposalFails
    <2>2. \E l \in {"proposalValid", "fatal"} : pc' = [pc EXCEPT ![t] = l]
      BY <1>3 DEF CreateProposal, CreateProposalFails
    <2>3. {"proposalValid", "fatal", "create"} \subseteq Elsewhere
      BY DEF Elsewhere, Pcs, Critical, Returned
    <2> QED BY <1>0, <2>1, <2>2, <2>3
  <1>4. CASE IgnoreProposal(t)
    BY <1>1, <1>4 DEF IgnoreProposal, Returned, Return
  <1>5. CASE AcknowledgeProposal(t)
    <2>1. /\ Same /\ pc[t] = "proposalValid" /\ UNCHANGED <<tries, event>>
          /\ tries[t] < BlockRetryLimit
          /\ pc' = [pc EXCEPT ![t] = "runtimeVersion"]
          /\ draft' = [draft EXCEPT ![t].meta = meta[Relayer(t)]]
      BY <1>5 DEF AcknowledgeProposal
    <2>2. meta[Relayer(t)] \in Versions
      BY TaskType DEF TypeOK
    <2>3. draft' \in [Tasks -> Drafts]
      BY <1>0, <2>1, <2>2 DEF Drafts
    <2>4. {"proposalValid", "runtimeVersion"} \subseteq Elsewhere
      BY DEF Elsewhere, Pcs, Critical, Returned
    <2> QED BY <1>0, <2>1, <2>3, <2>4
  <1>6. CASE ProposalValidFails(t)
    BY <1>2, <1>6 DEF ProposalValidFails, Retry
  <1>7. CASE GiveUp(t)
    BY <1>1, <1>7 DEF GiveUp, Returned, Return
  <1>8. CASE GetRuntimeVersion(t)
    <2>1. /\ Same /\ pc[t] = "runtimeVersion" /\ UNCHANGED <<tries, event>>
          /\ pc' = [pc EXCEPT ![t] = "lock"]
          /\ draft' = [draft EXCEPT ![t].spec = runtime]
      BY <1>8 DEF GetRuntimeVersion
    <2>2. runtime \in Versions
      BY DEF TypeOK
    <2>3. draft' \in [Tasks -> Drafts]
      BY <1>0, <2>1, <2>2 DEF Drafts
    <2>4. tries[t] < BlockRetryLimit
      BY <2>1 DEF TriesInv
    <2>5. {"lock", "runtimeVersion"} \subseteq Elsewhere
      BY DEF Elsewhere, Pcs, Critical, Returned
    <2> QED BY <1>0, <2>1, <2>3, <2>4, <2>5
  <1>9. CASE GetRuntimeVersionFails(t)
    BY <1>2, <1>9 DEF GetRuntimeVersionFails, Retry, TriesInv
  <1>10. CASE Status(t)
    <2>1. Same /\ pc[t] = "watch" /\ tries[t] < BlockRetryLimit
      BY <1>10 DEF Status, Return, Retry, TriesInv
    <2>2. CASE Return(t, "returnTrue")
      BY <1>1, <2>1, <2>2 DEF Returned
    <2>3. CASE Retry(t)
      BY <1>2, <2>1, <2>3
    <2> QED BY <1>10, <2>2, <2>3 DEF Status
  <1>11. CASE SubscriptionFails(t)
    BY <1>2, <1>11 DEF SubscriptionFails, Retry, TriesInv
  <1>12. CASE StopWatch(t)
    BY <1>1, <1>12 DEF StopWatch, Returned, Return
  <1> QED BY <1>3, <1>4, <1>5, <1>6, <1>7, <1>8, <1>9, <1>10, <1>11, <1>12 DEF Quiet
-----------------------------------------------------------------------------
(* Type correctness.                                                       *)

LEMMA ExtrinsicType ==
    ASSUME WriterAssumption, TypeOK, NEW t \in Tasks
    PROVE  Extrinsic(t) \in Extrinsics
  <1>1. draft[t].nonce \in Nat /\ draft[t].spec \in Versions
    BY DEF TypeOK, Drafts
  <1> QED BY <1>1, ProposalType DEF Extrinsic, Extrinsics

LEMMA AddToPoolType ==
    ASSUME TypeOK, NEW r \in Relayers, NEW e \in Extrinsics, AddToPool(r, e)
    PROVE  pool' \in [Relayers -> SUBSET Extrinsics]
  BY DEF AddToPool, TypeOK

\* What a submission does to the cached nonce and the lock.
LEMMA UseNonceType ==
    ASSUME WriterAssumption, TypeOK, NEW t \in Tasks, UseNonce(t)
    PROVE  /\ nonce' \in [Relayers -> Nat]
           /\ nonceLock' \in [Relayers -> Tasks \cup {NoTask}]
           /\ meta' = meta
  <1>1. Relayer(t) \in Relayers
    BY TaskType
  <1>2. nonce[Relayer(t)] + 1 \in Nat
    BY <1>1 DEF TypeOK
  <1> QED BY <1>1, <1>2 DEF UseNonce, UnlockNonce, TypeOK

LEMMA NotifyType ==
    ASSUME TypeOK, NEW r, NEW n, NEW w \in {"inBlock", "dropped", "invalid"}, Notify(r, n, w)
    PROVE  event' \in [Tasks -> Events]
  BY DEF TypeOK, Notify, Events

LEMMA IncludeType ==
    ASSUME TypeOK, NEW r \in Relayers, NEW e \in pool[r], Include(r, e)
    PROVE  /\ accountNonce' \in [Relayers -> Nat]
           /\ pool' \in [Relayers -> SUBSET Extrinsics]
           /\ voters' \in [Proposals -> SUBSET Relayers]
           /\ best' = NoBlock \/
                 best' \in [relayer : Relayers, extrinsic : Extrinsics,
                            voters : SUBSET Relayers]
  <1>1. e \in Extrinsics /\ pool \in [Relayers -> SUBSET Extrinsics]
    BY DEF TypeOK
  <1>2. e.proposal \in Proposals
    BY <1>1 DEF Extrinsics
  <1>3. voters \in [Proposals -> SUBSET Relayers] /\ voters[e.proposal] \in SUBSET Relayers
    BY <1>2 DEF TypeOK
  <1>4. accountNonce' \in [Relayers -> Nat]
    BY DEF Include, TypeOK
  <1>5. pool' \in [Relayers -> SUBSET Extrinsics]
    BY <1>1 DEF Include
  <1>6. voters' \in [Proposals -> SUBSET Relayers]
    BY <1>2, <1>3 DEF Include, Acknowledge
  <1>7. \/ best' = NoBlock
        \/ best' = [relayer |-> r, extrinsic |-> e, voters |-> voters[e.proposal]]
    BY DEF Include
  <1> QED BY <1>1, <1>3, <1>4, <1>5, <1>6, <1>7

LEMMA RetractType ==
    ASSUME TypeOK, BestInv, Retract
    PROVE  /\ best.relayer \in Relayers
           /\ best.extrinsic \in Extrinsics
           /\ best.extrinsic.nonce \in Nat
           /\ accountNonce[best.relayer] = best.extrinsic.nonce + 1
           /\ accountNonce' = [accountNonce EXCEPT ![best.relayer] = best.extrinsic.nonce]
           /\ accountNonce' \in [Relayers -> Nat]
           /\ pool' = [pool EXCEPT ![best.relayer] = @ \cup {best.extrinsic}]
           /\ pool' \in [Relayers -> SUBSET Extrinsics]
           /\ best.voters \in SUBSET Relayers
           /\ best.extrinsic.proposal \in Proposals
           /\ voters' = [voters EXCEPT ![best.extrinsic.proposal] = best.voters]
           /\ voters' \in [Proposals -> SUBSET Relayers]
           /\ best' = NoBlock
  <1>1. best # NoBlock /\ best' = NoBlock
    BY DEF Retract
  <1>2. best \in [relayer : Relayers, extrinsic : Extrinsics, voters : SUBSET Relayers]
    BY <1>1 DEF TypeOK
  <1>3. best.relayer \in Relayers /\ best.extrinsic \in Extrinsics
        /\ best.voters \in SUBSET Relayers
    BY <1>2
  <1>4. best.extrinsic.nonce \in Nat /\ best.extrinsic.proposal \in Proposals
    BY <1>3 DEF Extrinsics
  <1>5. accountNonce[best.relayer] = best.extrinsic.nonce + 1
    BY <1>1 DEF BestInv
  <1>6. accountNonce[best.relayer] - 1 = best.extrinsic.nonce
    BY <1>4, <1>5
  <1>7. accountNonce' = [accountNonce EXCEPT ![best.relayer] = best.extrinsic.nonce]
    BY <1>6 DEF Retract
  <1>8. accountNonce' \in [Relayers -> Nat]
    BY <1>4, <1>7 DEF TypeOK
  <1>9. /\ pool' = [pool EXCEPT ![best.relayer] = @ \cup {best.extrinsic}]
        /\ pool' \in [Relayers -> SUBSET Extrinsics]
    BY <1>3 DEF Retract, AddToPool, TypeOK
  <1>10. /\ voters' = [voters EXCEPT ![best.extrinsic.proposal] = best.voters]
         /\ voters' \in [Proposals -> SUBSET Relayers]
    BY <1>3, <1>4 DEF Retract, TypeOK
  <1> QED BY <1>1, <1>3, <1>4, <1>5, <1>7, <1>8, <1>9, <1>10

LEMMA LockedType ==
    ASSUME WriterAssumption, NodeAssumption, TypeOK, TriesInv, NEW t \in Tasks, Locked(t)
    PROVE  TypeOK'
  <1> USE DEF Rest, Goto
  <1>0. /\ pc \in [Tasks -> Pcs]
        /\ Relayer(t) \in Relayers
        /\ {"latestNonce", "submit", "watch"} \subseteq Pcs
        /\ Elsewhere \subseteq Pcs
    BY TaskType DEF TypeOK, Pcs, Critical, Elsewhere
  <1>1. CASE LockNonce(t)
    BY <1>0, <1>1 DEF LockNonce, TypeOK, nodeVars
  <1>2. CASE UpdateNonce(t)
    <2>1. LatestNonce(Relayer(t)) \in Nat
      BY <1>0 DEF LatestNonce, TypeOK
    <2>2. PICK n \in Nat : /\ nonce' = [nonce EXCEPT ![Relayer(t)] = n]
                           /\ draft' = [draft EXCEPT ![t].nonce = n]
      BY <1>2, <2>1 DEF UpdateNonce
    <2>3. nonce' \in [Relayers -> Nat]
      BY <2>2 DEF TypeOK
    <2>4. draft' \in [Tasks -> Drafts]
      <3>1. draft \in [Tasks -> Drafts]
        BY DEF TypeOK
      <3> QED BY <2>2, <3>1 DEF Drafts
    <2> QED BY <1>0, <1>2, <2>3, <2>4 DEF UpdateNonce, TypeOK, nodeVars
  <1>3. CASE GetLatestNonceFails(t)
    <2>1. tries[t] < BlockRetryLimit /\ Retry(t)
      BY <1>3 DEF GetLatestNonceFails, TriesInv
    <2>2. nonceLock' \in [Relayers -> Tasks \cup {NoTask}]
      BY <1>3 DEF GetLatestNonceFails, UnlockNonce, TypeOK
    <2>3. pc' \in [Tasks -> Pcs]
      BY <1>0, <2>1, RetryType
    <2> QED BY <1>3, <2>1, <2>2, <2>3, RetryType DEF GetLatestNonceFails, TypeOK, nodeVars
  <1>4. CASE Submit(t)
    <2>1. pool' \in [Relayers -> SUBSET Extrinsics]
      BY <1>0, <1>4, ExtrinsicType, AddToPoolType DEF Submit
    <2>2. /\ UNCHANGED <<runtime, accountNonce, voters, best, drops, retractions, lost,
                         tries, call, draft, event, stop, crashes, encoded>>
          /\ UseNonce(t)
          /\ pc' = [pc EXCEPT ![t] = "watch"]
      BY <1>4 DEF Submit
    <2>3. pc' \in [Tasks -> Pcs]
      BY <1>0, <2>2
    <2> QED BY <2>1, <2>2, <2>3, UseNonceType DEF TypeOK
  <1>5. CASE SubmitFails(t)
    <2>1. pool' \in [Relayers -> SUBSET Extrinsics] /\ lost' \in {"no", "yes"}
      BY <1>0, <1>5, ExtrinsicType, AddToPoolType DEF SubmitFails, TypeOK
    <2>2. tries[t] < BlockRetryLimit /\ Retry(t)
      BY <1>5 DEF SubmitFails, TriesInv
    <2>3. pc' \in [Tasks -> Pcs]
      BY <1>0, <2>2, RetryType
    <2>4. UNCHANGED <<runtime, accountNonce, voters, best, drops, retractions, stop,
                      crashes, encoded>>
      BY <1>5 DEF SubmitFails
    <2>5. UseNonce(t)
      BY <1>5 DEF SubmitFails
    <2> QED BY <2>1, <2>2, <2>3, <2>4, <2>5, RetryType, UseNonceType DEF TypeOK
  <1>6. CASE SignFails(t)
    <2>1. tries[t] < BlockRetryLimit /\ Retry(t)
      BY <1>6 DEF SignFails, TriesInv
    <2>2. LatestNonce(Relayer(t)) \in Nat
      BY <1>0 DEF LatestNonce, TypeOK
    <2>3. PICK n \in Nat : nonce' = [nonce EXCEPT ![Relayer(t)] = n]
      BY <1>6, <2>2 DEF SignFails
    <2>4. nonce' \in [Relayers -> Nat]
      BY <2>3 DEF TypeOK
    <2>5. nonceLock' \in [Relayers -> Tasks \cup {NoTask}]
      BY <1>6 DEF SignFails, UnlockNonce, TypeOK
    <2>6. pc' \in [Tasks -> Pcs]
      BY <1>0, <2>1, RetryType
    <2> QED BY <1>6, <2>1, <2>4, <2>5, <2>6, RetryType DEF SignFails, TypeOK, nodeVars
  <1> QED BY <1>1, <1>2, <1>3, <1>4, <1>5, <1>6 DEF Locked

LEMMA NodeType ==
    ASSUME WriterAssumption, NodeAssumption, TypeOK, BestInv,
           \/ \E r \in Relayers :
                 IncludeExtrinsic(r) \/ InvalidateExtrinsic(r) \/ DropExtrinsic(r)
           \/ ChainStep
    PROVE  TypeOK'
  <1> USE DEF Rest, connVars, taskVars
  <1>1. ASSUME NEW r \in Relayers, IncludeExtrinsic(r)
        PROVE  TypeOK'
    <2>1. PICK e \in pool[r] : Include(r, e) /\ Notify(r, e.nonce, "inBlock")
      BY <1>1 DEF IncludeExtrinsic
    <2>2. UNCHANGED <<runtime, drops, retractions, lost, pc, tries, call, draft, meta,
                      nonce, nonceLock, stop, crashes, encoded>>
      BY <1>1, <2>1 DEF IncludeExtrinsic, Include
    <2> QED BY <2>1, <2>2, IncludeType, NotifyType DEF TypeOK
  <1>2. ASSUME NEW r \in Relayers, NEW e \in pool[r], NEW w \in {"dropped", "invalid"},
               Notify(r, e.nonce, w),
               pool' = [pool EXCEPT ![r] = @ \ {e}], lost' = "yes", drops' \in Nat,
               UNCHANGED <<runtime, accountNonce, voters, best, retractions, pc, tries,
                           call, draft, meta, nonce, nonceLock, stop, crashes, encoded>>
        PROVE  TypeOK'
    <2>1. pool' \in [Relayers -> SUBSET Extrinsics]
      BY <1>2 DEF TypeOK
    <2>2. event' \in [Tasks -> Events]
      BY <1>2, NotifyType
    <2> QED BY <1>2, <2>1, <2>2 DEF TypeOK
  <1>3. ASSUME NEW r \in Relayers, InvalidateExtrinsic(r)
        PROVE  TypeOK'
    <2>1. drops \in Nat
      BY DEF TypeOK
    <2> QED BY <1>2, <1>3, <2>1 DEF InvalidateExtrinsic, Invalidate
  <1>4. ASSUME NEW r \in Relayers, DropExtrinsic(r)
        PROVE  TypeOK'
    <2>1. drops + 1 \in Nat
      BY DEF TypeOK
    <2> QED BY <1>2, <1>4, <2>1 DEF DropExtrinsic, Drop
  <1>5. CASE Retract /\ ChainStep
    <2>1. UNCHANGED <<runtime, drops, lost, pc, tries, call, draft, event, meta, nonce,
                      nonceLock, stop, crashes, encoded>>
      BY <1>5 DEF ChainStep, Retract
    <2>2. retractions' \in Nat
      BY <1>5 DEF Retract, TypeOK
    <2> QED BY <1>5, <2>1, <2>2, RetractType DEF TypeOK
  <1>6. CASE Upgrade /\ ChainStep
    <2>1. runtime' \in Versions
      BY <1>6 DEF Upgrade, TypeOK, Versions, NodeAssumption
    <2> QED BY <1>6, <2>1 DEF ChainStep, Upgrade, TypeOK
  <1> QED BY <1>1, <1>3, <1>4, <1>5, <1>6 DEF ChainStep

\* The steps of a task leave encoded alone but for CreateProposal.
LEMMA Encodes ==
    ASSUME NEW t \in Tasks, TaskStep(t)
    PROVE  \/ encoded' = encoded
           \/ CreateProposal(t)
  <1> USE DEF Rest
  <1>1. ASSUME \/ CreateProposalFails(t) \/ IgnoreProposal(t)
               \/ AcknowledgeProposal(t) \/ ProposalValidFails(t) \/ GiveUp(t)
               \/ GetRuntimeVersion(t) \/ GetRuntimeVersionFails(t) \/ Status(t)
               \/ SubscriptionFails(t) \/ StopWatch(t)
        PROVE  encoded' = encoded
    BY <1>1 DEF CreateProposalFails, IgnoreProposal, AcknowledgeProposal,
                ProposalValidFails, GiveUp, GetRuntimeVersion, GetRuntimeVersionFails,
                Status, SubscriptionFails, StopWatch
  <1>2. ASSUME \/ LockNonce(t) \/ UpdateNonce(t) \/ GetLatestNonceFails(t)
               \/ SignFails(t) \/ Submit(t) \/ SubmitFails(t)
        PROVE  encoded' = encoded
    BY <1>2 DEF LockNonce, UpdateNonce, GetLatestNonceFails, SignFails, Submit, SubmitFails
  <1> QED BY <1>1, <1>2 DEF TaskStep

LEMMA EncodesType ==
    ASSUME WriterAssumption, TypeOK, NEW t \in Tasks, Quiet(t)
    PROVE  encoded' \in [Relayers -> SUBSET Proposals]
  <1>1. encoded \in [Relayers -> SUBSET Proposals] /\ Proposal(t) \in Proposals
    BY ProposalType DEF TypeOK
  <1>2. TaskStep(t)
    BY DEF TaskStep, Quiet
  <1>3. CASE CreateProposal(t)
    BY <1>1, <1>3 DEF CreateProposal
  <1> QED BY <1>1, <1>2, <1>3, Encodes

LEMMA TypeStep ==
    ASSUME WriterAssumption, NodeAssumption, TypeOK, TriesInv, BestInv, Next
    PROVE  TypeOK'
  <1>1. ASSUME NEW t \in Tasks, ResolveMessage(t)
        PROVE  TypeOK'
    <2>1. meta[Relayer(t)] \in Versions
      BY TaskType DEF TypeOK
    <2>2. {"create", "fatal"} \subseteq Pcs
      BY DEF Pcs, Returned
    <2> QED BY <1>1, <2>1, <2>2 DEF ResolveMessage, TypeOK, Goto, nodeVars, connVars, Rest
  <1>2. ASSUME NEW t \in Tasks, Quiet(t)
        PROVE  TypeOK'
    <2>1. pc' \in [Tasks -> Pcs]
      <3>1. PICK l \in Elsewhere : pc' = [pc EXCEPT ![t] = l]
        BY <1>2, QuietStep
      <3> QED BY <3>1 DEF TypeOK, Elsewhere
    <2>2. UNCHANGED <<nodeVars, connVars, stop, crashes, call>>
      BY <1>2, QuietStep
    <2>3. encoded' \in [Relayers -> SUBSET Proposals]
      BY <1>2, EncodesType
    <2> QED BY <1>2, <2>1, <2>2, <2>3, QuietStep DEF TypeOK, nodeVars, connVars
  <1>3. ASSUME NEW r \in Relayers, UpdateMetadata(r)
        PROVE  TypeOK'
    BY <1>3 DEF UpdateMetadata, TypeOK, nodeVars, taskVars, Rest
  <1>4. ASSUME NEW r \in Relayers, CoreStop(r)
        PROVE  TypeOK'
    BY <1>4 DEF CoreStop, TypeOK, nodeVars, taskVars, connVars
  <1>5. ASSUME NEW r \in Relayers, Crash(r)
        PROVE  TypeOK'
    <2>1. /\ NoDraft \in Drafts /\ 0 \in 0 .. BlockRetryLimit /\ "none" \in Events
          /\ "idle" \in Pcs /\ 0 \in Versions
      BY DEF NoDraft, Drafts, Events, Versions, WriterAssumption, NodeAssumption, Pcs
    <2>2. /\ pc' \in [Tasks -> Pcs]
          /\ tries' \in [Tasks -> 0 .. BlockRetryLimit]
          /\ call' \in [Tasks -> Versions]
      BY <1>5, <2>1 DEF Crash, TypeOK
    <2>3. draft' \in [Tasks -> Drafts] /\ event' \in [Tasks -> Events]
      BY <1>5, <2>1 DEF Crash, TypeOK
    <2>4. /\ meta' \in [Relayers -> Versions]
          /\ nonce' \in [Relayers -> Nat]
          /\ nonceLock' \in [Relayers -> Tasks \cup {NoTask}]
          /\ stop' \in [Relayers -> {"open", "closed"}]
          /\ crashes' \in Nat
      BY <1>5 DEF Crash, TypeOK
    <2> QED BY <1>5, <2>2, <2>3, <2>4 DEF Crash, TypeOK, nodeVars
  <1> QED BY <1>1, <1>2, <1>3, <1>4, <1>5, LockedType, NodeType, Steps DEF Next
-----------------------------------------------------------------------------
(* Tries, lock and nonce.                                                  *)

\* The steps of the chain and of the processes but a crash.
Outside ==
    \/ \E r \in Relayers : IncludeExtrinsic(r)
    \/ \E r \in Relayers : InvalidateExtrinsic(r)
    \/ \E r \in Relayers : DropExtrinsic(r)
    \/ ChainStep
    \/ \E r \in Relayers : UpdateMetadata(r)
    \/ \E r \in Relayers : CoreStop(r)

LEMMA OutsideStep ==
    ASSUME Outside
    PROVE  UNCHANGED <<pc, tries, call, draft, nonce, nonceLock, crashes, encoded>>
  <1> USE DEF Rest, taskVars, connVars
  <1>1. ASSUME NEW r \in Relayers, IncludeExtrinsic(r)
        PROVE  UNCHANGED <<pc, tries, call, draft, nonce, nonceLock, crashes, encoded>>
    BY <1>1 DEF IncludeExtrinsic
  <1>2. ASSUME NEW r \in Relayers, InvalidateExtrinsic(r)
        PROVE  UNCHANGED <<pc, tries, call, draft, nonce, nonceLock, crashes, encoded>>
    BY <1>2 DEF InvalidateExtrinsic
  <1>3. ASSUME NEW r \in Relayers, DropExtrinsic(r)
        PROVE  UNCHANGED <<pc, tries, call, draft, nonce, nonceLock, crashes, encoded>>
    BY <1>3 DEF DropExtrinsic
  <1>4. CASE ChainStep
    BY <1>4 DEF ChainStep
  <1>5. ASSUME NEW r \in Relayers, UpdateMetadata(r)
        PROVE  UNCHANGED <<pc, tries, call, draft, nonce, nonceLock, crashes, encoded>>
    BY <1>5 DEF UpdateMetadata
  <1>6. ASSUME NEW r \in Relayers, CoreStop(r)
        PROVE  UNCHANGED <<pc, tries, call, draft, nonce, nonceLock, crashes, encoded>>
    BY <1>6 DEF CoreStop
  <1> QED BY <1>1, <1>2, <1>3, <1>4, <1>5, <1>6 DEF Outside

LEMMA NextSteps ==
    ASSUME Next
    PROVE  \/ \E t \in Tasks : ResolveMessage(t)
           \/ \E t \in Tasks : Quiet(t)
           \/ \E t \in Tasks : Locked(t)
           \/ Outside
           \/ \E r \in Relayers : Crash(r)
  BY Steps DEF Next, Outside

LEMMA CrashStep ==
    ASSUME WriterAssumption, TypeOK, NEW r \in Relayers, Crash(r)
    PROVE  /\ \A t \in Tasks : IF Relayer(t) = r
                               THEN pc'[t] = "idle"
                               ELSE /\ pc'[t] = pc[t] /\ tries'[t] = tries[t]
                                    /\ draft'[t] = draft[t] /\ call'[t] = call[t]
           /\ nonce' = [nonce EXCEPT ![r] = 0]
           /\ nonceLock' = [nonceLock EXCEPT ![r] = NoTask]
           /\ crashes' = crashes + 1
           /\ UNCHANGED nodeVars
  BY DEF Crash

LEMMA TriesStep ==
    ASSUME WriterAssumption, NodeAssumption, NonceInv, Next
    PROVE  TriesInv'
  <1> DEFINE Counting == {"runtimeVersion", "lock", "latestNonce", "submit", "watch"}
  <1>0. /\ pc \in [Tasks -> Pcs]
        /\ TypeOK
        /\ TriesInv
        /\ \A t \in Tasks : pc[t] \in Counting => tries[t] < BlockRetryLimit
    BY DEF NonceInv, TypeOK, TriesInv
  <1>1. ASSUME NEW t \in Tasks, NEW l, pc' = [pc EXCEPT ![t] = l],
               \A u \in Tasks \ {t} : tries'[u] = tries[u],
               l \in Counting => tries' = tries /\ tries[t] < BlockRetryLimit
        PROVE  TriesInv'
    <2>1. ASSUME NEW u \in Tasks, pc'[u] \in Counting
          PROVE  tries'[u] < BlockRetryLimit
      <3>1. CASE u = t
        BY <1>0, <1>1, <2>1, <3>1
      <3>2. CASE u # t
        BY <1>0, <1>1, <2>1, <3>2
      <3> QED BY <3>1, <3>2
    <2> QED BY <2>1 DEF TriesInv
  <1>2. ASSUME NEW t \in Tasks, ResolveMessage(t)
        PROVE  TriesInv'
    <2>1. PICK l \in {"create", "fatal"} : pc' = [pc EXCEPT ![t] = l]
      BY <1>2 DEF ResolveMessage, Goto
    <2>2. tries' = tries
      BY <1>2 DEF ResolveMessage
    <2> QED BY <1>1, <2>1, <2>2
  <1>3. ASSUME NEW t \in Tasks, Quiet(t)
        PROVE  TriesInv'
    <2>1. PICK l \in Elsewhere :
             /\ pc' = [pc EXCEPT ![t] = l]
             /\ l \in {"runtimeVersion", "lock", "watch"}
                   => tries' = tries /\ tries[t] < BlockRetryLimit
      BY <1>0, <1>3, QuietStep
    <2>2. \A u \in Tasks \ {t} : tries'[u] = tries[u]
      BY <1>0, <1>3, QuietStep
    <2>3. l \in Counting => l \in {"runtimeVersion", "lock", "watch"}
      BY DEF Elsewhere, Critical
    <2> QED BY <1>1, <2>1, <2>2, <2>3
  <1>4. ASSUME NEW t \in Tasks, LockNonce(t) \/ UpdateNonce(t) \/ Submit(t)
        PROVE  TriesInv'
    <2>1. PICK l : pc' = [pc EXCEPT ![t] = l]
      BY <1>4 DEF LockNonce, UpdateNonce, Submit, Goto
    <2>2. tries' = tries /\ pc[t] \in Counting
      BY <1>4 DEF LockNonce, UpdateNonce, Submit
    <2> QED BY <1>0, <1>1, <2>1, <2>2
  <1>5. ASSUME NEW t \in Tasks, GetLatestNonceFails(t) \/ SignFails(t) \/ SubmitFails(t)
        PROVE  TriesInv'
    <2>1. Retry(t)
      BY <1>5 DEF GetLatestNonceFails, SignFails, SubmitFails
    <2>2. pc' = [pc EXCEPT ![t] = "proposalValid"]
      BY <2>1 DEF Retry, Goto
    <2>3. \A u \in Tasks \ {t} : tries'[u] = tries[u]
      BY <2>1 DEF Retry, TypeOK, NonceInv
    <2> QED BY <1>1, <2>2, <2>3
  <1>6. CASE Outside
    BY <1>0, <1>6, OutsideStep DEF TriesInv
  <1>7. ASSUME NEW r \in Relayers, Crash(r)
        PROVE  TriesInv'
    <2>1. \A t \in Tasks : pc'[t] = "idle" \/ (pc'[t] = pc[t] /\ tries'[t] = tries[t])
      BY <1>0, <1>7, CrashStep
    <2> QED BY <1>0, <2>1 DEF TriesInv
  <1> QED BY <1>2, <1>3, <1>4, <1>5, <1>6, <1>7, NextSteps DEF Locked

\* A task between getLatestNonce and the submission is the only one of its
\* relayer.
LEMMA HolderAlone ==
    ASSUME WriterAssumption, NonceInv, NEW t \in Tasks, pc[t] \in Critical
    PROVE  /\ nonceLock[Relayer(t)] = t
           /\ \A u \in Tasks \ {t} : Relayer(u) = Relayer(t) => pc[u] \notin Critical
  <1>1. nonceLock[Relayer(t)] = t
    BY TaskType DEF NonceInv, LockInv, NonceLockDiscipline
  <1> QED BY <1>1, TaskType DEF NonceInv, LockInv, NonceLockDiscipline

\* The holder gives the lock back and goes where it is not needed.
LEMMA ReleaseStep ==
    ASSUME WriterAssumption, NonceInv, NEW t \in Tasks, pc[t] \in Critical,
           NEW l, l \notin Critical, pc' = [pc EXCEPT ![t] = l],
           nonceLock' = [nonceLock EXCEPT ![Relayer(t)] = NoTask],
           \A u \in Tasks \ {t} : draft'[u] = draft[u],
           \A r \in Relayers \ {Relayer(t)} : nonce'[r] = nonce[r]
    PROVE  LockInv'
  <1>0. /\ pc \in [Tasks -> Pcs]
        /\ nonceLock \in [Relayers -> Tasks \cup {NoTask}]
        /\ Relayer(t) \in Relayers
        /\ NonceLockDiscipline
        /\ NoTask \notin Tasks
    BY TaskType DEF NonceInv, TypeOK, LockInv, WriterAssumption
  <1>1. ASSUME NEW r \in Relayers, NEW u \in Tasks, Relayer(u) = r
        PROVE  pc'[u] \in Critical <=> nonceLock'[r] = u
    <2>1. CASE r = Relayer(t)
      <3>1. pc'[u] \notin Critical
        BY <1>0, <1>1, <2>1, HolderAlone
      <3>2. nonceLock'[r] = NoTask
        BY <1>0, <2>1
      <3> QED BY <1>0, <3>1, <3>2
    <2>2. CASE r # Relayer(t)
      <3>1. u # t
        BY <1>1, <2>2
      <3>2. pc'[u] = pc[u] /\ nonceLock'[r] = nonceLock[r]
        BY <1>0, <2>2, <3>1
      <3> QED BY <1>0, <1>1, <3>2 DEF NonceLockDiscipline
    <2> QED BY <2>1, <2>2
  <1>2. ASSUME NEW r \in Relayers
        PROVE  nonceLock'[r] = NoTask \/ Relayer(nonceLock'[r]) = r
    <2>1. nonceLock[r] = NoTask \/ Relayer(nonceLock[r]) = r
      BY <1>0 DEF NonceLockDiscipline
    <2>2. nonceLock'[r] = NoTask \/ nonceLock'[r] = nonceLock[r]
      BY <1>0
    <2> QED BY <2>1, <2>2
  <1>3. ASSUME NEW u \in Tasks, pc'[u] = "submit"
        PROVE  draft'[u].nonce = nonce'[Relayer(u)]
    <2>1. u # t /\ pc[u] = "submit" /\ pc[u] \in Critical
      BY <1>0, <1>3 DEF Critical
    <2>2. Relayer(u) # Relayer(t) /\ Relayer(u) \in Relayers
      BY <2>1, HolderAlone, TaskType
    <2> QED BY <2>1, <2>2 DEF NonceInv, LockInv
  <1> QED BY <1>1, <1>2, <1>3 DEF LockInv, NonceLockDiscipline, Relayer

LEMMA LockStep ==
    ASSUME WriterAssumption, NodeAssumption, NonceInv, Next
    PROVE  LockInv'
  <1>0. /\ pc \in [Tasks -> Pcs]
        /\ nonceLock \in [Relayers -> Tasks \cup {NoTask}]
        /\ nonce \in [Relayers -> Nat]
        /\ draft \in [Tasks -> Drafts]
        /\ TypeOK /\ TriesInv
        /\ NonceLockDiscipline
        /\ \A t \in Tasks : pc[t] = "submit" => draft[t].nonce = nonce[Relayer(t)]
        /\ NoTask \notin Tasks
    BY DEF NonceInv, TypeOK, LockInv, WriterAssumption
  <1>1. ASSUME NEW t \in Tasks, pc[t] \notin Critical, NEW l, l \notin Critical,
               pc' = [pc EXCEPT ![t] = l], UNCHANGED <<nonce, nonceLock>>,
               \A u \in Tasks \ {t} : draft'[u] = draft[u]
        PROVE  LockInv'
    <2>1. \A u \in Tasks : pc'[u] \in Critical <=> pc[u] \in Critical
      BY <1>0, <1>1
    <2>2. NonceLockDiscipline'
      BY <1>0, <1>1, <2>1 DEF NonceLockDiscipline
    <2>3. ASSUME NEW u \in Tasks, pc'[u] = "submit"
          PROVE  draft'[u].nonce = nonce'[Relayer(u)]
      <3>1. u # t /\ pc[u] = "submit"
        BY <1>0, <1>1, <2>3 DEF Critical
      <3> QED BY <1>0, <1>1, <3>1
    <2> QED BY <2>2, <2>3 DEF LockInv
  <1>2. ASSUME NEW t \in Tasks, ResolveMessage(t)
        PROVE  LockInv'
    <2>1. PICK l \in {"create", "fatal"} : pc' = [pc EXCEPT ![t] = l]
      BY <1>2 DEF ResolveMessage, Goto
    <2>2. pc[t] = "idle" /\ UNCHANGED <<nonce, nonceLock, draft>>
      BY <1>2 DEF ResolveMessage, connVars
    <2> QED BY <1>1, <2>1, <2>2 DEF Critical
  <1>3. ASSUME NEW t \in Tasks, Quiet(t)
        PROVE  LockInv'
    <2>1. PICK l \in Elsewhere : pc' = [pc EXCEPT ![t] = l]
      BY <1>0, <1>3, QuietStep
    <2>2. /\ pc[t] \in Elsewhere
          /\ UNCHANGED connVars
          /\ \A u \in Tasks \ {t} : draft'[u] = draft[u]
      BY <1>0, <1>3, QuietStep
    <2> QED BY <1>1, <2>1, <2>2 DEF connVars, Elsewhere
  <1>4. ASSUME NEW t \in Tasks, LockNonce(t)
        PROVE  LockInv'
    <2>1. /\ pc[t] = "lock" /\ nonceLock[Relayer(t)] = NoTask
          /\ nonceLock' = [nonceLock EXCEPT ![Relayer(t)] = t]
          /\ pc' = [pc EXCEPT ![t] = "latestNonce"]
          /\ UNCHANGED <<draft, nonce>>
      BY <1>4 DEF LockNonce, Goto
    <2>2. Relayer(t) \in Relayers
      BY TaskType
    <2>3. ASSUME NEW r \in Relayers, NEW u \in Tasks, Relayer(u) = r
          PROVE  pc'[u] \in Critical <=> nonceLock'[r] = u
      <3>1. CASE r # Relayer(t)
        <4>1. pc'[u] = pc[u] /\ nonceLock'[r] = nonceLock[r]
          BY <1>0, <2>1, <2>3, <3>1
        <4> QED BY <1>0, <2>3, <4>1 DEF NonceLockDiscipline
      <3>2. CASE r = Relayer(t) /\ u = t
        BY <1>0, <2>1, <2>2, <3>2 DEF Critical
      <3>3. CASE r = Relayer(t) /\ u # t
        <4>1. pc[u] \notin Critical
          BY <1>0, <2>1, <2>2, <2>3, <3>3 DEF NonceLockDiscipline
        <4> QED BY <1>0, <2>1, <2>2, <3>3, <4>1
      <3> QED BY <3>1, <3>2, <3>3
    <2>4. ASSUME NEW r \in Relayers
          PROVE  nonceLock'[r] = NoTask \/ Relayer(nonceLock'[r]) = r
      <3>1. CASE r = Relayer(t)
        BY <1>0, <2>1, <2>2, <3>1
      <3>2. CASE r # Relayer(t)
        <4>1. nonceLock'[r] = nonceLock[r]
          BY <1>0, <2>1, <3>2
        <4> QED BY <1>0, <4>1 DEF NonceLockDiscipline
      <3> QED BY <3>1, <3>2
    <2>5. ASSUME NEW u \in Tasks, pc'[u] = "submit"
          PROVE  draft'[u].nonce = nonce'[Relayer(u)]
      <3>1. pc[u] = "submit"
        BY <1>0, <2>1, <2>5
      <3> QED BY <1>0, <2>1, <3>1
    <2> QED BY <2>3, <2>4, <2>5 DEF LockInv, NonceLockDiscipline, Relayer
  <1>5. ASSUME NEW t \in Tasks, UpdateNonce(t)
        PROVE  LockInv'
    <2>1. PICK n : /\ nonce' = [nonce EXCEPT ![Relayer(t)] = n]
                   /\ draft' = [draft EXCEPT ![t].nonce = n]
      BY <1>5 DEF UpdateNonce
    <2>2. /\ pc[t] = "latestNonce" /\ pc' = [pc EXCEPT ![t] = "submit"]
          /\ nonceLock' = nonceLock
      BY <1>5 DEF UpdateNonce, Goto
    <2>3. \A u \in Tasks : pc'[u] \in Critical <=> pc[u] \in Critical
      BY <1>0, <2>2 DEF Critical
    <2>4. NonceLockDiscipline'
      BY <1>0, <2>2, <2>3 DEF NonceLockDiscipline
    <2>5. ASSUME NEW u \in Tasks, pc'[u] = "submit"
          PROVE  draft'[u].nonce = nonce'[Relayer(u)]
      <3>1. CASE u = t
        BY <1>0, <2>1, <3>1, TaskType DEF Drafts
      <3>2. CASE u # t
        <4>1. pc[u] = "submit" /\ pc[t] \in Critical /\ pc[u] \in Critical
          BY <1>0, <2>2, <2>5, <3>2 DEF Critical
        <4>2. Relayer(u) # Relayer(t)
          BY <3>2, <4>1, HolderAlone
        <4>3. draft'[u] = draft[u] /\ nonce'[Relayer(u)] = nonce[Relayer(u)]
          BY <1>0, <2>1, <3>2, <4>2, TaskType
        <4> QED BY <1>0, <4>1, <4>3
      <3> QED BY <3>1, <3>2
    <2> QED BY <2>4, <2>5 DEF LockInv
  <1>6. ASSUME NEW t \in Tasks, \/ GetLatestNonceFails(t) \/ SignFails(t)
                                \/ Submit(t) \/ SubmitFails(t)
        PROVE  LockInv'
    <2>1. pc[t] \in Critical
      BY <1>6 DEF GetLatestNonceFails, SignFails, Submit, SubmitFails, Critical
    <2>2. nonceLock' = [nonceLock EXCEPT ![Relayer(t)] = NoTask]
      BY <1>6 DEF GetLatestNonceFails, SignFails, Submit, SubmitFails, UseNonce, UnlockNonce
    <2>3. \A r \in Relayers \ {Relayer(t)} : nonce'[r] = nonce[r]
      BY <1>0, <1>6 DEF GetLatestNonceFails, SignFails, Submit, SubmitFails, UseNonce
    <2>4. PICK l \in {"proposalValid", "watch"} : pc' = [pc EXCEPT ![t] = l]
      BY <1>6 DEF GetLatestNonceFails, SignFails, Submit, SubmitFails, Retry, Goto
    <2>5. \A u \in Tasks \ {t} : draft'[u] = draft[u]
      BY <1>0, <1>6 DEF GetLatestNonceFails, SignFails, Submit, SubmitFails, Retry
    <2>6. l \notin Critical
      BY DEF Critical
    <2> QED BY <2>1, <2>2, <2>3, <2>4, <2>5, <2>6, ReleaseStep
  <1>7. CASE Outside
    BY <1>0, <1>7, OutsideStep DEF LockInv, NonceLockDiscipline
  <1>8. ASSUME NEW r \in Relayers, Crash(r)
        PROVE  LockInv'
    <2>1. ASSUME NEW q \in Relayers, NEW u \in Tasks, Relayer(u) = q
          PROVE  pc'[u] \in Critical <=> nonceLock'[q] = u
      <3>1. CASE q = r
        <4>1. pc'[u] = "idle" /\ nonceLock'[q] = NoTask
          BY <1>0, <1>8, <2>1, <3>1, CrashStep
        <4> QED BY <1>0, <4>1 DEF Critical
      <3>2. CASE q # r
        <4>1. pc'[u] = pc[u] /\ nonceLock'[q] = nonceLock[q]
          BY <1>0, <1>8, <2>1, <3>2, CrashStep
        <4> QED BY <1>0, <2>1, <4>1 DEF NonceLockDiscipline
      <3> QED BY <3>1, <3>2
    <2>2. ASSUME NEW q \in Relayers
          PROVE  nonceLock'[q] = NoTask \/ Relayer(nonceLock'[q]) = q
      <3>1. nonceLock'[q] = NoTask \/ nonceLock'[q] = nonceLock[q]
        BY <1>0, <1>8, CrashStep
      <3> QED BY <1>0, <3>1 DEF NonceLockDiscipline
    <2>3. ASSUME NEW u \in Tasks, pc'[u] = "submit"
          PROVE  draft'[u].nonce = nonce'[Relayer(u)]
      <3>1. Relayer(u) # r /\ pc[u] = "submit" /\ draft'[u] = draft[u]
        BY <1>0, <1>8, <2>3, CrashStep
      <3>2. nonce'[Relayer(u)] = nonce[Relayer(u)]
        BY <1>0, <1>8, <3>1, CrashStep, TaskType
      <3> QED BY <1>0, <3>1, <3>2
    <2> QED BY <2>1, <2>2, <2>3 DEF LockInv, NonceLockDiscipline, Relayer
  <1> QED BY <1>2, <1>3, <1>4, <1>5, <1>6, <1>7, <1>8, NextSteps DEF Locked
-----------------------------------------------------------------------------
(* The account of a relayer: which nonces are used, pending and cached.    *)

Rests ==
    /\ UNCHANGED <<accountNonce, pool, nonce, lost, crashes>>
    /\ best' = best \/ best' = NoBlock

\* t submits, and the extrinsic is taken or not.
Submits(t) ==
    /\ UNCHANGED <<accountNonce, best, crashes>>
    /\ nonce' = [nonce EXCEPT ![Relayer(t)] = @ + 1]
    /\ draft[t].nonce = nonce[Relayer(t)]
    /\ \/ /\ pool' = [pool EXCEPT ![Relayer(t)] = @ \cup {Extrinsic(t)}]
          /\ lost' = lost
       \/ /\ pool' = pool
          /\ lost' = IF LosesNonce(t) THEN "yes" ELSE lost

Loses(r, e) ==
    /\ UNCHANGED <<accountNonce, best, nonce, crashes>>
    /\ pool' = [pool EXCEPT ![r] = @ \ {e}]
    /\ lost' = "yes"

Updates(r) ==
    /\ UNCHANGED <<accountNonce, best, pool, lost, crashes>>
    /\ nonce' = [nonce EXCEPT ![r] = LatestNonce(r)]

Crashes(r) ==
    /\ UNCHANGED <<accountNonce, best, pool, lost>>
    /\ nonce' = [nonce EXCEPT ![r] = 0]
    /\ crashes' = crashes + 1

LEMMA AccountSteps ==
    ASSUME WriterAssumption, NodeAssumption, NonceInv, Next
    PROVE  \/ Rests
           \/ \E t \in Tasks : pc[t] = "submit" /\ Submits(t)
           \/ \E r \in Relayers : Updates(r) \/ Crashes(r)
           \/ \E r \in Relayers : \E e \in pool[r] :
                 Loses(r, e) \/ (Include(r, e) /\ UNCHANGED <<nonce, crashes>>)
           \/ Retract /\ UNCHANGED <<nonce, crashes>>
  <1> USE DEF Rest, nodeVars, taskVars, connVars
  <1>1. ASSUME NEW t \in Tasks, ResolveMessage(t) \/ LockNonce(t) \/ GetLatestNonceFails(t)
        PROVE  Rests
    BY <1>1 DEF ResolveMessage, LockNonce, GetLatestNonceFails, Rests
  <1>2. ASSUME NEW t \in Tasks, Quiet(t)
        PROVE  Rests
    <2>1. UNCHANGED <<nodeVars, connVars, stop, crashes, call>>
      BY <1>2, QuietStep DEF NonceInv
    <2> QED BY <2>1 DEF Rests
  <1>3. ASSUME NEW t \in Tasks, UpdateNonce(t) \/ SignFails(t)
        PROVE  Updates(Relayer(t)) /\ Relayer(t) \in Relayers
    BY <1>3, TaskType DEF UpdateNonce, SignFails, Updates
  <1>4. ASSUME NEW t \in Tasks, Submit(t) \/ SubmitFails(t)
        PROVE  pc[t] = "submit" /\ Submits(t)
    <2>1. pc[t] = "submit" /\ draft[t].nonce = nonce[Relayer(t)]
      BY <1>4 DEF Submit, SubmitFails, NonceInv, LockInv
    <2> QED BY <1>4, <2>1 DEF Submit, SubmitFails, Submits, UseNonce, AddToPool
  <1>5. ASSUME NEW r \in Relayers, Crash(r)
        PROVE  Crashes(r)
    BY <1>5 DEF Crash, Crashes
  <1>6. ASSUME NEW r \in Relayers, IncludeExtrinsic(r)
        PROVE  \E e \in pool[r] : Include(r, e) /\ UNCHANGED <<nonce, crashes>>
    BY <1>6 DEF IncludeExtrinsic
  <1>7. ASSUME NEW r \in Relayers, InvalidateExtrinsic(r) \/ DropExtrinsic(r)
        PROVE  \E e \in pool[r] : Loses(r, e)
    BY <1>7 DEF InvalidateExtrinsic, DropExtrinsic, Invalidate, Drop, Loses
  <1>8. CASE ChainStep
    BY <1>8 DEF ChainStep, Upgrade, Rests
  <1>9. ASSUME NEW r \in Relayers, UpdateMetadata(r) \/ CoreStop(r)
        PROVE  Rests
    BY <1>9 DEF UpdateMetadata, CoreStop, Rests
  <1> HIDE DEF Rest, nodeVars, taskVars, connVars
  <1> QED BY <1>1, <1>2, <1>3, <1>4, <1>5, <1>6, <1>7, <1>8, <1>9, Steps DEF Next, Locked

\* Include, with the types it preserves.
LEMMA IncludeStep ==
    ASSUME TypeOK, NEW r \in Relayers, NEW e \in pool[r], Include(r, e)
    PROVE  /\ accountNonce' = [accountNonce EXCEPT ![r] = @ + 1]
           /\ e.nonce = accountNonce[r]
           /\ pool' = [pool EXCEPT ![r] = @ \ {e}]
           /\ lost' = lost
           /\ best' = NoBlock \/
                 best' = [relayer |-> r, extrinsic |-> e, voters |-> voters[e.proposal]]
  BY DEF Include

LEMMA BestStep ==
    ASSUME WriterAssumption, NodeAssumption, NonceInv, Next
    PROVE  BestInv'
  <1>0. /\ TypeOK /\ BestInv
        /\ accountNonce \in [Relayers -> Nat]
    BY DEF NonceInv, TypeOK
  <1>1. ASSUME UNCHANGED accountNonce, best' = best \/ best' = NoBlock
        PROVE  BestInv'
    BY <1>0, <1>1 DEF BestInv
  <1>2. ASSUME NEW r \in Relayers, NEW e \in pool[r], Include(r, e)
        PROVE  BestInv'
    <2>1. accountNonce'[r] = accountNonce[r] + 1 /\ e.nonce = accountNonce[r]
      BY <1>0, <1>2, IncludeStep
    <2>2. CASE best' = NoBlock
      BY <2>2 DEF BestInv, NoBlock
    <2>3. CASE best' = [relayer |-> r, extrinsic |-> e, voters |-> voters[e.proposal]]
      <3>1. best'.relayer = r /\ best'.extrinsic = e
        BY <2>3
      <3> QED BY <2>1, <3>1 DEF BestInv
    <2> QED BY <1>0, <1>2, <2>2, <2>3, IncludeStep
  <1>3. CASE Retract
    BY <1>0, <1>3, RetractType DEF BestInv, NoBlock
  <1> QED BY <1>1, <1>2, <1>3, AccountSteps DEF Rests, Submits, Updates, Crashes, Loses

LEMMA NonceStep ==
    ASSUME WriterAssumption, NodeAssumption, NonceInv, [Next]_vars
    PROVE  NonceInv'
  <1>1. CASE Next
    <2>1. TypeOK'
      BY <1>1, TypeStep DEF NonceInv
    <2> QED BY <1>1, <2>1, TriesStep, BestStep, LockStep DEF NonceInv
  <1>2. CASE UNCHANGED vars
    BY <1>2 DEF vars, nodeVars, taskVars, connVars, NonceInv, TypeOK, TriesInv, BestInv,
                LockInv, NonceLockDiscipline
  <1> QED BY <1>1, <1>2

LEMMA InitNonce ==
    ASSUME WriterAssumption, NodeAssumption, Init
    PROVE  NonceInv
  <1>1. /\ NoDraft \in Drafts /\ 0 \in 0 .. BlockRetryLimit /\ "none" \in Events
        /\ "idle" \in Pcs /\ 0 \in Versions
    BY DEF NoDraft, Drafts, Events, Versions, WriterAssumption, NodeAssumption, Pcs
  <1>2. TypeOK
    BY <1>1 DEF Init, NodeInit, TypeOK
  <1>3. TriesInv /\ BestInv /\ LockInv
    BY DEF Init, NodeInit, TriesInv, BestInv, LockInv, NonceLockDiscipline, Critical,
           WriterAssumption
  <1> QED BY <1>2, <1>3 DEF NonceInv

\* The inductive invariant of lock, attempts and nonces holds in every run.
THEOREM NonceInvariance == Spec => []NonceInv
  <1> USE WriterAssumption, NodeAssumption
  <1>1. Init => NonceInv
    BY InitNonce
  <1>2. NonceInv /\ [Next]_vars => NonceInv'
    BY NonceStep
  <1> QED BY <1>1, <1>2, PTL DEF Spec

\* Every variable has its type, whatever is retracted, dropped or upgraded.
THEOREM TypeCorrect == Spec => []TypeOK
  <1>1. NonceInv => TypeOK
    BY DEF NonceInv
  <1> QED BY <1>1, NonceInvariance, PTL

\* nonceLock is held by exactly the task between getLatestNonce and the end of
\* the submission (SubmitTx), for any number of goroutines.
THEOREM TheLockIsKept == Spec => []NonceLockDiscipline
  <1>1. NonceInv => NonceLockDiscipline
    BY DEF NonceInv, LockInv
  <1> QED BY <1>1, NonceInvariance, PTL
-----------------------------------------------------------------------------
(* FreshNonce.                                                             *)

LEMMA BelowStep ==
    ASSUME WriterAssumption, NodeAssumption, NonceInv, BelowInv, Next
    PROVE  BelowInv'
  <1>0. /\ accountNonce \in [Relayers -> Nat]
        /\ nonce \in [Relayers -> Nat]
        /\ pool \in [Relayers -> SUBSET Extrinsics]
        /\ crashes \in Nat
        /\ TypeOK /\ BestInv
        /\ \A r \in Relayers : \A e \in pool[r] : e.nonce \in Nat
    BY DEF NonceInv, TypeOK, Extrinsics
  <1>1. CASE Rests
    BY <1>1 DEF Rests, BelowInv
  <1>2. ASSUME NEW r \in Relayers, Crashes(r)
        PROVE  BelowInv'
    <2>1. crashes' # 0
      BY <1>0, <1>2 DEF Crashes
    <2> QED BY <2>1 DEF BelowInv
  <1> SUFFICES ASSUME crashes' = 0, crashes' = crashes,
                      NEW q \in Relayers
               PROVE  /\ accountNonce'[q] <= nonce'[q]
                      /\ \A e \in pool'[q] : e.nonce < nonce'[q]
    BY <1>1, <1>2, AccountSteps DEF BelowInv, Submits, Updates, Loses, Retract
  <1>3. accountNonce[q] <= nonce[q] /\ \A e \in pool[q] : e.nonce < nonce[q]
    BY DEF BelowInv
  <1>4. accountNonce[q] \in Nat /\ nonce[q] \in Nat
    BY <1>0
  <1>5. ASSUME NEW t \in Tasks, pc[t] = "submit", Submits(t)
        PROVE  /\ accountNonce'[q] <= nonce'[q]
               /\ \A e \in pool'[q] : e.nonce < nonce'[q]
    <2>1. accountNonce'[q] = accountNonce[q]
      BY <1>5 DEF Submits
    <2>2. CASE q # Relayer(t)
      <3>1. nonce'[q] = nonce[q] /\ pool'[q] = pool[q]
        BY <1>0, <1>5, <2>2 DEF Submits
      <3> QED BY <1>3, <2>1, <3>1
    <2>3. CASE q = Relayer(t)
      <3>1. nonce'[q] = nonce[q] + 1
        BY <1>0, <1>5, <2>3 DEF Submits
      <3>2. Extrinsic(t).nonce = nonce[q]
        BY <1>5, <2>3 DEF Submits, Extrinsic
      <3>3. \A e \in pool'[q] : e \in pool[q] \/ e = Extrinsic(t)
        BY <1>0, <1>5, <2>3 DEF Submits
      <3>4. \A e \in pool'[q] : e.nonce < nonce[q] \/ e.nonce = nonce[q]
        BY <1>3, <3>2, <3>3
      <3>5. \A e \in pool'[q] : e.nonce \in Nat
        BY <1>0, <1>4, <3>2, <3>3
      <3> QED BY <1>3, <1>4, <2>1, <3>1, <3>4, <3>5
    <2> QED BY <2>2, <2>3
  <1>6. ASSUME NEW r \in Relayers, Updates(r)
        PROVE  /\ accountNonce'[q] <= nonce'[q]
               /\ \A e \in pool'[q] : e.nonce < nonce'[q]
    \* the cached nonce is not behind: it is the one that is kept
    <2>1. LatestNonce(r) = nonce[r]
      <3>1. accountNonce[r] <= nonce[r] /\ accountNonce[r] \in Nat /\ nonce[r] \in Nat
        BY <1>0 DEF BelowInv
      <3> QED BY <3>1 DEF LatestNonce
    <2>2. nonce'[q] = nonce[q] /\ UNCHANGED <<accountNonce, pool>>
      BY <1>0, <1>6, <2>1 DEF Updates
    <2> QED BY <1>3, <2>2
  <1>7. ASSUME NEW r \in Relayers, NEW x \in pool[r], Loses(r, x)
        PROVE  /\ accountNonce'[q] <= nonce'[q]
               /\ \A e \in pool'[q] : e.nonce < nonce'[q]
    <2>1. pool'[q] \subseteq pool[q] /\ UNCHANGED <<accountNonce, nonce>>
      BY <1>0, <1>7 DEF Loses
    <2> QED BY <1>3, <2>1
  <1>8. ASSUME NEW r \in Relayers, NEW x \in pool[r], Include(r, x), nonce' = nonce
        PROVE  /\ accountNonce'[q] <= nonce'[q]
               /\ \A e \in pool'[q] : e.nonce < nonce'[q]
    <2>1. /\ accountNonce' = [accountNonce EXCEPT ![r] = @ + 1]
          /\ x.nonce = accountNonce[r]
          /\ pool' = [pool EXCEPT ![r] = @ \ {x}]
      BY <1>0, <1>8, IncludeStep
    <2>2. pool'[q] \subseteq pool[q]
      BY <1>0, <2>1
    <2>3. CASE q = r
      <3>1. accountNonce'[q] = accountNonce[q] + 1
        BY <1>0, <2>1, <2>3
      <3>2. accountNonce[q] < nonce[q]
        BY <1>3, <2>1, <2>3
      <3>3. accountNonce[q] + 1 <= nonce[q]
        BY <1>4, <3>2
      <3> QED BY <1>3, <1>8, <2>2, <3>1, <3>3
    <2>4. CASE q # r
      <3>1. accountNonce'[q] = accountNonce[q]
        BY <1>0, <2>1, <2>4
      <3> QED BY <1>3, <1>8, <2>2, <3>1
    <2> QED BY <2>3, <2>4
  <1>9. ASSUME Retract, nonce' = nonce
        PROVE  /\ accountNonce'[q] <= nonce'[q]
               /\ \A e \in pool'[q] : e.nonce < nonce'[q]
    <2> DEFINE r == best.relayer
               x == best.extrinsic
    <2>1. /\ r \in Relayers
          /\ x.nonce \in Nat
          /\ accountNonce[r] = x.nonce + 1
          /\ accountNonce' = [accountNonce EXCEPT ![r] = x.nonce]
          /\ pool' = [pool EXCEPT ![r] = @ \cup {x}]
      BY <1>0, <1>9, RetractType
    <2> HIDE DEF r, x
    <2>2. CASE q = r
      <3>1. accountNonce'[q] = x.nonce
        BY <1>0, <2>1, <2>2
      <3>2. x.nonce < nonce[q]
        BY <1>3, <1>4, <2>1, <2>2
      <3>3. \A e \in pool'[q] : e \in pool[q] \/ e = x
        BY <1>0, <2>1, <2>2
      <3>4. x.nonce <= nonce[q]
        BY <1>4, <2>1, <3>2
      <3> QED BY <1>3, <1>9, <3>1, <3>2, <3>3, <3>4
    <2>3. CASE q # r
      <3>1. accountNonce'[q] = accountNonce[q] /\ pool'[q] = pool[q]
        BY <1>0, <2>1, <2>3
      <3> QED BY <1>3, <1>9, <3>1
    <2> QED BY <2>2, <2>3
  <1>10. CASE Rests
    <2>1. UNCHANGED <<accountNonce, pool, nonce>>
      BY <1>10 DEF Rests
    <2> QED BY <1>3, <2>1
  <1>11. \A r \in Relayers : ~Crashes(r)
    BY <1>0 DEF Crashes
  <1> QED BY <1>5, <1>6, <1>7, <1>8, <1>9, <1>10, <1>11, AccountSteps

\* As long as no process was restarted, a submission's nonce is neither used nor
\* pending, although the chain may retract the block that counted it and
\* goroutines submit at the same time (SubmitTx, getLatestNonce).
THEOREM SubmissionsAreFresh == Spec => []FreshNonce
  <1> USE WriterAssumption, NodeAssumption
  <1>1. Init => BelowInv
    <2>1. ASSUME Init
          PROVE  BelowInv
      BY <2>1 DEF Init, NodeInit, BelowInv
    <2> QED BY <2>1
  <1>2. NonceInv /\ BelowInv /\ [Next]_vars => BelowInv'
    <2>1. ASSUME BelowInv, UNCHANGED vars
          PROVE  BelowInv'
      BY <2>1 DEF BelowInv, vars, nodeVars, connVars
    <2> QED BY <2>1, BelowStep
  <1>3. ASSUME NonceInv, BelowInv
        PROVE  FreshNonce
    <2>1. ASSUME crashes = 0, NEW t \in Tasks, pc[t] = "submit"
          PROVE  /\ draft[t].nonce >= accountNonce[Relayer(t)]
                 /\ ~PoolHas(Relayer(t), draft[t].nonce)
      <3> DEFINE r == Relayer(t)
      <3>1. r \in Relayers
        BY TaskType
      <3>2. draft[t].nonce = nonce[r]
        BY <1>3, <2>1 DEF NonceInv, LockInv
      <3>3. accountNonce[r] <= nonce[r] /\ \A e \in pool[r] : e.nonce < nonce[r]
        BY <1>3, <2>1, <3>1 DEF BelowInv
      <3>4. accountNonce[r] \in Nat /\ nonce[r] \in Nat
        BY <1>3, <3>1 DEF NonceInv, TypeOK
      <3> HIDE DEF r
      <3>5. nonce[r] >= accountNonce[r] /\ ~PoolHas(r, nonce[r])
        BY <3>3, <3>4 DEF PoolHas
      <3> QED BY <3>2, <3>5 DEF r
    <2> QED BY <2>1 DEF FreshNonce
  <1> QED BY <1>1, <1>2, <1>3, NonceInvariance, PTL DEF Spec
-----------------------------------------------------------------------------
(* OnlyLossMakesGap, which is inductive given the lock.                    *)

LEMMA GapStep ==
    ASSUME WriterAssumption, NodeAssumption, NonceInv, OnlyLossMakesGap, Next
    PROVE  OnlyLossMakesGap'
  <1>0. /\ accountNonce \in [Relayers -> Nat]
        /\ nonce \in [Relayers -> Nat]
        /\ pool \in [Relayers -> SUBSET Extrinsics]
        /\ TypeOK /\ BestInv
    BY DEF NonceInv, TypeOK
  <1> SUFFICES ASSUME lost' = "no", NEW q \in Relayers,
                      NEW n \in accountNonce'[q] .. nonce'[q] - 1
               PROVE  \E e \in pool'[q] : e.nonce = n
    BY DEF OnlyLossMakesGap, Gap, PoolHas
  <1>1. /\ accountNonce[q] \in Nat /\ nonce[q] \in Nat
        /\ accountNonce'[q] \in Nat /\ nonce'[q] \in Nat
    <2>1. TypeOK'
      BY NonceStep DEF NonceInv
    <2> QED BY <1>0, <2>1 DEF TypeOK
  <1>2. n \in Int /\ accountNonce'[q] <= n /\ n < nonce'[q]
    BY <1>1
  \* what was pending is, unless a step takes it away
  <1>3. ASSUME lost = "no", NEW k \in Int, accountNonce[q] <= k, k < nonce[q]
        PROVE  \E e \in pool[q] : e.nonce = k
    <2>1. k \in accountNonce[q] .. nonce[q] - 1
      BY <1>1, <1>3
    <2> QED BY <1>3, <2>1 DEF OnlyLossMakesGap, Gap, PoolHas
  <1>4. CASE Rests
    BY <1>2, <1>3, <1>4 DEF Rests
  <1>5. ASSUME NEW t \in Tasks, pc[t] = "submit", Submits(t)
        PROVE  \E e \in pool'[q] : e.nonce = n
    <2>1. accountNonce'[q] = accountNonce[q] /\ lost = "no"
      BY <1>5 DEF Submits
    <2>2. pool[q] \subseteq pool'[q]
      BY <1>0, <1>5 DEF Submits
    <2>3. CASE n < nonce[q]
      BY <1>2, <1>3, <2>1, <2>2, <2>3
    <2>4. CASE ~(n < nonce[q])
      <3>1. q = Relayer(t)
        BY <1>0, <1>2, <1>5, <2>4 DEF Submits
      <3>2. nonce'[q] = nonce[q] + 1 /\ draft[t].nonce = nonce[q]
        BY <1>0, <1>5, <3>1 DEF Submits
      <3>3. n = nonce[q]
        BY <1>1, <1>2, <2>4, <3>2
      <3>4. CASE pool' = [pool EXCEPT ![q] = @ \cup {Extrinsic(t)}]
        <4>1. Extrinsic(t) \in pool'[q]
          BY <1>0, <3>4
        <4> QED BY <3>2, <3>3, <4>1 DEF Extrinsic
      <3>5. CASE pool' = pool /\ ~LosesNonce(t)
        \* the nonce is not used, so that it is pending
        <4>1. draft[t].nonce >= accountNonce[q]
          BY <1>1, <1>2, <2>1, <3>2, <3>3
        <4>2. PoolHas(q, draft[t].nonce)
          BY <3>1, <3>5, <4>1 DEF LosesNonce
        <4> QED BY <3>2, <3>3, <3>5, <4>2 DEF PoolHas
      <3> QED BY <1>5, <3>1, <3>4, <3>5 DEF Submits
    <2> QED BY <2>3, <2>4
  <1>6. ASSUME NEW r \in Relayers, Updates(r)
        PROVE  \E e \in pool'[q] : e.nonce = n
    <2>1. accountNonce'[q] = accountNonce[q] /\ lost = "no" /\ pool' = pool
      BY <1>6 DEF Updates
    <2>2. nonce'[q] = nonce[q] \/ nonce'[q] = accountNonce[q]
      BY <1>0, <1>6 DEF Updates, LatestNonce
    <2>3. nonce'[q] = nonce[q]
      BY <1>1, <1>2, <2>1, <2>2
    <2> QED BY <1>2, <1>3, <2>1, <2>3
  <1>7. ASSUME NEW r \in Relayers, Crashes(r)
        PROVE  \E e \in pool'[q] : e.nonce = n
    <2>1. accountNonce'[q] = accountNonce[q] /\ lost = "no" /\ pool' = pool
      BY <1>7 DEF Crashes
    <2>2. nonce'[q] = nonce[q] \/ nonce'[q] = 0
      BY <1>0, <1>7 DEF Crashes
    <2>3. nonce'[q] = nonce[q]
      BY <1>1, <1>2, <2>1, <2>2
    <2> QED BY <1>2, <1>3, <2>1, <2>3
  <1>8. ASSUME NEW r \in Relayers, NEW x \in pool[r], Include(r, x), nonce' = nonce
        PROVE  \E e \in pool'[q] : e.nonce = n
    <2>1. /\ accountNonce' = [accountNonce EXCEPT ![r] = @ + 1]
          /\ x.nonce = accountNonce[r]
          /\ pool' = [pool EXCEPT ![r] = @ \ {x}]
          /\ lost = "no"
      BY <1>0, <1>8, IncludeStep
    <2>2. CASE q = r
      <3>1. accountNonce'[q] = accountNonce[q] + 1
        BY <1>0, <2>1, <2>2
      <3>2. accountNonce[q] <= n /\ n # accountNonce[q]
        BY <1>1, <1>2, <3>1
      <3>3. PICK e \in pool[q] : e.nonce = n
        BY <1>2, <1>3, <1>8, <2>1, <3>2
      <3>4. e # x
        BY <2>1, <2>2, <3>2, <3>3
      <3>5. e \in pool'[q]
        BY <1>0, <2>1, <2>2, <3>3, <3>4
      <3> QED BY <3>3, <3>5
    <2>3. CASE q # r
      <3>1. accountNonce'[q] = accountNonce[q] /\ pool'[q] = pool[q]
        BY <1>0, <2>1, <2>3
      <3> QED BY <1>2, <1>3, <1>8, <2>1, <3>1
    <2> QED BY <2>2, <2>3
  <1>9. ASSUME Retract, nonce' = nonce
        PROVE  \E e \in pool'[q] : e.nonce = n
    <2> DEFINE r == best.relayer
               x == best.extrinsic
    <2>1. /\ r \in Relayers
          /\ x.nonce \in Nat
          /\ accountNonce[r] = x.nonce + 1
          /\ accountNonce' = [accountNonce EXCEPT ![r] = x.nonce]
          /\ pool' = [pool EXCEPT ![r] = @ \cup {x}]
      BY <1>0, <1>9, RetractType
    <2>2. lost = "no"
      BY <1>9 DEF Retract
    <2> HIDE DEF r, x
    <2>3. CASE q = r
      <3>1. accountNonce'[q] = x.nonce
        BY <1>0, <2>1, <2>3
      <3>2. pool'[q] = pool[q] \cup {x}
        BY <1>0, <2>1, <2>3
      <3>3. CASE n = x.nonce
        BY <3>2, <3>3
      <3>4. CASE n # x.nonce
        <4>1. accountNonce[q] <= n
          BY <1>2, <2>1, <2>3, <3>1, <3>4
        <4> QED BY <1>2, <1>3, <1>9, <2>2, <3>2, <4>1
      <3> QED BY <3>3, <3>4
    <2>4. CASE q # r
      <3>1. accountNonce'[q] = accountNonce[q] /\ pool'[q] = pool[q]
        BY <1>0, <2>1, <2>4
      <3> QED BY <1>2, <1>3, <1>9, <2>2, <3>1
    <2> QED BY <2>3, <2>4
  <1>10. \A r \in Relayers : \A e \in pool[r] : ~Loses(r, e)
    BY DEF Loses
  <1> QED BY <1>4, <1>5, <1>6, <1>7, <1>8, <1>9, <1>10, AccountSteps

\* Only a failed submission, or a node that forgets an extrinsic, leaves a
\* nonce nobody will use: no race of goroutines, no read error, no retracted
\* block and no restart does (SubmitTx).
THEOREM GapsComeFromLosses == Spec => []OnlyLossMakesGap
  <1> USE WriterAssumption, NodeAssumption
  <1>1. Init => OnlyLossMakesGap
    <2>1. ASSUME Init, NEW r \in Relayers
          PROVE  ~Gap(r)
      <3>1. accountNonce[r] = 0 /\ nonce[r] = 0
        BY <2>1 DEF Init, NodeInit
      <3> QED BY <3>1 DEF Gap
    <2> QED BY <2>1 DEF OnlyLossMakesGap
  <1>2. NonceInv /\ OnlyLossMakesGap /\ [Next]_vars => OnlyLossMakesGap'
    <2>1. ASSUME OnlyLossMakesGap, UNCHANGED vars
          PROVE  OnlyLossMakesGap'
      BY <2>1 DEF OnlyLossMakesGap, Gap, PoolHas, vars, nodeVars, connVars
    <2> QED BY <2>1, GapStep
  <1> QED BY <1>1, <1>2, NonceInvariance, PTL DEF Spec
-----------------------------------------------------------------------------
(* TwiceApprovedTwiceEncoded.                                              *)

\* What a relayer has encoded stays encoded, over crashes as well.
LEMMA EncodedStays ==
    ASSUME WriterAssumption, NodeAssumption, NonceInv, Next
    PROVE  \A r \in Relayers : encoded[r] \subseteq encoded'[r]
  <1>0. encoded \in [Relayers -> SUBSET Proposals]
    BY DEF NonceInv, TypeOK
  <1>1. ASSUME NEW t \in Tasks, ResolveMessage(t)
        PROVE  encoded' = encoded
    BY <1>1 DEF ResolveMessage, Rest
  <1>2. ASSUME NEW t \in Tasks, CreateProposal(t)
        PROVE  \A r \in Relayers : encoded[r] \subseteq encoded'[r]
    BY <1>0, <1>2 DEF CreateProposal
  <1>3. ASSUME NEW r \in Relayers, Crash(r)
        PROVE  encoded' = encoded
    BY <1>3 DEF Crash
  <1>4. CASE Outside
    BY <1>4, OutsideStep
  <1> QED BY <1>1, <1>2, <1>3, <1>4, Encodes DEF Next, Outside

LEMMA VotersStep ==
    ASSUME WriterAssumption, NodeAssumption, NonceInv, Next
    PROVE  \/ UNCHANGED voters
           \/ \E r \in Relayers : \E e \in pool[r] : Include(r, e)
           \/ Retract
  <1> USE DEF Rest, nodeVars, taskVars, connVars
  <1>1. ASSUME NEW t \in Tasks, ResolveMessage(t)
        PROVE  UNCHANGED voters
    BY <1>1 DEF ResolveMessage
  <1>2. ASSUME NEW t \in Tasks, Quiet(t)
        PROVE  UNCHANGED voters
    BY <1>2, QuietStep DEF NonceInv
  <1>3. ASSUME NEW t \in Tasks, Locked(t)
        PROVE  UNCHANGED voters
    BY <1>3 DEF Locked, LockNonce, UpdateNonce, GetLatestNonceFails, SignFails, Submit,
                SubmitFails
  <1>4. ASSUME NEW r \in Relayers, IncludeExtrinsic(r)
        PROVE  \E e \in pool[r] : Include(r, e)
    BY <1>4 DEF IncludeExtrinsic
  <1>5. ASSUME NEW r \in Relayers, \/ InvalidateExtrinsic(r) \/ DropExtrinsic(r)
                                   \/ UpdateMetadata(r) \/ CoreStop(r) \/ Crash(r)
        PROVE  UNCHANGED voters
    BY <1>5 DEF InvalidateExtrinsic, DropExtrinsic, UpdateMetadata, CoreStop, Crash,
                Invalidate, Drop
  <1>6. CASE ChainStep
    BY <1>6 DEF ChainStep, Upgrade
  <1> HIDE DEF Rest, nodeVars, taskVars, connVars
  <1> QED BY <1>1, <1>2, <1>3, <1>4, <1>5, <1>6, Steps DEF Next

\* A step puts a task at a place where it votes only if it encodes the call, or
\* the task was at such a place before, with the same call.
LEMMA VotingStep ==
    ASSUME WriterAssumption, NodeAssumption, NonceInv, Next, NEW u \in Tasks, Voting(u)'
    PROVE  \/ CreateProposal(u)
           \/ Voting(u) /\ call'[u] = call[u]
  <1>0. /\ pc \in [Tasks -> Pcs]
        /\ call \in [Tasks -> Versions]
        /\ TypeOK /\ TriesInv
    BY DEF NonceInv, TypeOK
  <1>1. ASSUME NEW t \in Tasks, ResolveMessage(t)
        PROVE  Voting(u) /\ call'[u] = call[u]
    <2>1. PICK l \in {"create", "fatal"} : pc' = [pc EXCEPT ![t] = l]
      BY <1>1 DEF ResolveMessage, Goto
    <2>2. u # t
      BY <1>0, <2>1 DEF Voting
    <2>3. call'[u] = call[u]
      BY <1>0, <1>1, <2>2 DEF ResolveMessage
    <2> QED BY <1>0, <2>1, <2>2, <2>3 DEF Voting
  <1>2. ASSUME NEW t \in Tasks, Quiet(t)
        PROVE  CreateProposal(u) \/ (Voting(u) /\ call'[u] = call[u])
    <2>1. PICK l \in Elsewhere : pc' = [pc EXCEPT ![t] = l]
      BY <1>0, <1>2, QuietStep
    <2>2. call' = call
      BY <1>0, <1>2, QuietStep
    <2>3. CASE u # t
      BY <1>0, <2>1, <2>2, <2>3 DEF Voting
    <2>4. CASE CreateProposalFails(t)
      <3>1. pc' = [pc EXCEPT ![t] = "fatal"]
        BY <2>4 DEF CreateProposalFails, Goto
      <3>2. u # t
        BY <1>0, <3>1 DEF Voting
      <3> QED BY <2>3, <3>2
    <2>5. CASE u = t /\ ~CreateProposal(t) /\ ~CreateProposalFails(t)
      <3>1. pc[t] \in {"proposalValid", "runtimeVersion", "watch"}
        BY <1>2, <2>5 DEF Quiet, IgnoreProposal, AcknowledgeProposal, ProposalValidFails,
             GiveUp, GetRuntimeVersion, GetRuntimeVersionFails, Status, SubscriptionFails,
             StopWatch, Looping
      <3> QED BY <2>2, <2>5, <3>1 DEF Voting
    <2> QED BY <2>3, <2>4, <2>5
  <1>3. ASSUME NEW t \in Tasks, Locked(t)
        PROVE  Voting(u) /\ call'[u] = call[u]
    <2>1. PICK l : pc' = [pc EXCEPT ![t] = l]
      BY <1>3 DEF Locked, LockNonce, UpdateNonce, GetLatestNonceFails, SignFails, Submit,
                  SubmitFails, Retry, Goto
    <2>2. call' = call
      BY <1>3 DEF Locked, LockNonce, UpdateNonce, GetLatestNonceFails, SignFails, Submit,
                  SubmitFails, Retry
    <2>3. pc[t] \in {"lock", "latestNonce", "submit"}
      BY <1>3 DEF Locked, LockNonce, UpdateNonce, GetLatestNonceFails, SignFails, Submit,
                  SubmitFails
    <2> QED BY <1>0, <2>1, <2>2, <2>3 DEF Voting
  <1>4. CASE Outside
    BY <1>4, OutsideStep DEF Voting
  <1>5. ASSUME NEW r \in Relayers, Crash(r)
        PROVE  Voting(u) /\ call'[u] = call[u]
    <2>1. pc'[u] = "idle" \/ (pc'[u] = pc[u] /\ call'[u] = call[u])
      BY <1>0, <1>5, CrashStep
    <2> QED BY <2>1 DEF Voting
  <1> QED BY <1>1, <1>2, <1>3, <1>4, <1>5, NextSteps

LEMMA CallStep ==
    ASSUME WriterAssumption, NodeAssumption, NonceInv, CallInv, Next
    PROVE  CallInv'
  <1>0. /\ pool \in [Relayers -> SUBSET Extrinsics]
        /\ voters \in [Proposals -> SUBSET Relayers]
        /\ encoded \in [Relayers -> SUBSET Proposals]
        /\ TypeOK /\ BestInv
    BY DEF NonceInv, TypeOK
  <1>1. \A r \in Relayers : encoded[r] \subseteq encoded'[r]
    BY EncodedStays
  <1>2. /\ \A t \in Tasks : Voting(t) => Proposal(t) \in encoded[Relayer(t)]
        /\ \A r \in Relayers : \A e \in pool[r] : e.proposal \in encoded[r]
        /\ \A p \in Proposals : \A r \in voters[p] : p \in encoded[r]
        /\ best # NoBlock =>
              /\ best.extrinsic.proposal \in encoded[best.relayer]
              /\ \A r \in best.voters : best.extrinsic.proposal \in encoded[r]
    BY DEF CallInv
  <1>3. ASSUME NEW u \in Tasks, Voting(u)'
        PROVE  Proposal(u)' \in encoded'[Relayer(u)]
    <2>1. Relayer(u) \in Relayers
      BY TaskType
    <2>2. CASE CreateProposal(u)
      <3>1. call' = call /\ encoded' = [encoded EXCEPT ![Relayer(u)] = @ \cup {Proposal(u)}]
        BY <2>2 DEF CreateProposal
      <3>2. Proposal(u)' = Proposal(u)
        BY <3>1 DEF Proposal, Message
      <3> QED BY <1>0, <2>1, <3>1, <3>2
    <2>3. CASE Voting(u) /\ call'[u] = call[u]
      <3>1. Proposal(u)' = Proposal(u)
        BY <2>3 DEF Proposal, Message
      <3>2. Proposal(u) \in encoded[Relayer(u)]
        BY <1>2, <2>3
      <3> QED BY <1>1, <2>1, <3>1, <3>2
    <2> QED BY <1>3, <2>2, <2>3, VotingStep
  <1>4. ASSUME NEW r \in Relayers, NEW e \in pool'[r]
        PROVE  e.proposal \in encoded[r]
    <2>1. CASE e \in pool[r]
      BY <1>2, <2>1
    <2>2. ASSUME NEW t \in Tasks, pc[t] = "submit", Submits(t), e \notin pool[r]
          PROVE  e.proposal \in encoded[r]
      <3>1. r = Relayer(t) /\ e = Extrinsic(t)
        BY <1>0, <1>4, <2>2 DEF Submits
      <3>2. e.proposal = Proposal(t)
        BY <3>1 DEF Extrinsic
      <3>3. Voting(t)
        BY <2>2 DEF Voting
      <3> QED BY <1>2, <3>1, <3>2, <3>3
    <2>3. ASSUME Retract, e \notin pool[r]
          PROVE  e.proposal \in encoded[r]
      <3>1. r = best.relayer /\ e = best.extrinsic
        BY <1>0, <1>4, <2>3, RetractType
      <3>2. best # NoBlock
        BY <2>3 DEF Retract
      <3> QED BY <1>2, <3>1, <3>2
    <2>4. ASSUME NEW q \in Relayers, NEW x \in pool[q], Loses(q, x) \/ Include(q, x)
          PROVE  e \in pool[r]
      BY <1>0, <1>4, <2>4 DEF Loses, Include
    <2>5. ASSUME pool' = pool
          PROVE  e \in pool[r]
      BY <1>4, <2>5
    <2> QED BY <2>1, <2>2, <2>3, <2>4, <2>5, AccountSteps DEF Rests, Updates, Crashes
  <1>5. ASSUME NEW p \in Proposals, NEW r \in voters'[p]
        PROVE  p \in encoded[r] /\ r \in Relayers
    <2>1. CASE r \in voters[p]
      BY <1>0, <1>2, <2>1
    <2>2. ASSUME NEW q \in Relayers, NEW x \in pool[q], Include(q, x), r \notin voters[p]
          PROVE  p \in encoded[r] /\ r \in Relayers
      <3>1. r = q /\ p = x.proposal
        BY <1>0, <1>5, <2>2 DEF Include, Acknowledge
      <3> QED BY <1>2, <2>2, <3>1
    <2>3. ASSUME Retract, r \notin voters[p]
          PROVE  p \in encoded[r] /\ r \in Relayers
      <3>1. p = best.extrinsic.proposal /\ r \in best.voters /\ best.voters \in SUBSET Relayers
        BY <1>0, <1>5, <2>3, RetractType
      <3>2. best # NoBlock
        BY <2>3 DEF Retract
      <3> QED BY <1>2, <3>1, <3>2
    <2> QED BY <1>5, <2>1, <2>2, <2>3, VotersStep
  <1>6. ASSUME best' # NoBlock
        PROVE  /\ best'.relayer \in Relayers /\ best'.voters \in SUBSET Relayers
               /\ best'.extrinsic.proposal \in encoded[best'.relayer]
               /\ \A r \in best'.voters : best'.extrinsic.proposal \in encoded[r]
    <2>1. CASE best' = best
      <3>1. best \in [relayer : Relayers, extrinsic : Extrinsics, voters : SUBSET Relayers]
        BY <1>0, <1>6, <2>1 DEF TypeOK
      <3>2. best.relayer \in Relayers /\ best.voters \in SUBSET Relayers
        BY <3>1
      <3> QED BY <1>2, <1>6, <2>1, <3>2
    <2>2. ASSUME NEW q \in Relayers, NEW x \in pool[q], Include(q, x)
          PROVE  /\ best'.relayer \in Relayers /\ best'.voters \in SUBSET Relayers
                 /\ best'.extrinsic.proposal \in encoded[best'.relayer]
                 /\ \A r \in best'.voters : best'.extrinsic.proposal \in encoded[r]
      <3>1. best' = [relayer |-> q, extrinsic |-> x, voters |-> voters[x.proposal]]
        BY <1>0, <1>6, <2>2, IncludeStep
      <3>2. best'.relayer = q /\ best'.extrinsic = x /\ best'.voters = voters[x.proposal]
        BY <3>1
      <3>3. x.proposal \in Proposals
        BY <1>0, <2>2 DEF Extrinsics
      <3>4. voters[x.proposal] \in SUBSET Relayers
        BY <1>0, <3>3
      <3> QED BY <1>2, <2>2, <3>2, <3>3, <3>4
    <2>3. \/ best' = best \/ best' = NoBlock
          \/ \E r \in Relayers : \E e \in pool[r] : Include(r, e)
      BY AccountSteps DEF Rests, Submits, Updates, Crashes, Loses, Retract
    <2> QED BY <1>6, <2>1, <2>2, <2>3
  <1>7. \A r \in Relayers : \A e \in pool'[r] : e.proposal \in encoded'[r]
    BY <1>1, <1>4
  <1>8. \A p \in Proposals : \A r \in voters'[p] : p \in encoded'[r]
    BY <1>1, <1>5
  <1>9. best' # NoBlock =>
           /\ best'.extrinsic.proposal \in encoded'[best'.relayer]
           /\ \A r \in best'.voters : best'.extrinsic.proposal \in encoded'[r]
    BY <1>1, <1>6
  <1>10. \A t \in Tasks : Voting(t)' => Proposal(t)' \in encoded'[Relayer(t)]
    BY <1>3
  <1> QED BY <1>7, <1>8, <1>9, <1>10 DEF CallInv, NoBlock, Relayer

\* Two subsets of a finite set share what they have more than it.
LEMMA SharedElements ==
    ASSUME NEW S, IsFiniteSet(S), NEW A \in SUBSET S, NEW B \in SUBSET S
    PROVE  /\ Cardinality(A) \in Nat /\ Cardinality(B) \in Nat /\ Cardinality(S) \in Nat
           /\ Cardinality(A \cap B) \in Nat
           /\ Cardinality(A \cap B) >= Cardinality(A) + Cardinality(B) - Cardinality(S)
  <1>1. IsFiniteSet(A) /\ IsFiniteSet(B)
    BY FS_Subset
  <1>2. IsFiniteSet(A \cup B) /\ Cardinality(A \cup B) <= Cardinality(S)
    <2>1. A \cup B \in SUBSET S
      OBVIOUS
    <2> QED BY <2>1, FS_Subset
  <1>3. IsFiniteSet(A \cap B)
    <2>1. A \cap B \in SUBSET S
      OBVIOUS
    <2> QED BY <2>1, FS_Subset
  <1>4. Cardinality(A \cup B) = Cardinality(A) + Cardinality(B) - Cardinality(A \cap B)
    BY <1>1, FS_Union
  <1>5. /\ Cardinality(A) \in Nat /\ Cardinality(B) \in Nat /\ Cardinality(S) \in Nat
        /\ Cardinality(A \cup B) \in Nat /\ Cardinality(A \cap B) \in Nat
    BY <1>1, <1>2, <1>3, FS_CardinalityType
  <1> QED BY <1>2, <1>4, <1>5

\* A message that is approved in two encodings was encoded in both by the
\* relayers the two quorums share, at least 2 * Threshold - |Relayers| of them:
\* through any races of votes with upgrades, retracted blocks, redeliveries and
\* crashes, a vote is for a call its relayer has encoded, and stays with it
\* (NewProposal's call, acknowledge_proposal's key).
THEOREM ApprovedTwiceEncodedTwice == Spec => []TwiceApprovedTwiceEncoded
  <1> USE WriterAssumption, NodeAssumption
  <1>1. Init => CallInv
    <2>1. ASSUME Init
          PROVE  CallInv
      BY <2>1 DEF Init, NodeInit, CallInv, Voting
    <2> QED BY <2>1
  <1>2. NonceInv /\ CallInv /\ [Next]_vars => CallInv'
    <2>1. ASSUME CallInv, UNCHANGED vars
          PROVE  CallInv'
      BY <2>1 DEF CallInv, Voting, Proposal, Relayer, Message, vars, nodeVars, taskVars
    <2> QED BY <2>1, CallStep
  <1>3. ASSUME NonceInv, CallInv
        PROVE  TwiceApprovedTwiceEncoded
    <2>1. ASSUME NEW m \in Messages, NEW v1 \in Versions, NEW v2 \in Versions,
                 Approved(<<m, v1>>), Approved(<<m, v2>>)
          PROVE  Cardinality(Reencoders(m, v1, v2)) >= 2 * Threshold - Cardinality(Relayers)
      <3> DEFINE A == voters[<<m, v1>>]
                 B == voters[<<m, v2>>]
                 R == Reencoders(m, v1, v2)
      <3>1. <<m, v1>> \in Proposals /\ <<m, v2>> \in Proposals
        BY DEF Proposals
      <3>2. A \in SUBSET Relayers /\ B \in SUBSET Relayers
        BY <1>3, <3>1 DEF NonceInv, TypeOK
      <3>3. Cardinality(A) >= Threshold /\ Cardinality(B) >= Threshold
        BY <2>1 DEF Approved
      <3>4. A \cap B \subseteq R
        BY <1>3, <3>1, <3>2 DEF CallInv, Reencoders
      <3>5. R \in SUBSET Relayers
        BY DEF Reencoders
      <3> HIDE DEF A, B, R
      <3>6. /\ Cardinality(A) \in Nat /\ Cardinality(B) \in Nat
            /\ Cardinality(Relayers) \in Nat /\ Cardinality(A \cap B) \in Nat
            /\ Cardinality(A \cap B)
                  >= Cardinality(A) + Cardinality(B) - Cardinality(Relayers)
        BY <3>2, SharedElements DEF NodeAssumption
      <3>7. /\ Cardinality(R) \in Nat
            /\ Cardinality(A \cap B) <= Cardinality(R)
        <4>1. IsFiniteSet(R)
          BY <3>5, FS_Subset DEF NodeAssumption
        <4>2. A \cap B \in SUBSET R
          BY <3>4
        <4> QED BY <4>1, <4>2, FS_Subset, FS_CardinalityType
      <3>8. Threshold \in Nat
        BY DEF NodeAssumption
      <3>9. Cardinality(R) >= 2 * Threshold - Cardinality(Relayers)
        BY <3>3, <3>6, <3>7, <3>8
      <3> QED BY <3>9 DEF R
    <2> QED BY <2>1 DEF TwiceApprovedTwiceEncoded
  <1> QED BY <1>1, <1>2, <1>3, NonceInvariance, PTL DEF Spec
=============================================================================
