-------------------------- MODULE EventBindingProofs --------------------------
(***************************************************************************)
(* Type correctness, InOrder and CompleteUnlessFailed of EventBinding, for *)
(* every event of the bindings, any logs a contract emits, and any size of *)
(* the channel.                                                            *)
(*                                                                         *)
(* A log is on its way from the subscription through the channel and the   *)
(* goroutine to the user.  As long as neither the iterator nor the watch   *)
(* has failed or been left, none is lost on it (Alive); afterwards, what   *)
(* was given stays what it is.                                             *)
(***************************************************************************)
EXTENDS EventBinding, SequenceTheorems, TLAPS

-----------------------------------------------------------------------------
(* The events of the bindings; an event two contracts declare alike is one. *)
Distinct == {ERC721_Approval, ERC20_Approval, ERC721_ApprovalForAll,
             CentrifugeAsset_AssetStored, Bridge_Deposit,
             NoArgument_NoArgumentCalled, OneArgument_OneArgumentCalled,
             Bridge_Paused, Bridge_ProposalEvent, Bridge_ProposalVote,
             Bridge_RelayerAdded, Bridge_RelayerRemoved,
             Bridge_RelayerThresholdChanged, AccessControl_RoleGranted,
             AccessControl_RoleRevoked, ThreeArguments_ThreeArgumentsCalled,
             ERC721_Transfer, ERC20_Transfer, TwoArguments_TwoArgumentsCalled,
             Bridge_Unpaused}

LEMMA EveryEvent == Events \subseteq Distinct
  BY DEF Distinct, Events, AccessControl_RoleGranted, AccessControl_RoleRevoked, Bridge_Deposit,
     Bridge_Paused, Bridge_ProposalEvent, Bridge_ProposalVote,
     Bridge_RelayerAdded, Bridge_RelayerRemoved,
     Bridge_RelayerThresholdChanged, Bridge_RoleGranted, Bridge_RoleRevoked,
     Bridge_Unpaused, CentrifugeAsset_AssetStored, ERC20_Approval,
     ERC20_Transfer, ERC20Burnable_Approval, ERC20Burnable_Transfer,
     ERC20Pausable_Approval, ERC20Pausable_Paused, ERC20Pausable_Transfer,
     ERC20Pausable_Unpaused, ERC20PresetMinterPauser_Approval,
     ERC20PresetMinterPauser_Paused, ERC20PresetMinterPauser_RoleGranted,
     ERC20PresetMinterPauser_RoleRevoked, ERC20PresetMinterPauser_Transfer,
     ERC20PresetMinterPauser_Unpaused, ERC721_Approval, ERC721_ApprovalForAll,
     ERC721_Transfer, ERC721Burnable_Approval, ERC721Burnable_ApprovalForAll,
     ERC721Burnable_Transfer, ERC721MinterBurnerPauser_Approval,
     ERC721MinterBurnerPauser_ApprovalForAll, ERC721MinterBurnerPauser_Paused,
     ERC721MinterBurnerPauser_RoleGranted,
     ERC721MinterBurnerPauser_RoleRevoked, ERC721MinterBurnerPauser_Transfer,
     ERC721MinterBurnerPauser_Unpaused, ERC721Pausable_Approval,
     ERC721Pausable_ApprovalForAll, ERC721Pausable_Paused,
     ERC721Pausable_Transfer, ERC721Pausable_Unpaused, IERC20_Approval,
     IERC20_Transfer, IERC721_Approval, IERC721_ApprovalForAll,
     IERC721_Transfer, IERC721Enumerable_Approval,
     IERC721Enumerable_ApprovalForAll, IERC721Enumerable_Transfer,
     IERC721Metadata_Approval, IERC721Metadata_ApprovalForAll,
     IERC721Metadata_Transfer, NoArgument_NoArgumentCalled,
     OneArgument_OneArgumentCalled, Pausable_Paused, Pausable_Unpaused,
     ThreeArguments_ThreeArgumentsCalled, TwoArguments_TwoArgumentsCalled

(* A name and the number of indexed arguments determine an event.          *)
LEMMA SameSignature ==
    ASSUME NEW e \in Events, NEW f \in Events,
           e.name = f.name, Len(e.indexed) = Len(f.indexed)
    PROVE  e = f
  BY EveryEvent DEF Distinct, Event, ERC721_Approval, ERC20_Approval, ERC721_ApprovalForAll,
          CentrifugeAsset_AssetStored, Bridge_Deposit,
          NoArgument_NoArgumentCalled, OneArgument_OneArgumentCalled,
          Bridge_Paused, Bridge_ProposalEvent, Bridge_ProposalVote,
          Bridge_RelayerAdded, Bridge_RelayerRemoved,
          Bridge_RelayerThresholdChanged, AccessControl_RoleGranted,
          AccessControl_RoleRevoked, ThreeArguments_ThreeArgumentsCalled,
          ERC721_Transfer, ERC20_Transfer, TwoArguments_TwoArgumentsCalled,
          Bridge_Unpaused

LEMMA EventType ==
    ASSUME NEW e \in Events
    PROVE  Len(e.indexed) \in Nat
  BY EveryEvent DEF Distinct, Event, ERC721_Approval, ERC20_Approval, ERC721_ApprovalForAll,
          CentrifugeAsset_AssetStored, Bridge_Deposit,
          NoArgument_NoArgumentCalled, OneArgument_OneArgumentCalled,
          Bridge_Paused, Bridge_ProposalEvent, Bridge_ProposalVote,
          Bridge_RelayerAdded, Bridge_RelayerRemoved,
          Bridge_RelayerThresholdChanged, AccessControl_RoleGranted,
          AccessControl_RoleRevoked, ThreeArguments_ThreeArgumentsCalled,
          ERC721_Transfer, ERC20_Transfer, TwoArguments_TwoArgumentsCalled,
          Bridge_Unpaused
-----------------------------------------------------------------------------
(* Sequences of positions.                                                 *)

Increasing(s) == \A j, k \in DOMAIN s : j < k => s[j] < s[k]

LEMMA AppendPosition ==
    ASSUME NEW n \in Nat, NEW s \in Seq(1 .. n), NEW x \in 1 .. n
    PROVE  /\ Append(s, x) \in Seq(1 .. n)
           /\ Len(Append(s, x)) = Len(s) + 1
           /\ Range(Append(s, x)) = Range(s) \cup {x}
           /\ Increasing(s) /\ (\A p \in Range(s) : p < x) => Increasing(Append(s, x))
  <1>1. Len(s) \in Nat /\ DOMAIN s = 1 .. Len(s)
    BY LenProperties
  <1>2. /\ Append(s, x) \in Seq(1 .. n)
        /\ Len(Append(s, x)) = Len(s) + 1
        /\ DOMAIN Append(s, x) = 1 .. Len(s) + 1
        /\ \A i \in 1 .. Len(s) : Append(s, x)[i] = s[i]
        /\ Append(s, x)[Len(s) + 1] = x
    BY <1>1, AppendProperties, LenProperties
  <1>3. 1 .. Len(s) + 1 = (1 .. Len(s)) \cup {Len(s) + 1}
    BY <1>1
  <1>4. Range(Append(s, x)) = Range(s) \cup {x}
    BY <1>1, <1>2, <1>3 DEF Range
  <1>5. ASSUME Increasing(s), \A p \in Range(s) : p < x,
               NEW j \in 1 .. Len(s) + 1, NEW k \in 1 .. Len(s) + 1, j < k
        PROVE  Append(s, x)[j] < Append(s, x)[k]
    <2>1. j \in 1 .. Len(s)
      BY <1>1, <1>5
    <2>2. CASE k \in 1 .. Len(s)
      BY <1>1, <1>2, <1>5, <2>1, <2>2 DEF Increasing
    <2>3. CASE k = Len(s) + 1
      <3>1. s[j] \in Range(s)
        BY <1>1, <2>1 DEF Range
      <3> QED BY <1>2, <1>5, <2>1, <2>3, <3>1
    <2> QED BY <1>3, <2>2, <2>3
  <1> QED BY <1>2, <1>4, <1>5 DEF Increasing

LEMMA TailPosition ==
    ASSUME NEW n \in Nat, NEW s \in Seq(1 .. n), s # << >>
    PROVE  /\ Head(s) \in 1 .. n
           /\ Tail(s) \in Seq(1 .. n)
           /\ Len(Tail(s)) = Len(s) - 1
           /\ Range(s) = {Head(s)} \cup Range(Tail(s))
           /\ Increasing(s) => /\ Increasing(Tail(s))
                               /\ \A p \in Range(Tail(s)) : Head(s) < p
  <1>1. Len(s) \in Nat /\ DOMAIN s = 1 .. Len(s) /\ Len(s) # 0
    BY LenProperties, EmptySeq
  <1>2. /\ Head(s) \in 1 .. n /\ Head(s) = s[1]
        /\ Tail(s) \in Seq(1 .. n)
        /\ Len(Tail(s)) = Len(s) - 1
        /\ DOMAIN Tail(s) = 1 .. Len(s) - 1
        /\ \A i \in 1 .. Len(s) - 1 : Tail(s)[i] = s[i + 1]
    BY <1>1, HeadTailProperties, LenProperties
  <1>3. ASSUME NEW i \in 1 .. Len(s)
        PROVE  i = 1 \/ (i - 1 \in 1 .. Len(s) - 1 /\ Tail(s)[i - 1] = s[i])
    <2>1. i = 1 \/ (i - 1 \in 1 .. Len(s) - 1 /\ (i - 1) + 1 = i)
      BY <1>1
    <2> QED BY <1>2, <2>1
  <1>4. \A i \in 1 .. Len(s) - 1 : i + 1 \in 1 .. Len(s)
    BY <1>1
  <1>5. Range(s) = {Head(s)} \cup Range(Tail(s))
    <2>1. Range(s) \subseteq {Head(s)} \cup Range(Tail(s))
      <3>1. ASSUME NEW i \in 1 .. Len(s)
            PROVE  s[i] \in {Head(s)} \cup Range(Tail(s))
        <4>1. CASE i = 1
          BY <1>2, <4>1
        <4>2. CASE i - 1 \in 1 .. Len(s) - 1 /\ Tail(s)[i - 1] = s[i]
          <5>1. Tail(s)[i - 1] \in Range(Tail(s))
            BY <1>2, <4>2 DEF Range
          <5> QED BY <4>2, <5>1
        <4> QED BY <1>3, <4>1, <4>2
      <3> QED BY <1>1, <3>1 DEF Range
    <2>2. Head(s) \in Range(s)
      <3>1. 1 \in 1 .. Len(s)
        BY <1>1
      <3> QED BY <1>1, <1>2, <3>1 DEF Range
    <2>3. Range(Tail(s)) \subseteq Range(s)
      BY <1>1, <1>2, <1>4 DEF Range
    <2> QED BY <2>1, <2>2, <2>3
  <1>6. ASSUME Increasing(s)
        PROVE  /\ Increasing(Tail(s))
               /\ \A p \in Range(Tail(s)) : Head(s) < p
    <2>1. \A j, k \in 1 .. Len(s) : j < k => s[j] < s[k]
      BY <1>1, <1>6 DEF Increasing
    <2>2. ASSUME NEW j \in 1 .. Len(s) - 1, NEW k \in 1 .. Len(s) - 1, j < k
          PROVE  Tail(s)[j] < Tail(s)[k]
      <3>1. j + 1 < k + 1 /\ j + 1 \in 1 .. Len(s) /\ k + 1 \in 1 .. Len(s)
        BY <1>1, <2>2
      <3> QED BY <1>2, <2>1, <3>1
    <2>3. ASSUME NEW i \in 1 .. Len(s) - 1
          PROVE  Head(s) < Tail(s)[i]
      <3>1. 1 < i + 1 /\ 1 \in 1 .. Len(s) /\ i + 1 \in 1 .. Len(s)
        BY <1>1
      <3> QED BY <1>2, <2>1, <3>1
    <2> QED BY <1>2, <2>2, <2>3 DEF Increasing, Range
  <1> QED BY <1>2, <1>5, <1>6
-----------------------------------------------------------------------------
(* What the node takes for a match and the binding unpacks is what was     *)
(* asked for.                                                              *)
LEMMA Answers ==
    ASSUME event \in Events, NEW l \in Logs
    PROVE  AskedFor(l) <=> NodeMatches(l) /\ Unpacks(l)
  <1>1. l.event \in Events
    BY DEF Logs
  <1>2. ASSUME AskedFor(l)
        PROVE  NodeMatches(l) /\ Unpacks(l)
    <2>1. l.event = event
      BY <1>2 DEF AskedFor
    <2>2. \A i \in DOMAIN event.indexed : event.indexed[i] \in Names(event)
      BY DEF Names, Range
    <2>3. Len(event.indexed) >= Len(event.indexed)
      <3>1. Len(event.indexed) \in Nat
        BY EventType
      <3> QED BY <3>1
    <2> QED BY <1>2, <2>1, <2>2, <2>3 DEF AskedFor, NodeMatches, Unpacks, Rule
  <1>3. ASSUME NodeMatches(l), Unpacks(l)
        PROVE  AskedFor(l)
    <2>1. l.event = event
      BY <1>1, <1>3, SameSignature DEF Unpacks
    <2>2. \A n \in Names(event) : \E i \in DOMAIN event.indexed : n = event.indexed[i]
      BY DEF Names, Range
    <2> QED BY <1>3, <2>1, <2>2 DEF AskedFor, NodeMatches, Rule
  <1> QED BY <1>2, <1>3
-----------------------------------------------------------------------------
(* The inductive invariant.                                                *)

\* What the subscription has sent; what reaches the user unless it fails.
Matched == {i \in 1 .. sent : NodeMatches(emitted[i])}

\* Neither the iterator nor the watch has failed or ended.
Alive == fail = "nil" /\ watcher \in {"off", "select", "sink"}

\* What was given comes before what is held, and that before the channel.
Ordered ==
    /\ Increasing(got)
    /\ Increasing(logs)
    /\ \A p \in Range(got), q \in Range(logs) : p < q
    /\ \A q \in Range(logs) : held < q
    /\ held # 0 => \A p \in Range(got) : p < held

Sound ==
    /\ Range(logs) \subseteq Matched
    /\ held # 0 => held \in Matched /\ Unpacks(emitted[held])
    /\ \A p \in Range(got) : p \in Matched /\ Unpacks(emitted[p])

Covered == Alive => Matched \subseteq Range(got) \cup {held} \cup Range(logs)

NoGap == \A i \in Matched : (\E p \in Range(got) : i <= p) => i \in Range(got)

DataInv == Ordered /\ Sound /\ Covered /\ NoGap

ControlInv ==
    /\ consumer = "iterator" => watcher = "off"
    /\ consumer = "watch" => watcher # "off" /\ answer = "none"
    /\ user = "next" => consumer = "iterator"
    /\ watcher \in {"select", "sink"} => fail = "nil"
    /\ watcher = "sink" <=> held # 0
    /\ done = "yes" => subErr = "closed"
    /\ answer = "false" /\ fail = "nil" => done = "yes" /\ logs = << >>
    /\ consumer = "iterator" /\ subErr = "closed" /\ fail = "nil" /\ subQuit = "no"
          => Pending = {}

EInv == TypeOK /\ DataInv /\ ControlInv
-----------------------------------------------------------------------------
LEMMA Positions ==
    ASSUME TypeOK
    PROVE  /\ Len(emitted) \in Nat
           /\ sent \in Nat /\ sent <= Len(emitted)
           /\ Range(got) \subseteq 1 .. Len(emitted)
           /\ Range(logs) \subseteq 1 .. Len(emitted)
           /\ held \in 0 .. Len(emitted)
           /\ \A i \in 1 .. Len(emitted) : emitted[i] \in Logs
  <1>1. Len(emitted) \in Nat
    BY LenProperties DEF TypeOK
  <1>2. \A s \in Seq(1 .. Len(emitted)) : Range(s) \subseteq 1 .. Len(emitted)
    BY DEF Range
  <1> QED BY <1>1, <1>2 DEF TypeOK

\* As long as nothing is lost on the way, there is no gap in what was given.
LEMMA NothingSkipped == TypeOK /\ Ordered /\ Sound /\ Covered /\ Alive => NoGap
  <1> SUFFICES ASSUME TypeOK, Ordered, Sound, Covered, Alive,
                      NEW i \in Matched, NEW p \in Range(got), i <= p
               PROVE  i \in Range(got)
    BY DEF NoGap
  <1>1. i \in Range(got) \cup {held} \cup Range(logs)
    BY DEF Covered
  <1>2. i \in Nat /\ p \in Nat /\ i # 0
    BY Positions DEF Matched
  <1>3. i \notin Range(logs)
    BY <1>2 DEF Ordered
  <1>4. i # held
    BY <1>2 DEF Ordered
  <1> QED BY <1>1, <1>3, <1>4

LEMMA MatchedKept ==
    ASSUME UNCHANGED <<chosen, emitted, sent>>
    PROVE  Matched' = Matched
  BY DEF chosen, Matched, NodeMatches, Rule

LEMMA MatchedByEmit ==
    ASSUME TypeOK, Emit
    PROVE  /\ Matched' = Matched
           /\ \A i \in 1 .. Len(emitted) : emitted'[i] = emitted[i]
           /\ emitted' \in Seq(Logs)
           /\ Len(emitted') = Len(emitted) + 1
  <1>1. PICK l \in Emittable[event] : emitted' = Append(emitted, l)
    BY DEF Emit
  <1>2. l \in Logs
    BY BindingAssumption DEF BindingAssumption, TypeOK
  <1>3. /\ emitted' \in Seq(Logs)
        /\ Len(emitted') = Len(emitted) + 1
        /\ \A i \in 1 .. Len(emitted) : emitted'[i] = emitted[i]
    BY <1>1, <1>2, AppendProperties DEF TypeOK
  <1>4. 1 .. sent \subseteq 1 .. Len(emitted)
    BY Positions
  <1>5. event' = event /\ wanted' = wanted /\ sent' = sent
    BY DEF Emit, chosen
  <1>6. Matched' = Matched
    BY <1>3, <1>4, <1>5 DEF Matched, NodeMatches, Rule
  <1> QED BY <1>3, <1>6

LEMMA MatchedByProduce ==
    ASSUME TypeOK, Produce
    PROVE  \E i \in 1 .. Len(emitted) :
              /\ sent < i
              /\ logs' = Append(logs, i)
              /\ sent' = i
              /\ Matched' = Matched \cup {i}
  <1>1. PICK i \in Pending : /\ \A j \in Pending : i <= j
                             /\ logs' = Append(logs, i)
                             /\ sent' = i
    BY DEF Produce
  <1>2. /\ i \in Nat /\ sent \in Nat /\ Len(emitted) \in Nat
        /\ i \in 1 .. Len(emitted) /\ sent < i
    BY Positions DEF Pending
  <1>3. event' = event /\ wanted' = wanted /\ emitted' = emitted
    BY DEF Produce, chosen
  <1>4. Matched' = {j \in 1 .. i : NodeMatches(emitted[j])}
    BY <1>1, <1>3 DEF Matched, NodeMatches, Rule
  <1>5. ASSUME NEW j \in 1 .. i, NodeMatches(emitted[j]), j \notin 1 .. sent
        PROVE  j = i
    <2>1. j \in sent + 1 .. Len(emitted)
      BY <1>2, <1>5
    <2>2. i <= j
      BY <1>1, <1>5, <2>1 DEF Pending
    <2> QED BY <1>2, <2>2
  <1>6. NodeMatches(emitted[i])
    BY DEF Pending
  <1>7. 1 .. sent \subseteq 1 .. i /\ i \in 1 .. i
    BY <1>2
  <1>8. Matched' = Matched \cup {i}
    BY <1>4, <1>5, <1>6, <1>7 DEF Matched
  <1> QED BY <1>1, <1>2, <1>8
-----------------------------------------------------------------------------
(* Type correctness.                                                       *)

LEMMA WiderSeq ==
    ASSUME NEW n \in Nat, NEW s \in Seq(1 .. n)
    PROVE  s \in Seq(1 .. n + 1)
  <1>1. 1 .. n \subseteq 1 .. n + 1
    OBVIOUS
  <1>2. Len(s) \in Nat /\ s \in [1 .. Len(s) -> 1 .. n]
    BY LenProperties
  <1>3. s \in [1 .. Len(s) -> 1 .. n + 1]
    BY <1>1, <1>2
  <1> QED BY <1>2, <1>3, SeqDef

LEMMA InitType == Init => TypeOK
  <1> SUFFICES ASSUME Init
               PROVE  TypeOK
    OBVIOUS
  <1>1. emitted \in Seq(Logs)
    <2>1. Emittable[event] \subseteq Logs
      BY BindingAssumption DEF BindingAssumption, Init
    <2>2. emitted \in Seq(Emittable[event])
      <3>1. CASE consumer = "iterator"
        <4>1. emitted \in BoundedSeq(Emittable[event], MaxLogs)
          BY <3>1 DEF Init
        <4>2. PICK m \in 0 .. MaxLogs : emitted \in [1 .. m -> Emittable[event]]
          BY <4>1 DEF BoundedSeq, SeqOf
        <4>3. m \in Nat
          BY BindingAssumption DEF BindingAssumption
        <4> QED BY <4>2, <4>3, SeqDef
      <3>2. CASE consumer # "iterator"
        BY <3>2 DEF Init
      <3> QED BY <3>1, <3>2
    <2> QED BY <2>1, <2>2
  <1>2. Len(emitted) \in Nat
    BY <1>1, LenProperties
  <1>3. 0 \in 0 .. Len(emitted)
    BY <1>2
  <1>4. << >> \in Seq(1 .. Len(emitted)) /\ Len(<< >>) = 0
    BY EmptySeq
  <1>5. 0 <= Capacity
    BY BindingAssumption DEF BindingAssumption
  <1> QED BY <1>1, <1>3, <1>4, <1>5 DEF Init, TypeOK

LEMMA TypeStep ==
    ASSUME TypeOK, ControlInv, [Next]_vars
    PROVE  TypeOK'
  <1> USE DEF TypeOK
  <1>1. Len(emitted) \in Nat /\ Len(logs) \in Nat /\ Capacity \in Nat
    BY LenProperties, BindingAssumption DEF BindingAssumption
  <1>2. CASE Emit
    <2>1. emitted' \in Seq(Logs) /\ Len(emitted') = Len(emitted) + 1
      BY <1>2, MatchedByEmit
    <2>2. logs \in Seq(1 .. Len(emitted')) /\ got \in Seq(1 .. Len(emitted'))
      BY <1>1, <2>1, WiderSeq
    <2>3. sent \in 0 .. Len(emitted') /\ held \in 0 .. Len(emitted')
      BY <1>1, <2>1
    <2>4. UNCHANGED <<event, wanted, consumer, sent, logs, subErr, subQuit, user,
                      answer, done, fail, watcher, held, quit, got>>
      BY <1>2 DEF Emit, chosen, iterator, watch
    <2> QED BY <2>1, <2>2, <2>3, <2>4
  <1>3. CASE Produce
    <2>1. PICK i \in 1 .. Len(emitted) : logs' = Append(logs, i) /\ sent' = i
      BY <1>3, MatchedByProduce
    <2>2. logs' \in Seq(1 .. Len(emitted)) /\ Len(logs') = Len(logs) + 1
      BY <1>1, <2>1, AppendPosition
    <2>3. Len(logs') <= Capacity
      <3>1. Len(logs) < Capacity
        BY <1>3 DEF Produce
      <3> QED BY <1>1, <2>2, <3>1
    <2>4. sent' \in 0 .. Len(emitted)
      BY <1>1, <2>1
    <2>5. UNCHANGED <<event, wanted, consumer, emitted, subErr, subQuit, user,
                      answer, done, fail, watcher, held, quit, got>>
      BY <1>3 DEF Produce, chosen, iterator, watch
    <2> QED BY <2>2, <2>3, <2>4, <2>5
  <1>4. ASSUME logs # << >>
        PROVE  /\ Head(logs) \in 1 .. Len(emitted)
               /\ Tail(logs) \in Seq(1 .. Len(emitted))
               /\ Len(Tail(logs)) <= Capacity
    <2>1. Len(Tail(logs)) = Len(logs) - 1
      BY <1>1, <1>4, TailPosition
    <2>2. Len(Tail(logs)) <= Capacity
      BY <1>1, <2>1
    <2> QED BY <1>1, <1>4, <2>2, TailPosition
  <1>5. \A i \in 1 .. Len(emitted) : Append(got, i) \in Seq(1 .. Len(emitted))
    BY <1>1, AppendPosition
  <1>6. 0 \in 0 .. Len(emitted) /\ 1 .. Len(emitted) \subseteq 0 .. Len(emitted)
    BY <1>1
  <1>7. CASE SubscriptionEnds \/ SubscriptionFails \/ CallNext \/ Close
    BY <1>7 DEF SubscriptionEnds, SubscriptionFails, CallNext, Close, chosen,
                subscription, iterator, watch
  <1>8. CASE NextStep
    <2>1. CASE NextLog
      <3>1. CASE Unpacks(emitted[Head(logs)])
        BY <1>4, <1>5, <2>1, <3>1 DEF NextLog, Answer, chosen, watch
      <3>2. CASE ~Unpacks(emitted[Head(logs)])
        BY <1>4, <2>1, <3>2 DEF NextLog, Answer, chosen, watch
      <3> QED BY <3>1, <3>2
    <2>2. CASE NextErr
      BY <2>2 DEF NextErr, ReceiveErr, chosen, watch
    <2>3. CASE NextFailed \/ NextExhausted \/ Closed
      BY <2>3 DEF NextFailed, NextExhausted, Closed, Answer, chosen,
                  subscription, iterator, watch
    <2> QED BY <1>8, <2>1, <2>2, <2>3 DEF NextStep
  <1>9. CASE WatchStep
    <2>1. CASE WatchLog
      <3>1. CASE Unpacks(emitted[Head(logs)])
        BY <1>4, <1>6, <2>1, <3>1 DEF WatchLog, chosen, iterator
      <3>2. CASE ~Unpacks(emitted[Head(logs)])
        BY <1>4, <1>6, <2>1, <3>2 DEF WatchLog, Leaves, chosen
      <3> QED BY <3>1, <3>2
    <2>2. CASE WatchErr
      BY <1>6, <2>2 DEF WatchErr, ReceiveErr, Leaves, chosen
    <2>3. CASE WatchQuit
      BY <1>6, <2>3 DEF WatchQuit, Leaves, chosen
    <2>4. CASE WatchReturns \/ Unsubscribed
      BY <2>4 DEF WatchReturns, Unsubscribed, chosen, subscription, iterator, watch
    <2> QED BY <1>9, <2>1, <2>2, <2>3, <2>4 DEF WatchStep
  <1>10. CASE Receive
    <2>1. held \in 1 .. Len(emitted)
      BY <1>1, <1>10 DEF Receive, ControlInv
    <2> QED BY <1>5, <1>6, <1>10, <2>1 DEF Receive, chosen, subscription, iterator
  <1>11. CASE Unsubscribe
    BY <1>11 DEF Unsubscribe, chosen, subscription, iterator
  <1>12. CASE UNCHANGED vars
    BY <1>12 DEF vars
  <1> QED BY <1>2, <1>3, <1>7, <1>8, <1>9, <1>10, <1>11, <1>12 DEF Next

LEMMA InitControl == Init => ControlInv
  BY DEF Init, ControlInv

LEMMA ControlStep ==
    ASSUME TypeOK, ControlInv, [Next]_vars
    PROVE  ControlInv'
  <1>1. ASSUME UNCHANGED <<chosen, emitted, sent>>
        PROVE  Pending' = Pending
    BY <1>1 DEF chosen, Pending, NodeMatches, Rule
  <1>2. logs # << >> => Head(logs) # 0
    <2>1. Len(emitted) \in Nat
      BY Positions
    <2> QED BY <2>1, TailPosition DEF TypeOK
  <1> USE DEF TypeOK, ControlInv
  <1>3. CASE Emit
    BY <1>3 DEF Emit, chosen, iterator, watch
  <1>4. CASE Produce
    BY <1>4 DEF Produce, chosen, iterator, watch
  <1>5. CASE SubscriptionEnds
    BY <1>1, <1>5 DEF SubscriptionEnds, chosen, iterator, watch
  <1>6. CASE SubscriptionFails
    BY <1>6 DEF SubscriptionFails, chosen, iterator, watch
  <1>7. CASE CallNext
    BY <1>1, <1>7 DEF CallNext, chosen, subscription, watch
  <1>8. CASE NextFailed
    BY <1>1, <1>8 DEF NextFailed, Answer, chosen, subscription, watch
  <1>9. CASE NextLog
    BY <1>1, <1>9 DEF NextLog, Answer, chosen, watch
  <1>10. CASE NextErr
    BY <1>1, <1>10 DEF NextErr, ReceiveErr, chosen, watch
  <1>11. CASE NextExhausted
    BY <1>1, <1>11 DEF NextExhausted, Answer, chosen, subscription, watch
  <1>12. CASE Close
    BY <1>12 DEF Close, chosen, iterator, watch
  <1>13. CASE Closed
    BY <1>1, <1>13 DEF Closed, chosen, subscription, iterator, watch
  <1>14. CASE WatchLog
    BY <1>2, <1>14 DEF WatchLog, Leaves, chosen, iterator
  <1>15. CASE WatchErr
    BY <1>15 DEF WatchErr, ReceiveErr, Leaves, chosen
  <1>16. CASE WatchQuit
    BY <1>16 DEF WatchQuit, Leaves, chosen
  <1>17. CASE WatchReturns
    BY <1>17 DEF WatchReturns, chosen, subscription, iterator
  <1>18. CASE Receive
    BY <1>18 DEF Receive, chosen, subscription, iterator
  <1>19. CASE Unsubscribe
    BY <1>19 DEF Unsubscribe, chosen, subscription, iterator
  <1>20. CASE Unsubscribed
    BY <1>20 DEF Unsubscribed, chosen, subscription, iterator, watch
  <1>21. CASE UNCHANGED vars
    BY <1>1, <1>21 DEF vars, chosen
  <1> QED BY <1>3, <1>4, <1>5, <1>6, <1>7, <1>8, <1>9, <1>10, <1>11, <1>12, <1>13,
             <1>14, <1>15, <1>16, <1>17, <1>18, <1>19, <1>20, <1>21
          DEF Next, NextStep, WatchStep
-----------------------------------------------------------------------------
(* What was given, what is held and what is in the channel.                *)

LEMMA InitData == Init => DataInv
  <1> SUFFICES ASSUME Init
               PROVE  DataInv
    OBVIOUS
  <1>1. got = << >> /\ logs = << >> /\ held = 0 /\ sent = 0
    BY DEF Init
  <1>2. DOMAIN got = {} /\ DOMAIN logs = {} /\ Range(got) = {} /\ Range(logs) = {}
    BY <1>1 DEF Range
  <1>3. Matched = {}
    BY <1>1 DEF Matched
  <1> QED BY <1>1, <1>2, <1>3
          DEF DataInv, Ordered, Increasing, Sound, Covered, NoGap

LEMMA DataKept ==
    ASSUME DataInv, UNCHANGED <<chosen, emitted, sent, logs, held, got>>, Alive' => Alive
    PROVE  DataInv'
  <1>1. Matched' = Matched
    BY MatchedKept
  <1> QED BY <1>1 DEF DataInv, Ordered, Increasing, Sound, Covered, NoGap, Unpacks, chosen

\* The goroutine returns, with what it holds and what is in the channel.
LEMMA DataLeft ==
    ASSUME TypeOK, DataInv, UNCHANGED <<chosen, emitted, sent, got>>,
           logs' = logs \/ (logs # << >> /\ logs' = Tail(logs)),
           held' = 0, ~Alive'
    PROVE  DataInv'
  <1>1. Matched' = Matched
    BY MatchedKept
  <1>2. Range(logs') \subseteq Range(logs) /\ Increasing(logs')
    <2>1. CASE logs' = logs
      BY <2>1 DEF DataInv, Ordered, Increasing
    <2>2. CASE logs # << >> /\ logs' = Tail(logs)
      <3>1. Range(Tail(logs)) \subseteq Range(logs) /\ Increasing(Tail(logs))
        BY <2>2, Positions, TailPosition DEF TypeOK, DataInv, Ordered
      <3> QED BY <2>2, <3>1 DEF Increasing
    <2> QED BY <2>1, <2>2
  <1>3. \A q \in Range(logs) : 0 < q
    <2>1. Range(logs) \subseteq 1 .. Len(emitted) /\ Len(emitted) \in Nat
      BY Positions
    <2> QED BY <2>1
  <1>4. Ordered'
    BY <1>2, <1>3 DEF DataInv, Ordered, Increasing
  <1>5. Sound' /\ NoGap' /\ Covered'
    BY <1>1, <1>2 DEF DataInv, Sound, NoGap, Covered, Unpacks, chosen
  <1> QED BY <1>4, <1>5 DEF DataInv

\* Where nothing is lost, the three other parts are enough.
LEMMA DataAlive ==
    ASSUME TypeOK', Ordered', Sound', Covered', Alive'
    PROVE  DataInv'
  <1>1. (TypeOK /\ Ordered /\ Sound /\ Covered /\ Alive => NoGap)'
    BY NothingSkipped, PTL
  <1> QED BY <1>1 DEF DataInv

LEMMA DataByEmit ==
    ASSUME TypeOK, DataInv, Emit
    PROVE  DataInv'
  <1>1. Matched' = Matched /\ \A i \in 1 .. Len(emitted) : emitted'[i] = emitted[i]
    BY MatchedByEmit
  <1>2. UNCHANGED <<event, wanted, sent, logs, fail, watcher, held, got>>
    BY DEF Emit, chosen, iterator, watch
  <1>3. \A i \in 1 .. Len(emitted) : Unpacks(emitted[i]) => Unpacks(emitted[i])'
    BY <1>1, <1>2 DEF Unpacks
  <1>4. held # 0 => held \in 1 .. Len(emitted)
    BY Positions
  <1>5. Sound'
    BY <1>1, <1>2, <1>3, <1>4, Positions DEF DataInv, Sound
  <1>6. Ordered' /\ Covered' /\ NoGap'
    BY <1>1, <1>2 DEF DataInv, Ordered, Increasing, Covered, NoGap, Alive
  <1> QED BY <1>5, <1>6 DEF DataInv

LEMMA DataByProduce ==
    ASSUME TypeOK, DataInv, Produce
    PROVE  DataInv'
  <1>1. PICK i \in 1 .. Len(emitted) : /\ sent < i
                                       /\ logs' = Append(logs, i)
                                       /\ sent' = i
                                       /\ Matched' = Matched \cup {i}
    BY MatchedByProduce
  <1>2. UNCHANGED <<event, wanted, emitted, fail, watcher, held, got>>
    BY DEF Produce, chosen, iterator, watch
  <1>3. i \in Nat /\ sent \in Nat /\ i # 0
    BY Positions
  <1>4. \A j \in Matched : j < i
    <2>1. \A j \in 1 .. sent : j < i
      BY <1>1, <1>3
    <2> QED BY <2>1 DEF Matched
  <1>5. /\ \A j \in Range(got) : j < i
        /\ \A j \in Range(logs) : j < i
        /\ held < i
    <2>1. \A j \in Range(got) : j < i
      BY <1>4 DEF DataInv, Sound
    <2>2. \A j \in Range(logs) : j < i
      BY <1>4 DEF DataInv, Sound
    <2>3. held < i
      <3>1. 0 < i
        BY <1>3
      <3> QED BY <1>4, <3>1 DEF DataInv, Sound
    <2> QED BY <2>1, <2>2, <2>3
  <1>6. Range(logs') = Range(logs) \cup {i} /\ Increasing(logs')
    BY <1>1, <1>5, AppendPosition, Positions DEF TypeOK, DataInv, Ordered
  <1>7. Ordered'
    BY <1>2, <1>5, <1>6 DEF DataInv, Ordered, Increasing
  <1>8. Sound'
    BY <1>1, <1>2, <1>6 DEF DataInv, Sound, Unpacks
  <1>9. Covered'
    BY <1>1, <1>2, <1>6 DEF DataInv, Covered, Alive
  <1>10. NoGap'
    <2>1. ASSUME NEW j \in Matched', NEW p \in Range(got), j <= p
          PROVE  j \in Range(got)
      <3>1. p < i /\ p \in Nat
        BY <1>5, Positions
      <3>2. j # i
        BY <1>3, <2>1, <3>1
      <3> QED BY <1>1, <2>1, <3>2 DEF DataInv, NoGap
    <2> QED BY <1>2, <2>1 DEF NoGap
  <1> QED BY <1>7, <1>8, <1>9, <1>10 DEF DataInv

\* The log the iterator or the goroutine reads.
LEMMA FirstLog ==
    ASSUME TypeOK, DataInv, logs # << >>
    PROVE  /\ Head(logs) \in Matched
           /\ Range(logs) = {Head(logs)} \cup Range(Tail(logs))
           /\ Increasing(Tail(logs))
           /\ \A q \in Range(Tail(logs)) : Head(logs) < q
           /\ \A p \in Range(got) : p < Head(logs)
           /\ Head(logs) # 0
  <1>1. /\ Range(logs) = {Head(logs)} \cup Range(Tail(logs))
        /\ Increasing(Tail(logs))
        /\ \A q \in Range(Tail(logs)) : Head(logs) < q
    BY Positions, TailPosition DEF TypeOK, DataInv, Ordered
  <1>2. Head(logs) \in Range(logs)
    BY <1>1
  <1>3. Head(logs) # 0
    BY <1>2, Positions
  <1> QED BY <1>1, <1>2, <1>3 DEF DataInv, Ordered, Sound

LEMMA DataByNextLog ==
    ASSUME TypeOK, ControlInv, DataInv, NextLog, TypeOK'
    PROVE  DataInv'
  <1>1. UNCHANGED <<chosen, emitted, sent, watcher, held>>
    BY DEF NextLog, watch
  <1>2. logs # << >> /\ logs' = Tail(logs)
    BY DEF NextLog
  <1>3. watcher = "off" /\ held = 0 /\ fail = "nil"
    BY DEF NextLog, ControlInv, TypeOK
  <1>4. CASE Unpacks(emitted[Head(logs)])
    <2>1. got' = Append(got, Head(logs)) /\ fail' = fail
      BY <1>4 DEF NextLog
    <2>2. /\ Range(got') = Range(got) \cup {Head(logs)}
          /\ Increasing(got')
      <3>1. Head(logs) \in 1 .. Len(emitted)
        BY <1>2, Positions, FirstLog
      <3> QED BY <1>2, <2>1, <3>1, FirstLog, AppendPosition, Positions
              DEF TypeOK, DataInv, Ordered
    <2>3. Matched' = Matched
      BY <1>1, MatchedKept
    <2>4. Ordered'
      <3>1. \A q \in Range(Tail(logs)) : held < q
        BY <1>2, FirstLog DEF DataInv, Ordered
      <3>2. \A p \in Range(got'), q \in Range(Tail(logs)) : p < q
        BY <1>2, <2>2, FirstLog DEF DataInv, Ordered
      <3> QED BY <1>1, <1>2, <1>3, <2>2, <3>1, <3>2, FirstLog DEF Ordered, Increasing
    <2>5. Sound'
      BY <1>1, <1>2, <1>3, <1>4, <2>2, <2>3, FirstLog DEF DataInv, Sound, Unpacks, chosen
    <2>6. Alive'
      BY <1>1, <1>3, <2>1 DEF Alive
    <2>7. Covered'
      <3>1. Alive
        BY <1>3 DEF Alive
      <3> QED BY <1>1, <1>2, <2>2, <2>3, <3>1, FirstLog DEF DataInv, Covered
    <2> QED BY <2>4, <2>5, <2>6, <2>7, DataAlive
  <1>5. CASE ~Unpacks(emitted[Head(logs)])
    <2>1. got' = got /\ fail' = "unpack"
      BY <1>5 DEF NextLog
    <2>2. ~Alive'
      BY <2>1 DEF Alive
    <2> QED BY <1>1, <1>2, <1>3, <2>1, <2>2, DataLeft
  <1> QED BY <1>4, <1>5

LEMMA DataByWatchLog ==
    ASSUME TypeOK, ControlInv, DataInv, WatchLog, TypeOK'
    PROVE  DataInv'
  <1>1. watcher = "select" /\ logs # << >> /\ logs' = Tail(logs)
    BY DEF WatchLog
  <1>2. held = 0 /\ fail = "nil"
    BY <1>1 DEF ControlInv
  <1>3. CASE Unpacks(emitted[Head(logs)])
    <2>1. /\ watcher' = "sink" /\ held' = Head(logs) /\ fail' = fail
          /\ UNCHANGED <<chosen, emitted, sent, got>>
      BY <1>3 DEF WatchLog, iterator
    <2>2. Matched' = Matched
      BY <2>1, MatchedKept
    <2>3. Ordered'
      BY <1>1, <2>1, FirstLog DEF DataInv, Ordered, Increasing
    <2>4. Sound'
      BY <1>1, <1>3, <2>1, <2>2, FirstLog DEF DataInv, Sound, Unpacks, chosen
    <2>5. Alive'
      BY <1>2, <2>1 DEF Alive
    <2>6. Covered'
      <3>1. Alive
        BY <1>1, <1>2 DEF Alive
      <3>2. 0 \notin Matched
        BY DEF Matched
      <3> QED BY <1>1, <1>2, <2>1, <2>2, <3>1, <3>2, FirstLog DEF DataInv, Covered
    <2> QED BY <2>3, <2>4, <2>5, <2>6, DataAlive
  <1>4. CASE ~Unpacks(emitted[Head(logs)])
    <2>1. /\ held' = 0 /\ fail' = "unpack"
          /\ UNCHANGED <<chosen, emitted, sent, got>>
      BY <1>4 DEF WatchLog, Leaves
    <2>2. ~Alive'
      BY <2>1 DEF Alive
    <2> QED BY <1>1, <2>1, <2>2, DataLeft
  <1> QED BY <1>3, <1>4

LEMMA DataByReceive ==
    ASSUME TypeOK, ControlInv, DataInv, Receive, TypeOK'
    PROVE  DataInv'
  <1>1. /\ watcher = "sink" /\ watcher' = "select"
        /\ got' = Append(got, held) /\ held' = 0
        /\ UNCHANGED <<chosen, emitted, sent, logs, fail>>
    BY DEF Receive, subscription, iterator
  <1>2. held # 0 /\ fail = "nil" /\ held \in 1 .. Len(emitted)
    <2>1. held # 0 /\ fail = "nil"
      BY <1>1 DEF ControlInv
    <2> QED BY <2>1, Positions
  <1>3. Range(got') = Range(got) \cup {held} /\ Increasing(got')
    BY <1>1, <1>2, AppendPosition, Positions DEF TypeOK, DataInv, Ordered
  <1>4. Matched' = Matched
    BY <1>1, MatchedKept
  <1>5. Ordered'
    <2>1. \A q \in Range(logs) : 0 < q
      BY Positions
    <2> QED BY <1>1, <1>3, <2>1 DEF DataInv, Ordered, Increasing
  <1>6. Sound'
    BY <1>1, <1>2, <1>3, <1>4 DEF DataInv, Sound, Unpacks, chosen
  <1>7. Alive'
    BY <1>1, <1>2 DEF Alive
  <1>8. Covered'
    <2>1. Alive
      BY <1>1, <1>2 DEF Alive
    <2> QED BY <1>1, <1>3, <1>4, <2>1 DEF DataInv, Covered
  <1> QED BY <1>5, <1>6, <1>7, <1>8, DataAlive

LEMMA DataStep ==
    ASSUME TypeOK, ControlInv, DataInv, [Next]_vars, TypeOK'
    PROVE  DataInv'
  <1>1. CASE SubscriptionEnds \/ SubscriptionFails \/ CallNext \/ Close
    BY <1>1, DataKept DEF SubscriptionEnds, SubscriptionFails, CallNext, Close,
                          subscription, iterator, watch, Alive
  <1>2. CASE NextStep
    <2>1. CASE NextErr
      BY <2>1, DataKept DEF NextErr, ReceiveErr, watch, Alive
    <2>2. CASE NextFailed \/ NextExhausted \/ Closed
      BY <2>2, DataKept DEF NextFailed, NextExhausted, Closed, subscription,
                            iterator, watch, Alive
    <2> QED BY <1>2, <2>1, <2>2, DataByNextLog DEF NextStep
  <1>3. CASE WatchStep
    <2>1. CASE WatchErr \/ WatchQuit
      <3>1. ~Alive'
        BY <2>1 DEF WatchErr, WatchQuit, Leaves, Alive
      <3> QED BY <2>1, <3>1, DataLeft DEF WatchErr, WatchQuit, Leaves
    <2>2. CASE WatchReturns
      <3>1. ~Alive'
        BY <2>2 DEF WatchReturns, Alive
      <3> QED BY <2>2, <3>1, DataKept DEF WatchReturns, subscription
    <2>3. CASE Unsubscribed
      BY <2>3, DataKept DEF Unsubscribed, subscription, iterator, watch, Alive
    <2> QED BY <1>3, <2>1, <2>2, <2>3, DataByWatchLog DEF WatchStep
  <1>4. CASE Unsubscribe
    BY <1>4, DataKept DEF Unsubscribe, subscription, iterator, Alive
  <1>5. CASE UNCHANGED vars
    BY <1>5, DataKept DEF vars, chosen, Alive
  <1> QED BY <1>1, <1>2, <1>3, <1>4, <1>5, DataByEmit, DataByProduce, DataByReceive
          DEF Next
-----------------------------------------------------------------------------
LEMMA Inductive == Spec => []EInv
  <1>1. Init => EInv
    BY InitType, InitControl, InitData DEF EInv
  <1>2. EInv /\ [Next]_vars => EInv'
    BY TypeStep, ControlStep, DataStep DEF EInv
  <1> QED BY <1>1, <1>2, PTL DEF Spec

(* Every variable keeps its type: of the bindings' iterators and watches,  *)
(* the channel never holds more logs than it has room for.                 *)
THEOREM TypeCorrect == Spec => []TypeOK
  <1>1. EInv => TypeOK
    BY DEF EInv
  <1> QED BY <1>1, Inductive, PTL

LEMMA WantedIsMatched ==
    ASSUME TypeOK
    PROVE  Wanted = {i \in 1 .. Len(emitted) : NodeMatches(emitted[i])
                                                  /\ Unpacks(emitted[i])}
  <1>1. DOMAIN emitted = 1 .. Len(emitted)
    BY LenProperties DEF TypeOK
  <1>2. \A i \in 1 .. Len(emitted) :
           AskedFor(emitted[i]) <=> NodeMatches(emitted[i]) /\ Unpacks(emitted[i])
    BY Positions, Answers DEF TypeOK
  <1> QED BY <1>1, <1>2 DEF Wanted

(* Next and the sink give the events the caller asked for, in the order of *)
(* the chain, without a repetition and without leaving one out.            *)
THEOREM GivenInOrder == Spec => []InOrder
  <1> SUFFICES ASSUME EInv
               PROVE  InOrder
    BY Inductive, PTL
  <1> USE DEF EInv
  <1>1. \A j, k \in DOMAIN got : j < k => got[j] < got[k]
    BY DEF DataInv, Ordered, Increasing
  <1>2. Range(got) \subseteq Wanted
    <2>1. Matched \subseteq 1 .. Len(emitted)
      BY Positions DEF Matched
    <2> QED BY <2>1, WantedIsMatched DEF DataInv, Sound, Matched
  <1>3. ASSUME NEW i \in Wanted, NEW p \in Range(got), i <= p
        PROVE  i \in Range(got)
    <2>1. p \in 1 .. sent
      BY DEF DataInv, Sound, Matched
    <2>2. i \in 1 .. Len(emitted) /\ NodeMatches(emitted[i])
      BY WantedIsMatched
    <2>3. i \in 1 .. sent
      BY <1>3, <2>1, <2>2, Positions
    <2> QED BY <1>3, <2>2, <2>3 DEF DataInv, NoGap, Matched
  <1> QED BY <1>1, <1>2, <1>3 DEF InOrder

(* Next returns false without an error only after every event was given.   *)
THEOREM EndIsTheEnd == Spec => []CompleteUnlessFailed
  <1>1. EInv => CompleteUnlessFailed
    <2> SUFFICES ASSUME EInv, answer = "false", fail = "nil", subQuit = "no",
                        NEW i \in Wanted
                 PROVE  i \in Range(got)
      BY DEF CompleteUnlessFailed
    <2> USE DEF EInv
    <2>1. /\ consumer = "iterator" /\ watcher = "off" /\ held = 0
          /\ logs = << >> /\ Pending = {}
      BY DEF ControlInv, TypeOK
    <2>2. i \in 1 .. Len(emitted) /\ NodeMatches(emitted[i])
      BY WantedIsMatched
    <2>3. i \in Matched
      <3>1. i \notin sent + 1 .. Len(emitted)
        BY <2>1, <2>2 DEF Pending
      <3>2. i \in 1 .. sent
        BY <2>2, <3>1, Positions
      <3> QED BY <2>2, <3>2 DEF Matched
    <2>4. Range(logs) = {}
      BY <2>1 DEF Range
    <2>5. Matched \subseteq Range(got) \cup {held} \cup Range(logs)
      BY <2>1 DEF DataInv, Covered, Alive
    <2> QED BY <2>1, <2>2, <2>3, <2>4, <2>5
  <1> QED BY <1>1, Inductive, PTL
-----------------------------------------------------------------------------
(* Whoever waits, something can go on: the guard of a fair action holds.   *)

WaitInv ==
    /\ user = "unsubscribe" /\ consumer = "iterator" => subQuit = "yes"
    /\ user = "unsubscribe" /\ consumer = "watch" => quit = "yes"
    /\ watcher = "leaving" => subQuit = "yes"

LEMMA WaitStep ==
    ASSUME TypeOK, ControlInv, WaitInv, [Next]_vars
    PROVE  WaitInv'
  <1> USE DEF TypeOK, ControlInv, WaitInv
  <1>1. CASE Emit \/ Produce \/ SubscriptionEnds \/ SubscriptionFails
    BY <1>1 DEF Emit, Produce, SubscriptionEnds, SubscriptionFails, chosen,
                iterator, watch
  <1>2. CASE CallNext \/ Close
    BY <1>2 DEF CallNext, Close, chosen, subscription, iterator, watch
  <1>3. CASE NextFailed \/ NextExhausted \/ Closed
    BY <1>3 DEF NextFailed, NextExhausted, Closed, Answer, chosen, subscription,
                iterator, watch
  <1>4. CASE NextLog \/ NextErr
    BY <1>4 DEF NextLog, NextErr, ReceiveErr, Answer, chosen, watch
  <1>5. CASE WatchLog \/ WatchErr \/ WatchQuit
    BY <1>5 DEF WatchLog, WatchErr, WatchQuit, ReceiveErr, Leaves, chosen, iterator
  <1>6. CASE WatchReturns \/ Unsubscribed
    BY <1>6 DEF WatchReturns, Unsubscribed, chosen, subscription, iterator, watch
  <1>7. CASE Receive \/ Unsubscribe
    BY <1>7 DEF Receive, Unsubscribe, chosen, subscription, iterator
  <1>8. CASE UNCHANGED vars
    BY <1>8 DEF vars
  <1> QED BY <1>1, <1>2, <1>3, <1>4, <1>5, <1>6, <1>7, <1>8
          DEF Next, NextStep, WatchStep

\* The subscription can deliver a log, or end.
SubscriptionGoesOn ==
    /\ subErr = "open"
    /\ \/ subQuit = "yes"
       \/ consumer = "iterator" /\ Pending = {}
       \/ Len(logs) < Capacity /\ Pending # {}

\* Next, or Close, can return or go around its loop.
IteratorGoesOn ==
    \/ user = "next" /\ (fail # "nil" \/ logs # << >> \/ subErr # "open" \/ done = "yes")
    \/ user = "unsubscribe" /\ consumer = "iterator" /\ subErr # "open"

\* The goroutine of the watch can leave, or has left.
WatchGoesOn ==
    \/ watcher \in {"select", "sink"} /\ quit = "yes"
    \/ watcher = "leaving" /\ subErr # "open"
    \/ watcher = "returned"

NoDeadlock ==
    user \in {"next", "unsubscribe"} =>
        SubscriptionGoesOn \/ IteratorGoesOn \/ WatchGoesOn

(* A call of Next, Close or Unsubscribe never waits for something that     *)
(* waits for the call: also when the channel is full and nobody reads the  *)
(* sink, the subscription, the iterator or the goroutine has a step.       *)
THEOREM CallsAreNotStuck == Spec => []NoDeadlock
  <1>1. Init => WaitInv
    BY DEF Init, WaitInv
  <1>2. TypeOK /\ ControlInv /\ WaitInv /\ [Next]_vars => WaitInv'
    BY WaitStep
  <1>3. EInv => TypeOK /\ ControlInv
    BY DEF EInv
  <1>4. Spec => []WaitInv
    BY <1>1, <1>2, <1>3, Inductive, PTL DEF Spec
  <1>5. ASSUME TypeOK, ControlInv, WaitInv, user \in {"next", "unsubscribe"}
        PROVE  SubscriptionGoesOn \/ IteratorGoesOn \/ WatchGoesOn
    <2>1. CASE user = "next"
      <3>1. consumer = "iterator"
        BY <1>5, <2>1 DEF ControlInv
      <3>2. logs = << >> => Len(logs) < Capacity
        <4>1. Len(<< >>) = 0
          BY EmptySeq
        <4>2. 0 < Capacity
          BY BindingAssumption DEF BindingAssumption
        <4> QED BY <4>1, <4>2
      <3> QED BY <2>1, <3>1, <3>2 DEF SubscriptionGoesOn, IteratorGoesOn
    <2>2. CASE user = "unsubscribe" /\ consumer = "iterator"
      BY <1>5, <2>2 DEF WaitInv, SubscriptionGoesOn, IteratorGoesOn
    <2>3. CASE user = "unsubscribe" /\ consumer = "watch"
      BY <1>5, <2>3 DEF TypeOK, ControlInv, WaitInv, SubscriptionGoesOn, WatchGoesOn
    <2> QED BY <1>5, <2>1, <2>2, <2>3 DEF TypeOK
  <1> QED BY <1>3, <1>4, <1>5, Inductive, PTL DEF NoDeadlock
=============================================================================
