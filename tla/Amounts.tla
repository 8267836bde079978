------------------------------- MODULE Amounts -------------------------------
(***************************************************************************)
(* The amount of an ERC20 transfer on its way: from the calldata of the    *)
(* deposit (shared/ethereum/deposit.go) through the decimals of the two    *)
(* tokens (handleErc20DepositedEvent, chains/ethereum/events.go) into the  *)
(* data of the proposal (chains/ethereum/proposal_data.go).                *)
(*                                                                         *)
(* The token of the source chain is locked by its handler, the one of the  *)
(* destination chain is minted and burned.  Transfers go both ways, and    *)
(* are relayed in any order.  The two chains are configured alike: what is *)
(* divided in one direction is multiplied in the other.                    *)
(***************************************************************************)
EXTENDS Integers, FiniteSets, FiniteSetsExt

CONSTANTS Base,          \* of the decimals (events.go: 10)
          Differences,   \* decimals of the source token less those of the other
          MaxInt,        \* the greatest int64
          MaxUint,       \* the greatest uint256
          Supply,        \* source tokens there are
          MaxTransfers   \* bound: deposits

Abs(n) == IF n < 0 THEN -n ELSE n

\* The last two say of powers what the provers do not know.
AmountsAssumption ==
    /\ Base \in Nat \ {0, 1}
    /\ Differences \subseteq Int
    /\ {MaxInt, MaxUint, Supply, MaxTransfers} \subseteq Nat \ {0}
    /\ Base ^ 0 = 1
    /\ \A d \in Differences : Base ^ Abs(d) \in Nat \ {0}

VARIABLES difference, \* the one in use
          wallets,    \* source tokens the users hold
          locked,     \* source tokens the handler holds
          minted,     \* destination tokens the users hold
          inFlight,   \* deposits that have not been executed
          deposits,   \* how many there were
          executed,   \* history: how many were executed
          stuck       \* history: the value of those that never can be

vars == <<difference, wallets, locked, minted, inFlight, deposits, executed, stuck>>

Init ==
    /\ difference \in Differences
    /\ wallets = Supply
    /\ locked = 0
    /\ minted = 0
    /\ inFlight = {}
    /\ deposits = 0
    /\ executed = 0
    /\ stuck = 0
-----------------------------------------------------------------------------
\* int64(math.Pow(10, ...)), and Bytes, which drops the sign: exact as long as
\* it fits; beyond, the least or the greatest int64, as the processor has it.
Multipliers(n) ==
    IF Base ^ n <= MaxInt THEN {Base ^ n} ELSE {MaxInt, MaxInt + 1}

\* mutants of Convert: rounded up; one decimal too many
ConvertUp(amount, d, k) == IF d > 0 THEN (amount + k - 1) \div k ELSE amount * k
ConvertTwice(amount, d, k) == IF d > 0 THEN amount \div (k * Base) ELSE amount * k

\* Fewer decimals at the destination: divide, and drop the remainder.
Convert(amount, d, k) == IF d > 0 THEN amount \div k ELSE amount * k

\* The decimals of the chain a deposit is made on less those of the other.
Lost(from) == IF from = "source" THEN difference ELSE -difference

Deposit(from, amount) ==
    /\ deposits < MaxTransfers
    /\ deposits' = deposits + 1
    /\ inFlight' = inFlight \cup {[id |-> deposits + 1, from |-> from, amount |-> amount]}
    /\ UNCHANGED <<difference, executed, stuck>>

\* The handler takes the tokens: locks those of the source chain ...
Lock(amount) ==
    /\ amount <= wallets
    /\ wallets' = wallets - amount
    /\ locked' = locked + amount
    /\ UNCHANGED minted
    /\ Deposit("source", amount)

\* ... and burns those of the destination chain.
Burn(amount) ==
    /\ amount <= minted
    /\ minted' = minted - amount
    /\ UNCHANGED <<wallets, locked>>
    /\ Deposit("destination", amount)

\* Finest units in a token of either chain.
Coarse == Base ^ Abs(difference)
Unit(from) == IF (from = "source") = (difference < 0) THEN Coarse ELSE 1

Executes(m) ==
    /\ inFlight' = inFlight \ {m}
    /\ executed' = executed + 1
    /\ UNCHANGED <<difference, deposits>>

Mint(m, amount) ==
    /\ m.from = "source"
    /\ amount <= MaxUint
    /\ minted' = minted + amount
    /\ UNCHANGED <<wallets, locked, stuck>>
    /\ Executes(m)

\* The handler pays out what it holds; otherwise the proposal stays passed.
Release(m, amount) ==
    /\ m.from = "destination"
    /\ amount <= MaxUint
    /\ amount <= locked
    /\ locked' = locked - amount
    /\ wallets' = wallets + amount
    /\ UNCHANGED <<minted, stuck>>
    /\ Executes(m)

\* More than 32 bytes are not cut but push the recipient out of its place: the
\* handler cannot execute the proposal.
Malformed(m, amount) ==
    /\ amount > MaxUint
    /\ stuck' = stuck + m.amount * Unit(m.from)
    /\ UNCHANGED <<wallets, locked, minted>>
    /\ Executes(m)

Relay ==
    \E m \in inFlight : \E k \in Multipliers(Abs(difference)) :
        LET amount == Convert(m.amount, Lost(m.from), k) IN
        Mint(m, amount) \/ Release(m, amount) \/ Malformed(m, amount)

Next ==
    \/ \E amount \in 1 .. Supply : Lock(amount)
    \/ \E amount \in 1 .. MaxUint : Burn(amount)
    \/ Relay

Spec == Init /\ [][Next]_vars
-----------------------------------------------------------------------------
\* Every variable has its type; the handler never owes more than it holds.
TypeOK ==
    /\ difference \in Differences
    /\ wallets \in 0 .. Supply
    /\ locked \in 0 .. Supply
    /\ minted \in Nat
    /\ \A m \in inFlight : m.amount \in Nat \ {0}
    /\ executed \in 0 .. deposits
    /\ stuck \in Nat

\* In finest units: what was given up less what was, or still is to be, given.
Loss ==
    locked * Unit("source") - minted * Unit("destination")
        - MapThenSumSet(LAMBDA m : m.amount * Unit(m.from), inFlight)

Exact == Coarse <= MaxInt

\* Every token of the destination chain, and every transfer under way, is
\* backed by tokens the source handler holds, in whatever order transfers in
\* both directions are relayed: as long as the multiplier fits an int64.
Backed == Exact => Loss >= 0

\* A transfer loses less than a unit of the coarser token, unless its amount
\* does not fit 32 bytes.
LossIsBounded ==
    Exact => Loss <= executed * (Coarse - 1) + stuck
=============================================================================
