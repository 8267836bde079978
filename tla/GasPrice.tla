------------------------------- MODULE GasPrice ------------------------------
(***************************************************************************)
(* LockAndUpdateOpts in detail (connections/ethereum/connection.go): how   *)
(* the gas price of the next transaction comes about, with the gas station *)
(* it may ask (egs/egs.go).  EthWriter has all of this as the one step     *)
(* UpdateOpts, under optsLock; here one connection repeats it while the    *)
(* chain moves on, possibly past the London upgrade.                       *)
(*                                                                         *)
(* Prices are in units of 10^8 wei, the precision of the gas station, so   *)
(* that Gwei is 10.                                                        *)
(***************************************************************************)
EXTENDS Integers

CONSTANTS Prices,       \* what nodes may suggest, as price, tip or base fee
          StationSpeeds,\* what the gas station answers for the four speeds, in
                        \* tenths of a gwei; one is drawn
          UseStation,   \* egsApiKey # ""
          MinGasPrice, MaxGasPrice,
          MultiplierNum, MultiplierDen,  \* gasMultiplier, a fraction
          RpcAnswers    \* {"ok"}, or {"ok", "error"}

Gwei == 10
None == -1

GasAssumption ==
    /\ Prices \subseteq Nat
    /\ StationSpeeds \subseteq Nat
    /\ UseStation \in BOOLEAN
    /\ MinGasPrice \in Nat /\ MaxGasPrice \in Nat
    /\ MultiplierNum \in Nat /\ MultiplierDen \in Nat \ {0}
    /\ RpcAnswers \in {{"ok"}, {"ok", "error"}}

\* The operator's part of the configuration.
RangeAssumption == MinGasPrice <= MaxGasPrice

VARIABLES
    pc,         \* where LockAndUpdateOpts is; "ready" is after it returned nil
    baseFee,    \* head.BaseFee of the latest block, None before London
    head,       \* the base fee in the header that was read
    suggested,  \* suggestedGasPrice, None while there is none
    gasPrice, gasTipCap, gasFeeCap  \* opts: None is nil

optVars == <<gasPrice, gasTipCap, gasFeeCap>>
vars == <<pc, baseFee, head, suggested, optVars>>

\* Connect: newTransactOpts with the configured maximum.
Init ==
    /\ pc = "unlocked"
    /\ baseFee = None
    /\ head = None
    /\ suggested = None
    /\ gasPrice = MaxGasPrice
    /\ gasTipCap = None
    /\ gasFeeCap = None

\* The next block; after London every block has a base fee.
NewBlock ==
    /\ baseFee' \in Prices
    /\ UNCHANGED <<pc, head, suggested, optVars>>

Goto(label) == pc' = label /\ UNCHANGED baseFee

HeaderByNumber ==
    /\ pc \in {"unlocked", "ready"}
    /\ head' = baseFee
    /\ suggested' = None
    /\ Goto(CASE baseFee # None -> "london"
              [] baseFee = None /\ UseStation -> "station"
              [] OTHER -> "node")
    /\ UNCHANGED optVars

\* An error anywhere unlocks the opts and is returned.
UpdateFails ==
    /\ pc \in {"unlocked", "ready", "node", "nonce"}
    /\ "error" \in RpcAnswers
    /\ Goto("unlocked")
    /\ UNCHANGED <<head, suggested, optVars>>
-----------------------------------------------------------------------------
(* EstimateGasLondon                                                       *)

\* The base fee alone is beyond the limit: pay a tip of one gwei on top of it.
LondonBeyondLimit(tip) == [tip |-> Gwei, cap |-> MaxGasPrice + Gwei]

\* mutant of LondonWithinLimit: the fee is cut, the tip is not
LondonTipKept(tip) ==
    IF tip + 2 * head > MaxGasPrice
    THEN [tip |-> tip, cap |-> MaxGasPrice]
    ELSE [tip |-> tip, cap |-> tip + 2 * head]

\* Twice the base fee and the suggested tip, cut at the limit.
LondonWithinLimit(tip) ==
    IF tip + 2 * head > MaxGasPrice
    THEN [tip |-> MaxGasPrice - head, cap |-> MaxGasPrice]
    ELSE [tip |-> tip, cap |-> tip + 2 * head]

London(tip) == IF MaxGasPrice < head THEN LondonBeyondLimit(tip) ELSE LondonWithinLimit(tip)

\* mutant of EstimateGasLondon: the gas price of the last legacy update stays
EstimateGasLondonKeepsPrice ==
    /\ pc = "london"
    /\ \E tip \in Prices : gasTipCap' = London(tip).tip /\ gasFeeCap' = London(tip).cap
    /\ Goto("nonce")
    /\ UNCHANGED <<head, suggested, gasPrice>>

EstimateGasLondon ==
    /\ pc = "london"
    /\ \E tip \in Prices : gasTipCap' = London(tip).tip /\ gasFeeCap' = London(tip).cap
    /\ gasPrice' = None
    /\ Goto("nonce")
    /\ UNCHANGED <<head, suggested>>

\* SuggestGasTipCap fails, after the results were assigned as nil.
EstimateGasLondonFails ==
    /\ pc = "london"
    /\ "error" \in RpcAnswers
    /\ head <= MaxGasPrice
    /\ gasTipCap' = None /\ gasFeeCap' = None
    /\ Goto("unlocked")
    /\ UNCHANGED <<head, suggested, gasPrice>>
-----------------------------------------------------------------------------
(* SafeEstimateGas                                                         *)

\* parsePrice: at least 1, in the station's unit of 10^8 wei.
ParsePrice(speed) == IF speed < 1 THEN 1 ELSE speed

FetchGasPrice ==
    /\ pc = "station"
    /\ \E speed \in StationSpeeds : suggested' = ParsePrice(speed)
    /\ Goto("limit")
    /\ UNCHANGED <<head, optVars>>

\* The station does not answer: ask the node.
FetchGasPriceFails ==
    /\ pc = "station"
    /\ Goto("node")
    /\ UNCHANGED <<head, suggested, optVars>>

SuggestGasPrice ==
    /\ pc = "node"
    /\ \E price \in Prices : suggested' = price
    /\ Goto("limit")
    /\ UNCHANGED <<head, optVars>>

\* multiplyGasPrice: a product with a float, cut off to an integer.
Multiplied(price) == (price * MultiplierNum) \div MultiplierDen

\* mutant of Limited: the multiplier is applied after the limits
MultipliedLast(price) ==
    Multiplied(IF price < MinGasPrice THEN MinGasPrice
               ELSE IF price > MaxGasPrice THEN MaxGasPrice ELSE price)

Limited(price) ==
    IF Multiplied(price) < MinGasPrice THEN MinGasPrice
    ELSE IF Multiplied(price) > MaxGasPrice THEN MaxGasPrice
    ELSE Multiplied(price)

SafeEstimateGas ==
    /\ pc = "limit"
    /\ gasPrice' = Limited(suggested)
    /\ Goto("nonce")
    /\ UNCHANGED <<head, suggested, gasTipCap, gasFeeCap>>

\* PendingNonceAt, and LockAndUpdateOpts returns nil.
PendingNonceAt ==
    /\ pc = "nonce"
    /\ Goto("ready")
    /\ UNCHANGED <<head, suggested, optVars>>

Next ==
    \/ NewBlock
    \/ HeaderByNumber
    \/ UpdateFails
    \/ EstimateGasLondon
    \/ EstimateGasLondonFails
    \/ FetchGasPrice
    \/ FetchGasPriceFails
    \/ SuggestGasPrice
    \/ SafeEstimateGas
    \/ PendingNonceAt

Spec == Init /\ [][Next]_vars
-----------------------------------------------------------------------------
OptPrices == Nat \cup {None}

\* Every variable has its type; in particular no price is negative.
TypeOK ==
    /\ pc \in {"unlocked", "london", "station", "node", "limit", "nonce", "ready"}
    /\ baseFee \in OptPrices
    /\ head \in OptPrices
    /\ suggested \in OptPrices
    /\ gasPrice \in OptPrices
    /\ gasTipCap \in OptPrices
    /\ gasFeeCap \in OptPrices

\* The opts a transaction is sent with have a gas price or both fee caps, never
\* a mixture, which go-ethereum rejects: over errors in the middle of an update
\* and the London upgrade.
OneKindOfPrice ==
    pc = "ready" =>
        \/ gasPrice # None /\ gasTipCap = None /\ gasFeeCap = None
        \/ gasPrice = None /\ gasTipCap # None /\ gasFeeCap # None

\* A legacy price respects both limits, whatever station, node and multiplier say.
PriceWithinLimits ==
    pc = "ready" /\ gasPrice # None => gasPrice \in MinGasPrice .. MaxGasPrice

\* The tip is never above the fee cap: such a transaction would be rejected.  The
\* fee cap is beyond the limit only when the base fee is, and then by the tip of
\* one gwei; below the limit it always covers the base fee.
FeeCapFollowsLimit ==
    pc = "ready" /\ gasFeeCap # None =>
        /\ gasTipCap <= gasFeeCap
        /\ IF head > MaxGasPrice THEN gasFeeCap = MaxGasPrice + Gwei
                                 ELSE gasFeeCap \in head .. MaxGasPrice
=============================================================================
