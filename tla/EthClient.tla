------------------------------ MODULE EthClient -----------------------------
(***************************************************************************)
(* The shared Ethereum client (shared/ethereum) with which deployment, the *)
(* tests and the end-to-end tests send transactions from one account.      *)
(* Every operation is a sequence of sections, one transaction each.  All   *)
(* but one are between LockNonceAndUpdate and UnlockNonce; the second      *)
(* transaction of FundErc20Handler increments the nonce of the previous    *)
(* one instead.  An operation that fails after LockNonceAndUpdate returns  *)
(* without UnlockNonce.                                                    *)
(***************************************************************************)
EXTENDS Integers, Sequences, FiniteSets

CONSTANTS Goroutines,    \* callers that share the client
          Programs,      \* what they may call: [Goroutines -> Seq(Operations)]
          ReceiptPolls,  \* WaitForTx: 10
          RpcAnswers,    \* {"ok"}, or {"ok", "error"}
          Nobody         \* the holder of a free lock

\* A section is "locked" or "bumped".
Locked == "locked"
RegisterResource == <<Locked>>
DeployMintApproveErc20 == <<Locked, Locked, Locked>>
DeployAndMintErc20 == <<Locked, Locked>>
Erc20AddMinter == <<Locked>>
FundErc20Handler == <<Locked, "bumped">>
Erc721Mint == <<Locked>>
FundErc721Handler == <<Locked, Locked>>
DeployAssetStore == <<Locked>>
DeployContracts == <<Locked, Locked, Locked, Locked>>
Operations == {RegisterResource, DeployMintApproveErc20, DeployAndMintErc20,
               Erc20AddMinter, FundErc20Handler, Erc721Mint, FundErc721Handler,
               DeployAssetStore, DeployContracts}

ClientAssumption ==
    /\ Programs # {} /\ Programs \subseteq [Goroutines -> Seq(Operations)]
    /\ ReceiptPolls \in Nat \ {0}
    /\ RpcAnswers \in {{"ok"}, {"ok", "error"}}
    /\ IsFiniteSet(Goroutines)
    /\ Nobody \notin Goroutines

VARIABLES
    program,    \* the member of Programs that runs
    pc,         \* [Goroutines -> Pcs]: where in a section
    call,       \* [Goroutines -> Nat]: operations returned from
    section,    \* [Goroutines -> Nat]: sections of the current one behind it
    tx,         \* [Goroutines -> Nat]: the nonce it sends or waits for
    polls,      \* [Goroutines -> Nat]: retries of WaitForTx used
    nonceLock,  \* Goroutines \cup {Nobody}
    optsNonce,  \* client.Opts.Nonce
    mined,      \* transactions of the account in blocks
    pool,       \* the nonces of those that are not
    reverted,   \* transactions that failed on chain
    leaked      \* history: have operations kept the lock?

clientVars == <<pc, call, section, tx, polls, nonceLock, optsNonce>>
chainVars == <<mined, pool, reverted>>
vars == <<program, clientVars, chainVars, leaked>>

Pcs == {"begin", "nonce", "add", "send", "wait"}

Init ==
    /\ program \in Programs
    /\ pc = [g \in Goroutines |-> "begin"]
    /\ call = [g \in Goroutines |-> 0]
    /\ section = [g \in Goroutines |-> 0]
    /\ tx = [g \in Goroutines |-> 0]
    /\ polls = [g \in Goroutines |-> 0]
    /\ nonceLock = Nobody
    /\ optsNonce = 0
    /\ mined = 0
    /\ pool = {}
    /\ reverted = {}
    /\ leaked = "no"

Done(g) == call[g] = Len(program[g])
Operation(g) == program[g][call[g] + 1]
Section(g) == Operation(g)[section[g] + 1]

\* The least nonce from the account's on that no transaction in the pool has.
PendingNonce == CHOOSE n \in mined .. mined + Cardinality(pool) :
                    n \notin pool /\ mined .. n - 1 \subseteq pool

Goto(g, label) == pc' = [pc EXCEPT ![g] = label]

\* The section is over; the operation with its last section, or with an error.
SectionEnds(g, how) ==
    /\ Goto(g, "begin")
    /\ tx' = [tx EXCEPT ![g] = 0]
    /\ polls' = [polls EXCEPT ![g] = 0]
    /\ IF how = "error" \/ section[g] + 1 = Len(Operation(g))
       THEN /\ call' = [call EXCEPT ![g] = @ + 1]
            /\ section' = [section EXCEPT ![g] = 0]
       ELSE /\ section' = [section EXCEPT ![g] = @ + 1]
            /\ UNCHANGED call
-----------------------------------------------------------------------------
(* LockNonceAndUpdate and UnlockNonce.                                     *)

\* mutant of LockIsFree: nothing is locked
NoMutex(g) == TRUE

LockIsFree(g) == nonceLock = Nobody

LockNonce(g) ==
    /\ pc[g] = "begin"
    /\ ~Done(g)
    /\ Section(g) = Locked
    /\ LockIsFree(g)
    /\ nonceLock' = g
    /\ Goto(g, "nonce")
    /\ UNCHANGED <<call, section, tx, polls, optsNonce, chainVars, leaked>>

UpdateNonce(g) ==
    /\ pc[g] = "nonce"
    /\ optsNonce' = PendingNonce
    /\ Goto(g, "send")
    /\ UNCHANGED <<call, section, tx, polls, nonceLock, chainVars, leaked>>

UpdateNonceFails(g) ==
    /\ pc[g] = "nonce"
    /\ "error" \in RpcAnswers
    /\ nonceLock' = Nobody
    /\ SectionEnds(g, "error")
    /\ UNCHANGED <<optsNonce, chainVars, leaked>>

\* After an error the operation returns as it is, with the lock if it has it.
ReturnError(g) ==
    /\ SectionEnds(g, "error")
    /\ leaked' = IF Section(g) = Locked THEN "yes" ELSE leaked
    /\ UNCHANGED <<nonceLock, optsNonce>>

Return(g, how) ==
    /\ SectionEnds(g, how)
    /\ nonceLock' = IF Section(g) = Locked THEN Nobody ELSE nonceLock
    /\ UNCHANGED <<optsNonce, leaked>>
-----------------------------------------------------------------------------
(* FundErc20Handler: Opts.Nonce.Add, without the lock: a read and a write. *)

ReadNonce(g) ==
    /\ pc[g] = "begin"
    /\ ~Done(g)
    /\ Section(g) # Locked
    /\ tx' = [tx EXCEPT ![g] = optsNonce + 1]
    /\ Goto(g, "add")
    /\ UNCHANGED <<call, section, polls, nonceLock, optsNonce, chainVars, leaked>>

WriteNonce(g) ==
    /\ pc[g] = "add"
    /\ optsNonce' = tx[g]
    /\ Goto(g, "send")
    /\ UNCHANGED <<call, section, tx, polls, nonceLock, chainVars, leaked>>
-----------------------------------------------------------------------------
(* A transaction and WaitForTx.                                            *)

\* The node takes a nonce that is neither used nor pending; all transactions
\* have the same gas price, so that none replaces another.
Accepted(n) == n >= mined /\ n \notin pool

Send(g) ==
    /\ pc[g] = "send"
    /\ Accepted(optsNonce)
    /\ pool' = pool \cup {optsNonce}
    /\ tx' = [tx EXCEPT ![g] = optsNonce]
    /\ Goto(g, "wait")
    /\ UNCHANGED <<call, section, polls, nonceLock, optsNonce, mined, reverted, leaked>>

\* A view call or the transaction fails; the reply to the latter may be lost.
SendFails(g) ==
    /\ pc[g] = "send"
    /\ "error" \in RpcAnswers \/ ~Accepted(optsNonce)
    /\ pool' \in {pool, IF Accepted(optsNonce) THEN pool \cup {optsNonce} ELSE pool}
    /\ ReturnError(g)
    /\ UNCHANGED <<mined, reverted>>

Receipt(g) ==
    /\ pc[g] = "wait"
    /\ tx[g] < mined
    /\ IF tx[g] \in reverted THEN ReturnError(g) ELSE Return(g, "mined")
    /\ UNCHANGED chainVars

\* ethereum.NotFound: one poll less; after the last one WaitForTx returns nil.
NotFound(g) ==
    /\ pc[g] = "wait"
    /\ tx[g] >= mined
    /\ IF polls[g] + 1 < ReceiptPolls
       THEN /\ polls' = [polls EXCEPT ![g] = @ + 1]
            /\ UNCHANGED <<pc, call, section, tx, nonceLock, optsNonce, leaked>>
       ELSE Return(g, "timeout")
    /\ UNCHANGED chainVars

ReceiptFails(g) ==
    /\ pc[g] = "wait"
    /\ "error" \in RpcAnswers
    /\ ReturnError(g)
    /\ UNCHANGED chainVars

Mine ==
    /\ mined \in pool
    /\ mined' = mined + 1
    /\ pool' = pool \ {mined}
    /\ reverted' \in {reverted, reverted \cup {mined}}
    /\ UNCHANGED <<program, clientVars, leaked>>

Step(g) ==
    /\ UNCHANGED program
    /\ \/ LockNonce(g)
       \/ UpdateNonce(g)
       \/ UpdateNonceFails(g)
       \/ ReadNonce(g)
       \/ WriteNonce(g)
       \/ Send(g)
       \/ SendFails(g)
       \/ Receipt(g)
       \/ NotFound(g)
       \/ ReceiptFails(g)

Next == Mine \/ \E g \in Goroutines : Step(g)

Spec == Init /\ [][Next]_vars

-----------------------------------------------------------------------------
\* Every variable has its type.
TypeOK ==
    /\ pc \in [Goroutines -> Pcs]
    /\ call \in [Goroutines -> Nat]
    /\ \A g \in Goroutines : call[g] <= Len(program[g])
    /\ section \in [Goroutines -> 0 .. 3]
    /\ tx \in [Goroutines -> Nat]
    /\ polls \in [Goroutines -> 0 .. ReceiptPolls - 1]
    /\ nonceLock \in Goroutines \cup {Nobody}
    /\ optsNonce \in Nat
    /\ mined \in Nat
    /\ pool \subseteq Nat
    /\ reverted \subseteq Nat
    /\ program \in Programs
    /\ leaked \in {"no", "yes"}

Sequential == Cardinality({g \in Goroutines : program[g] # << >>}) <= 1
Bumps(g) == \E i \in DOMAIN program[g] : program[g][i] = FundErc20Handler

\* A transaction is sent with the nonce that is next, over lost replies,
\* time-outs and failed operations: with any number of goroutines unless one
\* funds an ERC20 handler, and with a single one whatever it does.
NonceIsPending ==
    Sequential \/ (\A g \in Goroutines : ~Bumps(g)) =>
        \A g \in Goroutines : pc[g] = "send" => optsNonce = PendingNonce
=============================================================================
