---------------------------- MODULE BridgeContract ---------------------------
(***************************************************************************)
(* The bridge contract on the destination chain, as the writer depends on  *)
(* it: GetProposal and HasVotedOnProposal read status and votes, a mined   *)
(* VoteProposal or ExecuteProposal transaction changes them.  The contract *)
(* is not in the repository (bindings/ is generated); this is what         *)
(* chains/ethereum/writer_methods.go and its tests expect of it: proposals *)
(* are keyed by deposit and data hash, a vote that reaches the threshold   *)
(* also executes the proposal, and it stays Passed when its handler fails. *)
(***************************************************************************)
EXTENDS Integers, FiniteSets

CONSTANTS Relayers,            \* the relayers the contract accepts
          Messages,            \* deposits: source domain and nonce
          Hashes,              \* data hashes
          Threshold,           \* votes a proposal needs to pass
          Expires,             \* proposals may expire
          MaxHandlerFailures   \* bound: how often a handler reverts

ASSUME ContractAssumption ==
    /\ IsFiniteSet(Relayers)
    /\ Threshold \in Nat \ {0}
    /\ Expires \in BOOLEAN
    /\ MaxHandlerFailures \in Nat

VARIABLES status,          \* [Proposals -> Statuses]
          votes,           \* [Proposals -> SUBSET Relayers]
          handlerFailures  \* handler executions that have reverted

contractVars == <<status, votes, handlerFailures>>

Proposals == Messages \X Hashes
Statuses == {"inactive", "active", "passed", "executed", "cancelled"}

ContractInit ==
    /\ status = [p \in Proposals |-> "inactive"]
    /\ votes = [p \in Proposals |-> {}]
    /\ handlerFailures = 0

HandlerSucceeds(p) ==
    /\ status' = [status EXCEPT ![p] = "executed"]
    /\ UNCHANGED handlerFailures

HandlerReverts(p) ==
    /\ handlerFailures < MaxHandlerFailures
    /\ status' = [status EXCEPT ![p] = "passed"]
    /\ handlerFailures' = handlerFailures + 1

\* A Passed proposal only; with revertOnFail a failure undoes the transaction.
ExecuteProposal(p) ==
    /\ IF status[p] = "passed"
       THEN HandlerSucceeds(p) \/ HandlerReverts(p)
       ELSE UNCHANGED <<status, handlerFailures>>
    /\ UNCHANGED votes

\* The vote is counted, and the one that reaches the threshold executes.
CountVote(r, p) ==
    /\ status[p] \in {"inactive", "active"}
    /\ r \notin votes[p]
    /\ votes' = [votes EXCEPT ![p] = @ \cup {r}]
    /\ IF Cardinality(votes[p] \cup {r}) >= Threshold
       THEN HandlerSucceeds(p) \/ HandlerReverts(p)
       ELSE /\ status' = [status EXCEPT ![p] = "active"]
            /\ UNCHANGED handlerFailures

\* A vote that comes after the expiry cancels the proposal instead.
VoteExpired(r, p) ==
    /\ Expires
    /\ status[p] = "active"
    /\ r \notin votes[p]
    /\ status' = [status EXCEPT ![p] = "cancelled"]
    /\ UNCHANGED <<votes, handlerFailures>>

VoteReverts(r, p) ==
    /\ \/ status[p] \in {"executed", "cancelled"}
       \/ status[p] = "active" /\ r \in votes[p]
    /\ UNCHANGED contractVars

VoteProposal(r, p) ==
    \/ CountVote(r, p)
    \/ VoteExpired(r, p)
    \/ VoteReverts(r, p)
    \/ status[p] = "passed" /\ ExecuteProposal(p)

\* Anyone may cancel a proposal that has expired.
CancelProposal(p) ==
    /\ Expires
    /\ status[p] \in {"active", "passed"}
    /\ status' = [status EXCEPT ![p] = "cancelled"]
    /\ UNCHANGED <<votes, handlerFailures>>
=============================================================================
