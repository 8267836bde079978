---------------------------- MODULE SubstrateNode ----------------------------
(***************************************************************************)
(* A Substrate chain with the bridge pallet, as the relayer's connection   *)
(* depends on it (external: neither the node nor the pallet is in the      *)
(* repository).  Storage is read at the best block; an extrinsic names its *)
(* nonce and the runtime it was signed for; the node includes an account's *)
(* extrinsics in nonce order and keeps one whose turn has not come.  A     *)
(* vote is stored under the deposit and the encoded call, and the call     *)
(* depends on the runtime whose metadata encoded it.                       *)
(***************************************************************************)
EXTENDS Integers, FiniteSets

CONSTANTS Relayers,        \* the accounts of the relayers
          Messages,        \* deposits: source chain and nonce
          Threshold,       \* votes that approve a proposal
          MaxUpgrades,     \* bound: runtime upgrades
          MaxDrops,        \* bound: extrinsics the nodes forget
          MaxRetractions   \* bound: blocks that are retracted

ASSUME NodeAssumption ==
    /\ IsFiniteSet(Relayers)
    /\ Threshold \in Nat \ {0}
    /\ MaxUpgrades \in Nat
    /\ MaxDrops \in Nat
    /\ MaxRetractions \in Nat

VARIABLES runtime,      \* Nat: the version of the runtime
          accountNonce, \* [Relayers -> Nat]: System.Account at the best block
          pool,         \* [Relayers -> SUBSET Extrinsics]
          voters,       \* [Proposals -> SUBSET Relayers]: ChainBridge.Votes
          best,         \* what the best block did, while it may be retracted
          drops,        \* extrinsics the nodes forgot
          retractions,  \* blocks that were retracted
          lost          \* history: has a nonce been lost with its extrinsic?

nodeVars == <<runtime, accountNonce, pool, voters, best, drops, retractions, lost>>

Versions == 0 .. MaxUpgrades
Proposals == Messages \X Versions
Extrinsics == [nonce : Nat, spec : Versions, proposal : Proposals]
NoBlock == [relayer |-> "none"]

NodeInit ==
    /\ runtime = 0
    /\ accountNonce = [r \in Relayers |-> 0]
    /\ pool = [r \in Relayers |-> {}]
    /\ voters = [p \in Proposals |-> {}]
    /\ best = NoBlock
    /\ drops = 0
    /\ retractions = 0
    /\ lost = "no"

Approved(p) == Cardinality(voters[p]) >= Threshold

PoolHas(r, n) == \E e \in pool[r] : e.nonce = n

\* The node takes an extrinsic that is signed for its runtime, with a nonce
\* that is neither used nor pending; it may be one whose turn has not come.
Acceptable(r, n, spec) ==
    /\ spec = runtime
    /\ n >= accountNonce[r]
    /\ ~PoolHas(r, n)

AddToPool(r, e) == pool' = [pool EXCEPT ![r] = @ \cup {e}]

\* acknowledge_proposal counts a vote, or is in the block as a failed dispatch.
Acknowledge(r, p) ==
    IF Approved(p) THEN UNCHANGED voters
                   ELSE voters' = [voters EXCEPT ![p] = @ \cup {r}]

\* A block with the extrinsic whose turn it is; it finalises the one before.
Include(r, e) ==
    /\ e \in pool[r]
    /\ e.nonce = accountNonce[r]
    /\ e.spec = runtime
    /\ accountNonce' = [accountNonce EXCEPT ![r] = @ + 1]
    /\ pool' = [pool EXCEPT ![r] = @ \ {e}]
    /\ Acknowledge(r, e.proposal)
    /\ best' = IF retractions < MaxRetractions
               THEN [relayer |-> r, extrinsic |-> e, voters |-> voters[e.proposal]]
               ELSE NoBlock
    /\ UNCHANGED <<runtime, drops, retractions, lost>>

\* The best block is retracted: its extrinsic is pending again.
Retract ==
    /\ retractions < MaxRetractions
    /\ best # NoBlock
    /\ accountNonce' = [accountNonce EXCEPT ![best.relayer] = @ - 1]
    /\ AddToPool(best.relayer, best.extrinsic)
    /\ voters' = [voters EXCEPT ![best.extrinsic.proposal] = best.voters]
    /\ best' = NoBlock
    /\ retractions' = retractions + 1
    /\ UNCHANGED <<runtime, drops, lost>>

\* The node forgets an extrinsic: the pool is full, or the node restarts.
Drop(r, e) ==
    /\ drops < MaxDrops
    /\ e \in pool[r]
    /\ pool' = [pool EXCEPT ![r] = @ \ {e}]
    /\ drops' = drops + 1
    /\ lost' = "yes"
    /\ UNCHANGED <<runtime, accountNonce, voters, best, retractions>>

\* An extrinsic signed for an earlier runtime has become invalid.
Invalidate(r, e) ==
    /\ e \in pool[r]
    /\ e.spec # runtime
    /\ pool' = [pool EXCEPT ![r] = @ \ {e}]
    /\ lost' = "yes"
    /\ UNCHANGED <<runtime, accountNonce, voters, best, drops, retractions>>

\* A runtime upgrade, in a final block of its own.
Upgrade ==
    /\ runtime < MaxUpgrades
    /\ runtime' = runtime + 1
    /\ best' = NoBlock
    /\ UNCHANGED <<accountNonce, pool, voters, drops, retractions, lost>>
=============================================================================
