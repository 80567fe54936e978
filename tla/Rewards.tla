------------------------------ MODULE Rewards ------------------------------
(***************************************************************************)
(* The whole program: Staking together with the rewards epochs and their   *)
(* claims, which mint PRIME out of nothing but an allocation.              *)
(*                                                                         *)
(* A Merkle root is its contents: the allocations it was built from and    *)
(* the epoch index hashed into every leaf.  That a proof leads to the root *)
(* exactly for the leaves in it is what MerkleProof checks.                *)
(***************************************************************************)
EXTENDS Staking

CONSTANTS
  Indexes,   \* epoch indexes
  Roots,     \* the roots administrators post
  Totals,    \* the totals they pass with them, which nothing reads again
  NoEpoch    \* the epoch PDA of an index does not exist

ASSUME RewardsAssumption ==
  /\ Indexes \subseteq Nat
  /\ Totals \subseteq Nat
  /\ \A r \in Roots : r.epoch \in Indexes /\ r.allocations \subseteq Users \X U64
  /\ NoEpoch \notin [index : Nat, merkle_root : Roots, total : Nat, created_ts : Nat]

VARIABLES
  epoch,         \* the RewardsEpoch account of every index
  claim_record   \* the <<index, user>> whose ClaimRecord PDA exists

rvars == <<vars, epoch, claim_record>>

RewardsEpoch == [index : Indexes, merkle_root : Roots, total : Nat, created_ts : Nat]

RTypeOK ==
  /\ TypeOK
  /\ epoch \in [Indexes -> RewardsEpoch \cup {NoEpoch}]
  /\ \A e \in Indexes : epoch[e] # NoEpoch => epoch[e].index = e
  /\ claim_record \subseteq Indexes \X Users

RInit ==
  /\ Init
  /\ epoch = [e \in Indexes |-> NoEpoch]
  /\ claim_record = {}

HasEpoch(e) == epoch[e] # NoEpoch

(* Defective forms, which a run must reject; no specification uses them.   *)

(* the claim is not recorded, or not looked up *)
ClaimAgain(u, e, acct) == HasEpoch(e) /\ acct \in StakeAccounts /\ OwnerOf[acct] = u

(* the epoch index is left out of the leaf *)
ProvenWithoutIndex(u, amount, e) == <<u, amount>> \in epoch[e].merkle_root.allocations

(* no pause check *)
ClaimWhilePaused(u, e, acct, amount) ==
  /\ HasEpoch(e) /\ <<e, u>> \notin claim_record
  /\ acct \in StakeAccounts /\ OwnerOf[acct] = u
  /\ amount > 0
  /\ <<u, amount>> \in epoch[e].merkle_root.allocations
  /\ MintPrime(acct, amount)
  /\ claim_record' = claim_record \cup {<<e, u>>}
  /\ UNCHANGED <<wylds, frozen, configVars, ticket, now, epoch>>

(* init_if_needed in place of init *)
EpochReposted(k, e) ==
  \E i \in DOMAIN config.rewards_administrators : config.rewards_administrators[i] = k
-----------------------------------------------------------------------------
(* The epoch account is created by the instruction, so an index is posted  *)
(* once; the payer is a listed rewards administrator.                      *)
MayCreateEpoch(k, e) ==
  /\ ~HasEpoch(e)
  /\ \E i \in DOMAIN config.rewards_administrators : config.rewards_administrators[i] = k

CreateRewardsEpoch(k, e, root, total) ==
  /\ MayCreateEpoch(k, e)
  /\ epoch' = [epoch EXCEPT ![e] = [index       |-> e,
                                    merkle_root |-> root,
                                    total       |-> total,
                                    created_ts  |-> now]]
  /\ UNCHANGED <<vars, claim_record>>

(* The claim record is created by the instruction, so it must not exist.   *)
ClaimAccounts(u, e, acct) ==
  /\ HasEpoch(e)
  /\ <<e, u>> \notin claim_record
  /\ acct \in StakeAccounts
  /\ OwnerOf[acct] = u

(* The leaf is hashed from the signer, the amount and the index in the     *)
(* epoch account.                                                          *)
Proven(u, amount, e) ==
  /\ epoch[e].merkle_root.epoch = epoch[e].index
  /\ <<u, amount>> \in epoch[e].merkle_root.allocations

ClaimRewards(u, e, acct, amount) ==
  /\ ClaimAccounts(u, e, acct)
  /\ ~config.paused
  /\ amount > 0
  /\ Proven(u, amount, e)
  /\ MintPrime(acct, amount)
  /\ claim_record' = claim_record \cup {<<e, u>>}
  /\ UNCHANGED <<wylds, frozen, configVars, ticket, now, epoch>>

RewardsNext ==
  \/ \E k \in Admins, e \in Indexes, root \in Roots, total \in Totals :
       CreateRewardsEpoch(k, e, root, total)
  \/ \E u \in Users, e \in Indexes, acct \in StakeAccounts, n \in Amounts :
       ClaimRewards(u, e, acct, n)

RNext ==
  \/ Next /\ UNCHANGED <<epoch, claim_record>>
  \/ RewardsNext

RSpec == RInit /\ [][RNext]_rvars
-----------------------------------------------------------------------------
(* Properties                                                              *)

(* The most a user can be due for an epoch: the greatest of the user's      *)
(* allocations, for a root built for that very index.                       *)
Entitlement(e, u) ==
  Max({0} \cup {a \in U64 : HasEpoch(e) /\ epoch[e].merkle_root.epoch = e
                               /\ <<u, a>> \in epoch[e].merkle_root.allocations})

(* All PRIME in circulation is accounted for: by wYLDS in the vaults and by *)
(* one entitlement per claim record, even for a user who appears twice in   *)
(* an epoch or presents a proof from another one (account_structs.rs:       *)
(* 412-419, processor.rs:376-380, 411-431).                                 *)
SupplyAccounted ==
  supply <= VaultBalance + MapThenSumSet(LAMBDA c : Entitlement(c[1], c[2]), claim_record)

(* PRIME comes into being in two ways: against an equal amount of wYLDS, or *)
(* against a claim record that did not exist, for exactly one allocation    *)
(* of its owner in a root of that epoch (processor.rs:110-129, 411-431).    *)
MintIsCovered ==
  LET n == supply' - supply IN
  n > 0 =>
    \/ \E v \in Vaults : wylds'[v] = wylds[v] + n
    \/ \E e \in Indexes, u \in Users :
         /\ <<e, u>> \notin claim_record
         /\ claim_record' = claim_record \cup {<<e, u>>}
         /\ epoch[e].merkle_root.epoch = e
         /\ <<u, n>> \in epoch[e].merkle_root.allocations

MintCovered == [][MintIsCovered]_rvars

(* A posted epoch is final and a claim stays claimed: no administrator can  *)
(* replace a root users already claimed against, and no pause, redemption   *)
(* or change of administrators opens a claim again (README.md:37,           *)
(* account_structs.rs:390-397, 412-419).                                    *)
KeepsEpochs ==
  /\ \A e \in Indexes : HasEpoch(e) => epoch'[e] = epoch[e]
  /\ claim_record \subseteq claim_record'

EpochsFinal == [][KeepsEpochs]_rvars
=============================================================================
