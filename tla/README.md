# A verification project for the Hastra vault stake program

The program (`programs/hastra-sol-vault-stake`) is a Solana/Anchor program for
liquid staking: users deposit wYLDS into a vault and receive PRIME, and come
back to wYLDS in two steps, `unbond` and `redeem`. Administrators freeze token
accounts and post rewards epochs, from which users claim PRIME with a Merkle
proof. This directory holds TLA+ modules that model it, TLC configurations that
check them on small instances, and proofs checked by TLAPS.

Paths below are relative to the repository; `processor.rs` and the other Rust
files are in `programs/hastra-sol-vault-stake/src/`.

## 1. Inventory

| Part | State | Operations | Hard behaviour |
|---|---|---|---|
| Config and administration (`processor.rs:11-99, 231-277`, `state.rs:7-21`) | the one `Config` account: mints, unbonding period, two lists of administrators, `paused` | `initialize`, `pause`, `update_config`, `update_freeze_administrators`, `update_rewards_administrators` | changes while tickets run; the order of assignment and event |
| Upgrade-authority guard (`guard.rs`) | the loader's `ProgramData` account (external) | checked by every administrative instruction | the authority can be dropped for good |
| Staking core (`processor.rs:101-227`) | one `UnbondingTicket` per user, the token accounts | `deposit`, `unbond`, `redeem` | tickets lock nothing, vaults are shared, the period is read at redeem time |
| Freezing (`processor.rs:280-349`) | the frozen state of token accounts | `freeze_token_account`, `thaw_token_account` | races with tickets; separate lists |
| Rewards (`processor.rs:351-442`) | `RewardsEpoch` per index, `ClaimRecord` per epoch and user | `create_rewards_epoch`, `claim_rewards` | double claims, roots of other epochs, PRIME without wYLDS |
| Merkle tree (`scripts/cryptolib.ts`, `claim_rewards.ts`, `processor.rs:375-414`) | a tree off chain, a running hash on chain | build, prove, fold | padding with nothing, zero siblings |
| SPL Token (external) | balances, supply, authorities | transfer, mint, burn, freeze, thaw | failure rolls the instruction back |
| Deployment (`scripts/config.sh`, `initialize.ts`) | history file, program ids, authorities of mints and accounts | the options of a menu | separate transactions, stale variables, interrupted hand-over |
| Client scripts (`scripts/deposit.ts`, `unbond.ts`, `redeem.ts`, `claim_rewards.ts`, `create_rewards_epoch.ts`, `pause.ts`, `freeze_account.ts`, `thaw_account.ts`, `update_*.ts`) | none of their own; the transactions under way | build, sign and send one instruction | late, lost, expired and repeated transactions; a proof made from a file |
| Metaplex registration (`register_meta.ts`, `config.sh:225-262`) | the metadata of the mint (external) | create, update | needs the authority that another option hands over |
| Tests, build files | none that the program depends on | | |

How they meet: every instruction reads `Config`; `deposit`, `redeem` and
`claim_rewards` call the token program with PDAs as authorities; `redeem`
consumes the ticket `unbond` made; `claim_rewards` reads the epoch
`create_rewards_epoch` made and leaves a claim record. Users reach the same
token accounts without the program, and the clock runs by itself. Solana
serialises transactions that write the same account and undoes a failed one, so
an instruction is atomic (the runtime's undoing is taken for granted here and not
tested); all the concurrency is in the order of instructions
of different signers, and that is what the models leave open. A script waits for
its transaction only so long, and the transaction may be executed after the
script has given up and was run again: `Clients` has the transactions under way
between a script and the program.

What makes each part correct: no PRIME without wYLDS or an allocation behind
it; no wYLDS out of a vault but for a ticket that waited; a ticket is neither
lost nor doubled; a pause stops the program and loses nothing; an epoch is final
and is claimed once; the client's proofs and the program's check agree; an
unbond or a redeem repeated because the first was slow has its effect once, as
long as every legal period is longer than a transaction lives (`LongPeriods`),
and a claim in any case, by its claim record; who is allotted a reward is paid in
the end; an initialized program has its vault and, once it takes deposits,
keeps it. Nothing makes a deposit repeatable: `deposit.ts` run again because the
first was slow deposits twice, for twice the PRIME, and the models allow it.

## 2. Modules

| Module | Models | Extends |
|---|---|---|
| `SplToken` | the token program as the handlers rely on it: balances `prime` and `wylds`, `supply`, the `frozen` accounts | |
| `StakeConfig` | the config account, the guard, the administrative instructions, the loader's authority | |
| `StakeConfigEvents` | `StakeConfig` with the event of `update_config` | `StakeConfig` |
| `Staking` | deposit, unbond, redeem, freeze, thaw; users that send, burn and give tokens; the clock | `SplToken`, `StakeConfig` |
| `LiquidStaking` | the abstract specification: shares one to one against a pool, one request per user, a wait, one payout | |
| `StakingHistory` | `Staking` with the vaults' running total and the payouts per user; the refinement of `LiquidStaking` | `Staking` |
| `StakingDocs` | `Staking` with what is needed to state a sentence of the documentation | `Staking` |
| `Rewards` | the whole program: `Staking` with epochs and claims | `Staking` |
| `Clients` | the client scripts, and what becomes of the transactions they send; the whole program behind them | `Rewards` |
| `MerkleProof` | tree, proof and fold, one step per loop iteration | |
| `Deployment` | the menu of `config.sh`, `initialize.ts` and `initialize` | |
| `TokenMetadata` | the deployment with the Metaplex options of the menu and `register_meta.ts` | `Deployment` |
| `SumTheorems` | induction, and sums over finite sets from the definition of the fold | TLAPS |
| `StakingProofs`, `StakingHistoryProofs`, `RewardsProofs`, `ClientsProofs` | theorems | their module and `SumTheorems`, directly or through one another |
| `MerkleTheorems` | theorems about `MerkleProof` | `MerkleProof`, `SumTheorems` |
| `DeploymentProofs`, `TokenMetadataProofs` | theorems | their module and TLAPS |
| `MC*` | the instances TLC checks | |

### How state and actions correspond to the code

- A token account is a constant with an owner (`OwnerOf`); its balance, and
  whether it is frozen, are variables. Every wYLDS account owned by the vault
  authority is a vault account (`Vaults`), since `Config` stores the mint of the
  vault and not the account (`account_structs.rs:103-109`).
- `config` has the mutable fields of `Config`. `config.vault`, `config.mint` and
  `config.bump` never change after `initialize`: they are the split of the
  accounts into `StakeAccounts` and `WyldsAccounts`. That a program keeps them
  is `OpenForGood` of `Deployment`.
- `ticket[u]` is the PDA with the seeds `["ticket", u]`; `NoTicket` is an
  account that does not exist. `init` is the guard `~HasTicket(u)`, `close` the
  assignment of `NoTicket`.
- For each Anchor account struct there is an operator with its constraints
  (`DepositAccounts`, `UnbondAccounts`, `RedeemAccounts`, `ClaimAccounts`,
  `MayCreateEpoch`, `InitializeAccounts`); the handler's checks follow in the
  handler's order, then the token calls with their own failure conditions. An
  instruction that fails is a step that does not happen.
- What is left out of an action: events (but for `UnbondingPeriodUpdated`), log
  messages, rent, the signer seeds, and checks that are implied by the shape of
  the state (a PRIME account has the mint `config.mint`).
- Token delegates are not modelled apart: what a delegate does to an account is
  something its owner may do too.
- A Merkle root in `Rewards` is its contents, a set of allocations with the
  index hashed into its leaves. `MerkleProof` is the reason this is sound: the
  client's proof leads to the root for what is in the tree, and no proof leads
  there for anything else; both are proved. In it, sha256
  is a free constructor: hashes are equal only for equal inputs. Padding is the
  empty buffer of `cryptolib.ts:8`, which vanishes in a concatenation; as a sibling
  it is an empty array, for which the client's fixed-length encoder leaves the
  32 bytes zero.
- In `Deployment` a PDA is named by its program. The variables of the history
  file survive failed options, as they do in the script.
- In `Clients` a script is an operator that gives the transaction it signs
  (`UnbondScript`, `ClaimRewardsScript`, ...); a `Run...` action puts it among
  the transactions under way (`flight`). From there it is executed once as the
  instruction of the program it names (`Land`), or it is gone: it fails or is
  lost (`Drop`), or its blockhash is too old (`Pass`, after `Lifetime`). Between
  the signing and the execution anything may happen, a second run of the same
  script included. Which accounts a script can name is part of it: the freeze,
  thaw and claim scripts derive the associated account (`Associated`), the
  others are given theirs. A run that throws before it sends, and one that only
  prints, leaves nothing. `opened` is history: when a user's last ticket was
  opened.
- An allocation file is how often it lists each user and amount; `Root` is its
  tree and `Total` the sum the script posts. A proof is the tree it was taken
  from, or empty; `ProofOf` says when it leads to a root, as in `MerkleProof`.
- In `TokenMetadata` the metadata of a mint is the name in it. The metadata
  program creates it for the authority of the mint and lets its creator update
  it. A name that is undefined is written as the empty one.

## 3. Runs

| Run | Instance | What it shows |
|---|---|---|
| `staking` | two users, one with two PRIME accounts, two vault accounts, three wYLDS, periods 1 and 2 (0 and 3 are tried and refused), clock to 2 | PRIME is backed, all open tickets together are within the vaults, tickets are stable, payouts from either vault account are covered, the pause stops everything |
| `staking_live` | fair clock, fair users, one vault account; lists of none to two administrators, freezable PRIME, an issuer that freezes the vault, an authority that may be dropped | `PatientUserIsPaid`, `NoWayBack` |
| `staking_history` | two vault accounts, two users | the refinement of `LiquidStaking`, and the invariants its proof uses |
| `rewards` | one vault account, two epochs; a root in order and one that lists a user twice; either may be posted under either index | supply is accounted for, mints are covered, epochs are final, the pause stops claims |
| `merkle` | zero to five leaves with duplicates, two epoch indexes; besides the client's proof every proof of up to two steps made of digests of the tree | client and program agree, nothing else gets through |
| `deployment` | three program ids (a reset where the checkout agrees with its keypair), two mints, two vault mints, three accounts, every option in any order, Metaplex included, any transaction failing | an initialized program has its vault, and an open one keeps what it has |
| `clients` | a user, an administrator, two files for one epoch (one lists the user twice), two transactions under way, a lifetime of one and a period of two, the clock to 3, no freezes | posted totals cover issuance; lists that are too long are not sent |
| `retries` | the same without epochs; periods 2 and 3, amounts 1 and 2, the clock to 5 | a repeated unbond or redeem acts once, also when an update of the period lands late |
| `clients_live` | `clients` with freezes, the clock to 1 and a lifetime of zero, fair scripts and network | `AllottedIsPaid` |
| `instant_liquidity` | one user | violation, see below |
| `old_period` | the config alone | violation |
| `unnamed_token` | the instance of `deployment` | violation |

Bounds and why they are enough. `MaxU64` is 1 to 4, so that the limit of a u64
is met within a run; amounts are 0 to 2 (2 alone behind the scripts), so zero is refused and a request can be
larger, equal to and smaller than a balance. Two users are the fewest that
compete for a vault; a third would do what the second does. Two periods are the
fewest for which an update moves a running ticket in both directions, and
`MaxTime` (the bound in the guard of `Tick`) lets a ticket mature, a second one
be opened and mature. `staking` and `staking_history` have two vault accounts,
since any wYLDS account of the vault authority is one and anybody can create it;
what is due may then exceed either of them, as in section 4. Vault accounts are
interchangeable and these two runs, of safety properties, use symmetry. The
other runs have the one vault account the program is deployed with. `MaxLeaves` is 5: one, two, three, four and five leaves
have zero, zero, one, zero and three padding leaves, the last with a padding
subtree. `MaxProof` and `MaxMixed` bound the proofs that `getProof` did not make
and the trees they are tried on. In `Deployment` a reset draws two program ids,
so three of them allow one reset of a checkout whose `lib.rs` names the id of
the keypair; a checkout where they differ is run without a reset. Program ids and mints are interchangeable
and the run uses symmetry (its properties are safety properties). Behind the
scripts `MaxFlight` is 2, a transaction and its repetition, or two that compete.
In `retries` the clock to 5 lets a ticket mature under either period, be redeemed
and be followed by another that matures, while repetitions of both runs are
under way; the periods are both legal and longer than `Lifetime`, so that
`LongPeriods` holds and updates matter. `clients_live` has a `Lifetime` of zero:
what is not executed by the next tick has expired, and the clock, which stops at
1, ticks once. In the suffix that liveness is about the clock stands still, and
`Drop`, which takes any transaction away at any time, stands for expiry there.

Each property of a passing run is broken by a defective form of a definition,
kept beside it in the module: a dropped constraint, an off-by-one, the wrong
list, a missing pause check. No specification uses those forms.

`merkle` has `CHECK_DEADLOCK FALSE`: a verdict is final. Nothing else stops.

### Fairness

`FairSpec` assumes weak fairness of `Tick` (cluster time goes on; the model's
stops at `MaxTime`, so `PatientUserIsPaid` asks only for tickets whose longest
wait ends before it) and of `RedeemStep(u)`: a user whose redemption stays
possible submits it at some point. That is a promise of the user, and weak
fairness suffices: under the property's hypothesis (from some time on the
protocol runs and the user has PRIME and thawed accounts) a mature ticket's
redemption stays enabled, whatever others redeem. Nothing is assumed of
administrators, of other users, or of the order of transactions.

`CFairSpec` (run `clients_live`) assumes that every transaction is settled one
way or another (weak fairness of `Settle`: it lands, fails or expires, as the
cluster's lifetime of a blockhash forces). Of a user who is allotted
something it assumes the habit of running the script again (strong fairness of
`RunAllotted`: weak would not do, since the run is impossible while the same
transaction is under way), and of the network that a claim sent again and again
is not lost every time (strong fairness of `LandClaim`). The property asks only
for claims that are possible from some time on: no pause, thawed account, room
in the supply. Nothing is assumed of what is sent: that the proof is right is
what the property shows.

## 4. Findings

- `old_period`: `update_config` assigns the new period (`processor.rs:88`) and
  then reads `old_period` from the same account (`processor.rs:92`): observers
  get the new period twice. `OldPeriodReported` says what `events.rs:39-40`
  names.
- `instant_liquidity`: `README.md:14` says the unbonding period prevents instant
  liquidity. A ticket can be opened on PRIME that is then sold or sent away, and
  PRIME obtained in the instant of the redemption is redeemed with it: a user
  who keeps a mature ticket has no wait. `PayoutRate` bounds what remains: one
  payout per smallest period and ticket, for the amount of the ticket.
- `unnamed_token`: `register_meta.ts:105` passes `args.ame` for the name. The
  mint is registered without one until option 6 updates it.

Differences noticed while reading that no run is spent on:
`update_freeze_administrators.ts:40-41` builds public keys from `args.mint` and
`args.new_authority`, which it does not declare, so that it throws before it
sends when run as documented, and works only for a caller who passes two keys
that nothing uses; `lib.rs:19` and
`lib.rs:98` say that unbonding burns PRIME, and the burn is in `redeem`
(`processor.rs:198`); `README.md:9` speaks of 1:1 parity, and claims mint PRIME
with no wYLDS behind it, so that until someone puts the yield into the vault the
last to redeem are not paid (`SupplyAccounted` and `TotalsCoverIssuance` bound
the gap); `lib.rs:28-29` says that after the wait the user can redeem, and with two
vault accounts a ticket may exceed either of them, since `redeem` pays from one
account and in full only: the holder waits, or first moves PRIME away
(`AllTicketsCovered` holds of the vaults together); `README.md:36` says
claims are for past epochs only, and nothing compares an epoch with the
time; `processor.rs:272-275` logs the length of the freeze list for a new rewards
list; `README.md:68` and `state.rs:37` speak of sorted pairs where the code goes
by `is_left`; `lib.rs:152` says rewards come from a rewards vault, and they are
minted; `README.md:58` says `total` is for verification, and nothing reads it;
`README.md:22` says businesses use the vault's tokens, and no instruction lets
them out (`PayoutCovered`); the README's text for option 11 says that
initializing sets the mint authority, which only option 5 does;
`config.sh:301-306` and `README.md:462` name a script that is not in the repository.

The program's least unbonding period is one second (`state.rs:4`), and a
transaction lives for a minute or more. `RetriedOnce` therefore holds under
`LongPeriods`: with a period shorter than a transaction's life a late repetition
of `unbond.ts` can open a second ticket after the first was redeemed.

The menu also lets an operator strand a mint. `initialize.ts` prints the PDAs
before it sends the transaction, and `config.sh` stores them even if it fails;
only a malformed key or too many administrators stop it earlier, and then the
PDAs stored before are emptied.
After option 13 the id in `lib.rs` is one whose keypair was not kept; options 3
and 5 then hand the mint to a program that cannot be deployed. Interrupted
between its two commands, option 5 can in the same way leave the two authorities
of one mint with two programs. `OpenForGood` says that a program which already
takes deposits is never harmed by this.

## 5. Proofs

For every value of the constants that satisfies the named assumptions
(`SplTokenAssumption`, `StakeConfigAssumption`, `StakingAssumption`,
`StakingHistoryAssumption`, `RewardsAssumption`, `ClientsAssumption`,
`MerkleAssumption`, `DeploymentAssumption`, `TokenMetadataAssumption`), TLAPS checks:

| Theorem | Module | Says |
|---|---|---|
| `TypeCorrect` | `StakingProofs` | `Spec => []TypeOK` |
| `BackedHolds`, `SupplyIsHeld` | | `Spec => []Backed`; the supply is the sum of the PRIME accounts |
| `AllTicketsAreCovered` | | `Spec => []AllTicketsCovered`, for any number of vault accounts |
| `PayoutsCovered`, `TicketsStable`, `PauseHolds`, `NoWayBackHolds` | | the action properties of `Staking` |
| `HistoryImplements` | `StakingHistoryProofs` | the history constrains nothing: `HSpec => Spec` |
| `PoolCoversSupply`, `PoolIsBalance` | | `supply <= pool`, used in the refinement, and `pool` is the sum of the vault accounts |
| `HTypeCorrect` | | `HSpec => []HTypeOK` |
| `PayoutsFitBeforeTicket`, `PayoutRateHolds` | | `HSpec => []PayoutRateInv`, `HSpec => []PayoutRate` |
| `Refinement` | | `HSpec => ImplementsLiquidStaking` |
| `RTypeCorrect`, `EpochsAreFinal`, `MintsAreCovered` | `RewardsProofs` | the properties of rewards |
| `AccountedHolds`, `SupplyIsAccounted` | | `RSpec => []SupplyAccounted`, and its inductive form |
| `PauseHoldsWithRewards`, `PayoutsCoveredWithRewards`, `TicketsStableWithRewards`, `NoWayBackWithRewards` | | `Staking`'s properties for the whole program |
| `CTypeCorrect` | `ClientsProofs` | `CSpec => []CTypeOK` |
| `ClientsImplement`, `ProgramHoldsBehindScripts` | | `CSpec => RSpec`, and with it the properties of the whole program behind the scripts |
| `TotalsCover` | | `CSpec => []TotalsCoverIssuance` |
| `RetriesActOnce` | | `CSpec => RetriedOnce` |
| `AllottedGetThrough` | `MerkleTheorems` | `Spec => []AllottedGetsThrough` |
| `OnlyAllottedByAnyProof`, `OnlyAllotted` | | `OnlyAllottedGetsThrough` for any proof whatever, and for `Spec` |
| `DeploymentTypeCorrect`, `VaultsFollowConfigs`, `OpenForGoodHolds` | `DeploymentProofs` | the properties of the deployment |
| `MetadataTypeCorrect`, `HandoverWithMetadata` | `TokenMetadataProofs` | the properties with Metaplex, and those of the deployment carried over |

The argument. Type correctness is inductive by itself: the token calls carry
their own bounds, and the period and the lists are checked wherever they are
written. The action properties follow from it step by step: for each action,
which vault it can lower, which ticket it can change.

Sums. `Backed` adds up vault accounts, `AllTicketsCovered` tickets,
`SupplyAccounted` claim records, `TotalsCoverIssuance` the lines of files. The
model adds with the community modules' fold, which takes elements in whatever
order CHOOSE gives. `SumTheorems` proves from that definition that the order
does not matter (`SumOverTakeOut`), what a credit or a debit does to a sum
(`SumOverCredit`), that sums over the parts of a set add up to the sum over it
(`SumOverFibres`), and the bounds that follow. The library's induction theorems
take an operator; `LeastNumber`, `NumberInduction` and `SubsetInduction` state
induction with a set in its place, from the well-foundedness theorems. What is
assumed for this is that accounts, users and the lines of an allocation file are
finitely many, as they are on a chain and in a file.

- `Backed` is inductive with type correctness: each deposit adds the same to
  both sides, each redemption takes the same from both, gifts only add wYLDS.
- For the tickets one more fact is needed, `SupplyHeld`: the mint's `supply` is
  the sum of the PRIME accounts. The handlers never compare the two; that every
  transfer, mint and burn keeps them equal is shown call by call. Then, for
  `AllTicketsCovered`, what is due to a user is at most
  what the user's accounts hold together, the accounts of different users are
  different, and so all that is due is at most `supply`, which is `Backed`.
  It holds for any number of vault accounts and is what redemptions of many
  holders, in any order, rest on. That one account alone covers a ticket is true
  only where there is one, and is not among the claims.
- `SupplyAccounted` is inductive as `AccountedInv`, which adds that claim records
  are finitely many and belong to posted epochs. A claim adds a record that was
  not there, and mints no more than its entitlement; an entitlement never changes
  because its epoch does not; every other step keeps the margin by the lemma that
  also carries `Backed` (`BackedStep`).
- `TotalsCoverIssuance` needs to know where epochs come from: `PostedByScript`
  says that every posted epoch, and every post under way, has the root and the
  total of one and the same file. The entitlements of an epoch are then lines of
  that file, at most one for each user, and their sum is at most the total.

Merkle proofs. The recursions of `MerkleProof` are functions on finite domains,
and that such functions exist is proved first (`PowerExists`, `LayersExist`,
`PlacesExist`). `AllottedGetThrough` rests on `GetsThroughInv`: after k
iterations of the program's loop the node is the ancestor of the claim's leaf
in layer k, because a zero sibling on the wire does to the node what an empty
buffer does in the tree (`FoldsPair`). `OnlyAllotted` rests on `ReachedInv`: if
the node is any digest of the tree at all, then the claim's leaf is a leaf of it.
An iteration that arrives at a digest of the tree must have started from one of
the two it was made of (`FoldsFrom`), whatever the sibling and its side. Nothing
about the proof is used, so `OnlyAllottedByAnyProof` leaves it open, where
the run `merkle` tries only those made of digests of the tree.

`PayoutRate` is not inductive: a user with an open ticket could be paid now
although the past payouts fill all the time until now. `PayoutRateInv` says that
they fit into the time before the open ticket was made; the payout then adds one
and the ticket's wait pays for it. The refinement maps `shares` to `supply`,
`request` to the tickets' amounts and times, `clock` to `now`; it uses
`PoolCovers` to show that a payout is within the pool.

`RetriedOnce` rests on `RetryInv`: the period in force is one that was passed as
an argument (and so longer than a transaction lives, by `LongPeriods`), a ticket
started when its owner last opened one, and a user without a ticket who had one
is more than a `Lifetime` past its opening, because its redemption waited for
the period. So an unbond that lands was signed after the last ticket was opened,
and a redeem after the ticket it closes. That `Clients` implements `Rewards`
needs only that what is under way passes arguments of the right types
(`CTypeOK`): every landing is then a step of the program, and everything else
leaves the program alone or is a step of its environment.

Every safety invariant and action property that a passing run checks is stated
by a theorem. Only checked by TLC: liveness (`PatientUserIsPaid`,
`AllottedIsPaid`), which needs fairness and ENABLED. That sha256 has no
collisions is the free constructor of `MerkleProof` and is not proved, nor is it
that the community modules' definitions and the code's arithmetic agree. The
step from `MerkleProof` to the operator `Proven` of `Rewards` is by reading: the
first says that a claim gets through exactly if its leaf is in the tree of the
epoch, the second takes that for its guard.

## 6. Not modelled

What the scripts print (`derive_address.ts` does nothing else), runs that pass
accounts the program refuses for what they are, the symbol and the URL in the
metadata, the account struct `SetFreezeAuthority`
(`account_structs.rs:249-275`, which no instruction uses), rent and lamports,
events that repeat arguments, log text, the build and container files. In
`Deployment`, a caller of `initialize` other than `initialize.ts`, which could
pass one mint as argument and another as account. The cluster clock is assumed
not to go backwards.

## 7. Plan

In the order of importance:

1. The staking core, its configuration and token calls; the safety properties,
   liveness, the abstract specification and its refinement; type correctness and
   the action properties proved. Done.
2. Rewards and the Merkle tree. Done, with the properties of rewards proved.
3. Deployment. Done, with its properties proved.
4. The client scripts and the faults of their transactions, composed with the
   whole program; liveness of claims. Done, with the implementation of `Rewards`
   and the property of repeated runs proved.
5. Metaplex registration, composed with the deployment. Done and proved.
6. Open: `initialize` with mints as values for callers other than
   `initialize.ts`; the events as a history an indexer could rebuild the state
   from; an abstract specification of the whole program that also grants shares
   against claims, with its refinement proved.
