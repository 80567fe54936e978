------------------------------ MODULE Clients ------------------------------
(***************************************************************************)
(* The client scripts, and the transactions they leave under way.  A       *)
(* script builds one transaction from its arguments, signs it, sends it    *)
(* and waits; it keeps no state and reads none of the program's, so all    *)
(* that is left of a run is its transaction.  The transaction is executed  *)
(* once, by the state the program has by then, or never: it fails, it is   *)
(* lost, or it expires.  The wait ends before that is settled, and then    *)
(* the script is run again.                                                *)
(*                                                                         *)
(* A script that passes accounts the program refuses for what they are     *)
(* (their mint or owner never change here) sends what is never executed;   *)
(* such runs are left out.  A run that only prints (just_print) or that    *)
(* throws before it sends leaves nothing.                                  *)
(***************************************************************************)
EXTENDS Rewards

CONSTANTS
  Associated,   \* the token accounts at their owner's associated address
  Files,        \* the allocation files at hand: how often each <<user, amount>> is listed
  Lifetime,     \* how long a signed transaction can be executed
  NoProof,      \* the empty proof
  MaxFlight     \* bound of the transactions under way, for TLC

(* A file as a tree: its leaves are sorted, so the order of its lines is    *)
(* lost, and each is hashed with the epoch index.                           *)
Root(file, e) == [epoch |-> e, allocations |-> DOMAIN file, file |-> file]

(* A defective form of the next definition: it counts the lines.  No        *)
(* specification uses it.                                                   *)
LinesOf(file) == MapThenSumSet(LAMBDA a : file[a], DOMAIN file)

(* What the script passes as the total of the epoch. *)
Total(file) == MapThenSumSet(LAMBDA a : file[a] * a[2], DOMAIN file)

ASSUME ClientsAssumption ==
  /\ Associated \subseteq TokenAccounts
  /\ \A file \in Files :
       /\ file \in [DOMAIN file -> Nat \ {0}]
       /\ DOMAIN file # {} /\ IsFiniteSet(DOMAIN file)
  /\ \A file \in Files, e \in Indexes : Root(file, e) \in Roots
  /\ \A file \in Files : Total(file) \in Totals
  /\ NoProof \notin Roots
  /\ Lifetime \in Nat
  /\ MaxFlight \in Nat

VARIABLES
  flight,   \* the transactions under way
  opened    \* when the last ticket of every user was opened, -1 before the first

cvars == <<rvars, flight, opened>>

(* What the scripts send: who signs it and when, and its arguments.         *)
Transaction ==
  [ix : {"deposit"}, signer : Users, at : Nat, vault : WyldsAccounts,
     from : WyldsAccounts, to : StakeAccounts, amount : Amounts]
    \cup
  [ix : {"unbond"}, signer : Users, at : Nat, acct : StakeAccounts, amount : Amounts]
    \cup
  [ix : {"redeem"}, signer : Users, at : Nat, vault : WyldsAccounts,
     dest : WyldsAccounts, acct : StakeAccounts]
    \cup
  [ix : {"claim_rewards"}, signer : Users, at : Nat, epoch : Indexes,
     acct : StakeAccounts, amount : Amounts, proof : Roots \cup {NoProof}]
    \cup
  [ix : {"create_rewards_epoch"}, signer : Admins, at : Nat, epoch : Indexes,
     root : Roots, total : Totals]
    \cup
  [ix : {"freeze_token_account", "thaw_token_account"}, signer : Admins, at : Nat,
     acct : PdaFreezable]
    \cup
  [ix : {"pause"}, signer : Admins, at : Nat, pause : BOOLEAN]
    \cup
  [ix : {"update_config"}, signer : Admins, at : Nat, period : Periods]
    \cup
  [ix : {"update_freeze_administrators"}, signer : Admins, at : Nat, list : FreezeLists]
    \cup
  [ix : {"update_rewards_administrators"}, signer : Admins, at : Nat, list : RewardsLists]

CTypeOK ==
  /\ RTypeOK
  /\ flight \subseteq Transaction
  /\ \A t \in flight : t.at <= now
  /\ opened \in [Users -> {-1} \cup Nat]

CInit ==
  /\ RInit
  /\ flight = {}
  /\ opened = [u \in Users |-> -1]
-----------------------------------------------------------------------------
(* The scripts: one transaction each.                                      *)

DepositScript(u, vault, from, to, n) ==
  [ix |-> "deposit", signer |-> u, at |-> now,
   vault |-> vault, from |-> from, to |-> to, amount |-> n]

UnbondScript(u, acct, n) ==
  [ix |-> "unbond", signer |-> u, at |-> now, acct |-> acct, amount |-> n]

(* No amount: redeem takes it from the ticket it finds. *)
RedeemScript(u, vault, dest, acct) ==
  [ix |-> "redeem", signer |-> u, at |-> now, vault |-> vault, dest |-> dest, acct |-> acct]

SingleLeaf(root) == \E a \in root.allocations : root.file = [b \in {a} |-> 1]

(* The proof of a leaf, which a tree of one leaf and a tree without the     *)
(* leaf both leave empty: it fits the trees it was taken from.              *)
ProofOf(root, leaf) ==
  IF leaf \in root.allocations /\ ~SingleLeaf(root) THEN root ELSE NoProof

(* A defective form of the next definition: the tree is built with the next *)
(* index.  No specification uses it.                                        *)
ProofOfNext(u, e, file, n) == ProofOf(Root(file, e + 1), <<u, n>>)

ClaimProof(u, e, file, n) == ProofOf(Root(file, e), <<u, n>>)

(* A proof that does not verify is sent with a warning all the same, and an *)
(* amount that is not given is zero.                                        *)
ClaimRewardsScript(u, e, file, acct, n) ==
  [ix |-> "claim_rewards", signer |-> u, at |-> now, epoch |-> e, acct |-> acct,
   amount |-> n, proof |-> ClaimProof(u, e, file, n)]

CreateRewardsEpochScript(k, e, file) ==
  [ix |-> "create_rewards_epoch", signer |-> k, at |-> now, epoch |-> e,
   root |-> Root(file, e), total |-> Total(file)]

FreezeAccountScript(k, a) ==
  [ix |-> "freeze_token_account", signer |-> k, at |-> now, acct |-> a]

ThawAccountScript(k, a) ==
  [ix |-> "thaw_token_account", signer |-> k, at |-> now, acct |-> a]

PauseScript(k, pause) == [ix |-> "pause", signer |-> k, at |-> now, pause |-> pause]

UpdateConfigScript(k, period) ==
  [ix |-> "update_config", signer |-> k, at |-> now, period |-> period]

UpdateFreezeAdministratorsScript(k, list) ==
  [ix |-> "update_freeze_administrators", signer |-> k, at |-> now, list |-> list]

UpdateRewardsAdministratorsScript(k, list) ==
  [ix |-> "update_rewards_administrators", signer |-> k, at |-> now, list |-> list]
-----------------------------------------------------------------------------
(* Running them.                                                           *)

Run(t) ==
  /\ t \notin flight
  /\ Cardinality(flight) < MaxFlight
  /\ flight' = flight \cup {t}
  /\ UNCHANGED <<rvars, opened>>

RunClaim(u, e, file, n) ==
  \E acct \in Associated \cap StakeAccounts :
    OwnerOf[acct] = u /\ Run(ClaimRewardsScript(u, e, file, acct, n))

RunByUser(u) ==
  \/ \E vault \in Vaults, from \in WyldsAccounts, to \in StakeAccounts, n \in Amounts :
       {OwnerOf[from], OwnerOf[to]} = {u} /\ Run(DepositScript(u, vault, from, to, n))
  \/ \E acct \in StakeAccounts, n \in Amounts :
       OwnerOf[acct] = u /\ Run(UnbondScript(u, acct, n))
  \/ \E vault \in Vaults, dest \in WyldsAccounts, acct \in StakeAccounts :
       {OwnerOf[dest], OwnerOf[acct]} = {u} /\ Run(RedeemScript(u, vault, dest, acct))
  \/ \E e \in Indexes, file \in Files, n \in Amounts : RunClaim(u, e, file, n)

(* The list is checked before it is sent.  update_freeze_administrators     *)
(* also reads two options it does not declare: a run without them throws    *)
(* and sends nothing, a run with them is the one below.                     *)
RunFreezeList(k, list) ==
  /\ ValidAdministrators(list)
  /\ Run(UpdateFreezeAdministratorsScript(k, list))

RunRewardsList(k, list) ==
  /\ ValidAdministrators(list)
  /\ Run(UpdateRewardsAdministratorsScript(k, list))

(* Freezing and thawing are by owner, and reach the associated account of   *)
(* that owner alone; the vault authority has none.                          *)
RunByAdmin(k) ==
  \/ \E e \in Indexes, file \in Files :
       Total(file) <= MaxU64 /\ Run(CreateRewardsEpochScript(k, e, file))
  \/ \E a \in Associated \cap PdaFreezable :
       /\ OwnerOf[a] \in Users
       /\ Run(FreezeAccountScript(k, a)) \/ Run(ThawAccountScript(k, a))
  \/ \E pause \in BOOLEAN : Run(PauseScript(k, pause))
  \/ \E period \in Periods : Run(UpdateConfigScript(k, period))
  \/ \E list \in FreezeLists : RunFreezeList(k, list)
  \/ \E list \in RewardsLists : RunRewardsList(k, list)
-----------------------------------------------------------------------------
(* What becomes of a transaction.                                          *)

ExecuteStaking(t) ==
  \/ t.ix = "deposit" /\ Deposit(t.signer, t.from, t.vault, t.to, t.amount)
  \/ t.ix = "unbond" /\ Unbond(t.signer, t.acct, t.amount)
  \/ t.ix = "redeem" /\ Redeem(t.signer, t.vault, t.dest, t.acct)
  \/ t.ix = "freeze_token_account" /\ FreezeTokenAccount(t.signer, t.acct)
  \/ t.ix = "thaw_token_account" /\ ThawTokenAccount(t.signer, t.acct)

ExecuteConfig(t) ==
  /\ \/ t.ix = "pause" /\ Pause(t.signer, t.pause)
     \/ t.ix = "update_config" /\ UpdateConfig(t.signer, t.period)
     \/ t.ix = "update_freeze_administrators" /\ UpdateFreezeAdministrators(t.signer, t.list)
     \/ t.ix = "update_rewards_administrators" /\ UpdateRewardsAdministrators(t.signer, t.list)
  /\ UNCHANGED <<tokenVars, ticket, now>>

ExecuteRewards(t) ==
  \/ /\ t.ix = "create_rewards_epoch"
     /\ CreateRewardsEpoch(t.signer, t.epoch, t.root, t.total)
  \/ /\ t.ix = "claim_rewards"
     /\ ClaimRewards(t.signer, t.epoch, t.acct, t.amount)
     /\ t.proof = ProofOf(epoch[t.epoch].merkle_root, <<t.signer, t.amount>>)

Execute(t) ==
  \/ (ExecuteStaking(t) \/ ExecuteConfig(t)) /\ UNCHANGED <<epoch, claim_record>>
  \/ ExecuteRewards(t)

Land(t) ==
  /\ t \in flight
  /\ now <= t.at + Lifetime
  /\ Execute(t)
  /\ flight' = flight \ {t}
  /\ opened' = IF t.ix = "unbond" THEN [opened EXCEPT ![t.signer] = now] ELSE opened

(* It fails, or it is lost. *)
Drop(t) ==
  /\ t \in flight
  /\ flight' = flight \ {t}
  /\ UNCHANGED <<rvars, opened>>

(* What is too old to be executed is gone. *)
Pass ==
  /\ Tick
  /\ flight' = {t \in flight : now' <= t.at + Lifetime}
  /\ UNCHANGED <<epoch, claim_record, opened>>

(* What happens without a script: transfers from wallets, the issuer, the   *)
(* loader.                                                                  *)
Outside ==
  /\ \/ TokenNext
     \/ /\ \E k \in Admins \cup {NoKey} : SetUpgradeAuthority(k)
        /\ UNCHANGED <<tokenVars, ticket, now>>
  /\ UNCHANGED <<epoch, claim_record, flight, opened>>

CNext ==
  \/ \E u \in Users : RunByUser(u)
  \/ \E k \in Admins : RunByAdmin(k)
  \/ \E t \in flight : Land(t) \/ Drop(t)
  \/ Pass
  \/ Outside

CSpec == CInit /\ [][CNext]_cvars
-----------------------------------------------------------------------------
(* Properties                                                              *)

(* The epochs are posted by the script, with the total it computed.  PRIME  *)
(* in circulation without wYLDS behind it never exceeds the totals posted,  *)
(* however the claims are retried, and with users listed more than once:    *)
(* create_rewards_epoch stores the total and reads it nowhere               *)
(* (processor.rs:357-370, create_rewards_epoch.ts:52).                      *)
TotalsCoverIssuance ==
  supply <= VaultBalance
              + MapThenSumSet(LAMBDA e : epoch[e].total, {e \in Indexes : HasEpoch(e)})

(* Every period an administrator may set is longer than a transaction can   *)
(* be under way.  The program's least period of one second does not ensure  *)
(* it (state.rs:4).                                                         *)
LongPeriods == \A p \in Periods : ValidPeriod(p) => p > Lifetime

(* A run that was repeated because the first was slow to confirm has its    *)
(* effect once: no unbond opens a second ticket beside or after one opened  *)
(* since the script ran, and no redeem pays a later ticket than the user    *)
(* had.  The program gives a transaction no identity of its own: the ticket *)
(* PDA and the period are all that tells a repetition from a new request    *)
(* (unbond.ts:38-64, redeem.ts:51-81, account_structs.rs:178-185).          *)
ActsOnTicketAtHand ==
  \A t \in flight \ flight' : ticket' # ticket =>
    /\ t.ix = "unbond" => opened[t.signer] < t.at
    /\ t.ix = "redeem" => ticket[t.signer].start_ts < t.at

RetriedOnce == [][LongPeriods => ActsOnTicketAtHand]_cvars

-----------------------------------------------------------------------------
(* Liveness.  Every transaction is settled; a user with an allocation in    *)
(* the file of an epoch runs the script with that file again as long as the *)
(* claim is open, and of a claim sent again and again one gets through if   *)
(* it can.                                                                  *)

Settle == \E t \in flight : Land(t) \/ Drop(t)

Allotted(u, e, file, n) ==
  /\ HasEpoch(e) /\ epoch[e].merkle_root = Root(file, e)
  /\ <<u, n>> \in DOMAIN file /\ n > 0

RunAllotted(u, e) ==
  \E file \in Files, n \in Amounts : Allotted(u, e, file, n) /\ RunClaim(u, e, file, n)

LandClaim(u, e) ==
  \E t \in flight : t.ix = "claim_rewards" /\ t.signer = u /\ t.epoch = e /\ Land(t)

CFairness ==
  /\ WF_cvars(Settle)
  /\ \A u \in Users, e \in Indexes : SF_cvars(RunAllotted(u, e)) /\ SF_cvars(LandClaim(u, e))

CFairSpec == CSpec /\ CFairness

(* What a claim needs beside the allocation. *)
CanClaim(u, e) ==
  /\ ~config.paused
  /\ \A a \in Associated \cap StakeAccounts : OwnerOf[a] = u => a \notin frozen
  /\ supply + Entitlement(e, u) <= MaxU64

(* Whoever the posted file allots something gets a claim through in the     *)
(* end, although transactions are lost, expire or meet a pause and a freeze *)
(* on the way: the proof the script takes from the file is the one the      *)
(* program accepts (claim_rewards.ts:43-57, 95-108, processor.rs:372-442).  *)
AllottedIsPaid ==
  \A u \in Users, e \in Indexes :
    <>[]CanClaim(u, e) =>
      ((\E file \in Files, n \in Amounts : Allotted(u, e, file, n)) ~> <<e, u>> \in claim_record)
=============================================================================
