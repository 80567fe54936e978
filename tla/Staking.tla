------------------------------ MODULE Staking ------------------------------
(***************************************************************************)
(* The staking program: deposit, unbond, redeem, freeze_token_account and  *)
(* thaw_token_account over the token accounts and the config account, with *)
(* the environment it runs in (users that move their tokens, the cluster   *)
(* clock, the administrators, the issuer of wYLDS).                        *)
(*                                                                         *)
(* An instruction is one action: Solana serialises the transactions that   *)
(* touch an account and rolls back a transaction that fails.  For each     *)
(* Anchor account struct there is one operator with its constraints, and   *)
(* the handler's checks follow in the handler's order.  The accounts and   *)
(* amounts a caller passes are chosen by \E.                               *)
(***************************************************************************)
EXTENDS SplToken, StakeConfig, FiniteSetsExt

CONSTANTS
  NoTicket,    \* the ticket PDA of a user does not exist
  Funding,     \* wYLDS in every account at the start
  Amounts,     \* the amounts passed as arguments
  Issued,      \* accounts the issuer of wYLDS may freeze
  MaxTime      \* bound of the clock, for TLC

UnbondingTicket ==
  [owner : Users, requested_amount : U64 \ {0}, start_balance : U64, start_ts : Nat]

(* The vault account is created for the program and starts empty           *)
(* (config.sh:100-108).                                                    *)
ASSUME StakingAssumption ==
  /\ Funding \in [WyldsAccounts -> U64]
  /\ \A v \in Vaults : Funding[v] = 0
  /\ Amounts \subseteq U64
  /\ Issued \subseteq WyldsAccounts \ PdaFreezable
  /\ MaxTime \in Nat
  /\ NoTicket \notin UnbondingTicket

VARIABLES
  ticket,   \* the UnbondingTicket of every user, one PDA per user
  now       \* Clock::get()?.unix_timestamp, counted from initialize

vars == <<tokenVars, configVars, ticket, now>>

TypeOK ==
  /\ TokenTypeOK
  /\ ConfigTypeOK
  /\ ticket \in [Users -> UnbondingTicket \cup {NoTicket}]
  /\ now \in Nat

HasTicket(u) == ticket[u] # NoTicket

Init ==
  /\ prime = [a \in StakeAccounts |-> 0]
  /\ supply = 0
  /\ wylds = Funding
  /\ frozen = {}
  /\ ConfigInit
  /\ ticket = [u \in Users |-> NoTicket]
  /\ now = 0
-----------------------------------------------------------------------------
(* Defective forms of the definitions below, which a run must reject; no   *)
(* specification uses them.                                                *)

(* no constraint on the owner of the vault account *)
DepositAnyVault(u, from, vault, to) ==
  /\ {from, vault} \subseteq WyldsAccounts
  /\ OwnerOf[from] = u
  /\ to \in StakeAccounts
  /\ OwnerOf[to] = u

(* mints more than it received *)
DepositMintsMore(u, from, vault, to, amount) ==
  /\ vault \in Vaults
  /\ OwnerOf[from] = u /\ OwnerOf[to] = u
  /\ amount > 0
  /\ ~config.paused
  /\ TransferWylds(from, vault, amount)
  /\ MintPrime(to, amount + 1)
  /\ UNCHANGED <<frozen, configVars, ticket, now>>

(* init_if_needed in place of init *)
UnbondReusesTicket(u, acct) == acct \in StakeAccounts /\ OwnerOf[acct] = u

(* no pause check *)
UnbondWhilePaused(u, acct, amount) ==
  /\ acct \in StakeAccounts /\ OwnerOf[acct] = u /\ ~HasTicket(u)
  /\ amount > 0
  /\ amount <= prime[acct]
  /\ ticket' = [ticket EXCEPT ![u] = [owner            |-> u,
                                      requested_amount |-> amount,
                                      start_balance    |-> prime[acct],
                                      start_ts         |-> now]]
  /\ UNCHANGED <<tokenVars, configVars, now>>

(* one second early *)
ElapsedEarly(u) == now - ticket[u].start_ts + 1 >= config.unbonding_period

(* the balance without the minimum with the request *)
RedeemWholeBalance(u, acct) == prime[acct]

(* the wrong list *)
IsRewardsAdministrator(k) ==
  \E i \in DOMAIN config.rewards_administrators : config.rewards_administrators[i] = k
-----------------------------------------------------------------------------
(* Staking                                                                 *)

DepositAccounts(u, from, vault, to) ==
  /\ vault \in Vaults
  /\ from \in WyldsAccounts
  /\ OwnerOf[from] = u
  /\ to \in StakeAccounts
  /\ OwnerOf[to] = u

Deposit(u, from, vault, to, amount) ==
  /\ DepositAccounts(u, from, vault, to)
  /\ amount > 0
  /\ ~config.paused
  /\ TransferWylds(from, vault, amount)
  /\ MintPrime(to, amount)
  /\ UNCHANGED <<frozen, configVars, ticket, now>>

(* The ticket account is created by the instruction (init), so it must not *)
(* exist.  Nothing is burned or locked here.                               *)
UnbondAccounts(u, acct) ==
  /\ acct \in StakeAccounts
  /\ OwnerOf[acct] = u
  /\ ~HasTicket(u)

Unbond(u, acct, amount) ==
  /\ UnbondAccounts(u, acct)
  /\ amount > 0
  /\ ~config.paused
  /\ amount <= prime[acct]
  /\ ticket' = [ticket EXCEPT ![u] = [owner            |-> u,
                                      requested_amount |-> amount,
                                      start_balance    |-> prime[acct],
                                      start_ts         |-> now]]
  /\ UNCHANGED <<tokenVars, configVars, now>>

RedeemAccounts(u, vault, dest, acct) ==
  /\ vault \in Vaults
  /\ HasTicket(u)
  /\ dest \in WyldsAccounts
  /\ OwnerOf[dest] = u
  /\ acct \in StakeAccounts
  /\ OwnerOf[acct] = u

(* The period is the one in force now, not the one at unbond time.         *)
Elapsed(u) == now - ticket[u].start_ts >= config.unbonding_period

RedeemAmount(u, acct) ==
  IF ticket[u].requested_amount <= prime[acct]
  THEN ticket[u].requested_amount ELSE prime[acct]

Redeem(u, vault, dest, acct) ==
  LET redeem == RedeemAmount(u, acct) IN
  /\ RedeemAccounts(u, vault, dest, acct)
  /\ ~config.paused
  /\ ticket[u].owner = u
  /\ Elapsed(u)
  /\ redeem > 0
  /\ wylds[vault] >= redeem
  /\ BurnPrime(acct, redeem)
  /\ TransferWylds(vault, dest, redeem)
  /\ ticket' = [ticket EXCEPT ![u] = NoTicket]
  /\ UNCHANGED <<frozen, configVars, now>>
-----------------------------------------------------------------------------
(* Freezing                                                                *)

IsFreezeAdministrator(k) ==
  \E i \in DOMAIN config.freeze_administrators : config.freeze_administrators[i] = k

(* The account's mint has the program's PDA as its freeze authority, and    *)
(* is not required to be config.mint.                                       *)
FreezeAccounts(a) == a \in PdaFreezable

FreezeTokenAccount(k, a) ==
  /\ FreezeAccounts(a)
  /\ IsFreezeAdministrator(k)
  /\ FreezeAccount(a)
  /\ UNCHANGED <<prime, supply, wylds, configVars, ticket, now>>

ThawTokenAccount(k, a) ==
  /\ FreezeAccounts(a)
  /\ IsFreezeAdministrator(k)
  /\ ThawAccount(a)
  /\ UNCHANGED <<prime, supply, wylds, configVars, ticket, now>>
-----------------------------------------------------------------------------
(* The environment: token instructions that are not the program's own, the *)
(* administrators, and the clock.                                          *)

(* Whoever may sign for a PRIME account moves its tokens anywhere.         *)
SendPrime(from, to, n) ==
  /\ OwnerOf[from] \in Users
  /\ TransferPrime(from, to, n)
  /\ UNCHANGED <<supply, wylds, frozen, configVars, ticket, now>>

RetirePrime(from, n) ==
  /\ OwnerOf[from] \in Users
  /\ BurnPrime(from, n)
  /\ UNCHANGED <<wylds, frozen, configVars, ticket, now>>

(* wYLDS moves between users, or straight into a vault: no PRIME for it.   *)
SendWylds(from, to, n) ==
  /\ OwnerOf[from] \in Users
  /\ TransferWylds(from, to, n)
  /\ UNCHANGED <<prime, supply, frozen, configVars, ticket, now>>

IssuerFreeze(a) ==
  /\ FreezeAccount(a) \/ ThawAccount(a)
  /\ UNCHANGED <<prime, supply, wylds, configVars, ticket, now>>

Administer == ConfigNext /\ UNCHANGED <<tokenVars, ticket, now>>

Tick ==
  /\ now < MaxTime
  /\ now' = now + 1
  /\ UNCHANGED <<tokenVars, configVars, ticket>>
-----------------------------------------------------------------------------
RedeemStep(u) ==
  \E vault, dest \in WyldsAccounts, acct \in StakeAccounts :
    Redeem(u, vault, dest, acct)

UserNext(u) ==
  \/ \E from, vault \in WyldsAccounts, to \in StakeAccounts, n \in Amounts :
       Deposit(u, from, vault, to, n)
  \/ \E acct \in StakeAccounts, n \in Amounts : Unbond(u, acct, n)
  \/ RedeemStep(u)

TokenNext ==
  \/ \E from, to \in StakeAccounts, n \in Amounts : SendPrime(from, to, n)
  \/ \E from \in StakeAccounts, n \in Amounts : RetirePrime(from, n)
  \/ \E from, to \in WyldsAccounts, n \in Amounts : SendWylds(from, to, n)
  \/ \E a \in Issued : IssuerFreeze(a)

FreezeNext ==
  \E k \in Admins, a \in PdaFreezable : FreezeTokenAccount(k, a) \/ ThawTokenAccount(k, a)

Next ==
  \/ \E u \in Users : UserNext(u)
  \/ TokenNext
  \/ FreezeNext
  \/ Administer
  \/ Tick

Spec == Init /\ [][Next]_vars
-----------------------------------------------------------------------------
(* Properties                                                              *)

VaultBalance == MapThenSumSet(LAMBDA a : wylds[a], Vaults)

(* Every PRIME in circulation has a wYLDS behind it in the vaults, through  *)
(* deposits, redemptions, transfers, burns and gifts in any order: deposit  *)
(* mints what it received, redeem pays what it burned                       *)
(* (processor.rs:110-129, 193-217).                                         *)
Backed == supply <= VaultBalance

(* wYLDS leaves the vaults in one way only: redeem closes the one ticket of *)
(* a user who waited at least the smallest legal period, burns exactly what *)
(* it pays, pays no more than was requested, and pays that user             *)
(* (processor.rs:167-217 with close = signer).                              *)
CoveredPayout(v) ==
  LET paid == wylds[v] - wylds'[v] IN
  \E u \in Users, dest \in WyldsAccounts :
    /\ HasTicket(u)
    /\ ticket' = [ticket EXCEPT ![u] = NoTicket]
    /\ now - ticket[u].start_ts >= MIN_UNBONDING_PERIOD
    /\ paid <= ticket[u].requested_amount
    /\ supply - supply' = paid
    /\ OwnerOf[dest] = u
    /\ wylds' = Moved(wylds, v, dest, paid)

PaysOnlyCovered == \A v \in Vaults : wylds'[v] < wylds[v] => CoveredPayout(v)

PayoutCovered == [][PaysOnlyCovered]_vars

(* An open ticket is neither overwritten nor restarted nor dropped: it goes *)
(* away only in the step that pays its owner, whatever the owner does with  *)
(* the PRIME meanwhile (init and close in account_structs.rs:178-185,       *)
(* 216-222).                                                                *)
EndsInPayout ==
  \A u \in Users :
    HasTicket(u) /\ ticket'[u] # ticket[u] =>
      /\ ticket'[u] = NoTicket
      /\ \E dest \in WyldsAccounts : OwnerOf[dest] = u /\ wylds'[dest] > wylds[dest]

TicketStable == [][EndsInPayout]_vars

(* While the protocol is paused nobody's stake or ticket changes through    *)
(* the program and no vault pays, mature tickets included; users keep what  *)
(* they can do without the program (README.md:135, processor.rs:103,143,    *)
(* 168).                                                                    *)
StopsWhilePaused ==
  config.paused =>
    /\ ticket' = ticket
    /\ supply' <= supply
    /\ \A v \in Vaults : wylds'[v] >= wylds[v]

PauseStopsProgram == [][StopsWhilePaused]_vars

(* What redeem can pay at most on the ticket of u, from whichever account. *)
Due(u) ==
  Max({0} \cup {RedeemAmount(u, a) : a \in {b \in StakeAccounts : HasTicket(u) /\ OwnerOf[b] = u}})

(* All ticket holders can be paid, and not only the first of them: however  *)
(* many tickets are open, whatever they were opened on and whoever holds    *)
(* the PRIME by now, the vaults cover what is due on all of them together   *)
(* (processor.rs:143-160, which reserves nothing, and 184-191).             *)
AllTicketsCovered == MapThenSumSet(Due, Users) <= VaultBalance

(* Once the upgrade authority is gone the config is what it is for good,    *)
(* and if the list of freeze administrators is empty then, no account of    *)
(* the PDA's mints changes between frozen and thawed any more, and what is  *)
(* frozen never moves: a rewards administrator has no say in it             *)
(* (guard.rs:31-33, processor.rs:285-288, 321-324).                         *)
FixedForGood ==
  upgradeAuthority = NoKey =>
    /\ UNCHANGED configVars
    /\ config.freeze_administrators = <<>> =>
         /\ frozen' \cap PdaFreezable = frozen \cap PdaFreezable
         /\ \A a \in frozen \cap PdaFreezable \cap StakeAccounts : prime'[a] = prime[a]

NoWayBack == [][FixedForGood]_vars
-----------------------------------------------------------------------------
(* Liveness.  The clock goes on, and a user whose redemption stays possible *)
(* submits it at some point.                                                *)

Fairness ==
  /\ WF_vars(Tick)
  /\ \A u \in Users : WF_vars(RedeemStep(u))

FairSpec == Spec /\ Fairness

(* What the user needs beside the ticket: the protocol runs, and a PRIME    *)
(* account with a balance, a wYLDS account and a vault are all thawed.      *)
CanCollect(u) ==
  /\ ~config.paused
  /\ \E a \in StakeAccounts \ frozen : OwnerOf[a] = u /\ prime[a] > 0
  /\ \E a \in WyldsAccounts \ frozen : OwnerOf[a] = u
  /\ Vaults \cap frozen = {}

(* A user who from some time on can collect is paid, although others        *)
(* deposit, redeem and burn against the same vault and the period is moved  *)
(* while the ticket runs: the ticket needs MAX_UNBONDING_PERIOD at most     *)
(* (processor.rs:81-85, 179-191).  Only tickets whose wait fits under       *)
(* MaxTime are asked for.                                                   *)
PatientUserIsPaid ==
  \A u \in Users :
    <>[]CanCollect(u) =>
      ((HasTicket(u) /\ ticket[u].start_ts + MAX_UNBONDING_PERIOD <= MaxTime)
         ~> ~HasTicket(u))
=============================================================================
