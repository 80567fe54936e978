------------------------------ MODULE SplToken ------------------------------
(***************************************************************************)
(* The SPL Token program, as far as the staking program uses it: the token *)
(* accounts of the two mints, the supply of PRIME, and the calls the       *)
(* program makes (transfer, mint_to, burn, freeze_account, thaw_account).  *)
(* The program is external to this repository; what is modelled is what    *)
(* the handlers in processor.rs rely on.  A call that fails aborts the     *)
(* whole transaction, so the failure conditions of a call are conjuncts    *)
(* of the operator and a failed instruction is a stuttering step.          *)
(*                                                                         *)
(* The two mints have disjoint accounts: initialize refuses a vault mint   *)
(* that is also the stake mint (processor.rs:33-36).                       *)
(***************************************************************************)
EXTENDS Integers, FiniteSets

CONSTANTS
  MaxU64,          \* the largest amount: 2^64 - 1, small under TLC
  StakeAccounts,   \* token accounts of config.mint (PRIME)
  WyldsAccounts,   \* token accounts of config.vault (wYLDS)
  Users,           \* public keys that own token accounts and sign for them
  VaultAuthority,  \* the vault_authority PDA: owns accounts, signs nothing itself
  OwnerOf,         \* the owner field of every token account
  PdaFreezable     \* accounts of the mints whose freeze authority is the program's PDA

TokenAccounts == StakeAccounts \cup WyldsAccounts

ASSUME SplTokenAssumption ==
  /\ MaxU64 \in Nat
  /\ StakeAccounts \cap WyldsAccounts = {}
  /\ IsFiniteSet(TokenAccounts)
  /\ IsFiniteSet(Users) /\ VaultAuthority \notin Users
  /\ OwnerOf \in [TokenAccounts -> Users \cup {VaultAuthority}]
  /\ PdaFreezable \subseteq TokenAccounts

VARIABLES
  prime,    \* balance of every PRIME account
  supply,   \* supply field of the PRIME mint
  wylds,    \* balance of every wYLDS account
  frozen    \* the token accounts in the frozen state

tokenVars == <<prime, supply, wylds, frozen>>

U64 == 0 .. MaxU64

(* Any wYLDS account owned by the PDA is accepted as the vault account:    *)
(* config stores the mint of the vault and not the account.                *)
Vaults == {a \in WyldsAccounts : OwnerOf[a] = VaultAuthority}

TokenTypeOK ==
  /\ prime \in [StakeAccounts -> U64]
  /\ supply \in U64
  /\ wylds \in [WyldsAccounts -> U64]
  /\ frozen \subseteq TokenAccounts

Credited(b, a, n) == [b EXCEPT ![a] = @ + n]
Debited(b, a, n) == [b EXCEPT ![a] = @ - n]

Moved(b, from, to, n) == Credited(Debited(b, from, n), to, n)

(* transfer: both accounts thawed, funds in the source, room in the        *)
(* destination.                                                            *)
CanMove(b, from, to, n) ==
  /\ {from, to} \cap frozen = {}
  /\ n <= b[from]
  /\ from # to => b[to] + n <= MaxU64

TransferWylds(from, to, n) ==
  /\ CanMove(wylds, from, to, n)
  /\ wylds' = Moved(wylds, from, to, n)

TransferPrime(from, to, n) ==
  /\ CanMove(prime, from, to, n)
  /\ prime' = Moved(prime, from, to, n)

(* mint_to: destination thawed, neither supply nor balance overflow.       *)
MintPrime(to, n) ==
  /\ to \notin frozen
  /\ supply + n <= MaxU64
  /\ prime[to] + n <= MaxU64
  /\ prime' = Credited(prime, to, n)
  /\ supply' = supply + n

(* burn: source thawed, funds in it, supply does not underflow.            *)
BurnPrime(from, n) ==
  /\ from \notin frozen
  /\ n <= prime[from]
  /\ n <= supply
  /\ prime' = Debited(prime, from, n)
  /\ supply' = supply - n

FreezeAccount(a) ==
  /\ a \notin frozen
  /\ frozen' = frozen \cup {a}

ThawAccount(a) ==
  /\ a \in frozen
  /\ frozen' = frozen \ {a}
=============================================================================
