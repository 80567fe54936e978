---------------------------- MODULE LiquidStaking ----------------------------
(***************************************************************************)
(* What liquid staking without rewards promises, with no token account,    *)
(* vault account, freeze, pause or administrator in it: shares stand one   *)
(* to one against a pool, a user has at most one request, and a request is *)
(* paid once, from the pool, no earlier than MinWait after it was made and *)
(* never beyond its amount.  The pool may be given more than it owes, and  *)
(* shares may be given up for nothing.                                     *)
(***************************************************************************)
EXTENDS Integers

CONSTANTS
  Users,
  Amount,     \* the amounts that move in one step
  MinWait,    \* the shortest wait between a request and its payout
  NoRequest

VARIABLES
  shares,     \* liquid tokens in circulation
  pool,       \* what stands behind them
  request,    \* the request of every user, or NoRequest
  clock

vars == <<shares, pool, request, clock>>

Init ==
  /\ shares = 0
  /\ pool \in Nat
  /\ request = [u \in Users |-> NoRequest]
  /\ clock = 0

Stake(n) ==
  /\ shares' = shares + n
  /\ pool' = pool + n
  /\ UNCHANGED <<request, clock>>

Request(u, n) ==
  /\ request[u] = NoRequest
  /\ request' = [request EXCEPT ![u] = [amount |-> n, since |-> clock]]
  /\ UNCHANGED <<shares, pool, clock>>

Payout(u, n) ==
  /\ request[u] # NoRequest
  /\ clock - request[u].since >= MinWait
  /\ n <= request[u].amount
  /\ n <= shares
  /\ n <= pool
  /\ shares' = shares - n
  /\ pool' = pool - n
  /\ request' = [request EXCEPT ![u] = NoRequest]
  /\ UNCHANGED clock

Donate(n) == pool' = pool + n /\ UNCHANGED <<shares, request, clock>>

Retire(n) ==
  /\ n <= shares
  /\ shares' = shares - n
  /\ UNCHANGED <<pool, request, clock>>

Advance == clock' = clock + 1 /\ UNCHANGED <<shares, pool, request>>

Next ==
  \/ Advance
  \/ \E n \in Amount :
       \/ Stake(n)
       \/ Donate(n)
       \/ Retire(n)
       \/ \E u \in Users : Request(u, n) \/ Payout(u, n)

Spec == Init /\ [][Next]_vars
=============================================================================
