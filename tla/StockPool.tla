------------------------------ MODULE StockPool ------------------------------
(***************************************************************************)
(* What the stock ledger promises about an item, whatever store holds it:  *)
(* the organization owns more of it only when a goods receipt is posted,   *)
(* guards hold more of it only when an issuance is made and less only when *)
(* a return is filed, and both numbers drop when a row of the inventory is *)
(* deleted.  Moving goods between stores cannot be seen here.  All this is *)
(* promised until a negative quantity is booked, which no request is kept  *)
(* from doing.                                                             *)
(***************************************************************************)
EXTENDS StockRows

VARIABLES owned,  \* of each item, the sum of quantityOnHand over the stores
          held,   \* of each item, the sum of quantityReserved over the stores
          spoilt  \* where negative quantities were booked

pool == <<owned, held, spoilt>>

\* A quantity of each item: what the lines say, and nothing of the others.
Plus(amount, lines) ==
  [i \in Items |-> IF i \in DOMAIN lines THEN amount[i] + lines[i] ELSE amount[i]]

Minus(amount, lines) ==
  [i \in Items |-> IF i \in DOMAIN lines THEN amount[i] - lines[i] ELSE amount[i]]

PoolInit ==
  /\ owned = [i \in Items |-> 0]
  /\ held = [i \in Items |-> 0]
  /\ spoilt = {}

Buy(lines) == owned' = Plus(owned, lines) /\ UNCHANGED <<held, spoilt>>

Issue(lines) == held' = Plus(held, lines) /\ UNCHANGED <<owned, spoilt>>

TakeBack(lines) ==
  /\ \A i \in DOMAIN lines : held[i] >= lines[i]
  /\ held' = Minus(held, lines)
  /\ UNCHANGED <<owned, spoilt>>

WriteOff(i) ==
  /\ owned' = [owned EXCEPT ![i] = owned'[i]] /\ owned'[i] <= owned[i]
  /\ held' = [held EXCEPT ![i] = held'[i]] /\ held'[i] <= held[i]
  /\ UNCHANGED spoilt

\* Once a negative quantity is booked nothing is promised.
Spoil == spoilt' # {}

PoolNext ==
  \/ \E lines \in Lines : Buy(lines) \/ Issue(lines) \/ TakeBack(lines)
  \/ \E i \in Items : WriteOff(i)
  \/ Spoil

PoolSpec == PoolInit /\ [][PoolNext]_pool
==============================================================================
