------------------------------ MODULE MCAccounts ------------------------------
(***************************************************************************)
(* An instance of Accounts for TLC.                                        *)
(***************************************************************************)
EXTENDS Accounts, TLC

Symmetry ==
  Permutations(Users) \cup Permutations(Organizations) \cup Permutations(Offices)
    \cup Permutations(Clients) \cup Permutations(Callers)

\* A bound: at most one user holds a token that has not expired.
FewTokens == Cardinality({u \in Users : token[u] # None}) <= 1

\* A bound: at most MaxRemovals rows are deleted in a behaviour, cascades apart.
MaxRemovals == 1
Deleted(table) == Cardinality({x \in DOMAIN table : table[x] = Gone})
FewRemovals ==
  /\ Deleted(user) + Deleted(organization) <= MaxRemovals
  /\ Deleted(organization) = 0 =>
       Deleted(user) + Deleted(office) + Deleted(client) <= MaxRemovals

\* A bound: a registration or login crosses no other request, and of two requests
\* that create users one makes a client's account.
FewPairs ==
  \A c, d \in Callers : c # d /\ Idle \notin {call[c], call[d]} =>
    /\ {call[c].op, call[d].op} \subseteq {"user", "clientUser"}
    /\ "clientUser" \in {call[c].op, call[d].op}
==============================================================================
