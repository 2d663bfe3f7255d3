---------------------------- MODULE Accounts_proofs ----------------------------
(***************************************************************************)
(* What holds of accounts and tokens for every set of users, organizations *)
(* and requests.                                                           *)
(*                                                                         *)
(* A token is as old as its login, and a request that creates an account   *)
(* has compared office, client and organization before its transaction.    *)
(* Both are safe for one reason: an office and a client never change their *)
(* organization (Homed), only a new user gets one, and gets no second one, *)
(* so that what a user belongs to only shrinks (Shrinks).                  *)
(***************************************************************************)
EXTENDS Accounts, TLAPS

\* The office and the client a request has compared are gone or where they were.
Homed(k, fs, ks) ==
  /\ k.op = "user" =>
       /\ fs[k.office] # Unused
       /\ Present(fs[k.office]) => fs[k.office].org = k.org
  /\ k.op = "clientUser" =>
       /\ ks[k.client] # Unused
       /\ Present(ks[k.client]) => ks[k.client].org = k.org

CallsHomed == \A c \in Callers : Homed(call[c], office, client)

\* Nobody belongs to two organizations, be it as administrator or as member.
OneOrganization ==
  \A u \in Users : Present(user[u]) => \A o, p \in OrganizationsOf(u) : o = p

\* Only users that were inserted have logged in.
TokensUsed == \A u \in Users : token[u] # None => user[u] # Unused

IInv ==
  /\ TypeOK /\ CallsHomed /\ MembershipsIntact /\ OrganizationsIntact
  /\ ClientAccountAtHome /\ OneOrganization /\ TokenStaysAtHome /\ TokensUsed

TablesOK ==
  /\ user \in [Users -> Absent \cup UserRow]
  /\ organization \in [Organizations -> Absent \cup OrganizationRow]
  /\ office \in [Offices -> Absent \cup OfficeRow]
  /\ client \in [Clients -> Absent \cup ClientRow]
  /\ token \in [Users -> Claims \cup {None}]

\* Offices and clients are deleted, and never come back or move.
Steady ==
  /\ \A f \in Offices : office[f] # Unused =>
       /\ office'[f] # Unused
       /\ Present(office'[f]) => Present(office[f]) /\ office'[f].org = office[f].org
  /\ \A k \in Clients : client[k] # Unused =>
       /\ client'[k] # Unused
       /\ Present(client'[k]) => Present(client[k]) /\ client'[k].org = client[k].org

\* No user is inserted and none gets another organization.
Shrinks ==
  /\ \A u \in Users : Present(user'[u]) =>
       Present(user[u]) /\ user'[u].offices \subseteq user[u].offices
  /\ \A u \in Users : user[u] # Unused => user'[u] # Unused
  /\ \A o \in Organizations : Present(organization'[o]) =>
       Present(organization[o]) /\ organization'[o].user = organization[o].user

\* A client with an account has had it, and the account is still there.
AccountsKept ==
  \A k \in Clients : Present(client'[k]) /\ client'[k].user # None =>
    /\ Present(client[k]) /\ client'[k].user = client[k].user /\ client'[k].org = client[k].org
    /\ Present(user'[client[k].user])
-----------------------------------------------------------------------------
(* Rows and calls.                                                           *)

\* A row is present exactly when it has the columns of its table.
LEMMA PresentRows ==
  ASSUME TypeOK
  PROVE  /\ \A u \in Users : Present(user[u]) <=> user[u] \in UserRow
         /\ \A o \in Organizations : Present(organization[o]) <=> organization[o] \in OrganizationRow
         /\ \A f \in Offices : Present(office[f]) <=> office[f] \in OfficeRow
         /\ \A k \in Clients : Present(client[k]) <=> client[k] \in ClientRow
<1>1. \A x \in UserRow \cup OrganizationRow \cup OfficeRow \cup ClientRow : x.status = "KEPT"
  BY DEF UserRow, OrganizationRow, OfficeRow, ClientRow
<1>2. \A x \in Absent : x.status \in {"NONE", "GONE"}
  BY DEF Absent, Unused, Gone
<1> QED BY <1>1, <1>2 DEF TypeOK, Present

LEMMA AbsentRows == Gone # Unused /\ ~Present(Gone) /\ ~Present(Unused)
BY DEF Present, Absent, Unused, Gone

\* A row with columns is there.
LEMMA KeptRows ==
  \A x \in UserRow \cup OrganizationRow \cup OfficeRow \cup ClientRow : Present(x) /\ x # Unused
<1>1. \A x \in UserRow \cup OrganizationRow \cup OfficeRow \cup ClientRow : x.status = "KEPT"
  BY DEF UserRow, OrganizationRow, OfficeRow, ClientRow
<1>2. \A x \in Absent : x.status \in {"NONE", "GONE"}
  BY DEF Absent, Unused, Gone
<1> QED BY <1>1, <1>2 DEF Present, Absent

LEMMA IdleHomed == Idle \in Call /\ \A fs, ks : Homed(Idle, fs, ks)
BY DEF Idle, Call, Homed

LEMMA CallShape ==
  ASSUME NEW k \in Call
  PROVE  /\ k.op \in {"user", "clientUser"} =>
              k.role \in RoleNames /\ k.org \in Organizations /\ k.office \in Offices
         /\ k.op = "clientUser" => k.client \in Clients
         /\ k.op = "sign" => k.user \in Users
BY DEF Call, Idle

\* The users without some memberships are the same users otherwise.
LEMMA WithoutRows ==
  ASSUME TypeOK, NEW D
  PROVE  /\ Without(D) \in [Users -> Absent \cup UserRow]
         /\ \A u \in Users :
              /\ Present(Without(D)[u]) <=> Present(user[u])
              /\ user[u] # Unused => Without(D)[u] # Unused
              /\ Present(user[u]) =>
                   Without(D)[u].offices = {m \in user[u].offices : m.office \notin D}
<1>1. ASSUME NEW row \in UserRow
      PROVE  /\ [row EXCEPT !.offices = {m \in @ : m.office \notin D}] \in UserRow
             /\ [row EXCEPT !.offices = {m \in @ : m.office \notin D}].offices
                  = {m \in row.offices : m.office \notin D}
  BY DEF UserRow
<1>2. \A u \in Users : Without(D)[u] =
        IF Present(user[u]) THEN [user[u] EXCEPT !.offices = {m \in @ : m.office \notin D}]
        ELSE user[u]
  BY DEF Without
<1>3. ASSUME NEW u \in Users
      PROVE  /\ Without(D)[u] \in Absent \cup UserRow
             /\ Present(Without(D)[u]) <=> Present(user[u])
             /\ user[u] # Unused => Without(D)[u] # Unused
             /\ Present(user[u]) =>
                  Without(D)[u].offices = {m \in user[u].offices : m.office \notin D}
  <2>1. CASE Present(user[u])
    <3>1. user[u] \in UserRow
      BY <2>1, PresentRows
    <3> QED BY <1>1, <1>2, <2>1, <3>1, KeptRows
  <2>2. CASE ~Present(user[u])
    BY <1>2, <2>2 DEF TypeOK, Present
  <2> QED BY <2>1, <2>2
<1>4. Without(D) = [u \in Users |-> Without(D)[u]]
  BY DEF Without
<1> QED BY <1>3, <1>4
-----------------------------------------------------------------------------
(* What a step preserves.                                                    *)

LEMMA HomedStays ==
  ASSUME NEW k \in Call, Homed(k, office, client), Steady
  PROVE  Homed(k, office', client')
BY CallShape DEF Homed, Steady

LEMMA CallsStay ==
  ASSUME IInv, Steady, call' = call
  PROVE  call' \in [Callers -> Call] /\ CallsHomed'
BY HomedStays DEF IInv, TypeOK, CallsHomed

LEMMA CallerMoves ==
  ASSUME IInv, Steady, NEW c \in Callers, NEW k \in Call, Homed(k, office', client'),
         Proceed(c, k)
  PROVE  call' \in [Callers -> Call] /\ CallsHomed'
<1>1. call' = [call EXCEPT ![c] = k] /\ call \in [Callers -> Call]
  BY DEF Proceed, IInv, TypeOK
<1>2. \A d \in Callers : Homed(call[d], office', client')
  BY <1>1, HomedStays DEF IInv, CallsHomed
<1> QED BY <1>1, <1>2 DEF CallsHomed

\* Whoever belongs to less than before still belongs to what the token says.
LEMMA HomesShrink ==
  ASSUME IInv, Shrinks
  PROVE  \A u \in Users : Present(user'[u]) => OrganizationsOf(u)' \subseteq OrganizationsOf(u)
BY DEF Shrinks, OrganizationsOf

LEMMA HomesStay ==
  ASSUME IInv, Shrinks, AccountsKept, TablesOK'
  PROVE  OneOrganization' /\ ClientAccountAtHome'
<1>1. OneOrganization'
  BY HomesShrink DEF IInv, OneOrganization, Shrinks
<1>2. ClientAccountAtHome'
  <2> SUFFICES ASSUME NEW k \in Clients, Present(client'[k]), client'[k].user # None,
                      NEW u, u = client'[k].user
               PROVE  /\ Present(user'[u])
                      /\ OrganizationsOf(u)' \subseteq {client'[k].org}
                      /\ \A j \in Clients \ {k} : Present(client'[j]) => client'[j].user # u
    BY DEF ClientAccountAtHome, OrganizationsOf
  <2>1. Present(client[k]) /\ client[k].user = u /\ u # None /\ Present(user'[u])
          /\ client'[k].org = client[k].org
    BY DEF AccountsKept
  <2>2. u \in Users
    BY <2>1, PresentRows DEF IInv, ClientRow
  <2>3. OrganizationsOf(u) \subseteq {client[k].org}
    BY <2>1 DEF IInv, ClientAccountAtHome
  <2>4. \A j \in Clients \ {k} : Present(client'[j]) => client'[j].user # u
    BY <2>1 DEF IInv, ClientAccountAtHome, AccountsKept
  <2> QED BY <2>1, <2>2, <2>3, <2>4, HomesShrink
<1> QED BY <1>1, <1>2

LEMMA TokensStay ==
  ASSUME IInv, Shrinks, token' = token
  PROVE  TokenStaysAtHome' /\ TokensUsed'
BY HomesShrink DEF IInv, TokenStaysAtHome, TokensUsed, Shrinks
-----------------------------------------------------------------------------
(* Deletions and other changes of what is there.                             *)

\* Everything a step must keep when it inserts no user and starts no request.
LEMMA TablesMove ==
  ASSUME IInv, call' = call, token' = token, TablesOK', Steady, Shrinks, AccountsKept,
         MembershipsIntact', OrganizationsIntact'
  PROVE  IInv'
<1>1. TypeOK' /\ CallsHomed'
  BY CallsStay DEF TypeOK, TablesOK
<1> QED BY <1>1, HomesStay, TokensStay DEF IInv

\* Clients as they are keep their accounts while no user goes.
LEMMA ClientsStay ==
  ASSUME IInv, \A k \in Clients : Present(client'[k]) => client'[k] = client[k] /\ Present(client[k]),
         \A u \in Users : Present(user[u]) => Present(user'[u])
  PROVE  AccountsKept
<1> SUFFICES ASSUME NEW k \in Clients, Present(client'[k]), client'[k].user # None
             PROVE  /\ Present(client[k]) /\ client'[k] = client[k]
                    /\ Present(user'[client[k].user])
  BY DEF AccountsKept
<1>1. Present(client[k]) /\ client'[k] = client[k]
  OBVIOUS
<1>2. client[k].user \in Users
  BY <1>1, PresentRows DEF IInv, ClientRow
<1> QED BY <1>1, <1>2 DEF IInv, ClientAccountAtHome

LEMMA DeleteOfficeStep ==
  ASSUME IInv, NEW o \in Organizations, NEW f \in Offices, DeleteOffice(o, f)
  PROVE  IInv'
<1>0. TypeOK /\ UNCHANGED <<organization, client, token, call>>
  BY DEF IInv, DeleteOffice
<1>1. office' = [office EXCEPT ![f] = Gone] /\ user' = Without({f})
  BY DEF DeleteOffice
<1>2. /\ user' \in [Users -> Absent \cup UserRow]
      /\ \A u \in Users :
           /\ Present(user'[u]) <=> Present(user[u])
           /\ user[u] # Unused => user'[u] # Unused
           /\ Present(user[u]) => user'[u].offices = {m \in user[u].offices : m.office \notin {f}}
  BY <1>0, <1>1, WithoutRows
<1>3. \A g \in Offices : office'[g] = IF g = f THEN Gone ELSE office[g]
  BY <1>0, <1>1 DEF TypeOK
<1>4. TablesOK'
  BY <1>0, <1>1, <1>2 DEF TypeOK, TablesOK, Absent
<1>5. Steady /\ Shrinks
  BY <1>0, <1>2, <1>3, AbsentRows DEF Steady, Shrinks
<1>6. AccountsKept
  BY <1>0, <1>2, ClientsStay
<1>7. MembershipsIntact'
  <2> SUFFICES ASSUME NEW u \in Users, Present(user'[u]), NEW m \in user'[u].offices
               PROVE  Present(office'[m.office]) /\ office'[m.office].org = m.org
    BY DEF MembershipsIntact
  <2>1. m \in user[u].offices /\ m.office # f /\ m.office \in Offices
    BY <1>0, <1>2, PresentRows DEF UserRow
  <2> QED BY <1>2, <1>3, <2>1 DEF IInv, MembershipsIntact
<1>8. OrganizationsIntact'
  BY <1>0, <1>2, <1>3, AbsentRows, PresentRows DEF IInv, OrganizationsIntact, OrganizationRow
<1> QED BY <1>0, <1>4, <1>5, <1>6, <1>7, <1>8, TablesMove

LEMMA RemoveOrganizationStep ==
  ASSUME IInv, NEW o \in Organizations, RemoveOrganization(o)
  PROVE  IInv'
<1>0. TypeOK /\ UNCHANGED <<token, call>> /\ user' = Without(OfficesOf(o))
  BY DEF IInv, RemoveOrganization
<1>1. /\ user' \in [Users -> Absent \cup UserRow]
      /\ \A u \in Users :
           /\ Present(user'[u]) <=> Present(user[u])
           /\ user[u] # Unused => user'[u] # Unused
           /\ Present(user[u]) =>
                user'[u].offices = {m \in user[u].offices : m.office \notin OfficesOf(o)}
  BY <1>0, WithoutRows
<1>2. /\ \A p \in Organizations : organization'[p] = IF p = o THEN Gone ELSE organization[p]
      /\ \A f \in Offices : office'[f] =
           IF Present(office[f]) /\ office[f].org = o THEN Gone ELSE office[f]
      /\ \A k \in Clients : client'[k] =
           IF Present(client[k]) /\ client[k].org = o THEN Gone ELSE client[k]
  BY DEF RemoveOrganization, DeleteOrganizations
<1>3. TablesOK'
  BY <1>0, <1>1 DEF TypeOK, TablesOK, Absent, RemoveOrganization, DeleteOrganizations
<1>4. Steady /\ Shrinks
  BY <1>0, <1>1, <1>2, AbsentRows DEF Steady, Shrinks
<1>5. AccountsKept
  BY <1>1, <1>2, AbsentRows, ClientsStay
<1>6. MembershipsIntact'
  <2> SUFFICES ASSUME NEW u \in Users, Present(user'[u]), NEW m \in user'[u].offices
               PROVE  Present(office'[m.office]) /\ office'[m.office].org = m.org
    BY DEF MembershipsIntact
  <2>1. m \in user[u].offices /\ m.office \notin OfficesOf(o) /\ m.office \in Offices
    BY <1>0, <1>1, PresentRows DEF UserRow
  <2> QED BY <1>1, <1>2, <2>1 DEF IInv, MembershipsIntact, OfficesOf
<1>7. OrganizationsIntact'
  <2>1. \A p \in Organizations : Present(organization'[p]) => Present(user'[organization'[p].user])
    BY <1>0, <1>1, <1>2, AbsentRows, PresentRows DEF IInv, OrganizationsIntact, OrganizationRow
  <2>2. \A f \in Offices : Present(office'[f]) => Present(organization'[office'[f].org])
    BY <1>0, <1>2, AbsentRows, PresentRows DEF IInv, OrganizationsIntact, OfficeRow
  <2>3. \A k \in Clients : Present(client'[k]) => Present(organization'[client'[k].org])
    BY <1>0, <1>2, AbsentRows, PresentRows DEF IInv, OrganizationsIntact, ClientRow
  <2> QED BY <2>1, <2>2, <2>3 DEF OrganizationsIntact
<1> QED BY <1>0, <1>3, <1>4, <1>5, <1>6, <1>7, TablesMove

LEMMA RemoveUserStep ==
  ASSUME IInv, NEW u \in Users, RemoveUser(u)
  PROVE  IInv'
<1> DEFINE D == {o \in Organizations : Present(organization[o]) /\ organization[o].user = u}
           F == {f \in Offices : Present(office[f]) /\ office[f].org \in D}
<1>0. TypeOK /\ UNCHANGED <<token, call>> /\ user' = [Without(F) EXCEPT ![u] = Gone]
  BY DEF IInv, RemoveUser
<1>1. /\ user' \in [Users -> Absent \cup UserRow]
      /\ \A v \in Users :
           /\ Present(user'[v]) <=> Present(user[v]) /\ v # u
           /\ user[v] # Unused => user'[v] # Unused
           /\ Present(user'[v]) =>
                user'[v].offices = {m \in user[v].offices : m.office \notin F}
  <2> HIDE DEF F
  <2>1. Without(F) \in [Users -> Absent \cup UserRow]
    BY <1>0, WithoutRows
  <2>2. \A v \in Users : user'[v] = IF v = u THEN Gone ELSE Without(F)[v]
    BY <1>0, <2>1
  <2>3. user' \in [Users -> Absent \cup UserRow]
    BY <1>0, <2>1 DEF Absent
  <2> QED BY <1>0, <2>2, <2>3, WithoutRows, AbsentRows
<1>2. /\ \A o \in Organizations : organization'[o] = IF o \in D THEN Gone ELSE organization[o]
      /\ \A f \in Offices : office'[f] = IF f \in F THEN Gone ELSE office[f]
  BY DEF RemoveUser
<1>3. \A k \in Clients : client'[k] =
        IF Present(client[k]) /\ client[k].org \in D THEN Gone
        ELSE IF Present(client[k]) /\ client[k].user = u
        THEN [client[k] EXCEPT !.user = None] ELSE client[k]
  BY DEF RemoveUser
<1>4. organization' \in [Organizations -> Absent \cup OrganizationRow]
        /\ office' \in [Offices -> Absent \cup OfficeRow]
  BY <1>0 DEF RemoveUser, TypeOK, Absent
<1>5. /\ client' \in [Clients -> Absent \cup ClientRow]
      /\ \A k \in Clients : client[k] # Unused => client'[k] # Unused
      /\ \A k \in Clients : Present(client'[k]) =>
           /\ Present(client[k]) /\ client'[k].org = client[k].org /\ client[k].org \notin D
           /\ client'[k].user = None \/ (client'[k] = client[k] /\ client[k].user # u)
  <2> HIDE DEF D, F
  <2>1. ASSUME NEW row \in ClientRow
        PROVE  /\ [row EXCEPT !.user = None] \in ClientRow
               /\ [row EXCEPT !.user = None].org = row.org
               /\ [row EXCEPT !.user = None].user = None
    BY DEF ClientRow
  <2>2. \A k \in Clients : client'[k] \in Absent \cup ClientRow
    BY <1>0, <1>3, <2>1, PresentRows DEF TypeOK, Absent
  <2>3. \A k \in Clients : client[k] # Unused => client'[k] # Unused
    BY <1>0, <1>3, <2>1, PresentRows, KeptRows, AbsentRows
  <2>4. \A k \in Clients : Present(client'[k]) =>
           /\ Present(client[k]) /\ client'[k].org = client[k].org /\ client[k].org \notin D
           /\ client'[k].user = None \/ (client'[k] = client[k] /\ client[k].user # u)
    <3> SUFFICES ASSUME NEW k \in Clients, Present(client'[k])
                 PROVE  /\ Present(client[k]) /\ client'[k].org = client[k].org
                        /\ client[k].org \notin D
                        /\ client'[k].user = None \/ (client'[k] = client[k] /\ client[k].user # u)
      OBVIOUS
    <3>1. Present(client[k]) /\ client[k] \in ClientRow /\ client[k].org \notin D
      BY <1>0, <1>3, PresentRows, AbsentRows
    <3>2. client'[k] = IF client[k].user = u THEN [client[k] EXCEPT !.user = None] ELSE client[k]
      BY <1>3, <3>1
    <3>3. CASE client[k].user = u
      BY <2>1, <3>1, <3>2, <3>3
    <3>4. CASE client[k].user # u
      BY <3>1, <3>2, <3>4
    <3> QED BY <3>3, <3>4
  <2>5. DOMAIN client' = Clients /\ client' = [k \in Clients |-> client'[k]]
    BY DEF RemoveUser
  <2> QED BY <2>2, <2>3, <2>4, <2>5
<1>6. TablesOK'
  BY <1>0, <1>1, <1>4, <1>5 DEF TypeOK, TablesOK
<1>7. \A o \in Organizations : Present(organization'[o]) =>
        organization'[o] = organization[o] /\ o \notin D /\ organization[o].user # u
  BY <1>2, AbsentRows
<1>8. \A f \in Offices : Present(office'[f]) => office'[f] = office[f] /\ f \notin F
  BY <1>2, AbsentRows
<1>9. Steady
  BY <1>2, <1>5, <1>8, AbsentRows DEF Steady
<1>10. Shrinks
  BY <1>1, <1>7 DEF Shrinks
<1>11. AccountsKept
  <2> SUFFICES ASSUME NEW k \in Clients, Present(client'[k]), client'[k].user # None
               PROVE  /\ Present(client[k]) /\ client'[k] = client[k]
                      /\ Present(user'[client[k].user])
    BY DEF AccountsKept
  <2>1. Present(client[k]) /\ client'[k] = client[k] /\ client[k].user # u
    BY <1>5
  <2>2. client[k].user \in Users
    BY <1>0, <2>1, PresentRows DEF ClientRow
  <2> QED BY <1>1, <2>1, <2>2 DEF IInv, ClientAccountAtHome
<1>12. MembershipsIntact'
  <2> SUFFICES ASSUME NEW v \in Users, Present(user'[v]), NEW m \in user'[v].offices
               PROVE  Present(office'[m.office]) /\ office'[m.office].org = m.org
    BY DEF MembershipsIntact
  <2>1. Present(user[v]) /\ m \in user[v].offices /\ m.office \notin F
    BY <1>1
  <2>2. m.office \in Offices
    BY <1>0, <2>1, PresentRows DEF UserRow
  <2>3. office'[m.office] = office[m.office]
    BY <1>2, <2>1, <2>2
  <2> QED BY <2>1, <2>2, <2>3 DEF IInv, MembershipsIntact
<1>13. OrganizationsIntact'
  <2>1. \A p \in Organizations : Present(organization'[p]) => Present(user'[organization'[p].user])
    <3> SUFFICES ASSUME NEW p \in Organizations, Present(organization'[p])
                 PROVE  Present(user'[organization'[p].user])
      OBVIOUS
    <3>1. organization'[p] = organization[p] /\ organization[p].user # u /\ Present(organization[p])
      BY <1>7
    <3>2. organization[p].user \in Users
      BY <1>0, <3>1, PresentRows DEF OrganizationRow
    <3> QED BY <1>1, <3>1, <3>2 DEF IInv, OrganizationsIntact
  <2>2. \A f \in Offices : Present(office'[f]) => Present(organization'[office'[f].org])
    <3> SUFFICES ASSUME NEW f \in Offices, Present(office'[f])
                 PROVE  Present(organization'[office'[f].org])
      OBVIOUS
    <3>1. office'[f] = office[f] /\ Present(office[f]) /\ f \notin F
      BY <1>8
    <3>2. office[f].org \in Organizations /\ office[f].org \notin D
      BY <1>0, <3>1, PresentRows DEF OfficeRow
    <3> QED BY <1>2, <3>1, <3>2 DEF IInv, OrganizationsIntact
  <2>3. \A k \in Clients : Present(client'[k]) => Present(organization'[client'[k].org])
    <3> SUFFICES ASSUME NEW k \in Clients, Present(client'[k])
                 PROVE  Present(organization'[client'[k].org])
      OBVIOUS
    <3>1. client'[k].org = client[k].org /\ Present(client[k]) /\ client[k].org \notin D
      BY <1>5
    <3>2. client[k].org \in Organizations
      BY <1>0, <3>1, PresentRows DEF ClientRow
    <3> QED BY <1>2, <3>1, <3>2 DEF IInv, OrganizationsIntact
  <2> QED BY <2>1, <2>2, <2>3 DEF OrganizationsIntact
<1> QED BY <1>0, <1>6, <1>9, <1>10, <1>11, <1>12, <1>13, TablesMove

LEMMA RemoveClientStep ==
  ASSUME IInv, NEW k \in Clients, RemoveClient(k)
  PROVE  IInv'
<1>0. TypeOK /\ UNCHANGED <<user, organization, office, token, call>>
  BY DEF IInv, RemoveClient
<1>1. \A j \in Clients : client'[j] = IF j = k THEN Gone ELSE client[j]
  BY <1>0 DEF RemoveClient, TypeOK
<1>2. TablesOK'
  BY <1>0 DEF RemoveClient, TypeOK, TablesOK, Absent
<1>3. Steady /\ Shrinks
  BY <1>0, <1>1, AbsentRows DEF Steady, Shrinks
<1>4. AccountsKept
  BY <1>0, <1>1, AbsentRows, ClientsStay
<1>5. MembershipsIntact' /\ OrganizationsIntact'
  BY <1>0, <1>1, AbsentRows DEF IInv, MembershipsIntact, OrganizationsIntact
<1> QED BY <1>0, <1>2, <1>3, <1>4, <1>5, TablesMove

\* Roles have nothing to do with organizations.
LEMMA RolesChange ==
  ASSUME IInv, UNCHANGED <<organization, office, client, token, call>>,
         NEW R \in [Users -> SUBSET RoleNames], NEW D \in SUBSET {u \in Users : Present(user[u])},
         user' = [u \in Users |-> IF u \in D THEN [user[u] EXCEPT !.roles = R[u]] ELSE user[u]]
  PROVE  IInv'
<1>0. TypeOK
  BY DEF IInv
<1>1. ASSUME NEW row \in UserRow, NEW S \in SUBSET RoleNames
      PROVE  /\ [row EXCEPT !.roles = S] \in UserRow
             /\ [row EXCEPT !.roles = S].offices = row.offices
  BY DEF UserRow
<1>2. ASSUME NEW u \in Users
      PROVE  /\ user'[u] \in Absent \cup UserRow
             /\ Present(user'[u]) <=> Present(user[u])
             /\ user[u] # Unused => user'[u] # Unused
             /\ Present(user[u]) => user'[u].offices = user[u].offices
  <2>1. CASE u \in D
    <3>1. user[u] \in UserRow /\ Present(user[u])
      BY <1>0, <2>1, PresentRows
    <3>2. user'[u] = [user[u] EXCEPT !.roles = R[u]]
      BY <2>1
    <3> QED BY <1>1, <3>1, <3>2, KeptRows
  <2>2. CASE u \notin D
    <3>1. user'[u] = user[u]
      BY <2>2
    <3> QED BY <1>0, <3>1 DEF TypeOK
  <2> QED BY <2>1, <2>2
<1>3. user' = [u \in Users |-> user'[u]]
  OBVIOUS
<1>4. TablesOK'
  <2>1. user' \in [Users -> Absent \cup UserRow]
    BY <1>2, <1>3
  <2> QED BY <1>0, <2>1 DEF TypeOK, TablesOK
<1>5. Steady /\ Shrinks
  BY <1>2 DEF Steady, Shrinks
<1>6. AccountsKept
  BY <1>2, ClientsStay
<1>7. MembershipsIntact'
  BY <1>2 DEF IInv, MembershipsIntact
<1>8. OrganizationsIntact'
  BY <1>0, <1>2, PresentRows DEF IInv, OrganizationsIntact, OrganizationRow
<1> QED BY <1>4, <1>5, <1>6, <1>7, <1>8, TablesMove

LEMMA GrantRoleStep ==
  ASSUME IInv, NEW u \in Users, NEW r \in RoleNames, GrantRole(u, r)
  PROVE  IInv'
<1>1. user \in [Users -> Absent \cup UserRow] /\ user[u] \in UserRow
  BY PresentRows DEF IInv, TypeOK, GrantRole
<1>2. user[u].roles \cup {r} \in SUBSET RoleNames
  BY <1>1 DEF UserRow
<1> DEFINE R == [v \in Users |-> user[u].roles \cup {r}]
<1>3. R \in [Users -> SUBSET RoleNames]
  BY <1>2
<1>4. {u} \in SUBSET {v \in Users : Present(user[v])}
  BY DEF GrantRole
<1>5. user' = [v \in Users |-> IF v \in {u} THEN [user[v] EXCEPT !.roles = R[v]] ELSE user[v]]
  BY <1>1 DEF GrantRole
<1> QED BY <1>3, <1>4, <1>5, RolesChange DEF GrantRole

LEMMA ReplaceRoleStep ==
  ASSUME IInv, NEW n \in RoleNames, NEW D \in SUBSET Users, NEW new \in SUBSET RoleNames,
         ReplaceRole(n, D, new)
  PROVE  IInv'
<1> DEFINE R == [v \in Users |-> IF v \in D THEN (user[v].roles \ {n}) \cup new ELSE {}]
<1>1. \A v \in D : user[v] \in UserRow /\ Present(user[v])
  BY PresentRows DEF IInv, ReplaceRole
<1>2. R \in [Users -> SUBSET RoleNames]
  <2>1. \A v \in D : (user[v].roles \ {n}) \cup new \in SUBSET RoleNames
    BY <1>1 DEF UserRow
  <2> QED BY <2>1
<1>3. user' = [v \in Users |-> IF v \in D THEN [user[v] EXCEPT !.roles = R[v]] ELSE user[v]]
  BY DEF ReplaceRole
<1>4. D \in SUBSET {v \in Users : Present(user[v])}
  BY <1>1
<1> QED BY <1>2, <1>3, <1>4, RolesChange DEF ReplaceRole
-----------------------------------------------------------------------------
(* New offices and clients.                                                  *)

LEMMA AddOfficeStep ==
  ASSUME IInv, NEW o \in Organizations, NEW f \in Offices, AddOffice(o, f)
  PROVE  IInv'
<1>0. TypeOK /\ UNCHANGED <<user, organization, client, token, call>>
  BY DEF IInv, AddOffice
<1> DEFINE row == [status |-> "KEPT", org |-> o]
<1>1. row \in OfficeRow /\ row.org = o
  BY DEF OfficeRow
<1>2. office' = [office EXCEPT ![f] = row]
  BY DEF AddOffice
<1> HIDE DEF row
<1>3. \A g \in Offices : office'[g] = IF g = f THEN row ELSE office[g]
  BY <1>0, <1>2 DEF TypeOK
<1>4. TablesOK'
  BY <1>0, <1>1, <1>2 DEF TypeOK, TablesOK
<1>5. Steady /\ Shrinks
  BY <1>0, <1>3 DEF Steady, Shrinks, AddOffice
<1>6. AccountsKept
  BY <1>0, ClientsStay
<1>7. MembershipsIntact'
  <2> SUFFICES ASSUME NEW u \in Users, Present(user[u]), NEW m \in user[u].offices
               PROVE  Present(office'[m.office]) /\ office'[m.office].org = m.org
    BY <1>0 DEF MembershipsIntact
  <2>1. Present(office[m.office]) /\ office[m.office].org = m.org
    BY DEF IInv, MembershipsIntact
  <2>2. m.office \in Offices
    BY <1>0, PresentRows DEF UserRow
  <2>3. m.office # f
    BY <2>1, AbsentRows DEF AddOffice
  <2> QED BY <1>3, <2>1, <2>2, <2>3
<1>8. OrganizationsIntact'
  BY <1>0, <1>1, <1>3 DEF IInv, OrganizationsIntact, AddOffice
<1> QED BY <1>0, <1>4, <1>5, <1>6, <1>7, <1>8, TablesMove

LEMMA CreateClientStep ==
  ASSUME IInv, NEW o \in Organizations, NEW k \in Clients, CreateClient(o, k)
  PROVE  IInv'
<1>0. TypeOK /\ UNCHANGED <<user, organization, office, token, call>>
  BY DEF IInv, CreateClient
<1> DEFINE row == [status |-> "KEPT", org |-> o, user |-> None]
<1>1. row \in ClientRow /\ row.org = o /\ row.user = None
  BY DEF ClientRow
<1>2. client' = [client EXCEPT ![k] = row]
  BY DEF CreateClient
<1> HIDE DEF row
<1>3. \A j \in Clients : client'[j] = IF j = k THEN row ELSE client[j]
  BY <1>0, <1>2 DEF TypeOK
<1>4. TablesOK'
  BY <1>0, <1>1, <1>2 DEF TypeOK, TablesOK
<1>5. Steady /\ Shrinks
  BY <1>0, <1>3 DEF Steady, Shrinks, CreateClient
<1>6. AccountsKept
  <2> SUFFICES ASSUME NEW j \in Clients, Present(client'[j]), client'[j].user # None
               PROVE  /\ Present(client[j]) /\ client'[j] = client[j]
                      /\ Present(user'[client[j].user])
    BY DEF AccountsKept
  <2>1. client'[j] = client[j]
    BY <1>1, <1>3
  <2> QED BY <1>0, <2>1 DEF IInv, ClientAccountAtHome
<1>7. MembershipsIntact'
  BY <1>0 DEF IInv, MembershipsIntact
<1>8. OrganizationsIntact'
  BY <1>0, <1>1, <1>3 DEF IInv, OrganizationsIntact, CreateClient
<1> QED BY <1>0, <1>4, <1>5, <1>6, <1>7, <1>8, TablesMove

LEMMA AdministrationStep ==
  ASSUME IInv, Administration
  PROVE  IInv'
<1>1. \A m \in RoleNames : {m} \in SUBSET RoleNames
  OBVIOUS
<1>2. {} \in SUBSET RoleNames
  OBVIOUS
<1> QED
  BY <1>1, <1>2, RemoveOrganizationStep, AddOfficeStep, DeleteOfficeStep, CreateClientStep, RemoveClientStep,
     RemoveUserStep, GrantRoleStep, ReplaceRoleStep DEF Administration
-----------------------------------------------------------------------------
(* New users.                                                                *)

\* A step gives the unused user v a row and the organization o, as administrator
\* or member, and makes v the account of the clients S, which is one at most.
Settles(v, row, o, S) ==
  /\ user[v] = Unused /\ user' = [user EXCEPT ![v] = row] /\ token' = token
  /\ \A m \in row.offices : m.org = o
  /\ \A p \in Organizations : Present(organization'[p]) =>
       \/ Present(organization[p]) /\ organization'[p].user = organization[p].user
       \/ p = o /\ organization'[p].user = v
  /\ \A i, j \in S : i = j
  /\ \A k \in S : client'[k].user = v /\ client'[k].org = o
  /\ \A k \in Clients \ S : client'[k] = client[k]

\* A user that is inserted gets one organization and nobody else gets any: no
\* organization, client or token names a user that is not there.
LEMMA HomesGrow ==
  ASSUME IInv, NEW v \in Users, NEW row \in UserRow, NEW o \in Organizations,
         NEW S \in SUBSET Clients, Settles(v, row, o, S)
  PROVE  OneOrganization' /\ ClientAccountAtHome' /\ TokenStaysAtHome' /\ TokensUsed'
<1> USE DEF Settles
<1>0. /\ ~Present(user[v]) /\ Present(row) /\ user'[v] = row /\ row # Unused
      /\ \A u \in Users \ {v} : user'[u] = user[u]
  BY AbsentRows, KeptRows DEF IInv, TypeOK
<1>1. \A p \in Organizations : Present(organization[p]) => organization[p].user # v
  BY <1>0 DEF IInv, OrganizationsIntact
<1>2. \A u \in Users \ {v} : OrganizationsOf(u)' \subseteq OrganizationsOf(u)
  BY <1>0 DEF OrganizationsOf
<1>3. OrganizationsOf(v)' \subseteq {o}
  BY <1>0, <1>1 DEF OrganizationsOf
<1>4. OneOrganization'
  BY <1>0, <1>2, <1>3 DEF IInv, OneOrganization
<1>5. v # None /\ \A k \in Clients : Present(client[k]) => client[k].user # v
  BY <1>0, NoneAssumption DEF IInv, ClientAccountAtHome
<1>6. ClientAccountAtHome'
  <2> SUFFICES ASSUME NEW k \in Clients, Present(client'[k]), client'[k].user # None,
                      NEW u, u = client'[k].user
               PROVE  /\ Present(user'[u])
                      /\ OrganizationsOf(u)' \subseteq {client'[k].org}
                      /\ \A j \in Clients \ {k} : Present(client'[j]) => client'[j].user # u
    BY DEF ClientAccountAtHome, OrganizationsOf
  <2>1. CASE k \in S
    BY <1>0, <1>3, <1>5, <2>1
  <2>2. CASE k \notin S
    <3>1. client'[k] = client[k] /\ u \in Users \ {v}
      BY <1>5, <2>2, PresentRows DEF IInv, ClientRow
    <3>2. /\ Present(user[u]) /\ OrganizationsOf(u) \subseteq {client[k].org}
          /\ \A j \in Clients \ {k} : Present(client[j]) => client[j].user # u
      BY <3>1 DEF IInv, ClientAccountAtHome
    <3> QED BY <1>0, <1>2, <3>1, <3>2
  <2> QED BY <2>1, <2>2
<1>7. TokenStaysAtHome' /\ TokensUsed'
  BY <1>0, <1>2 DEF IInv, TokenStaysAtHome, TokensUsed
<1> QED BY <1>4, <1>6, <1>7

\* All that a step must keep besides the requests.
TablesKept ==
  /\ TablesOK /\ MembershipsIntact /\ OrganizationsIntact
  /\ ClientAccountAtHome /\ OneOrganization /\ TokenStaysAtHome /\ TokensUsed

LEMMA RequestMoves ==
  ASSUME IInv, TablesKept', Steady, NEW c \in Callers, NEW k \in Call,
         Homed(k, office', client'), Proceed(c, k)
  PROVE  IInv'
BY CallerMoves DEF IInv, TablesKept, TypeOK, TablesOK

\* A request that reads, or is given up, leaves the tables.
LEMMA RequestReads ==
  ASSUME IInv, UNCHANGED tables, NEW c \in Callers, NEW k \in Call,
         Homed(k, office, client), Proceed(c, k)
  PROVE  IInv'
<1>1. Steady
  BY DEF Steady, tables
<1>2. TablesKept'
  BY DEF TablesKept, IInv, TypeOK, TablesOK, tables, MembershipsIntact, OrganizationsIntact,
         ClientAccountAtHome, OneOrganization, OrganizationsOf, TokenStaysAtHome, TokensUsed
<1> QED BY <1>1, <1>2, RequestMoves DEF tables

\* The transaction of a request k: its office and client are where they were.
LEMMA MemberInserted ==
  ASSUME IInv, NEW k \in Call, k.op \in {"user", "clientUser"}, NEW v \in Users, user[v] = Unused,
         Present(office[k.office]), office[k.office].org = k.org, Present(organization[k.org]),
         user' = [user EXCEPT ![v] = [status |-> "KEPT", roles |-> {k.role},
                                      offices |-> {[office |-> k.office, org |-> k.org]}]],
         NEW S \in SUBSET Clients, \A i, j \in S : i = j,
         \A j \in S : Present(client[j]) /\ client[j].org = k.org,
         client' = [j \in Clients |-> IF j \in S THEN [client[j] EXCEPT !.user = v] ELSE client[j]],
         UNCHANGED <<organization, office, token>>
  PROVE  TablesKept' /\ Steady
<1>0. TypeOK /\ k.role \in RoleNames /\ k.org \in Organizations /\ k.office \in Offices
  BY CallShape DEF IInv
<1> DEFINE mine == [office |-> k.office, org |-> k.org]
           row == [status |-> "KEPT", roles |-> {k.role}, offices |-> {mine}]
<1>1. row \in UserRow /\ row.offices = {mine} /\ mine.org = k.org /\ mine.office = k.office
  BY <1>0 DEF UserRow
<1>2. user' = [user EXCEPT ![v] = row]
  OBVIOUS
<1> HIDE DEF row, mine
<1>3. \A u \in Users : user'[u] = IF u = v THEN row ELSE user[u]
  BY <1>0, <1>2 DEF TypeOK
<1>4. ASSUME NEW r \in ClientRow
      PROVE  /\ [r EXCEPT !.user = v] \in ClientRow
             /\ [r EXCEPT !.user = v].org = r.org /\ [r EXCEPT !.user = v].user = v
  BY DEF ClientRow
<1>5. \A j \in S : client'[j] \in ClientRow /\ client'[j].org = k.org /\ client'[j].user = v
  BY <1>0, <1>4, PresentRows
<1>6. \A j \in Clients \ S : client'[j] = client[j]
  OBVIOUS
<1>7. client' = [j \in Clients |-> client'[j]]
  OBVIOUS
<1>8. TablesOK'
  <2>1. client' \in [Clients -> Absent \cup ClientRow]
    BY <1>0, <1>5, <1>6, <1>7 DEF TypeOK
  <2>2. user' \in [Users -> Absent \cup UserRow]
    BY <1>0, <1>1, <1>2 DEF TypeOK
  <2> QED BY <1>0, <2>1, <2>2 DEF TypeOK, TablesOK
<1>9. Steady
  BY <1>5, <1>6, KeptRows DEF Steady
<1>10. MembershipsIntact'
  BY <1>1, <1>3 DEF IInv, MembershipsIntact
<1>11. OrganizationsIntact'
  <2>1. \A u \in Users : Present(user[u]) => Present(user'[u])
    BY <1>1, <1>3, KeptRows
  <2>2. \A p \in Organizations : Present(organization[p]) => Present(user'[organization[p].user])
    BY <1>0, <2>1, PresentRows DEF IInv, OrganizationsIntact, OrganizationRow
  <2>3. \A j \in Clients : Present(client'[j]) => Present(organization[client'[j].org])
    BY <1>5, <1>6 DEF IInv, OrganizationsIntact
  <2> QED BY <2>2, <2>3 DEF IInv, OrganizationsIntact
<1>12. OneOrganization' /\ ClientAccountAtHome' /\ TokenStaysAtHome' /\ TokensUsed'
  <2>1. Settles(v, row, k.org, S)
    BY <1>1, <1>2, <1>5, <1>6 DEF Settles
  <2> QED BY <1>0, <1>1, <2>1, HomesGrow
<1> QED BY <1>8, <1>9, <1>10, <1>11, <1>12 DEF TablesKept

LEMMA CommitClientUserStep ==
  ASSUME IInv, NEW c \in Callers, NEW v \in Users, CommitClientUser(c, v)
  PROVE  IInv'
<1>1. PICK k \in Call : k = call[c]
  BY DEF IInv, TypeOK
<1>2. /\ k.op = "clientUser" /\ Homed(k, office, client)
      /\ k.client \in Clients
  BY <1>1, CallShape DEF IInv, CallsHomed, CommitClientUser
<1>3. /\ Present(client[k.client]) /\ client[k.client].org = k.org
      /\ Present(office[k.office]) /\ office[k.office].org = k.org
  BY <1>1, <1>2 DEF CommitClientUser, Unlinked, OfficesOf, Homed
<1> DEFINE S == {k.client}
<1>4. client' = [j \in Clients |-> IF j \in S THEN [client[j] EXCEPT !.user = v] ELSE client[j]]
  BY <1>1 DEF CommitClientUser, IInv, TypeOK
<1>5. /\ S \in SUBSET Clients /\ \A i, j \in S : i = j
      /\ \A j \in S : Present(client[j]) /\ client[j].org = k.org
  BY <1>2, <1>3
<1>6. /\ user[v] = Unused /\ Present(organization[k.org])
      /\ user' = [user EXCEPT ![v] = [status |-> "KEPT", roles |-> {k.role},
                                      offices |-> {[office |-> k.office, org |-> k.org]}]]
      /\ UNCHANGED <<organization, office, token>>
  BY <1>1 DEF CommitClientUser, InsertUser
<1> HIDE DEF S
<1>7. TablesKept' /\ Steady
  BY <1>2, <1>3, <1>4, <1>5, <1>6, MemberInserted
<1>8. Proceed(c, Idle)
  BY DEF CommitClientUser, Return
<1> QED BY <1>7, <1>8, IdleHomed, RequestMoves

\* Whatever request comes next for the caller whose user was inserted.
LEMMA CreateUserStep ==
  ASSUME IInv, NEW c \in Callers, NEW v \in Users, call[c].op = "user", InsertUser(c, v),
         UNCHANGED <<organization, office, client, token>>,
         NEW next \in Call, Homed(next, office', client'), Proceed(c, next)
  PROVE  IInv'
<1>1. PICK k \in Call : k = call[c]
  BY DEF IInv, TypeOK
<1>2. k.op = "user" /\ Homed(k, office, client)
  BY <1>1 DEF IInv, CallsHomed
<1>3. Present(office[k.office]) /\ office[k.office].org = k.org
  BY <1>1, <1>2 DEF InsertUser, Homed
<1>4. client' = [j \in Clients |-> IF j \in {} THEN [client[j] EXCEPT !.user = v] ELSE client[j]]
  <2>1. client = [j \in Clients |-> client[j]]
    BY DEF IInv, TypeOK
  <2>2. \A j \in Clients : j \notin {}
    OBVIOUS
  <2> QED BY <2>1, <2>2
<1>5. /\ user[v] = Unused /\ Present(organization[k.org])
      /\ user' = [user EXCEPT ![v] = [status |-> "KEPT", roles |-> {k.role},
                                      offices |-> {[office |-> k.office, org |-> k.org]}]]
  BY <1>1 DEF InsertUser
<1>6. PICK S \in SUBSET Clients : S = {}
  OBVIOUS
<1>7. /\ \A i, j \in S : i = j
      /\ \A j \in S : Present(client[j]) /\ client[j].org = k.org
      /\ client' = [j \in Clients |-> IF j \in S THEN [client[j] EXCEPT !.user = v] ELSE client[j]]
  BY <1>4, <1>6
<1>8. TablesKept' /\ Steady
  BY <1>2, <1>3, <1>5, <1>7, MemberInserted
<1> QED BY <1>8, RequestMoves

LEMMA CommitCreateUserStep ==
  ASSUME IInv, NEW c \in Callers, NEW v \in Users, CommitCreateUser(c, v)
  PROVE  IInv'
BY IdleHomed, CreateUserStep DEF CommitCreateUser, Return

LEMMA CommitSignupStep ==
  ASSUME IInv, NEW c \in Callers, NEW v \in Users, CommitSignup(c, v)
  PROVE  IInv'
<1> DEFINE next == [op |-> "sign", user |-> v]
<1>1. next \in Call /\ \A fs, ks : Homed(next, fs, ks)
  BY DEF Call, Homed
<1>2. Proceed(c, next)
  BY DEF CommitSignup
<1> HIDE DEF next
<1> QED BY <1>1, <1>2, CreateUserStep DEF CommitSignup

\* The new administrator is a member of no office; the organization is new too.
LEMMA CommitRegisterStep ==
  ASSUME IInv, NEW c \in Callers, NEW v \in Users, NEW o \in Organizations,
         NEW new \in SUBSET {f \in Offices : office[f] = Unused}, CommitRegister(c, v, o, new)
  PROVE  IInv'
<1>0. TypeOK /\ UNCHANGED <<client, token>> /\ organization[o] = Unused /\ user[v] = Unused
  BY DEF IInv, CommitRegister
<1> DEFINE row == [status |-> "KEPT", roles |-> {"organizationAdmin"}, offices |-> {}]
           org == [status |-> "KEPT", user |-> v]
           at == [status |-> "KEPT", org |-> o]
<1>1. /\ row \in UserRow /\ row.offices = {}
      /\ org \in OrganizationRow /\ org.user = v
      /\ at \in OfficeRow /\ at.org = o
  BY RoleNamesAssumption DEF UserRow, OrganizationRow, OfficeRow
<1>2. /\ user' = [user EXCEPT ![v] = row]
      /\ organization' = [organization EXCEPT ![o] = org]
      /\ office' = [f \in Offices |-> IF f \in new THEN at ELSE office[f]]
  BY DEF CommitRegister
<1> HIDE DEF row, org, at
<1>3. /\ \A u \in Users : user'[u] = IF u = v THEN row ELSE user[u]
      /\ \A p \in Organizations : organization'[p] = IF p = o THEN org ELSE organization[p]
      /\ \A f \in Offices : office'[f] = IF f \in new THEN at ELSE office[f]
      /\ \A f \in new : office[f] = Unused
  BY <1>0, <1>2 DEF TypeOK
<1>4. TablesOK'
  BY <1>0, <1>1, <1>2 DEF TypeOK, TablesOK
<1>5. Steady
  BY <1>0, <1>3 DEF Steady
<1>6. MembershipsIntact'
  <2> SUFFICES ASSUME NEW u \in Users, Present(user'[u]), NEW m \in user'[u].offices
               PROVE  Present(office'[m.office]) /\ office'[m.office].org = m.org
    BY DEF MembershipsIntact
  <2>1. user'[u] = user[u]
    BY <1>1, <1>3
  <2>2. Present(office[m.office]) /\ office[m.office].org = m.org
    BY <2>1 DEF IInv, MembershipsIntact
  <2>3. m.office \in Offices
    BY <1>0, <2>1, PresentRows DEF UserRow
  <2> QED BY <1>3, <2>2, <2>3, AbsentRows
<1>7. OrganizationsIntact'
  <2>1. \A u \in Users : Present(user[u]) => Present(user'[u])
    BY <1>1, <1>3, KeptRows
  <2>2. \A p \in Organizations : Present(organization[p]) => Present(organization'[p])
    BY <1>1, <1>3, KeptRows
  <2>3. \A p \in Organizations : Present(organization'[p]) => Present(user'[organization'[p].user])
    BY <1>0, <1>1, <1>3, <2>1, PresentRows, KeptRows DEF IInv, OrganizationsIntact, OrganizationRow
  <2>4. \A f \in Offices : Present(office'[f]) => Present(organization'[office'[f].org])
    BY <1>0, <1>1, <1>3, <2>2, PresentRows, KeptRows DEF IInv, OrganizationsIntact, OfficeRow
  <2>5. \A k \in Clients : Present(client[k]) => Present(organization'[client[k].org])
    BY <1>0, <2>2, PresentRows DEF IInv, OrganizationsIntact, ClientRow
  <2> QED BY <1>0, <2>3, <2>4, <2>5 DEF OrganizationsIntact
<1>8. OneOrganization' /\ ClientAccountAtHome' /\ TokenStaysAtHome' /\ TokensUsed'
  <2>1. PICK S \in SUBSET Clients : S = {}
    OBVIOUS
  <2>2. Settles(v, row, o, S)
    BY <1>0, <1>1, <1>2, <1>3, <2>1 DEF Settles
  <2> QED BY <1>1, <2>2, HomesGrow
<1>9. TablesKept'
  BY <1>4, <1>6, <1>7, <1>8 DEF TablesKept
<1>10. Proceed(c, Idle)
  BY DEF CommitRegister, Return
<1> QED BY <1>5, <1>9, <1>10, IdleHomed, RequestMoves
-----------------------------------------------------------------------------
(* Requests that read.                                                       *)

LEMMA BeginRegisterStep ==
  ASSUME IInv, NEW c \in Callers, BeginRegister(c)
  PROVE  IInv'
<1> DEFINE next == [op |-> "organization"]
<1>1. next \in Call /\ Homed(next, office, client)
  BY DEF Call, Homed
<1>2. Proceed(c, next) /\ UNCHANGED tables
  BY DEF BeginRegister
<1> HIDE DEF next
<1> QED BY <1>1, <1>2, RequestReads

LEMMA AbortStep ==
  ASSUME IInv, NEW c \in Callers, Abort(c)
  PROVE  IInv'
BY IdleHomed, RequestReads DEF Abort, Return

LEMMA BeginCreateUserStep ==
  ASSUME IInv, NEW c \in Callers, NEW o \in Organizations, NEW f \in Offices, NEW r \in RoleNames,
         BeginCreateUser(c, o, f, r)
  PROVE  IInv'
<1> DEFINE next == [op |-> "user", role |-> r, org |-> o, office |-> f]
<1>1. next \in Call /\ next.op = "user" /\ next.org = o /\ next.office = f
  BY DEF Call
<1>2. Proceed(c, next) /\ UNCHANGED tables /\ Present(office[f]) /\ office[f].org = o
  BY DEF BeginCreateUser, OfficesOf
<1> HIDE DEF next
<1>3. Homed(next, office, client)
  BY <1>1, <1>2, AbsentRows DEF Homed
<1> QED BY <1>1, <1>2, <1>3, RequestReads

LEMMA BeginClientUserStep ==
  ASSUME IInv, NEW c \in Callers, NEW o \in Organizations, NEW k \in Clients, NEW f \in Offices,
         NEW r \in RoleNames, BeginClientUser(c, o, k, f, r)
  PROVE  IInv'
<1> DEFINE next == [op |-> "clientUser", role |-> r, org |-> o, office |-> f, client |-> k]
<1>1. next \in Call /\ next.op = "clientUser" /\ next.org = o /\ next.client = k
  BY DEF Call
<1>2. Proceed(c, next) /\ UNCHANGED tables /\ Present(client[k]) /\ client[k].org = o
  BY DEF BeginClientUser
<1> HIDE DEF next
<1>3. Homed(next, office, client)
  BY <1>1, <1>2, AbsentRows DEF Homed
<1> QED BY <1>1, <1>2, <1>3, RequestReads
-----------------------------------------------------------------------------
(* Tokens.                                                                   *)

\* Who belongs where is a matter of the tables only.
LEMMA HomesSame ==
  ASSUME IInv, UNCHANGED <<user, organization, office, client>>
  PROVE  /\ \A u : OrganizationsOf(u)' = OrganizationsOf(u)
         /\ MembershipsIntact' /\ OrganizationsIntact' /\ OneOrganization' /\ ClientAccountAtHome'
<1>1. \A u : OrganizationsOf(u)' = OrganizationsOf(u)
  BY DEF OrganizationsOf
<1>2. MembershipsIntact' /\ OrganizationsIntact'
  BY DEF IInv, MembershipsIntact, OrganizationsIntact
<1>3. OneOrganization'
  BY <1>1 DEF IInv, OneOrganization
<1>4. ClientAccountAtHome'
  <2> SUFFICES ASSUME NEW k \in Clients, Present(client'[k]), client'[k].user # None,
                      NEW u, u = client'[k].user
               PROVE  /\ Present(user'[u])
                      /\ OrganizationsOf(u)' \subseteq {client'[k].org}
                      /\ \A j \in Clients \ {k} : Present(client'[j]) => client'[j].user # u
    BY DEF ClientAccountAtHome, OrganizationsOf
  <2> QED BY <1>1 DEF IInv, ClientAccountAtHome
<1> QED BY <1>1, <1>2, <1>3, <1>4

\* A token that is handed out names no organization but one the user belongs
\* to, and that is the only one.
LEMMA TokenIssued ==
  ASSUME IInv, UNCHANGED <<user, organization, office, client>>,
         NEW u \in Users, NEW claims \in Claims \cup {None}, token' = [token EXCEPT ![u] = claims],
         claims # None =>
           Present(user[u]) /\ (claims.org # None => claims.org \in OrganizationsOf(u))
  PROVE  TablesKept' /\ Steady
<1>1. \A v \in Users : token'[v] = IF v = u THEN claims ELSE token[v]
  BY DEF IInv, TypeOK
<1>2. TablesOK'
  BY DEF IInv, TypeOK, TablesOK
<1>3. \A v \in Users : OrganizationsOf(v)' = OrganizationsOf(v)
  BY HomesSame
<1>4. MembershipsIntact' /\ OrganizationsIntact' /\ OneOrganization' /\ ClientAccountAtHome'
  BY HomesSame
<1>5. TokenStaysAtHome'
  <2> SUFFICES ASSUME NEW v \in Users, token'[v] # None, token'[v].org # None, Present(user[v])
               PROVE  OrganizationsOf(v)' \subseteq {token'[v].org}
    BY DEF TokenStaysAtHome
  <2>1. CASE v = u
    <3>1. token'[v] = claims /\ claims.org \in OrganizationsOf(u)
      BY <1>1, <2>1
    <3> QED BY <1>3, <2>1, <3>1 DEF IInv, OneOrganization
  <2>2. CASE v # u
    BY <1>1, <1>3, <2>2 DEF IInv, TokenStaysAtHome
  <2> QED BY <2>1, <2>2
<1>6. TokensUsed'
  BY <1>1, AbsentRows DEF IInv, TokensUsed
<1>7. Steady
  BY DEF Steady
<1> QED BY <1>2, <1>4, <1>5, <1>6, <1>7 DEF TablesKept

\* What login and signup choose from.
LEMMA ClaimsAtHome ==
  ASSUME TypeOK, NEW u \in Users, Present(user[u])
  PROVE  /\ \A claims \in ClaimsOf(u) :
              claims \in Claims /\ (claims.org # None => claims.org \in OrganizationsOf(u))
         /\ \A claims \in SignupClaims(u) :
              claims \in Claims /\ (claims.org # None => claims.org \in OrganizationsOf(u))
<1>1. user[u].roles \subseteq RoleNames /\ \A m \in user[u].offices : m.org \in Organizations
  BY PresentRows DEF UserRow
<1> DEFINE owned == {o \in Organizations : Present(organization[o]) /\ organization[o].user = u}
           joined == {m.org : m \in user[u].offices}
           clients == {k \in Clients : Present(client[k]) /\ client[k].user = u}
<1>2. owned \cup joined \subseteq Organizations /\ OrganizationsOf(u) = owned \cup joined
  BY <1>1 DEF OrganizationsOf
<1>3. ASSUME NEW claims \in ClaimsOf(u)
      PROVE  claims \in Claims /\ (claims.org # None => claims.org \in OrganizationsOf(u))
  <2> DEFINE names == user[u].roles
             orgs == IF "organizationAdmin" \in names THEN owned ELSE joined
             R == IF names = {} THEN {"user"} ELSE names
             O == IF orgs = {} THEN {None} ELSE orgs
             C == IF clients = {} THEN {None} ELSE clients
  <2>1. claims \in [role : R, org : O, client : C]
    BY DEF ClaimsOf
  <2>2. R \subseteq RoleNames \cup {"user"} /\ C \subseteq Clients \cup {None}
    BY <1>1
  <2>3. O \subseteq OrganizationsOf(u) \cup {None}
    BY <1>2
  <2>4. OrganizationsOf(u) \subseteq Organizations
    BY <1>2
  <2> HIDE DEF R, O, C, owned, joined, clients
  <2> QED BY <2>1, <2>2, <2>3, <2>4 DEF Claims
<1>4. ASSUME NEW claims \in SignupClaims(u)
      PROVE  claims \in Claims /\ (claims.org # None => claims.org \in OrganizationsOf(u))
  <2> DEFINE O == IF user[u].offices = {} THEN {None} ELSE joined
             C == IF clients = {} THEN {None} ELSE clients
  <2>1. claims \in [role : user[u].roles, org : O, client : C]
    BY DEF SignupClaims
  <2>2. C \subseteq Clients \cup {None}
    OBVIOUS
  <2>3. O \subseteq OrganizationsOf(u) \cup {None}
    BY <1>2
  <2>4. OrganizationsOf(u) \subseteq Organizations
    BY <1>2
  <2> HIDE DEF O, C, owned, joined, clients
  <2> QED BY <1>1, <2>1, <2>2, <2>3, <2>4 DEF Claims
<1> QED BY <1>3, <1>4

\* Requests as they were, the tables kept.
LEMMA TokenMoves ==
  ASSUME IInv, TablesKept', Steady, call' = call
  PROVE  IInv'
BY CallsStay DEF IInv, TablesKept, TypeOK, TablesOK

LEMMA LoginStep ==
  ASSUME IInv, NEW u \in Users, Login(u)
  PROVE  IInv'
<1>1. PICK claims \in ClaimsOf(u) : token' = [token EXCEPT ![u] = claims]
  BY DEF Login
<1>2. TypeOK /\ Present(user[u]) /\ UNCHANGED <<user, organization, office, client, call>>
  BY DEF IInv, Login
<1>3. claims \in Claims /\ (claims.org # None => claims.org \in OrganizationsOf(u))
  BY <1>2, ClaimsAtHome
<1>4. TablesKept' /\ Steady
  BY <1>1, <1>2, <1>3, TokenIssued
<1> QED BY <1>2, <1>4, TokenMoves

LEMMA ExpireStep ==
  ASSUME IInv, NEW u \in Users, Expire(u)
  PROVE  IInv'
<1>1. token' = [token EXCEPT ![u] = None] /\ UNCHANGED <<user, organization, office, client, call>>
  BY DEF Expire
<1>2. TablesKept' /\ Steady
  BY <1>1, TokenIssued
<1> QED BY <1>1, <1>2, TokenMoves

LEMMA SignupStep ==
  ASSUME IInv, NEW c \in Callers, Signup(c)
  PROVE  IInv'
<1>1. PICK k \in Call : k = call[c]
  BY DEF IInv, TypeOK
<1>2. PICK u \in Users : u = call[c].user
  BY <1>1, CallShape DEF Signup
<1>3. TypeOK /\ Proceed(c, Idle) /\ UNCHANGED <<user, organization, office, client>>
  BY DEF IInv, Signup, Return
<1>4. TablesKept' /\ Steady
  <2>1. CASE SignupClaims(u) = {}
    <3>1. UNCHANGED <<user, organization, office, client, token>>
      BY <1>2, <1>3, <2>1 DEF Signup
    <3>2. TokenStaysAtHome' /\ TokensUsed'
      BY <3>1, HomesSame DEF IInv, TokenStaysAtHome, TokensUsed
    <3>3. TablesKept'
      BY <3>1, <3>2, HomesSame DEF TablesKept, IInv, TypeOK, TablesOK
    <3> QED BY <3>1, <3>3 DEF Steady
  <2>2. CASE SignupClaims(u) # {}
    <3>1. PICK claims \in SignupClaims(u) : token' = [token EXCEPT ![u] = claims]
      BY <1>2, <2>2 DEF Signup
    <3>2. Present(user[u])
      BY <2>2 DEF SignupClaims
    <3>3. claims \in Claims /\ (claims.org # None => claims.org \in OrganizationsOf(u))
      BY <1>3, <3>2, ClaimsAtHome
    <3> QED BY <1>3, <3>1, <3>2, <3>3, TokenIssued
  <2> QED BY <2>1, <2>2
<1> QED BY <1>3, <1>4, IdleHomed, RequestMoves
-----------------------------------------------------------------------------
(* The theorems.                                                             *)

LEMMA InitIInv == Init => IInv
<1> SUFFICES ASSUME Init PROVE IInv
  OBVIOUS
<1>1. TypeOK
  BY IdleHomed DEF Init, TypeOK, Absent
<1>2. CallsHomed
  BY IdleHomed DEF Init, CallsHomed
<1>3. /\ \A u \in Users : ~Present(user[u]) /\ token[u] = None
      /\ \A o \in Organizations : ~Present(organization[o])
      /\ \A f \in Offices : ~Present(office[f])
      /\ \A k \in Clients : ~Present(client[k])
  BY AbsentRows DEF Init
<1> QED BY <1>1, <1>2, <1>3 DEF IInv, MembershipsIntact, OrganizationsIntact, ClientAccountAtHome,
        OneOrganization, TokenStaysAtHome, TokensUsed

LEMMA RequestsStep ==
  ASSUME IInv, NEW c \in Callers, Requests(c)
  PROVE  IInv'
BY BeginRegisterStep, AbortStep, SignupStep, BeginCreateUserStep, BeginClientUserStep,
   CommitCreateUserStep, CommitSignupStep, CommitClientUserStep, CommitRegisterStep DEF Requests

LEMMA IInvStep == IInv /\ [Next]_vars => IInv'
<1> SUFFICES ASSUME IInv, [Next]_vars PROVE IInv'
  OBVIOUS
<1>1. CASE Administration
  BY <1>1, AdministrationStep
<1>2. CASE \E c \in Callers : Requests(c)
  BY <1>2, RequestsStep
<1>3. CASE \E u \in Users : Login(u) \/ Expire(u)
  BY <1>3, LoginStep, ExpireStep
<1>4. CASE UNCHANGED vars
  <2>1. UNCHANGED <<user, organization, office, client, token, call>>
    BY <1>4 DEF vars
  <2>2. TypeOK' /\ CallsHomed'
    BY <2>1 DEF IInv, TypeOK, CallsHomed
  <2>3. TokenStaysAtHome' /\ TokensUsed'
    BY <2>1, HomesSame DEF IInv, TokenStaysAtHome, TokensUsed
  <2> QED BY <2>1, <2>2, <2>3, HomesSame DEF IInv
<1> QED BY <1>1, <1>2, <1>3, <1>4 DEF Next

\* The inductive invariant.
THEOREM Invariant == Spec => []IInv
BY InitIInv, IInvStep, PTL DEF Spec

\* The tables keep their columns' ranges and no membership, office, client or
\* organization is left without what it belongs to, although create and
\* createServiceNumberUser look rows up before their transactions and
\* everything may be deleted in between.
THEOREM SchemaStaysKept == Spec => []SchemaKept
<1>1. IInv => SchemaKept
  BY DEF IInv, SchemaKept
<1> QED BY <1>1, Invariant, PTL

\* createServiceNumberUser compares the client's organization and its account
\* before the transaction; still the account exists, belongs to the client's
\* organization only and is nobody else's account.
THEOREM AccountsStayAtHome == Spec => []ClientAccountAtHome
<1>1. IInv => ClientAccountAtHome
  BY DEF IInv
<1> QED BY <1>1, Invariant, PTL

\* JwtStrategy takes the organization of a request from its token alone: that
\* is still the only one the user belongs to, however old the token is.
THEOREM TokensStayAtHome == Spec => []TokenStaysAtHome
<1>1. IInv => TokenStaysAtHome
  BY DEF IInv
<1> QED BY <1>1, Invariant, PTL
-----------------------------------------------------------------------------
(* The account of a client.                                                  *)

AccountKept ==
  \A k \in Clients : Present(client[k]) /\ client[k].user # None =>
    \/ client'[k] = Gone \/ client'[k] = client[k]
    \/ client'[k].user = None /\ user'[client[k].user] = Gone

LEMMA RemoveUserKeeps ==
  ASSUME TypeOK, NEW u \in Users, RemoveUser(u)
  PROVE  AccountKept
<1> DEFINE D == {o \in Organizations : Present(organization[o]) /\ organization[o].user = u}
           F == {f \in Offices : Present(office[f]) /\ office[f].org \in D}
<1>1. user'[u] = Gone
  <2> HIDE DEF F
  <2>1. user' = [Without(F) EXCEPT ![u] = Gone] /\ Without(F) \in [Users -> Absent \cup UserRow]
    BY WithoutRows DEF RemoveUser, F
  <2> QED BY <2>1
<1> SUFFICES ASSUME NEW k \in Clients, Present(client[k])
             PROVE  \/ client'[k] = Gone \/ client'[k] = client[k]
                    \/ client'[k].user = None /\ user'[client[k].user] = Gone
  BY DEF AccountKept
<1>2. client'[k] = IF client[k].org \in D THEN Gone
                   ELSE IF client[k].user = u THEN [client[k] EXCEPT !.user = None] ELSE client[k]
  BY DEF RemoveUser
<1>3. client[k] \in ClientRow
  BY PresentRows
<1>4. [client[k] EXCEPT !.user = None].user = None
  BY <1>3 DEF ClientRow
<1>5. CASE client[k].org \in D
  BY <1>2, <1>5
<1>6. CASE client[k].org \notin D /\ client[k].user = u
  BY <1>1, <1>2, <1>4, <1>6
<1>7. CASE client[k].org \notin D /\ client[k].user # u
  BY <1>2, <1>7
<1> QED BY <1>5, <1>6, <1>7

\* A client keeps its account until the account or the client is deleted: of
\* several requests that found it without one the transaction of one is kept.
THEOREM AccountsStay == Spec => ClientKeepsAccount
<1>1. IInv /\ [Next]_vars => [AccountKept]_vars
  <2> SUFFICES ASSUME TypeOK, Next PROVE AccountKept
    BY DEF IInv
  <2>1. ASSUME client' = client PROVE AccountKept
    BY <2>1 DEF AccountKept
  <2>2. ASSUME NEW o \in Organizations, RemoveOrganization(o) PROVE AccountKept
    BY <2>2 DEF RemoveOrganization, DeleteOrganizations, AccountKept
  <2>3. ASSUME NEW o \in Organizations, NEW k \in Clients, CreateClient(o, k) PROVE AccountKept
    BY <2>3, AbsentRows DEF CreateClient, TypeOK, AccountKept
  <2>4. ASSUME NEW k \in Clients, RemoveClient(k) PROVE AccountKept
    BY <2>4 DEF RemoveClient, TypeOK, AccountKept
  <2>5. ASSUME NEW c \in Callers, NEW u \in Users, CommitClientUser(c, u) PROVE AccountKept
    <3>1. \A k \in Clients \ {call[c].client} : client'[k] = client[k]
      BY <2>5 DEF CommitClientUser, TypeOK
    <3>2. client[call[c].client].user = None
      BY <2>5 DEF CommitClientUser, Unlinked
    <3> QED BY <3>1, <3>2 DEF AccountKept
  <2>6. CASE Administration
    BY <2>1, <2>2, <2>3, <2>4, <2>6, RemoveUserKeeps
       DEF Administration, AddOffice, DeleteOffice, GrantRole, ReplaceRole
  <2>7. CASE \E c \in Callers : Requests(c)
    <3>1. \A c \in Callers : BeginRegister(c) \/ Abort(c) \/ Signup(c) => client' = client
      BY DEF BeginRegister, Abort, Signup, tables
    <3>2. \A c \in Callers, o \in Organizations, f \in Offices, r \in RoleNames :
            /\ BeginCreateUser(c, o, f, r) => client' = client
            /\ \A k \in Clients : BeginClientUser(c, o, k, f, r) => client' = client
      BY DEF BeginCreateUser, BeginClientUser, tables
    <3>3. \A c \in Callers, u \in Users :
            /\ CommitCreateUser(c, u) \/ CommitSignup(c, u) => client' = client
            /\ \A o, new : CommitRegister(c, u, o, new) => client' = client
      BY DEF CommitCreateUser, CommitSignup, CommitRegister
    <3>4. client' = client \/ \E c \in Callers, u \in Users : CommitClientUser(c, u)
      BY <2>7, <3>1, <3>2, <3>3, Zenon DEF Requests
    <3> QED BY <2>1, <2>5, <3>4
  <2>8. CASE \E u \in Users : Login(u) \/ Expire(u)
    BY <2>1, <2>8 DEF Login, Expire
  <2> QED BY <2>6, <2>7, <2>8 DEF Next
<1> QED BY <1>1, Invariant, PTL DEF Spec, ClientKeepsAccount, AccountKept
=============================================================================
