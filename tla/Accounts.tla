------------------------------- MODULE Accounts -------------------------------
(***************************************************************************)
(* Organizations, their offices, the users who are members of an office,   *)
(* the accounts given to clients, and the tokens that login hands out.     *)
(* Source: src/src/{organization,user,client,role,auth}/.                  *)
(*                                                                         *)
(* Registering an organization and creating a user read first and write in *)
(* one transaction later: a request in between is a row of `call'.  All    *)
(* other handlers here change the tables by one statement.  A token        *)
(* carries what login read; the strategy the application registers         *)
(* (src/src/auth/jwt.strategy.ts) takes the user, role, organization and   *)
(* client of a request from the token alone.                               *)
(***************************************************************************)
EXTENDS Integers, FiniteSets

CONSTANTS Users, Organizations, Offices, Clients, RoleNames,
          Callers,   \* the requests the server works on at the same time
          None       \* null or undefined

ASSUME RoleNamesAssumption == {"organizationAdmin", "client"} \subseteq RoleNames
ASSUME NoneAssumption == None \notin Users \cup Organizations \cup Clients

VARIABLES
  user,          \* the User table, with the user's UserRole and UserOffice rows
  organization,  \* the Organization table
  office,        \* the Office table
  client,        \* the Client table
  token,         \* the token each user logged in with last
  call           \* what each request in progress has read

vars == <<user, organization, office, client, token, call>>
tables == <<user, organization, office, client, token>>

Unused == [status |-> "NONE"]
Gone == [status |-> "GONE"]
Absent == {Unused, Gone}
Present(row) == row \notin Absent

\* offices: the user's UserOffice rows; org is a column of their own.
UserRow == [status : {"KEPT"}, roles : SUBSET RoleNames,
            offices : SUBSET [office : Offices, org : Organizations]]

OrganizationRow == [status : {"KEPT"}, user : Users]
OfficeRow == [status : {"KEPT"}, org : Organizations]
ClientRow == [status : {"KEPT"}, org : Organizations, user : Users \cup {None}]

Claims == [role : RoleNames \cup {"user"}, org : Organizations \cup {None},
           client : Clients \cup {None}]

Idle == [op |-> "idle"]
Call ==
  {Idle}
  \cup [op : {"organization"}]
  \cup [op : {"user"}, role : RoleNames, org : Organizations, office : Offices]
  \cup [op : {"clientUser"}, role : RoleNames, org : Organizations, office : Offices,
        client : Clients]
  \cup [op : {"sign"}, user : Users]

\* The tables, the tokens and the requests in progress stay in their ranges.
TypeOK ==
  /\ user \in [Users -> Absent \cup UserRow]
  /\ organization \in [Organizations -> Absent \cup OrganizationRow]
  /\ office \in [Offices -> Absent \cup OfficeRow]
  /\ client \in [Clients -> Absent \cup ClientRow]
  /\ token \in [Users -> Claims \cup {None}]
  /\ call \in [Callers -> Call]

Init ==
  /\ user = [u \in Users |-> Unused]
  /\ organization = [o \in Organizations |-> Unused]
  /\ office = [f \in Offices |-> Unused]
  /\ client = [k \in Clients |-> Unused]
  /\ token = [u \in Users |-> None]
  /\ call = [c \in Callers |-> Idle]

Proceed(c, next) == call' = [call EXCEPT ![c] = next]
Return(c) == Proceed(c, Idle)

OfficesOf(o) == {f \in Offices : Present(office[f]) /\ office[f].org = o}

\* The organizations a user administers or is a member of an office of.
OrganizationsOf(u) ==
  {o \in Organizations : Present(organization[o]) /\ organization[o].user = u}
    \cup {m.org : m \in user[u].offices}

\* The users, without their memberships of some offices.
Without(D) ==
  [u \in Users |-> IF Present(user[u])
                   THEN [user[u] EXCEPT !.offices = {m \in @ : m.office \notin D}]
                   ELSE user[u]]

\* Deleting organizations: offices, memberships and clients go along, the
\* users stay.
DeleteOrganizations(D) ==
  /\ organization' = [o \in Organizations |-> IF o \in D THEN Gone ELSE organization[o]]
  /\ office' = [f \in Offices |->
       IF Present(office[f]) /\ office[f].org \in D THEN Gone ELSE office[f]]
  /\ client' = [k \in Clients |->
       IF Present(client[k]) /\ client[k].org \in D THEN Gone ELSE client[k]]
-----------------------------------------------------------------------------
(* Organizations and offices.                                                *)

BeginRegister(c) ==
  /\ call[c] = Idle
  /\ Proceed(c, [op |-> "organization"])
  /\ UNCHANGED tables

\* Mutant of CommitRegister: an account with the administrator's e-mail is used.
CommitRegisterExisting(c, u, o, new) ==
  /\ call[c].op = "organization" /\ organization[o] = Unused
  /\ user' = IF Present(user[u]) THEN user
              ELSE [user EXCEPT ![u] = [status |-> "KEPT", roles |-> {"organizationAdmin"},
                                        offices |-> {}]]
  /\ organization' = [organization EXCEPT ![o] = [status |-> "KEPT", user |-> u]]
  /\ office' = [f \in Offices |-> IF f \in new THEN [status |-> "KEPT", org |-> o]
                                  ELSE office[f]]
  /\ Return(c)
  /\ UNCHANGED <<client, token>>

\* One transaction finds the role and inserts the administrator, the
\* organization and its offices.  The administrator becomes a member of none.
CommitRegister(c, u, o, new) ==
  /\ call[c].op = "organization"
  /\ user[u] = Unused /\ organization[o] = Unused
  /\ user' = [user EXCEPT ![u] = [status |-> "KEPT", roles |-> {"organizationAdmin"},
                                  offices |-> {}]]
  /\ organization' = [organization EXCEPT ![o] = [status |-> "KEPT", user |-> u]]
  /\ office' = [f \in Offices |-> IF f \in new THEN [status |-> "KEPT", org |-> o]
                                  ELSE office[f]]
  /\ Return(c)
  /\ UNCHANGED <<client, token>>

\* Requests for an organization come with a token that names it.
Acting(o, names) ==
  \E u \in Users : token[u] # None /\ token[u].role \in names /\ token[u].org = o

\* addOffice, and update, which can only add offices.
AddOffice(o, f) ==
  /\ Present(organization[o]) /\ office[f] = Unused
  /\ office' = [office EXCEPT ![f] = [status |-> "KEPT", org |-> o]]
  /\ UNCHANGED <<user, organization, client, token, call>>

\* The office's memberships go with it.
DeleteOffice(o, f) ==
  /\ Acting(o, {"organizationAdmin"}) /\ f \in OfficesOf(o)
  /\ office' = [office EXCEPT ![f] = Gone]
  /\ user' = Without({f})
  /\ UNCHANGED <<organization, client, token, call>>

RemoveOrganization(o) ==
  /\ Present(organization[o])
  /\ DeleteOrganizations({o})
  /\ user' = Without(OfficesOf(o))
  /\ UNCHANGED <<token, call>>
-----------------------------------------------------------------------------
(* Users.                                                                    *)

\* signup and create look the role and the organization's office up first.
BeginCreateUser(c, o, f, r) ==
  /\ call[c] = Idle
  /\ f \in OfficesOf(o)
  /\ Proceed(c, [op |-> "user", role |-> r, org |-> o, office |-> f])
  /\ UNCHANGED tables

\* Mutant of InsertUser: the foreign keys are not there to catch a row deleted
\* since the request read it.
InsertUserUnreferenced(c, u) ==
  /\ user[u] = Unused
  /\ user' = [user EXCEPT ![u] =
       [status |-> "KEPT", roles |-> {call[c].role},
        offices |-> {[office |-> call[c].office, org |-> call[c].org]}]]

\* The transaction's inserts of the user, the role and the membership.
InsertUser(c, u) ==
  /\ user[u] = Unused
  /\ Present(office[call[c].office])
  /\ Present(organization[call[c].org])
  /\ user' = [user EXCEPT ![u] =
       [status |-> "KEPT", roles |-> {call[c].role},
        offices |-> {[office |-> call[c].office, org |-> call[c].org]}]]

CommitCreateUser(c, u) ==
  /\ call[c].op = "user"
  /\ InsertUser(c, u)
  /\ Return(c)
  /\ UNCHANGED <<organization, office, client, token>>

\* Mutant of BeginClientUser: the client may belong to any organization.
BeginClientUserAnywhere(c, o, k, f, r) ==
  /\ call[c] = Idle /\ Acting(o, {"organizationAdmin"})
  /\ Present(client[k]) /\ client[k].user = None
  /\ Proceed(c, [op |-> "clientUser", role |-> r, org |-> o, office |-> f, client |-> k])
  /\ UNCHANGED tables

\* createServiceNumberUser for a client of the administrator's organization
\* that has no account; the office is any office for now.
BeginClientUser(c, o, k, f, r) ==
  /\ call[c] = Idle /\ Acting(o, {"organizationAdmin"})
  /\ Present(client[k]) /\ client[k].org = o /\ client[k].user = None
  /\ Proceed(c, [op |-> "clientUser", role |-> r, org |-> o, office |-> f, client |-> k])
  /\ UNCHANGED tables

\* Mutant of Unlinked: the update of the client names only its id.
UnlinkedOnce(k) == Present(client[k])

\* The update counts no row when the client was deleted or has an account.
Unlinked(k) == Present(client[k]) /\ client[k].user = None

\* The office is compared with the organization inside the transaction.
CommitClientUser(c, u) ==
  /\ call[c].op = "clientUser"
  /\ call[c].office \in OfficesOf(call[c].org) /\ Unlinked(call[c].client)
  /\ InsertUser(c, u)
  /\ client' = [client EXCEPT ![call[c].client].user = u]
  /\ Return(c)
  /\ UNCHANGED <<organization, office, token>>

\* An e-mail that is in use, or a row deleted meanwhile, ends a request; its
\* transaction is rolled back.
Abort(c) ==
  /\ call[c].op \in {"organization", "user", "clientUser"}
  /\ Return(c)
  /\ UNCHANGED tables

\* Roles are known by their names here; several rows may have one name, so
\* deleting or renaming a row changes some of the users with the name.
ReplaceRole(n, D, new) ==
  /\ D \subseteq {u \in Users : Present(user[u]) /\ n \in user[u].roles}
  /\ user' = [u \in Users |-> IF u \in D
                              THEN [user[u] EXCEPT !.roles = (@ \ {n}) \cup new] ELSE user[u]]
  /\ UNCHANGED <<organization, office, client, token, call>>

\* promoteGuardToSupervisor gives an existing user one more role.
GrantRole(u, r) ==
  /\ Present(user[u])
  /\ user' = [user EXCEPT ![u].roles = @ \cup {r}]
  /\ UNCHANGED <<organization, office, client, token, call>>

\* The organization of an administrator goes with them, and everything that
\* belongs to it; a client only loses its account.
RemoveUser(u) ==
  LET D == {o \in Organizations : Present(organization[o]) /\ organization[o].user = u}
      F == {f \in Offices : Present(office[f]) /\ office[f].org \in D}
  IN /\ Present(user[u])
     /\ user' = [Without(F) EXCEPT ![u] = Gone]
     /\ organization' = [o \in Organizations |-> IF o \in D THEN Gone ELSE organization[o]]
     /\ office' = [f \in Offices |-> IF f \in F THEN Gone ELSE office[f]]
     /\ client' = [k \in Clients |->
          IF Present(client[k]) /\ client[k].org \in D THEN Gone
          ELSE IF Present(client[k]) /\ client[k].user = u
          THEN [client[k] EXCEPT !.user = None] ELSE client[k]]
     /\ UNCHANGED <<token, call>>
-----------------------------------------------------------------------------
(* Clients.                                                                  *)

\* The organization is the one of the administrator's or manager's token.
CreateClient(o, k) ==
  /\ client[k] = Unused
  /\ Acting(o, {"organizationAdmin", "manager"}) /\ Present(organization[o])
  /\ client' = [client EXCEPT ![k] = [status |-> "KEPT", org |-> o, user |-> None]]
  /\ UNCHANGED <<user, organization, office, token, call>>

RemoveClient(k) ==
  /\ Present(client[k])
  /\ client' = [client EXCEPT ![k] = Gone]
  /\ UNCHANGED <<user, organization, office, token, call>>
-----------------------------------------------------------------------------
(* Tokens.                                                                   *)

\* What login puts into a token.  A user with several roles gets the one that
\* is listed first; one of them being organizationAdmin decides where the
\* organization is taken from.
ClaimsOf(u) ==
  LET names == user[u].roles
      orgs == IF "organizationAdmin" \in names
              THEN {o \in Organizations : Present(organization[o]) /\ organization[o].user = u}
              ELSE {m.org : m \in user[u].offices}
      clients == {k \in Clients : Present(client[k]) /\ client[k].user = u}
      OrNone(S) == IF S = {} THEN {None} ELSE S
  IN [role : IF names = {} THEN {"user"} ELSE names, org : OrNone(orgs),
      client : OrNone(clients)]

\* What signup puts into a token: also an administrator's organization is taken
\* from the memberships.  Without a role or the account there is no token.
SignupClaims(u) ==
  IF ~Present(user[u]) THEN {}
  ELSE [role : user[u].roles,
        org : IF user[u].offices = {} THEN {None} ELSE {m.org : m \in user[u].offices},
        client : LET clients == {k \in Clients : Present(client[k]) /\ client[k].user = u}
                 IN IF clients = {} THEN {None} ELSE clients]

\* Having created the user like the other requests, signup reads it again.
CommitSignup(c, u) ==
  /\ call[c].op = "user"
  /\ InsertUser(c, u)
  /\ Proceed(c, [op |-> "sign", user |-> u])
  /\ UNCHANGED <<organization, office, client, token>>

Signup(c) ==
  /\ call[c].op = "sign"
  /\ IF SignupClaims(call[c].user) = {} THEN UNCHANGED token
     ELSE \E claims \in SignupClaims(call[c].user) :
            token' = [token EXCEPT ![call[c].user] = claims]
  /\ Return(c)
  /\ UNCHANGED <<user, organization, office, client>>

Login(u) ==
  /\ Present(user[u])
  /\ \E claims \in ClaimsOf(u) : token' = [token EXCEPT ![u] = claims]
  /\ UNCHANGED <<user, organization, office, client, call>>

\* A token expires after a day.
Expire(u) ==
  /\ token[u] # None
  /\ token' = [token EXCEPT ![u] = None]
  /\ UNCHANGED <<user, organization, office, client, call>>
-----------------------------------------------------------------------------
Administration ==
  \/ \E o \in Organizations :
       \/ RemoveOrganization(o)
       \/ \E f \in Offices : AddOffice(o, f) \/ DeleteOffice(o, f)
       \/ \E k \in Clients : CreateClient(o, k)
  \/ \E k \in Clients : RemoveClient(k)
  \/ \E u \in Users : RemoveUser(u) \/ \E n \in RoleNames : GrantRole(u, n)
  \/ \E n \in RoleNames, D \in SUBSET Users :
       ReplaceRole(n, D, {}) \/ \E m \in RoleNames : ReplaceRole(n, D, {m})

Requests(c) ==
  \/ BeginRegister(c) \/ Abort(c) \/ Signup(c)
  \/ \E o \in Organizations, f \in Offices, r \in RoleNames :
       \/ BeginCreateUser(c, o, f, r)
       \/ \E k \in Clients : BeginClientUser(c, o, k, f, r)
  \/ \E u \in Users :
       \/ CommitCreateUser(c, u) \/ CommitSignup(c, u) \/ CommitClientUser(c, u)
       \/ \E o \in Organizations, new \in SUBSET {f \in Offices : office[f] = Unused} :
            CommitRegister(c, u, o, new)

Next ==
  \/ Administration
  \/ \E c \in Callers : Requests(c)
  \/ \E u \in Users : Login(u) \/ Expire(u)

Spec == Init /\ [][Next]_vars
-----------------------------------------------------------------------------
(* Properties.                                                               *)

\* A membership names an existing office and the organization that office
\* belongs to, although create compares the two before its transaction and
\* both may be deleted in between.
MembershipsIntact ==
  \A u \in Users : Present(user[u]) =>
    \A m \in user[u].offices : Present(office[m.office]) /\ office[m.office].org = m.org

\* The account of a client exists, is a member of the client's organization
\* only, and is nobody else's account.
ClientAccountAtHome ==
  \A k \in Clients : Present(client[k]) /\ client[k].user # None =>
    LET u == client[k].user IN
      /\ Present(user[u]) /\ OrganizationsOf(u) \subseteq {client[k].org}
      /\ \A j \in Clients \ {k} : Present(client[j]) => client[j].user # u

\* A client keeps its account until the account or the client is deleted,
\* however many requests found it without one.
ClientKeepsAccount ==
  [][\A k \in Clients : Present(client[k]) /\ client[k].user # None =>
       \/ client'[k] = Gone \/ client'[k] = client[k]
       \/ client'[k].user = None /\ user'[client[k].user] = Gone]_vars

\* A token, however old, names no other organization than the ones its user
\* belongs to now, and nobody belongs to two: login names one organization and
\* every request of the token is confined to it.
TokenStaysAtHome ==
  \A u \in Users : token[u] # None /\ token[u].org # None /\ Present(user[u]) =>
    OrganizationsOf(u) \subseteq {token[u].org}

\* Whatever is deleted, no table is left with an organization that is gone and
\* every organization has its administrator's account.
OrganizationsIntact ==
  /\ \A o \in Organizations : Present(organization[o]) => Present(user[organization[o].user])
  /\ \A f \in Offices : Present(office[f]) => Present(organization[office[f].org])
  /\ \A k \in Clients : Present(client[k]) => Present(organization[client[k].org])

\* What the schema promises, whatever requests have looked up and others have
\* deleted since: columns in their ranges and no row without what it belongs to.
SchemaKept == TypeOK /\ MembershipsIntact /\ OrganizationsIntact
==============================================================================
