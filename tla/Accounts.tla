------------------------------ MODULE Accounts -------------------------------
(***************************************************************************)
(* Users, organizations, memberships and subscriptions of the API: the     *)
(* handlers and the script that write them, as several clients use them    *)
(* at the same time.                                                       *)
(*                                                                         *)
(* A user is known by the e-mail address and an organization by its slug,  *)
(* both unique columns.  What an open transaction has inserted is seen by  *)
(* nobody else, but whoever inserts the same key waits until it has ended. *)
(***************************************************************************)
EXTENDS Integers, FiniteSets, Functions, FiniteSetsExt

CONSTANTS
  Emails,      \* addresses people register with
  Names,       \* names of organizations
  BaseSlug,    \* slugify of each name
  Clients,     \* clients with a request under way at the API
  ScriptEmail, \* the address create-admin is called with
  Fallback,    \* the addresses AdminGuard lets in whatever their role
  NoUser,
  MaxOrgs,     \* bound: organizations
  Offers,      \* bound: the plans and statuses a subscription is changed to
  MaxUpsets    \* bound: requests that fail, and changes by others

ScriptSlug == "admin-org"
Plan == {"FREE", "STARTER", "BUSINESS", "PRO"}
SubscriptionStatus == {"ACTIVE", "PAST_DUE", "CANCELLED"}

ASSUME AccountsAssumption ==
  /\ BaseSlug \in [Names -> STRING \ {ScriptSlug}]
  /\ ScriptEmail \in Emails /\ Fallback \subseteq Emails
  /\ NoUser \notin Emails \cup [role : {"USER", "ADMIN"}, status : {"ACTIVE", "SUSPENDED"}]
  /\ Offers \subseteq Plan \X SubscriptionStatus
  /\ MaxOrgs \in Nat /\ MaxUpsets \in Nat

VARIABLES
  users,   \* User rows: role and status, NoUser for an unknown address
  orgs,    \* Organization rows by slug, with members and subscription
  tx,      \* the request of each client
  script,  \* where create-admin is
  upsets   \* requests that failed, and changes by others, so far

accountVars == <<users, orgs, tx, script, upsets>>

TxPc == {"idle", "checked", "probe", "insert", "commit", "issue", "done", "failed"}

Idle == [pc |-> "idle", kind |-> "register", email |-> NoUser, name |-> "", slug |-> <<"", 0>>]

AccountsInit ==
  /\ users = [e \in Emails |-> NoUser] /\ orgs = [s \in {} |-> s]
  /\ tx = [c \in Clients |-> Idle]
  /\ script = "idle" /\ upsets = 0

Exists(e) == users[e] # NoUser
Active(e) == Exists(e) /\ users[e].status = "ACTIVE"

Upset == upsets < MaxUpsets /\ upsets' = upsets + 1

OrganizationsOf(e) == {s \in DOMAIN orgs : e \in DOMAIN orgs[s].members}

(* AuthGuard and AdminGuard, which read the user on every request, and     *)
(* OrganizationGuard.                                                      *)
Authenticated(e) == e \in Emails /\ Active(e)
Administrator(e) == Authenticated(e) /\ (users[e].role = "ADMIN" \/ e \in Fallback)
MemberOf(e, slug) == Authenticated(e) /\ slug \in OrganizationsOf(e)

-----------------------------------------------------------------------------
(* Registering, and creating an organization                               *)

Turn(c, t) == tx' = [tx EXCEPT ![c] = t]

(* What the open transaction of a client has inserted.                     *)
HoldsEmail(c) == tx[c].kind = "register" /\ tx[c].pc \in {"probe", "insert", "commit"}
HoldsSlug(c) == tx[c].pc = "commit"

Underway(c) == tx[c].pc \in {"checked", "probe", "insert", "commit", "issue"}

(* The next statement of c inserts a key that d has inserted.              *)
Waits(c, d) ==
  \/ tx[c].pc = "checked" /\ HoldsEmail(d) /\ tx[d].email = tx[c].email
  \/ tx[c].pc = "insert" /\ HoldsSlug(d) /\ tx[d].slug = tx[c].slug

(* register, up to the hash of the password.                               *)
Register(c, email, name) ==
  /\ tx[c] = Idle
  /\ Turn(c, [Idle EXCEPT !.pc = IF Exists(email) THEN "failed" ELSE "checked",
                          !.email = email, !.name = name])
  /\ UNCHANGED <<users, orgs, script, upsets>>

\* A bug: the user is written outside the transaction, which then fails.
InsertUserOutside(c) ==
  /\ tx[c].pc = "checked" /\ \A d \in Clients : ~Waits(c, d)
  /\ Turn(c, [tx[c] EXCEPT !.pc = IF Exists(tx[c].email) THEN "failed" ELSE "probe"])
  /\ users' = [users EXCEPT ![tx[c].email] = [role |-> "USER", status |-> "ACTIVE"]]
  /\ UNCHANGED <<orgs, script, upsets>>

InsertUser(c) ==
  /\ tx[c].pc = "checked" /\ \A d \in Clients : ~Waits(c, d)
  /\ Turn(c, [tx[c] EXCEPT !.pc = IF Exists(tx[c].email) THEN "failed" ELSE "probe"])
  /\ UNCHANGED <<users, orgs, script, upsets>>

(* POST /organizations has no user to insert.                              *)
CreateOrganization(c, email, name) ==
  /\ tx[c] = Idle /\ Authenticated(email) /\ Cardinality(DOMAIN orgs) < MaxOrgs
  /\ Turn(c, [Idle EXCEPT !.pc = "probe", !.kind = "create", !.email = email, !.name = name])
  /\ UNCHANGED <<users, orgs, script, upsets>>

\* A bug: the numbers after the first slug are drawn, not counted.
RandomSlug(base) ==
  IF <<base, 0>> \notin DOMAIN orgs THEN <<base, 0>>
  ELSE <<base, Max({n \in 0..Cardinality(DOMAIN orgs) + 1 : <<base, n>> \notin DOMAIN orgs})>>

FreeSlug(base) == <<base, Min({n \in 0..Cardinality(DOMAIN orgs) : <<base, n>> \notin DOMAIN orgs})>>

\* A bug: the name is not made a slug.
ProbeName(c) ==
  /\ tx[c].pc = "probe"
  /\ Turn(c, [tx[c] EXCEPT !.pc = "insert", !.slug = FreeSlug(tx[c].name)])
  /\ UNCHANGED <<users, orgs, script, upsets>>

\* A bug: the loop looks for the same slug again.
ProbeAgain(c) ==
  /\ tx[c].pc = "probe"
  /\ LET slug == <<BaseSlug[tx[c].name], 0>>
     IN  IF slug \in DOMAIN orgs THEN UNCHANGED tx ELSE Turn(c, [tx[c] EXCEPT !.pc = "insert", !.slug = slug])
  /\ UNCHANGED <<users, orgs, script, upsets>>

(* The loop over findUnique sees committed rows.                           *)
Probe(c) ==
  /\ tx[c].pc = "probe"
  /\ Turn(c, [tx[c] EXCEPT !.pc = "insert", !.slug = FreeSlug(BaseSlug[tx[c].name])])
  /\ UNCHANGED <<users, orgs, script, upsets>>

(* The unique index refuses a slug that was taken since.                   *)
InsertOrganization(c) ==
  /\ tx[c].pc = "insert" /\ \A d \in Clients : ~Waits(c, d)
  /\ Turn(c, [tx[c] EXCEPT !.pc = IF tx[c].slug \in DOMAIN orgs THEN "failed" ELSE "commit"])
  /\ UNCHANGED <<users, orgs, script, upsets>>

NewOrganization(name, owner, plan) ==
  [name |-> name, members |-> [e \in {owner} |-> "OWNER"], plan |-> plan, status |-> "ACTIVE"]

WithOrganization(slug, org) == [s \in DOMAIN orgs \cup {slug} |-> IF s = slug THEN org ELSE orgs[s]]

(* Member, subscription, audit row and token follow; then all is committed.*)
Commit(c) ==
  /\ tx[c].pc = "commit"
  /\ users' = IF tx[c].kind = "create" THEN users
              ELSE [users EXCEPT ![tx[c].email] = [role |-> "USER", status |-> "ACTIVE"]]
  /\ orgs' = WithOrganization(tx[c].slug, NewOrganization(tx[c].name, tx[c].email, "FREE"))
  /\ Turn(c, [tx[c] EXCEPT !.pc = IF tx[c].kind = "create" THEN "done" ELSE "issue"])
  /\ UNCHANGED <<script, upsets>>

(* issueTokens comes after the transaction.                                *)
IssueTokens(c) ==
  /\ tx[c].pc = "issue" /\ Turn(c, [tx[c] EXCEPT !.pc = "done"])
  /\ UNCHANGED <<users, orgs, script, upsets>>

(* A statement fails or the transaction runs out of its five seconds:      *)
(* nothing of it remains.  What is committed stays when the tokens fail.   *)
Abort(c) ==
  /\ Underway(c) /\ Upset
  /\ Turn(c, [tx[c] EXCEPT !.pc = "failed"])
  /\ UNCHANGED <<users, orgs, script>>

Answered(c) ==
  /\ tx[c].pc \in {"done", "failed"} /\ Turn(c, Idle)
  /\ UNCHANGED <<users, orgs, script, upsets>>

(* PATCH /organizations/:id renames; the slug stays.                       *)
Rename(email, slug, name) ==
  /\ MemberOf(email, slug) /\ orgs[slug].members[email] \in {"OWNER", "ADMIN"}
  /\ Upset
  /\ orgs' = [orgs EXCEPT ![slug].name = name]
  /\ UNCHANGED <<users, tx, script>>

-----------------------------------------------------------------------------
(* AdminService: one row each                                              *)

UpdateUserRole(email, role) == users' = [users EXCEPT ![email].role = role]
UpdateUserStatus(email, status) == users' = [users EXCEPT ![email].status = status]

NoStatus == ""   \* a body without a status
UpdateSubscription(slug, plan, status) ==
  orgs' = [orgs EXCEPT ![slug].plan = plan, ![slug].status = IF status = NoStatus THEN @ ELSE status]

(* Another administrator, with a client of his own.                        *)
OtherAdministrator ==
  /\ Upset
  /\ \E admin \in Emails : Administrator(admin)
  /\ \/ \E e \in Emails, role \in {"USER", "ADMIN"} :
          Exists(e) /\ users[e].role # role /\ UpdateUserRole(e, role) /\ UNCHANGED orgs
     \/ \E e \in Emails, status \in {"ACTIVE", "SUSPENDED"} :
          Exists(e) /\ users[e].status # status /\ UpdateUserStatus(e, status) /\ UNCHANGED orgs
     \/ \E slug \in DOMAIN orgs, offer \in Offers :
          UpdateSubscription(slug, offer[1], offer[2]) /\ UNCHANGED users
  /\ UNCHANGED <<tx, script>>

-----------------------------------------------------------------------------
(* The script create-admin                                                 *)

(* An upsert waits for whoever is inserting the address.                   *)
ScriptUpsert ==
  /\ script = "idle" /\ script' = "upserted"
  /\ \A c \in Clients : HoldsEmail(c) => tx[c].email # ScriptEmail
  /\ users' = [users EXCEPT ![ScriptEmail] = [role |-> "ADMIN", status |-> "ACTIVE"]]
  /\ UNCHANGED <<orgs, tx, upsets>>

ScriptOrganization ==
  /\ script = "upserted" /\ script' = "ended"
  /\ orgs' = IF OrganizationsOf(ScriptEmail) # {} THEN orgs
             ELSE WithOrganization(<<ScriptSlug, 0>>, NewOrganization("Admin Workspace", ScriptEmail, "PRO"))
  /\ UNCHANGED <<users, tx, upsets>>

ScriptCrash ==
  /\ script = "upserted" /\ Upset
  /\ script' = "idle"
  /\ UNCHANGED <<users, orgs, tx>>

Handle(c) ==
  \/ InsertUser(c) \/ Probe(c) \/ InsertOrganization(c) \/ Commit(c) \/ IssueTokens(c)

Script == ScriptUpsert \/ ScriptOrganization \/ ScriptCrash

Ask(c) ==
  \E e \in Emails, name \in Names : Register(c, e, name) \/ CreateOrganization(c, e, name)

AccountsNext ==
  \/ \E c \in Clients : Ask(c) \/ Handle(c) \/ Abort(c) \/ Answered(c)
  \/ \E e \in Emails, slug \in DOMAIN orgs, name \in Names : Rename(e, slug, name)
  \/ OtherAdministrator \/ Script

(* What waits for another transaction goes on when that one has ended.     *)
AccountsFairness == \A c \in Clients : WF_accountVars(Handle(c))

AccountsSpec == AccountsInit /\ [][AccountsNext]_accountVars /\ AccountsFairness

-----------------------------------------------------------------------------
(* Properties                                                              *)

AccountsTypeOK ==
  /\ \A e \in Emails : Exists(e) =>
       users[e] \in [role : {"USER", "ADMIN"}, status : {"ACTIVE", "SUSPENDED"}]
  /\ \A s \in DOMAIN orgs :
       /\ s \in (Range(BaseSlug) \cup {ScriptSlug}) \X Nat
       /\ orgs[s].plan \in Plan /\ orgs[s].status \in SubscriptionStatus
       /\ orgs[s].members \in [DOMAIN orgs[s].members -> {"OWNER", "ADMIN", "MEMBER"}]
  /\ \A c \in Clients : tx[c].pc \in TxPc
  /\ script \in {"idle", "upserted", "ended"}

(* All or nothing, whoever else registers and wherever a request fails:    *)
(* every organization has an owner who exists, and every user has an       *)
(* organization, the one of the script excepted until the script has ended.*)
OwnedOrganizations ==
  /\ \A s \in DOMAIN orgs : \E e \in DOMAIN orgs[s].members : orgs[s].members[e] = "OWNER" /\ Exists(e)
  /\ \A e \in Emails :
       Exists(e) => (OrganizationsOf(e) # {} \/ (e = ScriptEmail /\ script # "ended"))

(* The numbers behind a slug have no gap; of transactions that are open at *)
(* the same time one at most will insert a slug and one an address; and    *)
(* however many of them there are, they do not all wait for each other,    *)
(* since the address is locked before the slug.                            *)
SlugsDense ==
  /\ \A s \in DOMAIN orgs : \A n \in 0..s[2] : <<s[1], n>> \in DOMAIN orgs
  /\ \A c, d \in Clients : c # d =>
       /\ HoldsSlug(c) /\ HoldsSlug(d) => tx[c].slug # tx[d].slug
       /\ HoldsEmail(c) /\ HoldsEmail(d) => tx[c].email # tx[d].email
  /\ \A c \in Clients :
       /\ HoldsSlug(c) => tx[c].slug \notin DOMAIN orgs
       /\ HoldsEmail(c) => ~Exists(tx[c].email)
  /\ \A S \in SUBSET Clients :
       (S # {} /\ \A c \in S : Underway(c)) => \E c \in S : \A d \in S : ~Waits(c, d)

(* Every request is answered, although transactions wait for each other:   *)
(* the address is locked before the slug, by everybody.                    *)
RequestAnswered ==
  \A c \in Clients : tx[c].pc # "idle" ~> tx[c].pc \in {"done", "failed"}
=============================================================================
