---------------------------- MODULE ConsoleProofs ----------------------------
(***************************************************************************)
(* What holds of the accounts and of a browser tab at them for any number  *)
(* of people, names, organizations and changes.  The first part is about   *)
(* Accounts: users, organizations and memberships.  The second, about      *)
(* Console, is that the tab names an organization of its user's, and that  *)
(* what it was told of is on its screen.                                   *)
(***************************************************************************)
EXTENDS Console, FiniteSetTheorems, TLAPS

-----------------------------------------------------------------------------
(* The accounts                                                            *)

User == [role : {"USER", "ADMIN"}, status : {"ACTIVE", "SUSPENDED"}]
Role == {"OWNER", "ADMIN", "MEMBER"}
Members == UNION {[E -> Role] : E \in SUBSET Emails}
OrgName == Names \cup {"Admin Workspace"}
Org == [name : OrgName, members : Members, plan : Plan, status : SubscriptionStatus]
Bases == Range(BaseSlug)
Slugs == (Bases \cup {ScriptSlug}) \X Nat

RowsOK ==
  /\ users \in [Emails -> User \cup {NoUser}]
  /\ IsFiniteSet(DOMAIN orgs) /\ DOMAIN orgs \subseteq Slugs
  /\ orgs \in [DOMAIN orgs -> Org]
  /\ script \in {"idle", "upserted", "ended"}

Request == [pc : TxPc, kind : {"register", "create"}, email : Emails \cup {NoUser},
            name : Names \cup {""}, slug : (Bases \cup {""}) \X Nat]

RequestsOK ==
  /\ tx \in [Clients -> Request]
  /\ \A c \in Clients : tx[c].pc # "idle" => tx[c].email \in Emails /\ tx[c].name \in Names

(* A slug that was found free has no gap below it.                         *)
Found ==
  \A c \in Clients : tx[c].pc \in {"insert", "commit"} =>
    /\ tx[c].slug \in Bases \X Nat
    /\ \A n \in 0..(tx[c].slug[2] - 1) : <<tx[c].slug[1], n>> \in DOMAIN orgs

Dense == \A s \in DOMAIN orgs : \A n \in 0..s[2] : <<s[1], n>> \in DOMAIN orgs

SlugLock ==
  /\ \A c, d \in Clients : c # d /\ HoldsSlug(c) /\ HoldsSlug(d) => tx[c].slug # tx[d].slug
  /\ \A c \in Clients : HoldsSlug(c) => tx[c].slug \notin DOMAIN orgs

EmailLock ==
  /\ \A c, d \in Clients : c # d /\ HoldsEmail(c) /\ HoldsEmail(d) => tx[c].email # tx[d].email
  /\ \A c \in Clients : HoldsEmail(c) => ~Exists(tx[c].email)

(* Who creates an organization is known to the API, and the script's       *)
(* organization is the script's.                                           *)
Known ==
  /\ \A c \in Clients : tx[c].kind = "create" /\ tx[c].pc # "idle" => Exists(tx[c].email)
  /\ script = "upserted" => Exists(ScriptEmail)
  /\ \A s \in DOMAIN orgs : s[1] = ScriptSlug => s \in OrganizationsOf(ScriptEmail)

AccountsInv ==
  /\ RowsOK /\ RequestsOK
  /\ Found /\ Dense /\ SlugLock /\ EmailLock
  /\ Known /\ OwnedOrganizations

-----------------------------------------------------------------------------
(* The first free number                                                   *)

LEMMA LeastNumber ==
  ASSUME NEW S \in SUBSET Nat, S # {}
  PROVE  /\ Min(S) \in S
         /\ \A n \in S : Min(S) <= n
  <1>. DEFINE R == {ss \in Nat \X Nat : ss[1] < ss[2]}
  <1>1. R = OpToRel(<, Nat)
    BY DEF OpToRel
  <1>2. PICK m \in S : \A n \in S : ~(<<n, m>> \in R)
    <2>. HIDE DEF R
    <2>. QED
      BY <1>1, NatLessThanWellFounded, WFMin
  <1>3. ASSUME NEW n \in S  PROVE  m <= n
    <2>1. m \in Nat /\ n \in Nat /\ ~(<<n, m>> \in R)
      BY <1>2
    <2>2. ~(n < m)
      BY <2>1
    <2>. QED
      BY <2>1, <2>2
  <1>. QED
    BY <1>3 DEF Min

(* The loop for a free slug ends: among as many numbers as there are       *)
(* organizations, and one more, some slug is free.                         *)
LEMMA FreeNumber ==
  ASSUME RowsOK, NEW base
  PROVE  \E n \in 0..Cardinality(DOMAIN orgs) : <<base, n>> \notin DOMAIN orgs
  <1>. DEFINE N == Cardinality(DOMAIN orgs)
              f == [n \in 0..N |-> <<base, n>>]
  <1>1. IsFiniteSet(DOMAIN orgs) /\ N \in Nat
    BY FS_CardinalityType DEF RowsOK
  <1>2. IsFiniteSet(0..N) /\ Cardinality(0..N) = N + 1
    BY <1>1, FS_Interval
  <1>. SUFFICES ASSUME \A n \in 0..N : <<base, n>> \in DOMAIN orgs
                PROVE  FALSE
    OBVIOUS
  <1>3. f \in [0..N -> DOMAIN orgs]
    OBVIOUS
  <1>4. Cardinality(DOMAIN orgs) < Cardinality(0..N)
    BY <1>1, <1>2
  <1>5. \E x, y \in 0..N : x # y /\ f[x] = f[y]
    <2>. HIDE DEF f
    <2>. QED
      BY <1>1, <1>2, <1>3, <1>4, FS_PigeonHole
  <1>. QED
    BY <1>5

(* FreeSlug is free, and all slugs below it are taken.                     *)
LEMMA FreeSlugIsFirst ==
  ASSUME RowsOK, NEW base
  PROVE  /\ FreeSlug(base) \in {base} \X Nat
         /\ FreeSlug(base) \notin DOMAIN orgs
         /\ \A n \in 0..(FreeSlug(base)[2] - 1) : <<base, n>> \in DOMAIN orgs
  <1>. DEFINE N == Cardinality(DOMAIN orgs)
              S == {n \in 0..N : <<base, n>> \notin DOMAIN orgs}
  <1>1. N \in Nat
    BY FS_CardinalityType DEF RowsOK
  <1>2. S \in SUBSET Nat /\ S # {}
    BY <1>1, FreeNumber
  <1>3. Min(S) \in S /\ \A n \in S : Min(S) <= n
    <2>. HIDE DEF S
    <2>. QED
      BY <1>2, LeastNumber
  <1>4. FreeSlug(base) = <<base, Min(S)>>
    BY DEF FreeSlug
  <1>5. \A n \in 0..(Min(S) - 1) : n \in 0..N /\ n \notin S
    BY <1>1, <1>3
  <1>. QED
    BY <1>1, <1>3, <1>4, <1>5

-----------------------------------------------------------------------------
(* Types                                                                   *)

LEMMA IdleType ==
  Idle \in Request /\ Idle.pc = "idle"
  BY DEF Idle, Request, TxPc

LEMMA InitInv == AccountsInit => AccountsInv
  <1>. SUFFICES ASSUME AccountsInit PROVE AccountsInv
    OBVIOUS
  <1>. USE DEF AccountsInit
  <1>1. DOMAIN orgs = {}
    OBVIOUS
  <1>2. RowsOK
    BY <1>1, FS_EmptySet DEF RowsOK, Org
  <1>3. RequestsOK
    BY IdleType DEF RequestsOK
  <1>4. Found /\ SlugLock /\ EmailLock
    BY DEF Found, SlugLock, EmailLock, HoldsSlug, HoldsEmail, Idle
  <1>5. Dense /\ Known /\ OwnedOrganizations
    BY <1>1 DEF Dense, Known, OwnedOrganizations, Idle, Exists
  <1>. QED
    BY <1>2, <1>3, <1>4, <1>5 DEF AccountsInv

LEMMA BaseIsText ==
  /\ Bases \subseteq STRING \ {ScriptSlug}
  /\ \A name \in Names : BaseSlug[name] \in Bases
  BY AccountsAssumption DEF Bases, Range

LEMMA TurnOK ==
  ASSUME RequestsOK, NEW c \in Clients, NEW t, t \in Request, Turn(c, t),
         t.pc # "idle" => t.email \in Emails /\ t.name \in Names
  PROVE  RequestsOK'
  BY DEF RequestsOK, Turn

LEMMA RequestTypes ==
  ASSUME AccountsInv, AccountsNext
  PROVE  RequestsOK'
  <1>. DEFINE Fits(t) == t \in Request /\ (t.pc # "idle" => t.email \in Emails /\ t.name \in Names)
              Goes(c) == \E t : Fits(t) /\ Turn(c, t)
  <1>0. RowsOK /\ RequestsOK
    BY DEF AccountsInv
  <1>1. ASSUME NEW c \in Clients, Goes(c)  PROVE  RequestsOK'
    BY <1>0, <1>1, TurnOK
  <1>2. ASSUME NEW e \in Emails, NEW name \in Names, NEW pc \in TxPc
        PROVE  /\ Fits([Idle EXCEPT !.pc = pc, !.email = e, !.name = name])
               /\ Fits([Idle EXCEPT !.pc = pc, !.kind = "create", !.email = e, !.name = name])
    BY IdleType DEF Request
  <1>3. ASSUME NEW c \in Clients, Ask(c)  PROVE  Goes(c)
    <2>1. PICK e \in Emails, name \in Names : Register(c, e, name) \/ CreateOrganization(c, e, name)
      BY <1>3 DEF Ask
    <2>2. CASE Register(c, e, name)
      <3>. DEFINE pc == IF Exists(e) THEN "failed" ELSE "checked"
      <3>1. pc \in TxPc
        BY DEF TxPc
      <3>. QED
        BY <1>2, <2>2, <3>1 DEF Register
    <2>3. CASE CreateOrganization(c, e, name)
      BY <1>2, <2>3 DEF CreateOrganization, TxPc
    <2>. QED
      BY <2>1, <2>2, <2>3
  <1>4. ASSUME NEW c \in Clients  PROVE  Fits(tx[c])
    BY <1>0 DEF RequestsOK
  <1>5. ASSUME NEW c \in Clients, NEW pc \in TxPc, tx[c].pc # "idle"
        PROVE  Fits([tx[c] EXCEPT !.pc = pc])
    BY <1>4, <1>5 DEF Request
  <1>6. ASSUME NEW c \in Clients, Probe(c)  PROVE  Goes(c)
    <2>1. FreeSlug(BaseSlug[tx[c].name]) \in Bases \X Nat
      BY <1>0, <1>4, <1>6, BaseIsText, FreeSlugIsFirst DEF Probe
    <2>2. Fits([tx[c] EXCEPT !.pc = "insert", !.slug = FreeSlug(BaseSlug[tx[c].name])])
      BY <1>4, <1>6, <2>1 DEF Request, TxPc, Probe
    <2>. QED
      BY <1>6, <2>2 DEF Probe
  <1>7. ASSUME NEW c \in Clients, InsertUser(c) \/ InsertOrganization(c) \/ Commit(c) \/ IssueTokens(c) \/ Abort(c)
        PROVE  Goes(c)
    <2>1. PICK pc \in TxPc : tx[c].pc # "idle" /\ Turn(c, [tx[c] EXCEPT !.pc = pc])
      BY <1>7 DEF InsertUser, InsertOrganization, Commit, IssueTokens, Abort, Underway, TxPc
    <2>. QED
      BY <1>5, <2>1
  <1>8. ASSUME NEW c \in Clients, Answered(c)  PROVE  Goes(c)
    BY <1>8, IdleType DEF Answered
  <1>9. ASSUME (\E e \in Emails, slug \in DOMAIN orgs, name \in Names : Rename(e, slug, name)) \/ OtherAdministrator \/ Script
        PROVE  RequestsOK'
    <2>1. tx' = tx
      BY <1>9 DEF Rename, OtherAdministrator, Script, ScriptUpsert, ScriptOrganization, ScriptCrash
    <2>. QED
      BY <1>0, <2>1 DEF RequestsOK
  <1>. HIDE DEF Goes
  <1>. QED
    BY <1>1, <1>3, <1>6, <1>7, <1>8, <1>9 DEF AccountsNext, Handle

(* Organizations are only added, with what they need, and otherwise keep   *)
(* their slug and members.                                                 *)
LEMMA WithOrganizationType ==
  ASSUME RowsOK, NEW slug \in Slugs, NEW org \in Org, orgs' = WithOrganization(slug, org)
  PROVE  /\ DOMAIN orgs' = DOMAIN orgs \cup {slug}
         /\ IsFiniteSet(DOMAIN orgs') /\ DOMAIN orgs' \subseteq Slugs
         /\ orgs' \in [DOMAIN orgs' -> Org]
         /\ orgs'[slug] = org
         /\ \A s \in DOMAIN orgs \ {slug} : orgs'[s] = orgs[s]
  <1>1. DOMAIN orgs' = DOMAIN orgs \cup {slug}
    BY DEF WithOrganization
  <1>2. IsFiniteSet(DOMAIN orgs')
    BY <1>1, FS_AddElement DEF RowsOK
  <1>. QED
    BY <1>1, <1>2 DEF WithOrganization, RowsOK

LEMMA NewOrganizationType ==
  ASSUME NEW name \in OrgName, NEW owner \in Emails, NEW plan \in Plan
  PROVE  /\ NewOrganization(name, owner, plan) \in Org
         /\ NewOrganization(name, owner, plan).members = [e \in {owner} |-> "OWNER"]
  <1>1. [e \in {owner} |-> "OWNER"] \in Members
    <2>1. [e \in {owner} |-> "OWNER"] \in [{owner} -> Role]
      BY DEF Role
    <2>. QED
      BY <2>1 DEF Members
  <1>. QED
    BY <1>1 DEF NewOrganization, Org, SubscriptionStatus

-----------------------------------------------------------------------------
(* Rows                                                                    *)

(* Rows are added and changed, and none is ever taken away.                *)
Grows ==
  /\ DOMAIN orgs \subseteq DOMAIN orgs'
  /\ \A s \in DOMAIN orgs : orgs'[s].members = orgs[s].members
  /\ \A e \in Emails : Exists(e) => Exists(e)'

LEMMA RowsKept ==
  ASSUME RowsOK, users' = users, orgs' = orgs, script' \in {"idle", "upserted", "ended"}
  PROVE  RowsOK' /\ Grows
  BY DEF RowsOK, Grows, Exists

LEMMA UserIsSomebody ==
  ASSUME NEW u \in User
  PROVE  u # NoUser
  BY AccountsAssumption DEF User

(* Writing one user leaves the others alone.                               *)
LEMMA UserWritten ==
  ASSUME RowsOK, NEW e \in Emails, NEW u, u \in User, users' = [users EXCEPT ![e] = u]
  PROVE  /\ users' \in [Emails -> User \cup {NoUser}]
         /\ Exists(e)'
         /\ \A x \in Emails : x # e => (Exists(x)' <=> Exists(x))
  BY UserIsSomebody DEF RowsOK, Exists

LEMMA OrgWritten ==
  ASSUME RowsOK, NEW slug \in DOMAIN orgs, NEW org, org \in Org, org.members = orgs[slug].members,
         orgs' = [orgs EXCEPT ![slug] = org]
  PROVE  /\ DOMAIN orgs' = DOMAIN orgs
         /\ orgs' \in [DOMAIN orgs' -> Org]
         /\ \A s \in DOMAIN orgs : orgs'[s].members = orgs[s].members
  BY DEF RowsOK

LEMMA CommitRows ==
  ASSUME AccountsInv, NEW c \in Clients, Commit(c)
  PROVE  /\ RowsOK' /\ Grows
         /\ tx[c].slug \notin DOMAIN orgs
         /\ DOMAIN orgs' = DOMAIN orgs \cup {tx[c].slug}
         /\ orgs'[tx[c].slug].members = [e \in {tx[c].email} |-> "OWNER"]
         /\ \A e \in Emails : e = tx[c].email => Exists(e)'
         /\ \A e \in Emails : Exists(e)' => Exists(e) \/ (e = tx[c].email /\ tx[c].kind = "register")
  <1>. DEFINE slug == tx[c].slug
              org == NewOrganization(tx[c].name, tx[c].email, "FREE")
              u == [role |-> "USER", status |-> "ACTIVE"]
  <1>1. RowsOK /\ RequestsOK /\ Found /\ SlugLock /\ Known
    BY DEF AccountsInv
  <1>2. /\ tx[c].pc = "commit" /\ tx[c].email \in Emails /\ tx[c].name \in Names
        /\ tx[c].kind \in {"register", "create"}
    BY <1>1 DEF Commit, RequestsOK, Request
  <1>3. slug \in Slugs /\ slug \notin DOMAIN orgs
    BY <1>1, <1>2 DEF Found, Slugs, SlugLock, HoldsSlug
  <1>4. org \in Org /\ org.members = [e \in {tx[c].email} |-> "OWNER"]
    BY <1>2, NewOrganizationType DEF OrgName, Plan
  <1>5. orgs' = WithOrganization(slug, org)
    BY DEF Commit
  <1>6. /\ DOMAIN orgs' = DOMAIN orgs \cup {slug}
        /\ IsFiniteSet(DOMAIN orgs') /\ DOMAIN orgs' \subseteq Slugs
        /\ orgs' \in [DOMAIN orgs' -> Org]
        /\ orgs'[slug] = org
        /\ \A s \in DOMAIN orgs \ {slug} : orgs'[s] = orgs[s]
    <2>. HIDE DEF slug, org
    <2>. QED
      BY <1>1, <1>3, <1>4, <1>5, WithOrganizationType
  <1>7. /\ users' \in [Emails -> User \cup {NoUser}]
        /\ \A e \in Emails : e = tx[c].email => Exists(e)'
        /\ \A e \in Emails : Exists(e) => Exists(e)'
        /\ \A e \in Emails : Exists(e)' => Exists(e) \/ (e = tx[c].email /\ tx[c].kind = "register")
    <2>1. PICK x \in Emails : x = tx[c].email
      BY <1>2
    <2>2. CASE tx[c].kind = "create"
      <3>1. users' = users /\ Exists(x)
        BY <1>1, <1>2, <2>1, <2>2 DEF Commit, Known
      <3>. QED
        BY <1>1, <2>1, <3>1 DEF RowsOK, Exists
    <2>3. CASE tx[c].kind = "register"
      <3>1. users' = [users EXCEPT ![x] = u] /\ u \in User
        BY <2>1, <2>3 DEF Commit, User
      <3>2. /\ users' \in [Emails -> User \cup {NoUser}] /\ Exists(x)'
            /\ \A y \in Emails : y # x => (Exists(y)' <=> Exists(y))
        <4>. HIDE DEF u
        <4>. QED
          BY <1>1, <3>1, UserWritten
      <3>. QED
        BY <2>1, <2>3, <3>2
    <2>. QED
      BY <1>2, <2>2, <2>3
  <1>8. script' = script
    BY DEF Commit
  <1>. QED
    BY <1>1, <1>3, <1>4, <1>6, <1>7, <1>8 DEF RowsOK, Grows

LEMMA ScriptOrganizationRows ==
  ASSUME AccountsInv, ScriptOrganization
  PROVE  /\ RowsOK' /\ Grows /\ users' = users
         /\ OrganizationsOf(ScriptEmail)' # {}
         /\ \/ orgs' = orgs
            \/ /\ <<ScriptSlug, 0>> \notin DOMAIN orgs
               /\ DOMAIN orgs' = DOMAIN orgs \cup {<<ScriptSlug, 0>>}
               /\ orgs'[<<ScriptSlug, 0>>].members = [e \in {ScriptEmail} |-> "OWNER"]
  <1>. DEFINE slug == <<ScriptSlug, 0>>
              org == NewOrganization("Admin Workspace", ScriptEmail, "PRO")
  <1>1. RowsOK /\ Known
    BY DEF AccountsInv
  <1>2. script' = "ended" /\ users' = users
    BY DEF ScriptOrganization
  <1>3. CASE OrganizationsOf(ScriptEmail) # {}
    <2>1. orgs' = orgs
      BY <1>3 DEF ScriptOrganization
    <2>. QED
      BY <1>1, <1>2, <1>3, <2>1, RowsKept DEF OrganizationsOf
  <1>4. CASE OrganizationsOf(ScriptEmail) = {}
    <2>1. slug \notin DOMAIN orgs
      BY <1>1, <1>4 DEF Known
    <2>2. slug \in Slugs
      BY DEF Slugs
    <2>3. org \in Org /\ org.members = [e \in {ScriptEmail} |-> "OWNER"]
      BY AccountsAssumption, NewOrganizationType DEF OrgName, Plan
    <2>4. orgs' = WithOrganization(slug, org)
      BY <1>4 DEF ScriptOrganization
    <2>5. /\ DOMAIN orgs' = DOMAIN orgs \cup {slug}
          /\ IsFiniteSet(DOMAIN orgs') /\ DOMAIN orgs' \subseteq Slugs
          /\ orgs' \in [DOMAIN orgs' -> Org]
          /\ orgs'[slug] = org
          /\ \A s \in DOMAIN orgs \ {slug} : orgs'[s] = orgs[s]
      <3>. HIDE DEF slug, org
      <3>. QED
        BY <1>1, <2>2, <2>3, <2>4, WithOrganizationType
    <2>6. slug \in OrganizationsOf(ScriptEmail)'
      BY <2>3, <2>5 DEF OrganizationsOf
    <2>. QED
      BY <1>1, <1>2, <2>1, <2>3, <2>5, <2>6 DEF RowsOK, Grows, Exists
  <1>. QED
    BY <1>3, <1>4

LEMMA ScriptUpsertRows ==
  ASSUME AccountsInv, ScriptUpsert
  PROVE  /\ RowsOK' /\ Grows /\ Exists(ScriptEmail)'
         /\ \A x \in Emails : x # ScriptEmail => (Exists(x)' <=> Exists(x))
  <1>. DEFINE u == [role |-> "ADMIN", status |-> "ACTIVE"]
  <1>1. u \in User /\ users' = [users EXCEPT ![ScriptEmail] = u]
    BY DEF User, ScriptUpsert
  <1>2. RowsOK /\ ScriptEmail \in Emails
    BY AccountsAssumption DEF AccountsInv
  <1>3. /\ users' \in [Emails -> User \cup {NoUser}] /\ Exists(ScriptEmail)'
        /\ \A x \in Emails : x # ScriptEmail => (Exists(x)' <=> Exists(x))
    <2>. HIDE DEF u
    <2>. QED
      BY <1>1, <1>2, UserWritten
  <1>. QED
    BY <1>2, <1>3 DEF RowsOK, Grows, ScriptUpsert

(* What AdminService changes in a row leaves the keys alone.               *)
LEMMA UserChanged ==
  ASSUME RowsOK, script' = script, NEW e \in Emails, NEW u, u \in User, Exists(e),
         users' = [users EXCEPT ![e] = u], orgs' = orgs
  PROVE  RowsOK' /\ Grows /\ DOMAIN orgs' = DOMAIN orgs /\ \A x \in Emails : Exists(x)' <=> Exists(x)
  <1>1. /\ users' \in [Emails -> User \cup {NoUser}] /\ Exists(e)'
        /\ \A x \in Emails : x # e => (Exists(x)' <=> Exists(x))
    BY UserWritten
  <1>. QED
    BY <1>1 DEF RowsOK, Grows

LEMMA RoleChanged ==
  ASSUME RowsOK, script' = script, NEW e \in Emails, NEW role \in {"USER", "ADMIN"}, Exists(e),
         UpdateUserRole(e, role), orgs' = orgs
  PROVE  RowsOK' /\ Grows /\ DOMAIN orgs' = DOMAIN orgs /\ \A x \in Emails : Exists(x)' <=> Exists(x)
  <1>1. [users[e] EXCEPT !.role = role] \in User
    BY DEF RowsOK, Exists, User
  <1>2. users' = [users EXCEPT ![e] = [users[e] EXCEPT !.role = role]]
    BY DEF UpdateUserRole
  <1>. QED
    BY <1>1, <1>2, UserChanged

LEMMA StatusChanged ==
  ASSUME RowsOK, script' = script, NEW e \in Emails, NEW status \in {"ACTIVE", "SUSPENDED"}, Exists(e),
         UpdateUserStatus(e, status), orgs' = orgs
  PROVE  RowsOK' /\ Grows /\ DOMAIN orgs' = DOMAIN orgs /\ \A x \in Emails : Exists(x)' <=> Exists(x)
  <1>1. [users[e] EXCEPT !.status = status] \in User
    BY DEF RowsOK, Exists, User
  <1>2. users' = [users EXCEPT ![e] = [users[e] EXCEPT !.status = status]]
    BY DEF UpdateUserStatus
  <1>. QED
    BY <1>1, <1>2, UserChanged

LEMMA PlanChanged ==
  ASSUME RowsOK, script' = script, NEW slug \in DOMAIN orgs, NEW plan \in Plan,
         NEW status \in SubscriptionStatus \cup {NoStatus},
         UpdateSubscription(slug, plan, status), users' = users
  PROVE  RowsOK' /\ Grows /\ DOMAIN orgs' = DOMAIN orgs /\ \A x \in Emails : Exists(x)' <=> Exists(x)
  <1>. DEFINE new == IF status = NoStatus THEN orgs[slug].status ELSE status
              org == [orgs[slug] EXCEPT !.plan = plan, !.status = new]
  <1>1. orgs[slug] \in Org
    BY DEF RowsOK
  <1>2. new \in SubscriptionStatus
    BY <1>1 DEF Org
  <1>3. org \in Org /\ org.members = orgs[slug].members
    <2>. HIDE DEF new
    <2>. QED
      BY <1>1, <1>2 DEF Org
  <1>4. orgs' = [orgs EXCEPT ![slug] = org]
    BY <1>1 DEF UpdateSubscription, RowsOK, Org
  <1>5. /\ DOMAIN orgs' = DOMAIN orgs /\ orgs' \in [DOMAIN orgs' -> Org]
        /\ \A s \in DOMAIN orgs : orgs'[s].members = orgs[s].members
    <2>. HIDE DEF org
    <2>. QED
      BY <1>3, <1>4, OrgWritten
  <1>. QED
    BY <1>5 DEF RowsOK, Grows, Exists

LEMMA OtherAdministratorRows ==
  ASSUME AccountsInv, OtherAdministrator
  PROVE  /\ RowsOK' /\ Grows /\ DOMAIN orgs' = DOMAIN orgs /\ tx' = tx /\ script' = script
         /\ \A e \in Emails : Exists(e)' <=> Exists(e)
  <1>1. RowsOK /\ tx' = tx /\ script' = script
    BY DEF AccountsInv, OtherAdministrator
  <1>2. \A offer \in Offers : offer[1] \in Plan /\ offer[2] \in SubscriptionStatus \cup {NoStatus}
    BY AccountsAssumption
  <1>. QED
    BY <1>1, <1>2, RoleChanged, StatusChanged, PlanChanged DEF OtherAdministrator

LEMMA RenameRows ==
  ASSUME AccountsInv, NEW e \in Emails, NEW slug \in DOMAIN orgs, NEW name \in Names, Rename(e, slug, name)
  PROVE  /\ RowsOK' /\ Grows /\ DOMAIN orgs' = DOMAIN orgs
         /\ users' = users /\ tx' = tx /\ script' = script
  <1>. DEFINE org == [orgs[slug] EXCEPT !.name = name]
  <1>1. RowsOK /\ users' = users /\ tx' = tx /\ script' = script
    BY DEF AccountsInv, Rename
  <1>2. org \in Org /\ org.members = orgs[slug].members
    BY <1>1 DEF RowsOK, Org, OrgName
  <1>3. orgs' = [orgs EXCEPT ![slug] = org]
    BY DEF Rename
  <1>4. /\ DOMAIN orgs' = DOMAIN orgs /\ orgs' \in [DOMAIN orgs' -> Org]
        /\ \A s \in DOMAIN orgs : orgs'[s].members = orgs[s].members
    <2>. HIDE DEF org
    <2>. QED
      BY <1>1, <1>2, <1>3, OrgWritten
  <1>. QED
    BY <1>1, <1>4 DEF RowsOK, Grows, Exists

(* The steps of a request before and after its commit write no row.        *)
LEMMA QuietRows ==
  ASSUME AccountsInv, NEW c \in Clients,
         Ask(c) \/ InsertUser(c) \/ Probe(c) \/ InsertOrganization(c) \/ IssueTokens(c) \/ Abort(c) \/ Answered(c)
  PROVE  RowsOK' /\ Grows /\ users' = users /\ orgs' = orgs /\ script' = script
  <1>1. users' = users /\ orgs' = orgs /\ script' = script
    BY DEF Ask, Register, CreateOrganization, InsertUser, Probe, InsertOrganization, IssueTokens, Abort, Answered
  <1>. QED
    BY <1>1, RowsKept DEF AccountsInv, RowsOK

LEMMA ScriptCrashRows ==
  ASSUME AccountsInv, ScriptCrash
  PROVE  RowsOK' /\ Grows /\ users' = users /\ orgs' = orgs /\ tx' = tx /\ script' = "idle"
  <1>1. users' = users /\ orgs' = orgs /\ tx' = tx /\ script' = "idle"
    BY DEF ScriptCrash
  <1>. QED
    BY <1>1, RowsKept DEF AccountsInv

LEMMA RowTypes ==
  ASSUME AccountsInv, AccountsNext
  PROVE  RowsOK' /\ Grows
  BY QuietRows, CommitRows, RenameRows, OtherAdministratorRows, ScriptUpsertRows, ScriptOrganizationRows,
     ScriptCrashRows DEF AccountsNext, Handle, Script

-----------------------------------------------------------------------------
(* Slugs                                                                   *)

(* Where a slug comes from.                                                *)
LEMMA NewSlugs ==
  ASSUME AccountsInv, AccountsNext, NEW s, s \in DOMAIN orgs', s \notin DOMAIN orgs
  PROVE  \/ \E c \in Clients : Commit(c) /\ s = tx[c].slug
         \/ ScriptOrganization /\ s = <<ScriptSlug, 0>>
  <1>1. ASSUME NEW c \in Clients, Commit(c)  PROVE  s = tx[c].slug
    BY <1>1, CommitRows
  <1>2. ASSUME NEW c \in Clients,
               Ask(c) \/ InsertUser(c) \/ Probe(c) \/ InsertOrganization(c) \/ IssueTokens(c) \/ Abort(c) \/ Answered(c)
        PROVE  FALSE
    BY <1>2, QuietRows
  <1>3. ASSUME NEW e \in Emails, NEW slug \in DOMAIN orgs, NEW name \in Names, Rename(e, slug, name)  PROVE  FALSE
    BY <1>3, RenameRows
  <1>4. ~OtherAdministrator /\ ~ScriptCrash
    BY OtherAdministratorRows, ScriptCrashRows
  <1>5. ~ScriptUpsert
    BY DEF ScriptUpsert
  <1>6. ScriptOrganization => s = <<ScriptSlug, 0>>
    BY ScriptOrganizationRows
  <1>. QED
    BY <1>1, <1>2, <1>3, <1>4, <1>5, <1>6 DEF AccountsNext, Handle, Script

(* What a request looks like after a step of its client.                   *)
LEMMA NextPc ==
  ASSUME RequestsOK, NEW c \in Clients
  PROVE  /\ Ask(c) => tx'[c].pc \in {"checked", "probe", "failed"}
         /\ InsertUser(c) => tx'[c].pc \in {"probe", "failed"}
         /\ Probe(c) => tx'[c].pc = "insert"
         /\ InsertOrganization(c) => tx'[c].pc \in {"commit", "failed"}
         /\ Commit(c) => tx'[c].pc \in {"issue", "done"}
         /\ IssueTokens(c) => tx'[c].pc = "done"
         /\ Abort(c) => tx'[c].pc = "failed"
         /\ Answered(c) => tx'[c].pc = "idle"
  <1>1. \A t : Turn(c, t) => tx'[c] = t
    BY DEF Turn, RequestsOK
  <1>2. \A pc : [tx[c] EXCEPT !.pc = pc].pc = pc
    BY DEF RequestsOK, Request
  <1>3. Ask(c) => tx'[c].pc \in {"checked", "probe", "failed"}
    BY <1>1 DEF Ask, Register, CreateOrganization, Idle
  <1>4. Probe(c) => tx'[c].pc = "insert"
    BY <1>1 DEF Probe, RequestsOK, Request
  <1>5. Answered(c) => tx'[c].pc = "idle"
    BY <1>1, IdleType DEF Answered
  <1>6. /\ InsertUser(c) => tx'[c].pc \in {"probe", "failed"}
        /\ InsertOrganization(c) => tx'[c].pc \in {"commit", "failed"}
        /\ Commit(c) => tx'[c].pc \in {"issue", "done"}
    BY <1>1, <1>2 DEF InsertUser, InsertOrganization, Commit
  <1>7. /\ IssueTokens(c) => tx'[c].pc = "done"
        /\ Abort(c) => tx'[c].pc = "failed"
    BY <1>1, <1>2 DEF IssueTokens, Abort
  <1>. QED
    BY <1>3, <1>4, <1>5, <1>6, <1>7

(* What a step does with the request of a client: nothing, unless it is a  *)
(* step of that client.                                                    *)
LEMMA OwnRequest ==
  ASSUME AccountsInv, AccountsNext, NEW c \in Clients, tx'[c] # tx[c]
  PROVE  Ask(c) \/ Handle(c) \/ Abort(c) \/ Answered(c)
  <1>1. RequestsOK
    BY DEF AccountsInv
  <1>2. ASSUME NEW d \in Clients, NEW t, Turn(d, t)  PROVE  d = c
    BY <1>1, <1>2 DEF Turn, RequestsOK
  <1>3. ASSUME NEW d \in Clients, Ask(d) \/ Handle(d) \/ Abort(d) \/ Answered(d)  PROVE  d = c
    BY <1>2, <1>3 DEF Ask, Register, CreateOrganization, Handle, InsertUser, Probe, InsertOrganization, Commit,
                      IssueTokens, Abort, Answered
  <1>4. ASSUME (\E e \in Emails, slug \in DOMAIN orgs, name \in Names : Rename(e, slug, name)) \/ OtherAdministrator \/ Script
        PROVE  FALSE
    BY <1>4 DEF Rename, OtherAdministrator, Script, ScriptUpsert, ScriptOrganization, ScriptCrash
  <1>. QED
    BY <1>3, <1>4 DEF AccountsNext

LEMMA FoundStep ==
  ASSUME AccountsInv, AccountsNext
  PROVE  Found'
  <1>1. RowsOK /\ RequestsOK /\ Found /\ DOMAIN orgs \subseteq DOMAIN orgs'
    BY RowTypes DEF AccountsInv, Grows
  <1>. SUFFICES ASSUME NEW c \in Clients, tx'[c].pc \in {"insert", "commit"}
                PROVE  /\ tx'[c].slug \in Bases \X Nat
                       /\ \A n \in 0..(tx'[c].slug[2] - 1) : <<tx'[c].slug[1], n>> \in DOMAIN orgs'
    BY DEF Found
  <1>2. CASE tx'[c] = tx[c]
    BY <1>1, <1>2 DEF Found
  <1>3. CASE Probe(c)
    <2>. DEFINE base == BaseSlug[tx[c].name]
    <2>1. base \in Bases /\ tx'[c].slug = FreeSlug(base)
      BY <1>1, <1>3, BaseIsText DEF Probe, Turn, RequestsOK, Request
    <2>2. /\ FreeSlug(base) \in {base} \X Nat
          /\ \A n \in 0..(FreeSlug(base)[2] - 1) : <<base, n>> \in DOMAIN orgs
      BY <1>1, FreeSlugIsFirst
    <2>. HIDE DEF base
    <2>. QED
      BY <1>1, <2>1, <2>2
  <1>4. CASE InsertOrganization(c)
    <2>1. tx \in [Clients -> Request] /\ tx[c] \in Request
      BY <1>1 DEF RequestsOK
    <2>2. PICK pc : tx' = [tx EXCEPT ![c] = [tx[c] EXCEPT !.pc = pc]]
      BY <1>4 DEF InsertOrganization, Turn
    <2>3. tx'[c] = [tx[c] EXCEPT !.pc = pc]
      BY <2>1, <2>2
    <2>4. tx'[c].slug = tx[c].slug
      BY <2>1, <2>3 DEF Request
    <2>5. tx[c].pc = "insert"
      BY <1>4 DEF InsertOrganization
    <2>6. /\ tx[c].slug \in Bases \X Nat
          /\ \A n \in 0..(tx[c].slug[2] - 1) : <<tx[c].slug[1], n>> \in DOMAIN orgs
      BY <1>1, <2>5 DEF Found
    <2>. QED
      BY <1>1, <2>4, <2>6
  <1>5. CASE Ask(c) \/ InsertUser(c) \/ Commit(c) \/ IssueTokens(c) \/ Abort(c) \/ Answered(c)
    <2>1. tx'[c].pc \notin {"insert", "commit"}
        BY <1>1, <1>5, NextPc
    <2>. QED
      BY <2>1
  <1>. QED
    BY <1>2, <1>3, <1>4, <1>5, OwnRequest DEF Handle

LEMMA DenseStep ==
  ASSUME AccountsInv, AccountsNext
  PROVE  Dense'
  <1>1. RowsOK /\ Found /\ Dense /\ RowsOK' /\ DOMAIN orgs \subseteq DOMAIN orgs'
    BY RowTypes DEF AccountsInv, Grows
  <1>. SUFFICES ASSUME NEW s \in DOMAIN orgs', NEW n \in 0..s[2]
                PROVE  <<s[1], n>> \in DOMAIN orgs'
    BY DEF Dense
  <1>2. s[2] \in Nat /\ s = <<s[1], s[2]>>
    BY <1>1 DEF RowsOK, Slugs
  <1>3. CASE s \in DOMAIN orgs
    BY <1>1, <1>3 DEF Dense
  <1>4. ASSUME NEW c \in Clients, Commit(c), s = tx[c].slug
        PROVE  <<s[1], n>> \in DOMAIN orgs'
    <2>1. \A m \in 0..(s[2] - 1) : <<s[1], m>> \in DOMAIN orgs
      BY <1>1, <1>4 DEF Found, Commit
    <2>2. n = s[2] \/ n \in 0..(s[2] - 1)
      BY <1>2
    <2>. QED
      BY <1>1, <1>2, <2>1, <2>2
  <1>5. CASE s = <<ScriptSlug, 0>>
    BY <1>2, <1>5
  <1>. QED
    BY <1>3, <1>4, <1>5, NewSlugs

LEMMA SlugLockStep ==
  ASSUME AccountsInv, AccountsNext
  PROVE  SlugLock'
  <1>1. RequestsOK /\ Found /\ SlugLock
    BY DEF AccountsInv
  <1>2. ASSUME NEW c \in Clients, HoldsSlug(c)'
        PROVE  /\ tx'[c].slug = tx[c].slug
               /\ \/ HoldsSlug(c) /\ tx'[c] = tx[c]
                  \/ InsertOrganization(c) /\ tx[c].slug \notin DOMAIN orgs /\ orgs' = orgs
    <2>1. tx'[c].pc = "commit"
      BY <1>2 DEF HoldsSlug
    <2>2. CASE tx'[c] = tx[c]
      BY <2>1, <2>2 DEF HoldsSlug
    <2>3. CASE InsertOrganization(c)
      BY <1>1, <2>1, <2>3 DEF InsertOrganization, Turn, RequestsOK, Request
    <2>4. CASE Ask(c) \/ InsertUser(c) \/ Probe(c) \/ Commit(c) \/ IssueTokens(c) \/ Abort(c) \/ Answered(c)
      BY <1>1, <2>1, <2>4, NextPc
    <2>. QED
      BY <2>2, <2>3, <2>4, OwnRequest DEF Handle
  <1>3. ASSUME NEW c \in Clients, NEW d \in Clients, c # d, HoldsSlug(c)', HoldsSlug(d)'
        PROVE  tx'[c].slug # tx'[d].slug
    <2>1. tx'[c].slug = tx[c].slug /\ tx'[d].slug = tx[d].slug
      BY <1>2, <1>3
    <2>2. CASE HoldsSlug(c) /\ HoldsSlug(d)
      BY <1>1, <1>3, <2>1, <2>2 DEF SlugLock
    <2>3. CASE InsertOrganization(c) /\ tx[c].slug \notin DOMAIN orgs
      <3>1. tx'[d] = tx[d]
        BY <1>1, <1>3, <2>3 DEF InsertOrganization, Turn, RequestsOK
      <3>2. HoldsSlug(d)
        BY <1>3, <3>1 DEF HoldsSlug
      <3>. QED
        BY <1>3, <2>1, <2>3, <3>2 DEF InsertOrganization, Waits
    <2>4. CASE InsertOrganization(d) /\ tx[d].slug \notin DOMAIN orgs
      <3>1. tx'[c] = tx[c]
        BY <1>1, <1>3, <2>4 DEF InsertOrganization, Turn, RequestsOK
      <3>2. HoldsSlug(c)
        BY <1>3, <3>1 DEF HoldsSlug
      <3>. QED
        BY <1>3, <2>1, <2>4, <3>2 DEF InsertOrganization, Waits
    <2>. QED
      BY <1>2, <1>3, <2>2, <2>3, <2>4
  <1>4. ASSUME NEW c \in Clients, HoldsSlug(c)', tx'[c].slug \in DOMAIN orgs'
        PROVE  FALSE
    <2>1. CASE InsertOrganization(c) /\ tx[c].slug \notin DOMAIN orgs /\ orgs' = orgs
      BY <1>2, <1>4, <2>1
    <2>2. CASE HoldsSlug(c) /\ tx'[c] = tx[c]
      <3>1. tx[c].slug \notin DOMAIN orgs /\ tx[c].slug \in DOMAIN orgs'
        BY <1>1, <1>4, <2>2 DEF SlugLock
      <3>2. ASSUME NEW d \in Clients, Commit(d), tx[c].slug = tx[d].slug
            PROVE  FALSE
        <4>1. c = d
          BY <1>1, <2>2, <3>2 DEF SlugLock, Commit, HoldsSlug
        <4>2. tx'[d].pc # "commit"
          BY <1>1, <3>2 DEF Commit, Turn, RequestsOK, Request
        <4>. QED
          BY <1>4, <4>1, <4>2 DEF HoldsSlug
      <3>3. tx[c].slug # <<ScriptSlug, 0>>
        <4>1. tx[c].slug \in Bases \X Nat
          BY <1>1, <2>2 DEF Found, HoldsSlug
        <4>2. ScriptSlug \notin Bases
          BY BaseIsText
        <4>. QED
          BY <4>1, <4>2
      <3>. QED
        BY <3>1, <3>2, <3>3, NewSlugs
    <2>. QED
      BY <1>2, <1>4, <2>1, <2>2
  <1>. QED
    BY <1>3, <1>4 DEF SlugLock

-----------------------------------------------------------------------------
(* Addresses                                                               *)

(* Where a user comes from.                                                *)
LEMMA NewUsers ==
  ASSUME AccountsInv, AccountsNext, NEW e \in Emails, Exists(e)', ~Exists(e)
  PROVE  \/ \E c \in Clients : Commit(c) /\ e = tx[c].email /\ tx[c].kind = "register"
         \/ ScriptUpsert /\ e = ScriptEmail
  <1>1. ASSUME NEW c \in Clients, Commit(c)  PROVE  e = tx[c].email /\ tx[c].kind = "register"
    BY <1>1, CommitRows
  <1>2. users' # users
    BY DEF Exists
  <1>3. ASSUME NEW c \in Clients,
               Ask(c) \/ InsertUser(c) \/ Probe(c) \/ InsertOrganization(c) \/ IssueTokens(c) \/ Abort(c) \/ Answered(c)
        PROVE  FALSE
    BY <1>2, <1>3, QuietRows
  <1>4. ASSUME NEW x \in Emails, NEW slug \in DOMAIN orgs, NEW name \in Names, Rename(x, slug, name)  PROVE  FALSE
    BY <1>2, <1>4 DEF Rename
  <1>5. ~OtherAdministrator /\ ~ScriptCrash /\ ~ScriptOrganization
    BY <1>2, OtherAdministratorRows DEF ScriptCrash, ScriptOrganization
  <1>6. ScriptUpsert => e = ScriptEmail
    BY ScriptUpsertRows
  <1>. QED
    BY <1>1, <1>3, <1>4, <1>5, <1>6 DEF AccountsNext, Handle, Script

LEMMA EmailLockStep ==
  ASSUME AccountsInv, AccountsNext
  PROVE  EmailLock'
  <1>1. RequestsOK /\ EmailLock
    BY DEF AccountsInv
  <1>2. ASSUME NEW c \in Clients, HoldsEmail(c)'
        PROVE  /\ tx'[c].email = tx[c].email /\ tx[c].email \in Emails
               /\ \/ HoldsEmail(c) /\ ~Commit(c)
                  \/ InsertUser(c) /\ ~Exists(tx[c].email) /\ users' = users
    <2>1. tx'[c].pc \in {"probe", "insert", "commit"} /\ tx'[c].kind = "register"
      BY <1>2 DEF HoldsEmail
    <2>2. ~Commit(c)
      BY <1>1, <2>1, NextPc
    <2>3. CASE tx'[c] = tx[c]
      BY <1>1, <2>1, <2>2, <2>3 DEF HoldsEmail, RequestsOK
    <2>4. CASE InsertUser(c)
      BY <1>1, <2>1, <2>4 DEF InsertUser, Turn, RequestsOK, Request
    <2>5. CASE Probe(c) \/ InsertOrganization(c)
      <3>1. /\ tx[c].pc \in {"probe", "insert"}
            /\ tx'[c].kind = tx[c].kind /\ tx'[c].email = tx[c].email
        BY <1>1, <2>5 DEF Probe, InsertOrganization, Turn, RequestsOK, Request
      <3>2. tx[c].email \in Emails
        BY <1>1, <3>1 DEF RequestsOK
      <3>. QED
        BY <2>1, <2>2, <3>1, <3>2 DEF HoldsEmail
    <2>6. CASE Ask(c)
      <3>1. PICK e \in Emails, name \in Names : Register(c, e, name) \/ CreateOrganization(c, e, name)
        BY <2>6 DEF Ask
      <3>2. ~Register(c, e, name)
        BY <1>1, <2>1 DEF Register, Turn, RequestsOK, Idle
      <3>3. ~CreateOrganization(c, e, name)
        BY <1>1, <2>1 DEF CreateOrganization, Turn, RequestsOK, Idle
      <3>. QED
        BY <3>1, <3>2, <3>3
    <2>7. ~IssueTokens(c) /\ ~Abort(c) /\ ~Answered(c)
      BY <1>1, <2>1, NextPc
    <2>. QED
      BY <2>2, <2>3, <2>4, <2>5, <2>6, <2>7, OwnRequest DEF Handle
  <1>3. ASSUME NEW c \in Clients, NEW d \in Clients, c # d, HoldsEmail(c)', HoldsEmail(d)'
        PROVE  tx'[c].email # tx'[d].email
    <2>1. tx'[c].email = tx[c].email /\ tx'[d].email = tx[d].email
      BY <1>2, <1>3
    <2>2. CASE HoldsEmail(c) /\ HoldsEmail(d)
      BY <1>1, <1>3, <2>1, <2>2 DEF EmailLock
    <2>3. CASE InsertUser(c)
      <3>1. tx'[d] = tx[d]
        BY <1>1, <1>3, <2>3 DEF InsertUser, Turn, RequestsOK
      <3>2. HoldsEmail(d)
        BY <1>3, <3>1 DEF HoldsEmail
      <3>. QED
        BY <1>3, <2>1, <2>3, <3>2 DEF InsertUser, Waits
    <2>4. CASE InsertUser(d)
      <3>1. tx'[c] = tx[c]
        BY <1>1, <1>3, <2>4 DEF InsertUser, Turn, RequestsOK
      <3>2. HoldsEmail(c)
        BY <1>3, <3>1 DEF HoldsEmail
      <3>. QED
        BY <1>3, <2>1, <2>4, <3>2 DEF InsertUser, Waits
    <2>. QED
      BY <1>2, <1>3, <2>2, <2>3, <2>4
  <1>4. ASSUME NEW c \in Clients, HoldsEmail(c)', NEW e \in Emails, e = tx'[c].email, Exists(e)'
        PROVE  FALSE
    <2>1. e = tx[c].email
      BY <1>2, <1>4
    <2>2. CASE InsertUser(c) /\ ~Exists(tx[c].email) /\ users' = users
      BY <1>4, <2>1, <2>2 DEF Exists
    <2>3. CASE HoldsEmail(c) /\ ~Commit(c)
      <3>1. ~Exists(e)
        BY <1>1, <2>1, <2>3 DEF EmailLock
      <3>2. ASSUME NEW d \in Clients, Commit(d), e = tx[d].email, tx[d].kind = "register"
            PROVE  FALSE
        <4>1. HoldsEmail(d)
          BY <3>2 DEF Commit, HoldsEmail
        <4>. QED
          BY <1>1, <2>1, <2>3, <3>2, <4>1 DEF EmailLock
      <3>3. ~(ScriptUpsert /\ e = ScriptEmail)
        BY <2>1, <2>3 DEF ScriptUpsert
      <3>. QED
        BY <1>4, <3>1, <3>2, <3>3, NewUsers
    <2>. QED
      BY <1>2, <1>4, <2>2, <2>3
  <1>5. ASSUME NEW c \in Clients, HoldsEmail(c)'  PROVE  ~(users'[tx'[c].email] # NoUser)
    <2>1. tx'[c].email \in Emails
      BY <1>2, <1>5
    <2>. QED
      BY <1>4, <1>5, <2>1 DEF Exists
  <1>. QED
    BY <1>3, <1>5 DEF EmailLock, Exists

-----------------------------------------------------------------------------
(* Owners                                                                  *)

LEMMA KnownStep ==
  ASSUME AccountsInv, AccountsNext
  PROVE  Known'
  <1>1. RowsOK /\ RequestsOK /\ Found /\ Known /\ Grows
    BY RowTypes DEF AccountsInv
  <1>2. ASSUME NEW c \in Clients, tx'[c].kind = "create", tx'[c].pc # "idle"
        PROVE  users'[tx'[c].email] # NoUser
    <2>1. CASE tx[c].kind = "create" /\ tx[c].pc # "idle" /\ tx'[c].email = tx[c].email
      <3>1. tx[c].email \in Emails /\ Exists(tx[c].email)
        BY <1>1, <2>1 DEF Known, RequestsOK
      <3>. QED
        BY <1>1, <2>1, <3>1 DEF Grows, Exists
    <2>2. CASE tx'[c] = tx[c]
      BY <1>2, <2>1, <2>2
    <2>3. CASE Ask(c)
      <3>1. PICK e \in Emails, name \in Names : Register(c, e, name) \/ CreateOrganization(c, e, name)
        BY <2>3 DEF Ask
      <3>2. ~Register(c, e, name)
        BY <1>1, <1>2 DEF Register, Turn, RequestsOK, Idle
      <3>3. tx'[c].email = e /\ Exists(e) /\ users' = users
        BY <1>1, <3>1, <3>2 DEF CreateOrganization, Authenticated, Active, Turn, RequestsOK, Idle
      <3>. QED
        BY <3>3 DEF Exists
    <2>4. CASE Handle(c) \/ Abort(c)
      <3>1. tx[c].pc # "idle" /\ tx'[c].kind = tx[c].kind /\ tx'[c].email = tx[c].email
        <4>1. CASE InsertUser(c) \/ Probe(c)
          BY <1>1, <4>1 DEF InsertUser, Probe, Turn, RequestsOK, Request
        <4>2. CASE InsertOrganization(c)
          BY <1>1, <4>2 DEF InsertOrganization, Turn, RequestsOK, Request
        <4>3. CASE Commit(c)
          BY <1>1, <4>3 DEF Commit, Turn, RequestsOK, Request
        <4>4. CASE IssueTokens(c) \/ Abort(c)
          BY <1>1, <4>4 DEF IssueTokens, Abort, Underway, Turn, RequestsOK, Request
        <4>. QED
          BY <2>4, <4>1, <4>2, <4>3, <4>4 DEF Handle
      <3>. QED
        BY <1>2, <2>1, <3>1
    <2>5. ~Answered(c)
      BY <1>1, <1>2, NextPc
    <2>. QED
      BY <2>2, <2>3, <2>4, <2>5, OwnRequest
  <1>3. ASSUME script' = "upserted"  PROVE  Exists(ScriptEmail)'
    <2>1. CASE script = "upserted"
      BY <1>1, <2>1, AccountsAssumption DEF Known, Grows
    <2>2. CASE ScriptUpsert
      BY <2>2, ScriptUpsertRows
    <2>3. script' = script \/ ScriptUpsert
      BY <1>3 DEF AccountsNext, Ask, Register, CreateOrganization, Handle, InsertUser, Probe, InsertOrganization, Commit,
                  IssueTokens, Abort, Answered, Rename, OtherAdministrator, Script, ScriptOrganization, ScriptCrash
    <2>. QED
      BY <1>3, <2>1, <2>2, <2>3
  <1>4. ASSUME NEW s \in DOMAIN orgs', s[1] = ScriptSlug
        PROVE  ScriptEmail \in DOMAIN orgs'[s].members
    <2>1. CASE s \in DOMAIN orgs
      BY <1>1, <1>4, <2>1 DEF Known, OrganizationsOf, Grows
    <2>2. ASSUME NEW c \in Clients, Commit(c), s = tx[c].slug  PROVE  FALSE
      <3>1. tx[c].slug \in Bases \X Nat
        BY <1>1, <2>2 DEF Found, Commit
      <3>2. ScriptSlug \notin Bases
        BY BaseIsText
      <3>. QED
        BY <1>4, <2>2, <3>1, <3>2
    <2>3. CASE ScriptOrganization /\ s = <<ScriptSlug, 0>> /\ s \notin DOMAIN orgs
      BY <1>4, <2>3, ScriptOrganizationRows
    <2>. QED
      BY <1>4, <2>1, <2>2, <2>3, NewSlugs
  <1>. QED
    BY <1>2, <1>3, <1>4 DEF Known, Exists, OrganizationsOf

LEMMA OwnedStep ==
  ASSUME AccountsInv, AccountsNext
  PROVE  OwnedOrganizations'
  <1>1. RowsOK /\ RequestsOK /\ OwnedOrganizations /\ Known /\ Grows /\ RowsOK'
    BY RowTypes DEF AccountsInv
  <1>2. ASSUME NEW s \in DOMAIN orgs'
        PROVE  \E e \in DOMAIN orgs'[s].members : orgs'[s].members[e] = "OWNER" /\ Exists(e)'
    <2>1. CASE s \in DOMAIN orgs
      <3>1. PICK e \in DOMAIN orgs[s].members : orgs[s].members[e] = "OWNER" /\ Exists(e)
        BY <1>1, <2>1 DEF OwnedOrganizations
      <3>2. DOMAIN orgs[s].members \subseteq Emails
        BY <1>1, <2>1 DEF RowsOK, Org, Members
      <3>. QED
        BY <1>1, <2>1, <3>1, <3>2 DEF Grows
    <2>2. ASSUME NEW c \in Clients, Commit(c), s = tx[c].slug
          PROVE  \E e \in DOMAIN orgs'[s].members : orgs'[s].members[e] = "OWNER" /\ Exists(e)'
      <3>1. PICK e \in Emails : e = tx[c].email
        BY <1>1, <2>2 DEF RequestsOK, Commit
      <3>2. orgs'[s].members = [x \in {e} |-> "OWNER"] /\ Exists(e)'
        BY <2>2, <3>1, CommitRows
      <3>. QED
        BY <3>2
    <2>3. CASE ScriptOrganization /\ s = <<ScriptSlug, 0>> /\ s \notin DOMAIN orgs
      <3>1. orgs'[s].members = [x \in {ScriptEmail} |-> "OWNER"]
        BY <1>2, <2>3, ScriptOrganizationRows
      <3>2. Exists(ScriptEmail)'
        BY <1>1, <2>3, AccountsAssumption DEF ScriptOrganization, Known, Grows
      <3>. QED
        BY <3>1, <3>2
    <2>. QED
      BY <1>2, <2>1, <2>2, <2>3, NewSlugs
  <1>3. ASSUME NEW e \in Emails, Exists(e)', ~(e = ScriptEmail /\ script' # "ended")
        PROVE  OrganizationsOf(e)' # {}
    <2>1. ASSUME OrganizationsOf(e) # {}  PROVE  OrganizationsOf(e)' # {}
      BY <1>1, <2>1 DEF OrganizationsOf, Grows
    <2>2. CASE ScriptOrganization
      <3>1. CASE e = ScriptEmail
        BY <2>2, <3>1, ScriptOrganizationRows
      <3>2. CASE e # ScriptEmail
        BY <1>1, <1>3, <2>1, <2>2, <3>2 DEF OwnedOrganizations, ScriptOrganization, Exists
      <3>. QED
        BY <3>1, <3>2
    <2>3. CASE ~ScriptOrganization
      <3>1. script' = "ended" => script = "ended"
        BY <2>3 DEF AccountsNext, Ask, Register, CreateOrganization, Handle, InsertUser, Probe, InsertOrganization, Commit,
                    IssueTokens, Abort, Answered, Rename, OtherAdministrator, Script, ScriptUpsert, ScriptCrash
      <3>2. CASE Exists(e)
        BY <1>1, <1>3, <2>1, <3>1, <3>2 DEF OwnedOrganizations
      <3>3. ASSUME NEW c \in Clients, Commit(c), e = tx[c].email  PROVE  OrganizationsOf(e)' # {}
        <4>1. tx[c].slug \in DOMAIN orgs' /\ e \in DOMAIN orgs'[tx[c].slug].members
          BY <3>3, CommitRows
        <4>. QED
          BY <4>1 DEF OrganizationsOf
      <3>4. CASE ScriptUpsert /\ e = ScriptEmail
        BY <1>3, <3>4 DEF ScriptUpsert
      <3>. QED
        BY <1>3, <3>2, <3>3, <3>4, NewUsers
    <2>. QED
      BY <2>2, <2>3
  <1>. QED
    BY <1>2, <1>3 DEF OwnedOrganizations

-----------------------------------------------------------------------------
(* The invariant and what follows                                          *)

LEMMA AccountsStep ==
  AccountsInv /\ [AccountsNext]_accountVars => AccountsInv'
  <1>1. ASSUME AccountsInv, AccountsNext  PROVE  AccountsInv'
    BY <1>1, RowTypes, RequestTypes, FoundStep, DenseStep, SlugLockStep, EmailLockStep, KnownStep, OwnedStep
       DEF AccountsInv
  <1>2. ASSUME AccountsInv, UNCHANGED accountVars  PROVE  AccountsInv'
    BY <1>2 DEF accountVars, AccountsInv, RowsOK, RequestsOK, Found, Dense, SlugLock, HoldsSlug, EmailLock, HoldsEmail,
                Known, OwnedOrganizations, OrganizationsOf, Exists
  <1>. QED
    BY <1>1, <1>2

LEMMA AccountsInvariant ==
  AccountsSpec => []AccountsInv
  BY InitInv, AccountsStep, PTL DEF AccountsSpec

LEMMA TypesFollow ==
  ASSUME AccountsInv
  PROVE  AccountsTypeOK
  <1>1. ASSUME NEW e \in Emails, Exists(e)
        PROVE  users[e] \in [role : {"USER", "ADMIN"}, status : {"ACTIVE", "SUSPENDED"}]
    BY <1>1 DEF AccountsInv, RowsOK, Exists, User
  <1>2. ASSUME NEW s \in DOMAIN orgs
        PROVE  /\ s \in (Range(BaseSlug) \cup {ScriptSlug}) \X Nat
               /\ orgs[s].plan \in Plan /\ orgs[s].status \in SubscriptionStatus
               /\ orgs[s].members \in [DOMAIN orgs[s].members -> {"OWNER", "ADMIN", "MEMBER"}]
    <2>1. orgs[s] \in Org /\ s \in Slugs
      BY <1>2 DEF AccountsInv, RowsOK
    <2>2. orgs[s].members \in Members
      BY <2>1 DEF Org
    <2>. QED
      BY <2>1, <2>2 DEF Org, Members, Role, Slugs, Bases
  <1>3. \A c \in Clients : tx[c].pc \in TxPc
    BY DEF AccountsInv, RequestsOK, Request
  <1>4. script \in {"idle", "upserted", "ended"}
    BY DEF AccountsInv, RowsOK
  <1>. QED
    BY <1>1, <1>2, <1>3, <1>4 DEF AccountsTypeOK

(* Users, organizations, subscriptions and requests keep their types,      *)
(* whatever clients, administrators and the script write at the same time. *)
THEOREM AccountTypes ==
  AccountsSpec => []AccountsTypeOK
  BY TypesFollow, AccountsInvariant, PTL

(* Who holds a key is past the statement at which others wait for it: the  *)
(* furthest of any set of transactions waits for none of them.             *)
LEMMA NoCircle ==
  ASSUME NEW S \in SUBSET Clients, S # {}, \A c \in S : Underway(c)
  PROVE  \E c \in S : \A d \in S : ~Waits(c, d)
  <1>1. CASE \E c \in S : tx[c].pc \in {"probe", "commit", "issue"}
    <2>1. PICK c \in S : tx[c].pc \in {"probe", "commit", "issue"}
      BY <1>1
    <2>. QED
      BY <2>1 DEF Waits
  <1>2. CASE (\A c \in S : tx[c].pc \in {"checked", "insert"}) /\ \E c \in S : tx[c].pc = "insert"
    <2>1. PICK c \in S : tx[c].pc = "insert"
      BY <1>2
    <2>2. \A d \in S : ~HoldsSlug(d)
      BY <1>2 DEF HoldsSlug
    <2>. QED
      BY <2>1, <2>2 DEF Waits
  <1>3. CASE \A c \in S : tx[c].pc = "checked"
    <2>1. PICK c \in S : TRUE
      OBVIOUS
    <2>2. \A d \in S : ~HoldsEmail(d)
      BY <1>3 DEF HoldsEmail
    <2>. QED
      BY <1>3, <2>1, <2>2 DEF Waits
  <1>. QED
    BY <1>1, <1>2, <1>3 DEF Underway

LEMMA DenseFollows ==
  ASSUME AccountsInv
  PROVE  SlugsDense
  BY NoCircle DEF AccountsInv, Dense, SlugLock, EmailLock, SlugsDense

(* The numbers behind a slug have no gap, and transactions that are open   *)
(* at the same time never insert one address or one slug: the search for a *)
(* free slug may be out of date, its outcome never is.  However many they  *)
(* are, some transaction is waiting for no other.                          *)
THEOREM SlugsStayDense ==
  AccountsSpec => []SlugsDense
  BY DenseFollows, AccountsInvariant, PTL

(* Registering is all or nothing: no user without an organization, and no  *)
(* organization without an owner, wherever requests fail or meet.          *)
THEOREM NobodyIsLeftOut ==
  AccountsSpec => []OwnedOrganizations
  <1>1. AccountsInv => OwnedOrganizations
    BY DEF AccountsInv
  <1>. QED
    BY <1>1, AccountsInvariant, PTL

-----------------------------------------------------------------------------
(* The tab: its inductive invariants                                       *)

(* The tab's records have their fields, and the first bound is a number.   *)
TabOK ==
  /\ page = [data |-> page.data, failed |-> page.failed, flight |-> page.flight]
  /\ form = [pc |-> form.pc, email |-> form.email, org |-> form.org, role |-> form.role]
  /\ mut = [k \in Kinds |-> [pc |-> mut[k].pc, target |-> mut[k].target, value |-> mut[k].value,
                             others |-> mut[k].others]]
  /\ upsets \in Nat

(* The page on which a change is made.                                     *)
RouteOf(kind) == IF kind = "plan" THEN "admin-billing" ELSE "admin-users"

(* The rows a page of the console lists.                                   *)
Listed(r) == CASE r = "admin-users" -> {e \in Emails : Exists(e)}
               [] r = "admin-billing" -> DOMAIN orgs
               [] OTHER -> {}

(* What is going on belongs to the page the tab is at, and a list names    *)
(* rows there are.                                                         *)
Located ==
  /\ form.pc # "idle" => route = "login"
  /\ \A k \in Kinds : mut[k].pc # "idle" => route = RouteOf(k)
  /\ own.kind # "" => own.kind \in Kinds /\ route = RouteOf(own.kind)
  /\ page.flight.pc = "counting" => route = "admin"
  /\ route \in {"admin-users", "admin-billing"} =>
       /\ page.data # NoData => DOMAIN page.data \subseteq Listed(route)
       /\ page.flight.pc = "answered" => DOMAIN page.flight.data \subseteq Listed(route)

(* A change that is sent is one of a row there is.                         *)
Possible(kind, target, value) ==
  CASE kind = "role" -> target \in Emails /\ Exists(target) /\ value \in {"USER", "ADMIN"}
    [] kind = "status" -> target \in Emails /\ Exists(target) /\ value \in {"ACTIVE", "SUSPENDED"}
    [] kind = "plan" -> target \in DOMAIN orgs /\ value \in Plan

Asked == \A k \in Kinds : mut[k].pc = Sent => Possible(k, mut[k].target, mut[k].value)

TabInv == TabOK /\ Located /\ Asked

(* The organization an answer names, until the tab has stored it.          *)
Belongs ==
  /\ OrgOfUser
  /\ form.pc = "answered" /\ form.org # NoOrg => form.org \in OrganizationsOf(form.email)
  /\ tx[Web].pc \in {"issue", "done"} => tx[Web].slug \in OrganizationsOf(tx[Web].email)

ConsoleInv == AccountsInv /\ TabInv /\ Belongs

-----------------------------------------------------------------------------
(* The accounts, as this tab uses them                                     *)

(* The invariant speaks of keys and members only.                          *)
LEMMA SameKeys ==
  ASSUME AccountsInv, RowsOK', tx' = tx, script' = script, DOMAIN orgs' = DOMAIN orgs,
         \A s \in DOMAIN orgs : orgs'[s].members = orgs[s].members,
         \A e \in Emails : Exists(e)' <=> Exists(e)
  PROVE  AccountsInv'
  <1>0. RowsOK /\ RequestsOK /\ Found /\ Dense /\ SlugLock /\ EmailLock /\ Known /\ OwnedOrganizations
    BY DEF AccountsInv
  <1>1. RequestsOK' /\ Found' /\ Dense' /\ SlugLock'
    BY <1>0 DEF RequestsOK, Found, Dense, SlugLock, HoldsSlug
  <1>2. EmailLock'
    <2>1. \A c \in Clients : HoldsEmail(c) => tx[c].email \in Emails
      BY <1>0 DEF HoldsEmail, RequestsOK
    <2>. QED
      BY <1>0, <2>1 DEF EmailLock, HoldsEmail
  <1>3. \A e \in Emails : OrganizationsOf(e)' = OrganizationsOf(e)
    BY DEF OrganizationsOf
  <1>4. Known'
    <2>1. \A c \in Clients : tx[c].pc # "idle" => tx[c].email \in Emails
      BY <1>0 DEF RequestsOK
    <2>. QED
      BY <1>0, <1>3, <2>1, AccountsAssumption DEF Known
  <1>5. OwnedOrganizations'
    <2>1. \A s \in DOMAIN orgs : DOMAIN orgs[s].members \subseteq Emails
      BY <1>0 DEF RowsOK, Org, Members
    <2>. QED
      BY <1>0, <1>3, <2>1 DEF OwnedOrganizations
  <1>. QED
    BY <1>1, <1>2, <1>4, <1>5 DEF AccountsInv

(* A change of the console is one of an existing row.                      *)
LEMMA ChangeRows ==
  ASSUME AccountsInv, NEW kind \in Kinds, NEW target, NEW value, Possible(kind, target, value),
         Apply(kind, target, value), tx' = tx, script' = script
  PROVE  AccountsInv' /\ Grows
  <1>1. RowsOK
    BY DEF AccountsInv
  <1>2. RowsOK' /\ Grows /\ DOMAIN orgs' = DOMAIN orgs /\ \A x \in Emails : Exists(x)' <=> Exists(x)
    <2>1. CASE kind = "role"
      BY <1>1, <2>1, RoleChanged DEF Possible, Apply
    <2>2. CASE kind = "status"
      BY <1>1, <2>2, StatusChanged DEF Possible, Apply
    <2>3. CASE kind = "plan"
      BY <1>1, <2>3, PlanChanged DEF Possible, Apply
    <2>. QED
      BY <2>1, <2>2, <2>3 DEF Kinds
  <1>. QED
    BY <1>2, SameKeys DEF Grows

LEMMA SameAccounts ==
  ASSUME AccountsInv, users' = users, orgs' = orgs, tx' = tx, script' = script
  PROVE  AccountsInv' /\ Grows
  <1>1. RowsOK' /\ Grows
    BY RowsKept DEF AccountsInv, RowsOK
  <1>. QED
    BY <1>1, SameKeys DEF Exists

(* Every step of the console is one of the accounts, leaves them alone, or *)
(* is a change.                                                            *)
LEMMA ConsoleAccounts ==
  ASSUME AccountsInv, Asked, Next
  PROVE  AccountsInv' /\ Grows
  <1>0. Web \in Clients
    BY ConsoleAssumption
  <1>1. ASSUME AccountsNext  PROVE  AccountsInv' /\ Grows
    BY <1>1, RowTypes, AccountsStep
  <1>2. CASE UNCHANGED <<users, orgs, tx, script>>
    BY <1>2, SameAccounts
  <1>3. ASSUME NEW kind \in Kinds, ServeChange(kind)  PROVE  AccountsInv' /\ Grows
    <2>1. CASE UNCHANGED accountVars
      BY <1>2, <2>1 DEF accountVars
    <2>2. CASE Apply(kind, mut[kind].target, mut[kind].value) /\ UNCHANGED <<tx, script>> /\ mut[kind].pc = Sent
      BY <2>2, ChangeRows DEF Asked
    <2>. QED
      BY <1>3, <2>1, <2>2 DEF ServeChange
  <1>4. CASE Pages
    BY <1>2, <1>4 DEF Pages, Follow, Reload, Focus, Redirect, Search, Pill, MeServe, MeReceive, MeFails, PageServe,
       StatsServe, PageReceive, accountVars
  <1>5. CASE Signing
    <2>1. ASSUME NEW e \in Emails, NEW name \in Names, SubmitSignup(e, name)  PROVE AccountsNext
      BY <1>0, <2>1 DEF SubmitSignup, AccountsNext, Ask
    <2>2. CASE SignupAnswer
      BY <1>0, <1>1, <2>2 DEF SignupAnswer, AccountsNext
    <2>. QED
      BY <1>1, <1>2, <1>5, <2>1, <2>2 DEF Signing, SubmitLogin, ServeLogin, LoginAnswer, Logout, accountVars
  <1>6. CASE Changing
    BY <1>2, <1>3, <1>6 DEF Changing, Click, ChangeAnswer, accountVars
  <1>7. CASE Others
    BY <1>0, <1>1, <1>7 DEF Others, AccountsNext, Script
  <1>. QED
    BY <1>4, <1>5, <1>6, <1>7 DEF Next

-----------------------------------------------------------------------------
(* The steps of the tab                                                    *)

(* A page is opened and whatever was going on at the old one is over.      *)
Moving ==
  /\ page' = PageOf(route') /\ own' = NoChange
  /\ \/ mut' = mut /\ \A k \in Kinds : mut[k].pc = "idle"
     \/ mut' = [k \in Kinds |-> NoMutation]
  /\ UNCHANGED <<users, orgs, script, upsets>>

(* The page asks again, for the same or for something else.                *)
Asking ==
  /\ page' \in {PageOf(route), Fetching(page), [page EXCEPT !.flight = [NoFlight EXCEPT !.pc = Sent]]}
  /\ UNCHANGED <<users, orgs, script, upsets>>

(* The request of the page goes its way.                                   *)
Serving ==
  /\ \/ page' = [page EXCEPT !.failed = TRUE, !.flight = NoFlight]
     \/ /\ route = "admin"
        /\ page' = [page EXCEPT !.flight = [pc |-> "counting", data |-> StatsBegun]]
     \/ /\ Allowed(route) /\ route # "admin"
        /\ page' = [page EXCEPT !.flight = [pc |-> "answered", data |-> AnswerOf(route)]]
     \/ /\ page.flight.pc = "counting"
        /\ page' = [page EXCEPT !.flight = [pc |-> "answered", data |-> AnswerOf("admin")]]
     \/ /\ page.flight.pc = "answered"
        /\ page' = [NoQuery EXCEPT !.data = page.flight.data]
  /\ UNCHANGED <<users, orgs, script, upsets>>

(* A change is refused or made.                                            *)
Changed(kind) ==
  /\ mut[kind].pc = Sent
  /\ \/ mut' = [mut EXCEPT ![kind] = NoMutation] /\ UNCHANGED accountVars
     \/ /\ Apply(kind, mut[kind].target, mut[kind].value)
        /\ mut' = [mut EXCEPT ![kind].pc = "served", ![kind].others = OtherWrites]
        /\ UNCHANGED <<tx, script, upsets>>
  /\ UNCHANGED <<page, own>>

LEMMA ExpelMoves ==
  ASSUME Expel, UNCHANGED accountVars
  PROVE  Moving
  BY DEF Expel, Load, Moving, accountVars

LEMMA GotoMoves ==
  ASSUME NEW r, Goto(r) \/ Load(r), mut' = mut, \A k \in Kinds : mut[k].pc = "idle",
         UNCHANGED <<users, orgs, script, upsets>>
  PROVE  Moving
  BY DEF Goto, Load, Moving

(* All the tab ever does.                                                  *)
Step ==
  \/ Moving
  \/ /\ UNCHANGED <<route, session, cfOrg>>
     /\ \/ UNCHANGED <<page, own, mut>> /\ (users' # users \/ orgs' # orgs => Others)
        \/ (Asking \/ Serving) /\ UNCHANGED <<own, mut>>
        \/ \E kind \in Kinds : \E target, value : Click(kind, target, value)
        \/ \E kind \in Kinds : Changed(kind)
        \/ \E kind \in Kinds : ChangeAnswer(kind)

LEMMA StepKinds ==
  ASSUME TabInv, Next
  PROVE  Step
  <1>0. /\ form.pc # "idle" => route = "login"
        /\ \A k \in Kinds : mut[k].pc # "idle" => route = RouteOf(k)
    BY DEF Step, TabInv, Located
  <1>1. ASSUME route \notin {"admin-users", "admin-billing"}
        PROVE  \A k \in Kinds : mut[k].pc = "idle"
    BY <1>0, <1>1 DEF RouteOf
  <1>2. ASSUME NEW r, Follow(r)  PROVE Step
    BY <1>2, GotoMoves DEF Step, Follow, Settled, Unchanged, accountVars
  <1>3. CASE Reload
    BY <1>3, GotoMoves DEF Step, Reload, Settled, Unchanged, accountVars
  <1>4. CASE Redirect
    BY <1>4, GotoMoves DEF Step, Redirect, Settled, Unchanged, accountVars
  <1>5. CASE Focus
    <2>1. Asking \/ page' = page
      BY <1>5 DEF Focus, Asking, accountVars
    <2>. QED
      BY <1>5, <2>1 DEF Step, Focus, Stay, Unchanged, accountVars
  <1>6. ASSUME NEW text, Search(text)  PROVE Step
    <2>1. Asking
      BY <1>6 DEF Search, Asking, accountVars
    <2>. QED
      BY <1>6, <2>1 DEF Step, Search, Stay, Unchanged
  <1>7. ASSUME NEW plan, Pill(plan)  PROVE Step
    BY <1>7 DEF Step, Pill, Stay, Unchanged, accountVars
  <1>8. CASE MeServe
    BY <1>8, ExpelMoves DEF Step, MeServe, Stay, Unchanged, accountVars
  <1>9. CASE MeReceive \/ MeFails
    BY <1>9 DEF Step, MeReceive, MeFails, Stay, Unchanged, accountVars
  <1>10. CASE PageServe
    <2>1. CASE Expel
      BY <1>10, <2>1, ExpelMoves DEF Step, PageServe
    <2>2. CASE ~Allowed(route) /\ page' = [page EXCEPT !.failed = TRUE, !.flight = NoFlight] /\ ~Expel
      BY <1>10, <2>2 DEF Step, PageServe, Serving, Stay, Unchanged, accountVars
    <2>3. CASE Allowed(route) /\ ~Expel
      BY <1>10, <2>3 DEF Step, PageServe, Serving, Stay, Unchanged, accountVars
    <2>. QED
      BY <1>10, <2>1, <2>2, <2>3 DEF PageServe
  <1>11. CASE StatsServe \/ PageReceive
    BY <1>11 DEF Step, StatsServe, PageReceive, Serving, Stay, Unchanged, accountVars
  <1>12. CASE LoginAnswer
    <2>1. \A k \in Kinds : mut[k].pc = "idle"
      BY <1>0, <1>1, <1>12 DEF LoginAnswer
    <2>. QED
      BY <1>12, <2>1, GotoMoves DEF Step, LoginAnswer, accountVars
  <1>13. CASE SignupAnswer
    <2>1. \A k \in Kinds : mut[k].pc = "idle"
      BY <1>1, <1>13 DEF SignupAnswer
    <2>2. UNCHANGED <<users, orgs, script, upsets, mut>>
      BY <1>13 DEF SignupAnswer, Answered, Unchanged
    <2>3. CASE tx[Web].pc = "failed"
      BY <1>13, <2>2, <2>3 DEF Step, SignupAnswer
    <2>4. CASE tx[Web].pc # "failed"
      BY <1>13, <2>1, <2>2, <2>4, GotoMoves DEF Step, SignupAnswer
    <2>. QED
      BY <2>3, <2>4
  <1>14. CASE Logout
    <2>1. \A k \in Kinds : mut[k].pc = "idle"
      BY <1>1, <1>14 DEF Logout
    <2>. QED
      BY <1>14, <2>1, GotoMoves DEF Step, Logout, Unchanged, accountVars
  <1>15. ASSUME NEW e, NEW name, SubmitLogin(e) \/ SubmitSignup(e, name)  PROVE Step
    BY <1>15 DEF Step, SubmitLogin, SubmitSignup, Register, tabVars, accountVars
  <1>24. CASE ServeLogin
    BY <1>24 DEF Step, ServeLogin, accountVars
  <1>16. ASSUME NEW kind \in Kinds, NEW target, NEW value, Click(kind, target, value)  PROVE Step
    BY <1>16 DEF Step, Click
  <1>17. ASSUME NEW kind \in Kinds, ServeChange(kind)  PROVE Step
    <2>1. CASE Expel /\ UNCHANGED accountVars
      BY <2>1, ExpelMoves DEF Step
    <2>2. CASE ~(Expel /\ UNCHANGED accountVars)
      BY <1>17, <2>2 DEF Step, ServeChange, Changed
    <2>. QED
      BY <2>1, <2>2
  <1>18. ASSUME NEW kind \in Kinds, ChangeAnswer(kind)  PROVE Step
    BY <1>18 DEF Step, ChangeAnswer
  <1>19. CASE Others
    BY <1>19 DEF Step, Others, tabVars
  <1>20. CASE Pages
    BY <1>2, <1>3, <1>4, <1>5, <1>6, <1>7, <1>8, <1>9, <1>10, <1>11, <1>20 DEF Pages
  <1>21. CASE Signing
    BY <1>12, <1>13, <1>14, <1>15, <1>21, <1>24 DEF Signing
  <1>22. CASE Changing
    BY <1>16, <1>17, <1>18, <1>22 DEF Changing
  <1>. QED
    BY <1>19, <1>20, <1>21, <1>22 DEF Next

-----------------------------------------------------------------------------
(* The records of the tab                                                  *)

LEMMA PageOfType ==
  ASSUME NEW r
  PROVE  /\ PageOf(r) = [data |-> NoData, failed |-> FALSE, flight |-> PageOf(r).flight]
         /\ PageOf(r).data = NoData /\ PageOf(r).flight.pc \in {"none", Sent}
  BY DEF PageOf, NoQuery, NoFlight

(* A page that asks shows what it showed, or nothing, and has no answer.   *)
LEMMA AskingType ==
  ASSUME TabOK, Asking
  PROVE  /\ page' = [data |-> page'.data, failed |-> page'.failed, flight |-> page'.flight]
         /\ page'.data \in {page.data, NoData}
         /\ \/ page'.flight = page.flight /\ page'.data = page.data /\ page'.failed = page.failed
            \/ page'.flight.pc \in {"none", Sent} /\ (page'.flight.pc = "none" => page'.data = NoData)
  <1>1. page = [data |-> page.data, failed |-> page.failed, flight |-> page.flight]
    BY DEF TabOK
  <1>2. CASE page' = PageOf(route)
    BY <1>2, PageOfType
  <1>3. CASE page' = Fetching(page)
    <2>1. CASE page.flight = NoFlight
      BY <1>1, <1>3, <2>1 DEF Fetching, NoFlight, Sent
    <2>2. CASE page.flight # NoFlight
      BY <1>1, <1>3, <2>2 DEF Fetching
    <2>. QED
      BY <2>1, <2>2
  <1>4. CASE page' = [page EXCEPT !.flight = [NoFlight EXCEPT !.pc = Sent]]
    BY <1>1, <1>4 DEF NoFlight, Sent
  <1>. QED
    BY <1>2, <1>3, <1>4 DEF Asking

LEMMA ServingType ==
  ASSUME TabOK, Serving
  PROVE  /\ page' = [data |-> page'.data, failed |-> page'.failed, flight |-> page'.flight]
         /\ \/ page'.data = page.data /\ page'.failed = TRUE /\ page'.flight.pc = "none"
            \/ page'.data = page.data /\ route = "admin" /\ page'.flight.pc = "counting"
            \/ /\ page'.data = page.data /\ Allowed(route) /\ route # "admin"
               /\ page'.flight.pc = "answered" /\ page'.flight.data = AnswerOf(route)
            \/ /\ page'.data = page.data /\ page.flight.pc = "counting"
               /\ page'.flight.pc = "answered"
            \/ page.flight.pc = "answered" /\ page'.data = page.flight.data /\ page'.flight.pc = "none"
  <1>1. page = [data |-> page.data, failed |-> page.failed, flight |-> page.flight]
    BY DEF TabOK
  <1>2. CASE page' = [page EXCEPT !.failed = TRUE, !.flight = NoFlight]
    BY <1>1, <1>2 DEF NoFlight
  <1>3. CASE route = "admin" /\ page' = [page EXCEPT !.flight = [pc |-> "counting", data |-> StatsBegun]]
    BY <1>1, <1>3
  <1>4. CASE /\ Allowed(route) /\ route # "admin"
             /\ page' = [page EXCEPT !.flight = [pc |-> "answered", data |-> AnswerOf(route)]]
    BY <1>1, <1>4
  <1>5. CASE /\ page.flight.pc = "counting"
             /\ page' = [page EXCEPT !.flight = [pc |-> "answered", data |-> AnswerOf("admin")]]
    BY <1>1, <1>5
  <1>6. CASE /\ page.flight.pc = "answered"
             /\ page' = [NoQuery EXCEPT !.data = page.flight.data]
    BY <1>6 DEF NoQuery, NoFlight
  <1>. QED
    BY <1>2, <1>3, <1>4, <1>5, <1>6 DEF Serving

(* What a mutation becomes.                                                *)
LEMMA MutSet ==
  ASSUME TabOK, NEW kind \in Kinds, NEW new, mut' = [mut EXCEPT ![kind] = new]
  PROVE  mut'[kind] = new /\ \A k \in Kinds \ {kind} : mut'[k] = mut[k]
  BY DEF TabOK

LEMMA MutServed ==
  ASSUME TabOK, NEW kind \in Kinds, mut' = [mut EXCEPT ![kind].pc = "served", ![kind].others = OtherWrites]
  PROVE  /\ mut'[kind] = [pc |-> mut'[kind].pc, target |-> mut'[kind].target, value |-> mut'[kind].value,
                          others |-> mut'[kind].others]
         /\ mut'[kind].pc = "served" /\ mut'[kind].others = OtherWrites
         /\ mut'[kind].target = mut[kind].target /\ mut'[kind].value = mut[kind].value
         /\ \A k \in Kinds \ {kind} : mut'[k] = mut[k]
  <1>1. PICK old : old = mut[kind]
    OBVIOUS
  <1>2. old = [pc |-> old.pc, target |-> old.target, value |-> old.value, others |-> old.others] /\ DOMAIN mut = Kinds
    BY <1>1 DEF TabOK
  <1>3. PICK told : told = OtherWrites
    OBVIOUS
  <1>4. mut' = [mut EXCEPT ![kind].pc = "served", ![kind].others = told]
    BY <1>3
  <1>5. PICK new : new = [old EXCEPT !.pc = "served", !.others = told]
    OBVIOUS
  <1>6. /\ DOMAIN new = {"pc", "target", "value", "others"} /\ new = [x \in DOMAIN new |-> new[x]]
        /\ new.pc = "served" /\ new.others = told /\ new.target = old.target /\ new.value = old.value
    BY <1>2, <1>5
  <1>7. mut'[kind] = new /\ \A k \in Kinds \ {kind} : mut'[k] = mut[k]
    BY <1>1, <1>2, <1>4, <1>5
  <1>8. new = [pc |-> new.pc, target |-> new.target, value |-> new.value, others |-> new.others]
    BY <1>6
  <1>. QED
    BY <1>1, <1>3, <1>6, <1>7, <1>8

(* What a click sends.                                                     *)
SentMutation(target, value) == [NoMutation EXCEPT !.pc = Sent, !.target = target, !.value = value]

LEMMA MutationSent ==
  ASSUME NEW target, NEW value, NEW new, new = SentMutation(target, value)
  PROVE  /\ new = [pc |-> new.pc, target |-> new.target, value |-> new.value, others |-> new.others]
         /\ new.pc = Sent /\ new.target = target /\ new.value = value
  <1>1. new = [NoMutation EXCEPT !.pc = Sent, !.target = target, !.value = value]
    BY DEF SentMutation
  <1>2. DOMAIN NoMutation = {"pc", "target", "value", "others"}
    BY DEF NoMutation
  <1>3. DOMAIN new = DOMAIN NoMutation /\ new = [x \in DOMAIN new |-> new[x]]
    BY <1>1
  <1>4. new.pc = Sent /\ new.target = target /\ new.value = value
    BY <1>1, <1>2
  <1>5. new = [pc |-> new.pc, target |-> new.target, value |-> new.value, others |-> new.others]
    BY <1>2, <1>3
  <1>. QED
    BY <1>4, <1>5

LEMMA Clicked ==
  ASSUME NEW kind, NEW target, NEW value, Click(kind, target, value)
  PROVE  mut' = [mut EXCEPT ![kind] = SentMutation(target, value)]
  BY DEF Click, SentMutation

LEMMA MutClicked ==
  ASSUME TabOK, NEW kind \in Kinds, NEW target, NEW value, Click(kind, target, value)
  PROVE  /\ mut'[kind].pc = Sent /\ mut'[kind].target = target /\ mut'[kind].value = value
         /\ \A k \in Kinds \ {kind} : mut'[k] = mut[k]
  <1>1. PICK new : new = SentMutation(target, value)
    OBVIOUS
  <1>2. mut'[kind] = new /\ \A k \in Kinds \ {kind} : mut'[k] = mut[k]
    BY <1>1, Clicked, MutSet
  <1>. QED
    BY <1>1, <1>2, MutationSent

LEMMA MutOver ==
  ASSUME TabOK, NEW kind \in Kinds, mut' = [mut EXCEPT ![kind] = NoMutation]
  PROVE  mut'[kind].pc = "idle" /\ \A k \in Kinds \ {kind} : mut'[k] = mut[k]
  <1>1. mut'[kind] = NoMutation /\ \A k \in Kinds \ {kind} : mut'[k] = mut[k]
    BY MutSet
  <1>2. NoMutation.pc = "idle"
    BY DEF NoMutation
  <1>. QED
    BY <1>1, <1>2

MutOK ==
  mut = [k \in Kinds |-> [pc |-> mut[k].pc, target |-> mut[k].target, value |-> mut[k].value,
                          others |-> mut[k].others]]

LEMMA MutType ==
  ASSUME TabOK, Step
  PROVE  MutOK'
  <1>1. MutOK
    BY DEF TabOK, MutOK
  <1>2. CASE mut' = mut
    BY <1>1, <1>2 DEF MutOK
  <1>3. CASE mut' = [k \in Kinds |-> NoMutation]
    BY <1>3 DEF MutOK, NoMutation
  <1>4. ASSUME NEW kind \in Kinds, NEW pc, NEW target, NEW value, NEW others,
               mut' = [mut EXCEPT ![kind] = [pc |-> pc, target |-> target, value |-> value, others |-> others]]
        PROVE  MutOK'
    <2>1. mut' = [k \in Kinds |-> IF k = kind THEN [pc |-> pc, target |-> target, value |-> value, others |-> others]
                                  ELSE mut[k]]
      BY <1>1, <1>4 DEF MutOK
    <2>. QED
      BY <1>1, <2>1 DEF MutOK
  <1>5. ASSUME NEW kind \in Kinds, mut' = [mut EXCEPT ![kind] = NoMutation]
        PROVE  MutOK'
    BY <1>4, <1>5 DEF NoMutation
  <1>6. ASSUME NEW kind \in Kinds, NEW target, NEW value, Click(kind, target, value)
        PROVE  MutOK'
    <2>1. PICK new : new = SentMutation(target, value)
      OBVIOUS
    <2>2. new = [pc |-> new.pc, target |-> new.target, value |-> new.value, others |-> new.others]
      BY <2>1, MutationSent
    <2>3. mut' = [mut EXCEPT ![kind] = new]
      BY <1>6, <2>1, Clicked
    <2>. QED
      BY <1>4, <2>2, <2>3
  <1>7. ASSUME NEW kind \in Kinds, mut' = [mut EXCEPT ![kind].pc = "served", ![kind].others = OtherWrites]
        PROVE  MutOK'
    <2>1. DOMAIN mut' = Kinds /\ mut' = [k \in Kinds |-> mut'[k]]
      BY <1>1, <1>7 DEF MutOK
    <2>2. \A k \in Kinds \ {kind} : mut'[k] = mut[k]
      BY <1>7, MutServed
    <2>3. mut'[kind] = [pc |-> mut'[kind].pc, target |-> mut'[kind].target, value |-> mut'[kind].value,
                        others |-> mut'[kind].others]
      BY <1>7, MutServed
    <2>4. \A k \in Kinds \ {kind} : mut'[k] = [pc |-> mut'[k].pc, target |-> mut'[k].target, value |-> mut'[k].value,
                                              others |-> mut'[k].others]
      BY <1>1, <2>2 DEF MutOK
    <2>. QED
      BY <2>1, <2>3, <2>4 DEF MutOK
  <1>. QED
    BY <1>2, <1>3, <1>5, <1>6, <1>7 DEF Step, Moving, Changed, ChangeAnswer

LEMMA PageType ==
  ASSUME TabOK, Step
  PROVE  page' = [data |-> page'.data, failed |-> page'.failed, flight |-> page'.flight]
  <1>1. page = [data |-> page.data, failed |-> page.failed, flight |-> page.flight]
    BY DEF TabOK
  <1>2. ASSUME NEW kind, ChangeAnswer(kind)
        PROVE  page' = [data |-> page'.data, failed |-> page'.failed, flight |-> page'.flight]
    BY <1>1, <1>2 DEF ChangeAnswer
  <1>3. CASE Moving
    BY <1>3, PageOfType DEF Moving
  <1>4. CASE page' = page
    BY <1>1, <1>4
  <1>. QED
    BY <1>2, <1>3, <1>4, AskingType, ServingType DEF Step, Click, Changed

(* The login form is only sent, and only answered, at its page.            *)
FormOK ==
  /\ form = [pc |-> form.pc, email |-> form.email, org |-> form.org, role |-> form.role]
  /\ form.pc # "idle" => route = "login"

LEMMA FormStep ==
  ASSUME TabInv, Next
  PROVE  FormOK'
  <1>1. FormOK
    BY DEF TabInv, TabOK, Located, FormOK
  <1>2. CASE form' = form /\ (route' = route \/ route' = "login" \/ form.pc = "idle")
    BY <1>1, <1>2 DEF FormOK
  <1>3. CASE form' = NoForm
    BY <1>3 DEF NoForm, FormOK
  <1>6. CASE Pages
    BY <1>2, <1>6 DEF Pages, Follow, Reload, Redirect, Search, Pill, Focus, MeServe, MeReceive, MeFails, PageServe,
       StatsServe, PageReceive, Unchanged, Stay, Settled, Expel, Load
  <1>7. ASSUME NEW e, SubmitLogin(e)
        PROVE  FormOK'
    BY <1>7 DEF SubmitLogin, NoForm, FormOK
  <1>8. CASE ServeLogin
    <2>1. route' = "login"
      BY <1>1, <1>8 DEF ServeLogin, Sent, FormOK
    <2>2. CASE \E org, role : form' = [form EXCEPT !.pc = "answered", !.org = org, !.role = role]
      BY <1>1, <2>1, <2>2 DEF FormOK
    <2>3. CASE form' = [form EXCEPT !.pc = "refused"]
      BY <1>1, <2>1, <2>3 DEF FormOK
    <2>. QED
      BY <1>8, <2>2, <2>3 DEF ServeLogin
  <1>9. CASE Signing
    <2>1. CASE SignupAnswer \/ Logout
      <3>1. form.pc = "idle"
        BY <1>1, <2>1 DEF SignupAnswer, Logout, FormOK
      <3>. QED
        BY <1>2, <2>1, <3>1 DEF SignupAnswer, Logout, Unchanged
    <2>2. CASE LoginAnswer
      BY <1>3, <2>2 DEF LoginAnswer
    <2>3. ASSUME NEW e, NEW name, SubmitSignup(e, name)  PROVE form' = form /\ route' = route
      BY <2>3 DEF SubmitSignup, tabVars
    <2>. QED
      BY <1>2, <1>7, <1>8, <1>9, <2>1, <2>2, <2>3 DEF Signing
  <1>10. CASE Changing
    BY <1>2, <1>10 DEF Changing, Click, ServeChange, ChangeAnswer, Expel, Load
  <1>11. CASE Others
    BY <1>2, <1>11 DEF Others, tabVars
  <1>. QED
    BY <1>6, <1>9, <1>10, <1>11 DEF Next

LEMMA UpsetsType ==
  ASSUME upsets \in Nat, Next
  PROVE  upsets' \in Nat
  <1>1. UNCHANGED upsets \/ Upset
    BY DEF Next, Pages, Signing, Changing, Others, accountVars, Follow, Reload, Redirect, Search, Pill, Focus, MeServe,
       MeReceive, MeFails, PageServe, StatsServe, PageReceive, SubmitLogin, SubmitSignup, ServeLogin, LoginAnswer,
       SignupAnswer, Logout, Register, Answered, Click, ServeChange, ChangeAnswer, Handle, InsertUser, Probe,
       InsertOrganization, Commit, IssueTokens, OtherAdministrator, ScriptUpsert, ScriptOrganization
  <1>. QED
    BY <1>1 DEF Upset

-----------------------------------------------------------------------------
(* What is going on belongs to the page                                    *)

LEMMA ListedGrows ==
  ASSUME Grows, NEW r
  PROVE  Listed(r) \subseteq Listed(r)'
  BY DEF Grows, Listed

LEMMA ListsRows ==
  /\ DOMAIN AnswerOf("admin-users") \subseteq Listed("admin-users")
  /\ DOMAIN AnswerOf("admin-billing") \subseteq Listed("admin-billing")
  BY DEF AnswerOf, AllUsers, AllSubscriptions, Listed

LEMMA PossibleStays ==
  ASSUME Grows, NEW kind \in Kinds, NEW target, NEW value, Possible(kind, target, value)
  PROVE  Possible(kind, target, value)'
  BY DEF Possible, Grows, Kinds

(* A button offers what can be done to its row.                            *)
LEMMA ClickPossible ==
  ASSUME TabInv, NEW kind \in Kinds, NEW target, NEW value, Click(kind, target, value)
  PROVE  Possible(kind, target, value) /\ route = RouteOf(kind)
  <1>1. page.data # NoData
    BY DEF Click
  <1>2. CASE kind \in {"role", "status"}
    <2>1. /\ route = "admin-users" /\ target \in DOMAIN UserRows
          /\ value = IF kind = "role" THEN UserRows[target].newRole ELSE UserRows[target].newStatus
      BY <1>2 DEF Click
    <2>2. target \in DOMAIN page.data /\ UserRows[target] = UserRow(target, page.data[target])
      BY <2>1 DEF UserRows
    <2>3. target \in Emails /\ Exists(target)
      BY <1>1, <2>1, <2>2 DEF TabInv, Located, Listed
    <2>4. /\ UserRows[target].newRole \in {"USER", "ADMIN"}
          /\ UserRows[target].newStatus \in {"ACTIVE", "SUSPENDED"}
      BY <2>2 DEF UserRow
    <2>. QED
      BY <1>2, <2>1, <2>3, <2>4 DEF Possible, RouteOf
  <1>3. CASE kind = "plan"
    <2>1. route = "admin-billing" /\ target \in DOMAIN SubscriptionRows /\ value \in SubscriptionRows[target].offered
      BY <1>3 DEF Click
    <2>2. target \in DOMAIN page.data /\ SubscriptionRows[target] = SubscriptionRow(page.data[target])
      BY <2>1 DEF SubscriptionRows
    <2>3. target \in DOMAIN orgs
      BY <1>1, <2>1, <2>2 DEF TabInv, Located, Listed
    <2>4. value \in Plan
      BY <2>1, <2>2 DEF SubscriptionRow
    <2>. QED
      BY <1>3, <2>1, <2>3, <2>4 DEF Possible, RouteOf
  <1>. QED
    BY <1>2, <1>3 DEF Kinds

LEMMA AskedStep ==
  ASSUME TabInv, Step, Grows
  PROVE  Asked'
  <1>1. TabOK /\ Asked
    BY DEF TabInv
  <1>2. ASSUME NEW k \in Kinds, mut'[k].pc = Sent, NEW target, target = mut'[k].target, NEW value, value = mut'[k].value
        PROVE  Possible(k, target, value)'
    <2>1. CASE mut'[k] = mut[k]
      <3>1. Possible(k, target, value)
        BY <1>1, <1>2, <2>1 DEF Asked
      <3>. QED
        BY <3>1, PossibleStays
    <2>2. ASSUME NEW t, NEW v, Click(k, t, v)
          PROVE  Possible(k, target, value)'
      <3>1. t = target /\ v = value
        BY <1>1, <1>2, <2>2, MutClicked
      <3>2. Possible(k, target, value)
        BY <2>2, <3>1, ClickPossible
      <3>. QED
        BY <3>2, PossibleStays
    <2>3. ASSUME NEW kind \in Kinds, NEW t, NEW v, Click(kind, t, v), kind # k
          PROVE  mut'[k] = mut[k]
      BY <1>1, <2>3, MutClicked
    <2>4. NoMutation.pc # Sent
      BY DEF NoMutation, Sent
    <2>5. ASSUME NEW kind \in Kinds, Changed(kind) \/ ChangeAnswer(kind)
          PROVE  mut'[k] = mut[k]
      <3>1. CASE mut' = [mut EXCEPT ![kind] = NoMutation]
        BY <1>1, <1>2, <3>1, MutOver DEF Sent
      <3>2. CASE mut' = [mut EXCEPT ![kind].pc = "served", ![kind].others = OtherWrites]
        BY <1>1, <1>2, <3>2, MutServed DEF Sent
      <3>. QED
        BY <2>5, <3>1, <3>2 DEF Changed, ChangeAnswer
    <2>6. CASE Moving
      BY <1>2, <2>1, <2>4, <2>6 DEF Moving
    <2>. QED
      BY <2>1, <2>2, <2>3, <2>5, <2>6 DEF Step
  <1>3. \A k \in Kinds : mut'[k].pc = Sent => \A target, value :
          target = mut'[k].target /\ value = mut'[k].value => Possible(k, target, value)'
    BY <1>2
  <1>. QED
    BY <1>3 DEF Asked, Possible, Exists

LEMMA LocatedStep ==
  ASSUME TabInv, Step, Grows, FormOK'
  PROVE  Located'
  <1>1. TabOK /\ Located
    BY DEF TabInv
  <1>2. ASSUME NEW k \in Kinds, mut'[k].pc # "idle"
        PROVE  route' = RouteOf(k)
    <2>1. CASE mut'[k] = mut[k] /\ route' = route
      BY <1>1, <1>2, <2>1 DEF Located
    <2>2. ASSUME NEW target, NEW value, Click(k, target, value)
          PROVE  route' = RouteOf(k)
      BY <2>2, ClickPossible DEF Click
    <2>3. ASSUME NEW kind \in Kinds, NEW target, NEW value, Click(kind, target, value), kind # k
          PROVE  mut'[k] = mut[k]
      BY <1>1, <2>3, MutClicked
    <2>4. NoMutation.pc = "idle"
      BY DEF NoMutation
    <2>5. ASSUME NEW kind \in Kinds, Changed(kind) \/ ChangeAnswer(kind)
          PROVE  mut'[k] = mut[k] \/ (k = kind /\ mut[k].pc = Sent)
      <3>1. CASE mut' = [mut EXCEPT ![kind] = NoMutation]
        BY <1>1, <1>2, <3>1, MutOver
      <3>2. CASE mut' = [mut EXCEPT ![kind].pc = "served", ![kind].others = OtherWrites] /\ mut[kind].pc = Sent
        BY <1>1, <3>2, MutServed
      <3>. QED
        BY <2>5, <3>1, <3>2 DEF Changed, ChangeAnswer
    <2>6. ~Moving
      BY <1>2, <2>4 DEF Moving
    <2>7. CASE mut[k].pc = Sent /\ route' = route
      BY <1>1, <2>7 DEF Located, Sent
    <2>. QED
      BY <2>1, <2>2, <2>3, <2>5, <2>6, <2>7 DEF Step
  <1>3. ASSUME own'.kind # ""
        PROVE  own'.kind \in Kinds /\ route' = RouteOf(own'.kind)
    <2>1. CASE own' = own /\ route' = route
      BY <1>1, <1>3, <2>1 DEF Located
    <2>2. CASE own' = NoChange
      BY <1>3, <2>2 DEF NoChange
    <2>3. ASSUME NEW kind \in Kinds, ChangeAnswer(kind)
          PROVE  own'.kind \in Kinds /\ route' = RouteOf(own'.kind)
      <3>1. own'.kind = kind /\ route' = route /\ mut[kind].pc = "served"
        BY <2>3 DEF ChangeAnswer
      <3>. QED
        BY <1>1, <3>1 DEF Located
    <2>. QED
      BY <2>1, <2>2, <2>3 DEF Step, Moving, Click, Changed
  <1>4. page' = page \/ Moving \/ Asking \/ Serving
    BY DEF Step, Click, Changed, ChangeAnswer, Asking, accountVars
  <1>5. ASSUME Moving
        PROVE  page'.data = NoData /\ page'.flight.pc \in {"none", Sent}
    BY <1>5, PageOfType DEF Moving
  <1>6. Moving \/ route' = route
    BY DEF Step
  <1>7. page'.flight.pc = "counting" => route' = "admin"
    <2>1. CASE page' = page
      BY <1>1, <1>5, <1>6, <2>1 DEF Located, Sent
    <2>2. CASE Moving
      BY <1>5, <2>2 DEF Sent
    <2>3. CASE Asking /\ route' = route
      BY <1>1, <2>3, AskingType DEF Located, Sent
    <2>4. CASE Serving /\ route' = route
      BY <1>1, <2>4, ServingType DEF Located, NoFlight
    <2>. QED
      BY <1>4, <1>6, <2>1, <2>2, <2>3, <2>4
  <1>8. ASSUME route' \in {"admin-users", "admin-billing"}
        PROVE  /\ page'.data # NoData => DOMAIN page'.data \subseteq Listed(route)'
               /\ page'.flight.pc = "answered" => DOMAIN page'.flight.data \subseteq Listed(route)'
    <2>1. CASE Moving
      BY <1>5, <2>1 DEF Sent
    <2>2. CASE route' = route
      <3>1. Listed(route) \subseteq Listed(route)'
        BY <2>2, ListedGrows
      <3>2. /\ page.data # NoData => DOMAIN page.data \subseteq Listed(route)
            /\ page.flight.pc = "answered" => DOMAIN page.flight.data \subseteq Listed(route)
            /\ page.flight.pc # "counting"
        BY <1>1, <1>8, <2>2 DEF Located
      <3>3. DOMAIN AnswerOf(route) \subseteq Listed(route)
        BY <1>8, <2>2, ListsRows
      <3>4. CASE page' = page
        BY <3>1, <3>2, <3>4
      <3>5. CASE Asking
        BY <1>1, <3>1, <3>2, <3>5, AskingType DEF Sent
      <3>6. CASE Serving
        BY <1>1, <1>8, <2>2, <3>1, <3>2, <3>3, <3>6, ServingType DEF NoFlight
      <3>. QED
        BY <1>4, <2>1, <3>4, <3>5, <3>6
    <2>. QED
      BY <1>6, <2>1, <2>2
  <1>9. form'.pc # "idle" => route' = "login"
    BY DEF FormOK
  <1>. QED
    BY <1>2, <1>3, <1>7, <1>8, <1>9 DEF Located, RouteOf

LEMMA TabStep ==
  ASSUME AccountsInv, TabInv, Next
  PROVE  TabInv'
  <1>1. Step /\ Grows /\ FormOK'
    BY StepKinds, ConsoleAccounts, FormStep DEF TabInv
  <1>2. TabOK'
    BY <1>1, PageType, MutType, UpsetsType DEF TabInv, TabOK, FormOK, MutOK
  <1>. QED
    BY <1>1, <1>2, AskedStep, LocatedStep DEF TabInv

-----------------------------------------------------------------------------
(* The organization of the user                                            *)

LEMMA OrganizationsGrow ==
  ASSUME Grows, NEW e, NEW s \in OrganizationsOf(e)
  PROVE  s \in OrganizationsOf(e)'
  BY DEF Grows, OrganizationsOf

(* The request of this tab: it is answered with what it has committed.     *)
LEMMA RequestStep ==
  ASSUME AccountsInv, Belongs, Next, Grows, tx'[Web].pc \in {"issue", "done"},
         NEW email, email = tx'[Web].email, NEW slug, slug = tx'[Web].slug
  PROVE  slug \in OrganizationsOf(email)'
  <1>0. Web \in Clients /\ RequestsOK
    BY ConsoleAssumption DEF AccountsInv
  <1>1. tx[Web] \in Request /\ DOMAIN tx = Clients
    BY <1>0 DEF RequestsOK
  <1>2. CASE tx'[Web] = tx[Web]
    <2>1. slug \in OrganizationsOf(email)
      BY <1>2 DEF Belongs
    <2>. QED
      BY <2>1, OrganizationsGrow
  <1>3. CASE Commit(Web)
    <2>1. tx'[Web].slug = tx[Web].slug /\ tx'[Web].email = tx[Web].email
      BY <1>0, <1>1, <1>3 DEF Commit, Turn, Request
    <2>2. slug \in DOMAIN orgs' /\ email \in DOMAIN orgs'[slug].members
      BY <1>0, <1>3, <2>1, CommitRows
    <2>. QED
      BY <2>2 DEF OrganizationsOf
  <1>4. CASE IssueTokens(Web)
    <2>1. tx'[Web].slug = tx[Web].slug /\ tx'[Web].email = tx[Web].email /\ tx[Web].pc = "issue"
      BY <1>0, <1>1, <1>4 DEF IssueTokens, Turn, Request
    <2>2. slug \in OrganizationsOf(email)
      BY <2>1 DEF Belongs
    <2>. QED
      BY <2>2, OrganizationsGrow
  <1>5. ~InsertUser(Web) /\ ~Probe(Web) /\ ~InsertOrganization(Web) /\ ~Answered(Web)
    BY <1>0, NextPc
  <1>6. ASSUME NEW e \in Emails, NEW name \in Names, Register(Web, e, name)  PROVE FALSE
    <2>1. Ask(Web)
      BY <1>6 DEF Ask
    <2>. QED
      BY <1>0, <2>1, NextPc
  <1>7. CASE tx' = tx
    BY <1>2, <1>7
  <1>8. CASE Pages
    BY <1>7, <1>8 DEF Pages, Follow, Reload, Focus, Redirect, Search, Pill, MeServe, MeReceive, MeFails, PageServe,
       StatsServe, PageReceive, accountVars
  <1>9. CASE Signing
    BY <1>5, <1>6, <1>7, <1>9 DEF Signing, SubmitLogin, SubmitSignup, ServeLogin, LoginAnswer, SignupAnswer, Logout,
       accountVars
  <1>10. CASE Changing
    BY <1>7, <1>10 DEF Changing, Click, ServeChange, ChangeAnswer, accountVars
  <1>11. CASE Others
    BY <1>3, <1>4, <1>5, <1>7, <1>11 DEF Others, Handle, OtherAdministrator, ScriptUpsert, ScriptOrganization
  <1>. QED
    BY <1>8, <1>9, <1>10, <1>11 DEF Next

(* The answer to a sign-in: the organization it names is the user's.       *)
LEMMA AnswerStep ==
  ASSUME TabOK, Belongs, Next, Grows, form'.pc = "answered", form'.org # NoOrg,
         NEW email, email = form'.email, NEW org, org = form'.org
  PROVE  org \in OrganizationsOf(email)'
  <1>1. CASE form' = form
    <2>1. org \in OrganizationsOf(email)
      BY <1>1 DEF Belongs
    <2>. QED
      BY <2>1, OrganizationsGrow
  <1>2. CASE ServeLogin
    <2>1. form = [pc |-> form.pc, email |-> form.email, org |-> form.org, role |-> form.role]
      BY DEF TabOK
    <2>2. ~(form' = [form EXCEPT !.pc = "refused"])
      BY <2>1
    <2>3. PICK named, role : /\ named \in IF OrganizationsOf(form.email) = {} THEN {NoOrg} ELSE OrganizationsOf(form.email)
                             /\ form' = [form EXCEPT !.pc = "answered", !.org = named, !.role = role]
      BY <1>2, <2>2 DEF ServeLogin
    <2>4. form'.org = named /\ form'.email = form.email
      BY <2>1, <2>3
    <2>5. org \in OrganizationsOf(email)
      BY <2>3, <2>4
    <2>. QED
      BY <2>5, OrganizationsGrow
  <1>3. ASSUME NEW e, SubmitLogin(e)  PROVE FALSE
    BY <1>3 DEF SubmitLogin, NoForm, Sent
  <1>4. ~LoginAnswer
    BY DEF LoginAnswer, NoForm
  <1>5. CASE Pages
    BY <1>1, <1>5 DEF Pages, Follow, Reload, Focus, Redirect, Search, Pill, MeServe, MeReceive, MeFails, PageServe,
       StatsServe, PageReceive, Unchanged, Stay, Expel
  <1>6. CASE Signing
    BY <1>1, <1>2, <1>3, <1>4, <1>6 DEF Signing, SubmitSignup, SignupAnswer, Logout, Unchanged, tabVars
  <1>7. CASE Changing
    BY <1>1, <1>7 DEF Changing, Click, ServeChange, ChangeAnswer, Expel
  <1>8. CASE Others
    BY <1>1, <1>8 DEF Others, tabVars
  <1>. QED
    BY <1>5, <1>6, <1>7, <1>8 DEF Next

(* Who has just signed in or up finds his own organization stored.         *)
LEMMA SessionStep ==
  ASSUME Belongs, Next, Grows, session'.user # NoUser, session'.org # NoOrg,
         NEW user, user = session'.user, NEW org, org = cfOrg'
  PROVE  org \in OrganizationsOf(user)'
  <1>1. SUFFICES org \in OrganizationsOf(user)
    BY OrganizationsGrow
  <1>2. CASE session' = session /\ cfOrg' = cfOrg
    BY <1>2 DEF Belongs, OrgOfUser
  <1>3. CASE LoginAnswer
    <2>1. CASE form.pc = "refused"
      BY <1>2, <1>3, <2>1 DEF LoginAnswer
    <2>2. CASE form.pc = "answered"
      BY <1>3, <2>2 DEF LoginAnswer, Belongs
    <2>. QED
      BY <1>3, <2>1, <2>2 DEF LoginAnswer
  <1>4. CASE SignupAnswer
    <2>1. CASE tx[Web].pc = "failed"
      BY <1>2, <1>4, <2>1 DEF SignupAnswer
    <2>2. CASE tx[Web].pc = "done"
      BY <1>4, <2>2 DEF SignupAnswer, Belongs
    <2>. QED
      BY <1>4, <2>1, <2>2 DEF SignupAnswer, Answered
  <1>5. ~Logout
    BY DEF Logout
  <1>6. CASE Pages
    BY <1>2, <1>6 DEF Pages, Follow, Reload, Focus, Redirect, Search, Pill, MeServe, MeReceive, MeFails, PageServe,
       StatsServe, PageReceive, Expel
  <1>7. CASE Signing
    BY <1>2, <1>3, <1>4, <1>5, <1>7 DEF Signing, SubmitLogin, SubmitSignup, ServeLogin, tabVars
  <1>8. CASE Changing
    BY <1>2, <1>8 DEF Changing, Click, ServeChange, ChangeAnswer, Expel
  <1>9. CASE Others
    BY <1>2, <1>9 DEF Others, tabVars
  <1>. QED
    BY <1>6, <1>7, <1>8, <1>9 DEF Next

LEMMA BelongsStep ==
  ASSUME AccountsInv, TabInv, Belongs, Next
  PROVE  Belongs'
  <1>1. Grows /\ TabOK
    BY ConsoleAccounts DEF TabInv
  <1>2. ASSUME session'.user # NoUser, session'.org # NoOrg,
               NEW user, user = session'.user, NEW org, org = cfOrg'
        PROVE  org \in OrganizationsOf(user)'
    BY <1>1, <1>2, SessionStep
  <1>3. ASSUME form'.pc = "answered", form'.org # NoOrg,
               NEW email, email = form'.email, NEW org, org = form'.org
        PROVE  org \in OrganizationsOf(email)'
    BY <1>1, <1>3, AnswerStep
  <1>4. ASSUME tx'[Web].pc \in {"issue", "done"},
               NEW email, email = tx'[Web].email, NEW slug, slug = tx'[Web].slug
        PROVE  slug \in OrganizationsOf(email)'
    BY <1>1, <1>4, RequestStep
  <1>. QED
    BY <1>2, <1>3, <1>4 DEF Belongs, OrgOfUser, OrganizationsOf

LEMMA ConsoleInit ==
  Init => ConsoleInv
  <1>. SUFFICES ASSUME Init PROVE ConsoleInv
    OBVIOUS
  <1>1. AccountsInv
    BY InitInv DEF Init
  <1>2. TabOK
    BY DEF Init, AccountsInit, TabOK, NoQuery, NoForm, NoMutation
  <1>3. Located /\ Asked
    BY DEF Init, Located, Asked, NoQuery, NoFlight, NoForm, NoMutation, NoChange, Sent
  <1>4. Belongs
    <2>1. tx[Web].pc = "idle"
      BY ConsoleAssumption DEF Init, AccountsInit, Idle
    <2>. QED
      BY <2>1 DEF Init, Belongs, OrgOfUser, NoForm
  <1>. QED
    BY <1>1, <1>2, <1>3, <1>4 DEF ConsoleInv, TabInv

LEMMA ConsoleSame ==
  ASSUME ConsoleInv, UNCHANGED vars
  PROVE  ConsoleInv'
  <1>1. AccountsInv'
    BY SameAccounts DEF ConsoleInv, vars, accountVars
  <1>2. TabInv'
    BY DEF ConsoleInv, TabInv, TabOK, Located, Asked, Listed, Possible, Exists, vars, accountVars, tabVars
  <1>3. Belongs'
    BY DEF ConsoleInv, Belongs, OrgOfUser, OrganizationsOf, vars, accountVars, tabVars
  <1>. QED
    BY <1>1, <1>2, <1>3 DEF ConsoleInv

LEMMA ConsoleStep ==
  ConsoleInv /\ [Next]_vars => ConsoleInv'
  <1>1. ASSUME ConsoleInv, Next  PROVE ConsoleInv'
    BY <1>1, ConsoleAccounts, TabStep, BelongsStep DEF ConsoleInv, TabInv
  <1>. QED
    BY <1>1, ConsoleSame

LEMMA ConsoleInvariant ==
  Spec => []ConsoleInv
  BY ConsoleInit, ConsoleStep, PTL DEF Spec

(* A tab never names an organization its user does not belong to, whoever  *)
(* has used the browser before: what cf_org holds after a sign-in or a     *)
(* sign-up is the organization of that answer, and members stay members.   *)
THEOREM TabNamesOwnOrganization ==
  Spec => []OrgOfUser
  <1>1. ConsoleInv => OrgOfUser
    BY DEF ConsoleInv, Belongs
  <1>. QED
    BY <1>1, ConsoleInvariant, PTL

(* Nothing a tab does, with the answers it gets late or twice and the      *)
(* changes its administrator makes from lists that are old, costs what the *)
(* accounts keep on their own: types, slugs without a gap, transactions    *)
(* that do not wait in a circle, and no user or organization left alone.   *)
THEOREM ConsoleKeepsAccounts ==
  Spec => [](AccountsTypeOK /\ SlugsDense /\ OwnedOrganizations)
  <1>1. ConsoleInv => AccountsTypeOK /\ SlugsDense /\ OwnedOrganizations
    BY TypesFollow, DenseFollows DEF ConsoleInv, AccountsInv
  <1>. QED
    BY <1>1, ConsoleInvariant, PTL

-----------------------------------------------------------------------------
(* What the tab was told                                                   *)

ScriptPc == {"idle", "upserted", "ended"}
Rank == [idle |-> 0, upserted |-> 1, ended |-> 2]

(* What somebody remembers of OtherWrites was so once: neither part ever   *)
(* goes back.                                                              *)
Told(o) ==
  \E n \in 0..upsets, s \in ScriptPc : o = <<n, s>> /\ (n = upsets => Rank[s] <= Rank[script])

(* The rows say what a change has asked for.                               *)
Holds(kind, target, value) ==
  CASE kind = "role" -> target \in Emails /\ Exists(target) /\ users[target].role = value
    [] kind = "status" -> target \in Emails /\ Exists(target) /\ users[target].status = value
    [] kind = "plan" -> target \in DOMAIN orgs /\ orgs[target].plan = value

(* An answer to the page says so too, if it names that row at all.         *)
Agrees(kind, data, target, value) ==
  target \in DOMAIN data =>
    CASE kind = "role" -> data[target].role = value
      [] kind = "status" -> data[target].status = value
      [] kind = "plan" -> data[target].plan = value

(* The last change the page was told of, while nobody, here or elsewhere,  *)
(* has made another of that kind.                                          *)
Fresh(k) == own.kind = k /\ own.others = OtherWrites /\ mut[k].pc # "served"

Remembered ==
  /\ own.kind # "" => Told(own.others)
  /\ \A k \in Kinds : mut[k].pc = "served" => Told(mut[k].others)
  /\ route = "billing" /\ page.data # NoData => Told(page.data.others)
  /\ route = "billing" /\ page.flight.pc = "answered" => Told(page.flight.data.others)

Made ==
  /\ \A k \in Kinds : mut[k].pc = "served" /\ mut[k].others = OtherWrites => Holds(k, mut[k].target, mut[k].value)
  /\ \A k \in Kinds : Fresh(k) => Holds(k, own.target, own.value)

Seen ==
  \A k \in Kinds : Fresh(k) =>
    /\ page.flight.pc = "answered" => Agrees(k, page.flight.data, own.target, own.value)
    /\ page.flight.pc = "none" /\ ~page.failed /\ page.data # NoData => Agrees(k, page.data, own.target, own.value)

Bills(data) == data.others = OtherWrites => cfOrg \in DOMAIN orgs /\ data.plan = orgs[cfOrg].plan

Billed ==
  route = "billing" => /\ page.data # NoData => Bills(page.data)
                       /\ page.flight.pc = "answered" => Bills(page.flight.data)

ShownInv == ConsoleInv /\ Remembered /\ Made /\ Seen /\ Billed

-----------------------------------------------------------------------------
(* Nothing is told twice                                                   *)

Forward ==
  \/ upsets' \in {upsets, upsets + 1} /\ script' = script
  \/ upsets' = upsets /\ <<script, script'>> \in {<<"idle", "upserted">>, <<"upserted", "ended">>}

LEMMA OthersStep ==
  ASSUME Next
  PROVE  Forward
  <1>1. UNCHANGED <<upsets, script>> \/ (Upset /\ script' = script) \/ ScriptUpsert \/ ScriptOrganization
    BY DEF Next, Pages, Signing, Changing, Others, accountVars, Follow, Reload, Redirect, Search, Pill, Focus, MeServe,
       MeReceive, MeFails, PageServe, StatsServe, PageReceive, SubmitLogin, SubmitSignup, ServeLogin, LoginAnswer,
       SignupAnswer, Logout, Register, Answered, Click, ServeChange, ChangeAnswer, Handle, InsertUser, Probe,
       InsertOrganization, Commit, IssueTokens, OtherAdministrator
  <1>. QED
    BY <1>1 DEF Forward, Upset, ScriptUpsert, ScriptOrganization

LEMMA ToldNow ==
  ASSUME upsets \in Nat, script \in ScriptPc
  PROVE  Told(OtherWrites)
  <1>1. Rank[script] <= Rank[script]
    BY DEF Rank, ScriptPc
  <1>. QED
    BY <1>1 DEF Told, OtherWrites

LEMMA ToldStays ==
  ASSUME upsets \in Nat, script \in ScriptPc, Forward, NEW o, Told(o)
  PROVE  Told(o)' /\ (o = OtherWrites' => UNCHANGED <<upsets, script>>)
  <1>1. PICK n \in 0..upsets, s \in ScriptPc : o = <<n, s>> /\ (n = upsets => Rank[s] <= Rank[script])
    BY DEF Told
  <1>2. CASE upsets' = upsets + 1 /\ script' = script
    <2>1. n \in 0..upsets' /\ n # upsets'
      BY <1>2
    <2>2. Told(o)'
      BY <1>1, <2>1 DEF Told
    <2>. QED
      BY <1>1, <2>1, <2>2 DEF OtherWrites
  <1>3. CASE upsets' = upsets /\ script' = script
    BY <1>1, <1>3 DEF Told
  <1>4. CASE upsets' = upsets /\ <<script, script'>> \in {<<"idle", "upserted">>, <<"upserted", "ended">>}
    <2>1. Rank[script] < Rank[script'] /\ Rank[script'] \in Nat /\ Rank[script] \in Nat /\ Rank[s] \in Nat
      BY <1>4 DEF Rank, ScriptPc
    <2>2. n \in 0..upsets' /\ (n = upsets' => Rank[s] <= Rank[script'])
      BY <1>1, <1>4, <2>1
    <2>3. Told(o)'
      BY <1>1, <2>2 DEF Told
    <2>4. o # OtherWrites'
      BY <1>1, <1>4, <2>1 DEF OtherWrites
    <2>. QED
      BY <2>3, <2>4
  <1>. QED
    BY <1>2, <1>3, <1>4 DEF Forward

-----------------------------------------------------------------------------
(* The rows the tab was told of                                            *)

SameRows ==
  /\ \A e \in Emails : Exists(e) => users'[e] = users[e]
  /\ \A s \in DOMAIN orgs : s \in DOMAIN orgs' /\ orgs'[s] = orgs[s]

(* What registers here adds rows; all else that writes is not unnoticed.   *)
LEMMA RowsStay ==
  ASSUME AccountsInv, (users' # users \/ orgs' # orgs) => Others, UNCHANGED <<upsets, script>>, upsets \in Nat
  PROVE  SameRows
  <1>1. CASE users' = users /\ orgs' = orgs
    BY <1>1 DEF SameRows
  <1>2. CASE Commit(Web)
    <2>1. /\ Web \in Clients /\ RequestsOK /\ RowsOK /\ EmailLock
          /\ tx[Web].slug \notin DOMAIN orgs
      BY <1>2, ConsoleAssumption, CommitRows DEF AccountsInv
    <2>2. \A s \in DOMAIN orgs : s \in DOMAIN orgs' /\ orgs'[s] = orgs[s]
      BY <1>2, <2>1 DEF Commit, WithOrganization
    <2>3. ASSUME NEW e \in Emails, Exists(e)  PROVE users'[e] = users[e]
      <3>1. CASE users' = users
        BY <3>1
      <3>2. CASE tx[Web].kind = "register"
        <4>1. ~Exists(tx[Web].email)
          BY <1>2, <2>1, <3>2 DEF EmailLock, HoldsEmail, Commit
        <4>. QED
          BY <1>2, <2>1, <2>3, <4>1, <3>2 DEF Commit, RowsOK
      <3>. QED
        BY <1>2, <2>1, <3>1, <3>2 DEF Commit, RequestsOK, Request
    <2>. QED
      BY <2>2, <2>3 DEF SameRows
  <1>3. ~OtherAdministrator /\ ~ScriptUpsert /\ ~ScriptOrganization
    <2>1. ~Upset
      BY DEF Upset
    <2>2. ~ScriptUpsert
      BY DEF ScriptUpsert
    <2>3. ~ScriptOrganization
      BY DEF ScriptOrganization
    <2>. QED
      BY <2>1, <2>2, <2>3 DEF OtherAdministrator
  <1>4. InsertUser(Web) \/ Probe(Web) \/ InsertOrganization(Web) \/ IssueTokens(Web) => users' = users /\ orgs' = orgs
    BY DEF InsertUser, Probe, InsertOrganization, IssueTokens
  <1>. QED
    BY <1>1, <1>2, <1>3, <1>4 DEF Others, Handle

LEMMA HoldsStays ==
  ASSUME SameRows, NEW kind \in Kinds, NEW target, NEW value, Holds(kind, target, value)
  PROVE  Holds(kind, target, value)'
  BY DEF Holds, SameRows, Exists, Kinds

(* A change does what it says and leaves the rest of the row alone.        *)
LEMMA ChangeHolds ==
  ASSUME AccountsInv, NEW kind \in Kinds, NEW target, NEW value, Possible(kind, target, value),
         Apply(kind, target, value)
  PROVE  /\ Holds(kind, target, value)'
         /\ \A k \in Kinds \ {kind} : \A t, v : Holds(k, t, v) => Holds(k, t, v)'
  <1>1. RowsOK
    BY DEF AccountsInv
  <1>2. CASE kind = "role"
    <2>1. /\ target \in Emails /\ users[target] \in User /\ value \in {"USER", "ADMIN"} /\ orgs' = orgs
          /\ users' = [users EXCEPT ![target].role = value]
      BY <1>1, <1>2 DEF Possible, Apply, UpdateUserRole, RowsOK, Exists
    <2>2. /\ users'[target].role = value /\ users'[target].status = users[target].status
          /\ users'[target] \in User
          /\ \A e \in Emails \ {target} : users'[e] = users[e]
      BY <1>1, <2>1 DEF RowsOK, User
    <2>3. users'[target] # NoUser
      BY <2>2, UserIsSomebody
    <2>. QED
      BY <1>2, <2>1, <2>2, <2>3 DEF Holds, Exists, Kinds
  <1>3. CASE kind = "status"
    <2>1. /\ target \in Emails /\ users[target] \in User /\ value \in {"ACTIVE", "SUSPENDED"} /\ orgs' = orgs
          /\ users' = [users EXCEPT ![target].status = value]
      BY <1>1, <1>3 DEF Possible, Apply, UpdateUserStatus, RowsOK, Exists
    <2>2. /\ users'[target].status = value /\ users'[target].role = users[target].role
          /\ users'[target] \in User
          /\ \A e \in Emails \ {target} : users'[e] = users[e]
      BY <1>1, <2>1 DEF RowsOK, User
    <2>3. users'[target] # NoUser
      BY <2>2, UserIsSomebody
    <2>. QED
      BY <1>3, <2>1, <2>2, <2>3 DEF Holds, Exists, Kinds
  <1>4. CASE kind = "plan"
    <2>1. target \in DOMAIN orgs /\ users' = users /\ UpdateSubscription(target, value, NoStatus)
      BY <1>4 DEF Possible, Apply
    <2>2. orgs[target] \in Org
      BY <1>1, <2>1 DEF RowsOK
    <2>3. target \in DOMAIN orgs' /\ orgs'[target].plan = value
      BY <2>1, <2>2 DEF UpdateSubscription, Org
    <2>. QED
      BY <1>4, <2>1, <2>3 DEF Holds, Exists, Kinds
  <1>. QED
    BY <1>2, <1>3, <1>4 DEF Kinds

(* The page is answered with the rows.                                     *)
LEMMA AnswerAgrees ==
  ASSUME NEW kind \in Kinds, NEW target, NEW value, Holds(kind, target, value)
  PROVE  Agrees(kind, AnswerOf(RouteOf(kind)), target, value)
  BY DEF Holds, Agrees, AnswerOf, RouteOf, AllUsers, AllSubscriptions, Kinds

(* A mutation that is served was so before, or is served by this step.     *)
Serves(k) ==
  /\ mut[k].pc = Sent /\ Apply(k, mut[k].target, mut[k].value)
  /\ mut'[k].target = mut[k].target /\ mut'[k].value = mut[k].value /\ mut'[k].others = OtherWrites
  /\ UNCHANGED <<tx, script, upsets>>

LEMMA ServedStep ==
  ASSUME TabOK, Step, NEW k \in Kinds, mut'[k].pc = "served"
  PROVE  mut'[k] = mut[k] \/ Serves(k)
  <1>1. NoMutation.pc = "idle"
    BY DEF NoMutation
  <1>2. CASE Moving
    BY <1>1, <1>2 DEF Moving
  <1>3. ASSUME NEW kind \in Kinds, NEW target, NEW value, Click(kind, target, value)
        PROVE  mut'[k] = mut[k]
    BY <1>3, MutClicked DEF Sent
  <1>4. ASSUME NEW kind \in Kinds, mut' = [mut EXCEPT ![kind] = NoMutation]
        PROVE  mut'[k] = mut[k]
    BY <1>4, MutOver
  <1>5. ASSUME NEW kind \in Kinds, Changed(kind)
        PROVE  mut'[k] = mut[k] \/ Serves(k)
    <2>1. CASE mut' = [mut EXCEPT ![kind] = NoMutation]
      BY <1>4, <2>1
    <2>2. CASE /\ Apply(kind, mut[kind].target, mut[kind].value)
               /\ mut' = [mut EXCEPT ![kind].pc = "served", ![kind].others = OtherWrites]
               /\ UNCHANGED <<tx, script, upsets>>
      BY <1>5, <2>2, MutServed DEF Changed, Serves
    <2>. QED
      BY <1>5, <2>1, <2>2 DEF Changed
  <1>6. ASSUME NEW kind \in Kinds, ChangeAnswer(kind)
        PROVE  mut'[k] = mut[k]
    BY <1>4, <1>6 DEF ChangeAnswer
  <1>. QED
    BY <1>2, <1>3, <1>5, <1>6 DEF Step

(* What holds goes on to hold, unless this step makes another such change. *)
LEMMA HoldsStep ==
  ASSUME AccountsInv, TabInv, Step, upsets \in Nat, UNCHANGED <<upsets, script>>,
         NEW k \in Kinds, mut'[k].pc = "served" => mut[k].pc = "served",
         NEW target, NEW value, Holds(k, target, value)
  PROVE  Holds(k, target, value)'
  <1>1. TabOK /\ Asked
    BY DEF TabInv
  <1>2. CASE users' = users /\ orgs' = orgs
    BY <1>2, HoldsStays DEF SameRows
  <1>3. CASE users' # users \/ orgs' # orgs => Others
    BY <1>3, RowsStay, HoldsStays
  <1>4. ASSUME NEW kind \in Kinds, Changed(kind)
        PROVE  Holds(k, target, value)'
    <2>1. CASE UNCHANGED accountVars
      BY <1>2, <2>1 DEF accountVars
    <2>2. CASE /\ Apply(kind, mut[kind].target, mut[kind].value)
               /\ mut' = [mut EXCEPT ![kind].pc = "served", ![kind].others = OtherWrites]
      <3>1. mut[kind].pc = Sent /\ mut'[kind].pc = "served"
        BY <1>1, <1>4, <2>2, MutServed DEF Changed
      <3>2. kind # k /\ Possible(kind, mut[kind].target, mut[kind].value)
        BY <1>1, <3>1 DEF Asked, Sent
      <3>. QED
        BY <2>2, <3>2, ChangeHolds
    <2>. QED
      BY <1>4, <2>1, <2>2 DEF Changed
  <1>. QED
    BY <1>2, <1>3, <1>4 DEF Step, Moving, Asking, Serving, Click, ChangeAnswer, accountVars

(* The change that counts is the one that did, or is told of now.          *)
Tells(k) ==
  /\ mut[k].pc = "served" /\ mut[k].others = OtherWrites
  /\ own'.target = mut[k].target /\ own'.value = mut[k].value
  /\ page'.flight.pc = Sent
  /\ UNCHANGED accountVars

LEMMA FreshStep ==
  ASSUME TabInv, Step, upsets \in Nat, script \in ScriptPc, Forward, Remembered, NEW k \in Kinds,
         own'.kind = k, own'.others = OtherWrites', mut'[k].pc # "served"
  PROVE  (Fresh(k) /\ own' = own /\ UNCHANGED <<upsets, script>>) \/ Tells(k)
  <1>1. TabOK
    BY DEF TabInv
  <1>2. own' # NoChange
    <2>1. NoChange.kind = ""
      BY DEF NoChange
    <2>2. own'.kind # ""
      BY DEF Kinds
    <2>. QED
      BY <2>1, <2>2
  <1>3. CASE own' = own /\ mut[k].pc # "served"
    <2>1. Told(own.others)
      BY <1>3 DEF Remembered, Kinds
    <2>2. UNCHANGED <<upsets, script>>
      BY <1>3, <2>1, ToldStays
    <2>. QED
      BY <1>3, <2>2 DEF Fresh, OtherWrites
  <1>4. ASSUME NEW kind \in Kinds, ChangeAnswer(kind)
        PROVE  Tells(k)
    <2>1. kind = k /\ UNCHANGED accountVars
      BY <1>4 DEF ChangeAnswer
    <2>2. OtherWrites' = OtherWrites
      BY <2>1 DEF OtherWrites, accountVars
    <2>3. /\ mut[k].pc = "served" /\ mut[k].others = own'.others
          /\ own'.target = mut[k].target /\ own'.value = mut[k].value
          /\ page' = [page EXCEPT !.flight = [NoFlight EXCEPT !.pc = Sent]]
      BY <1>4, <2>1 DEF ChangeAnswer
    <2>4. page'.flight.pc = Sent
      BY <1>1, <2>3 DEF TabOK, NoFlight
    <2>. QED
      BY <2>1, <2>2, <2>3, <2>4 DEF Tells
  <1>5. ASSUME NEW kind \in Kinds, NEW target, NEW value, Click(kind, target, value)
        PROVE  own' = own /\ mut[k].pc # "served"
    BY <1>1, <1>5, MutClicked DEF Click
  <1>6. ASSUME NEW kind \in Kinds, Changed(kind)
        PROVE  own' = own /\ mut[k].pc # "served"
    <2>1. own' = own /\ mut[kind].pc = Sent
      BY <1>6 DEF Changed
    <2>2. kind # k => mut'[k] = mut[k]
      BY <1>1, <1>6, MutOver, MutServed DEF Changed
    <2>. QED
      BY <2>1, <2>2 DEF Sent
  <1>. QED
    BY <1>2, <1>3, <1>4, <1>5, <1>6 DEF Step, Moving

LEMMA RememberedStep ==
  ASSUME TabInv, Step, upsets \in Nat, script \in ScriptPc, Forward, Remembered
  PROVE  Remembered'
  <1>1. TabOK /\ Located
    BY DEF TabInv
  <1>2. ASSUME NEW k \in Kinds, mut'[k].pc = "served", NEW o, o = mut'[k].others
        PROVE  Told(o)'
    <2>1. CASE mut'[k] = mut[k]
      BY <1>2, <2>1, ToldStays DEF Remembered
    <2>2. CASE Serves(k)
      BY <1>2, <2>2, ToldNow, ToldStays DEF Serves
    <2>. QED
      BY <1>1, <1>2, <2>1, <2>2, ServedStep
  <1>3. ASSUME own'.kind # "", NEW o, o = own'.others
        PROVE  Told(o)'
    <2>1. CASE own' = own
      BY <1>3, <2>1, ToldStays DEF Remembered
    <2>2. own' # NoChange
      <3>1. NoChange.kind = ""
        BY DEF NoChange
      <3>. QED
        BY <1>3, <3>1
    <2>3. ASSUME NEW kind \in Kinds, ChangeAnswer(kind)
          PROVE  Told(o)'
      <3>1. mut[kind].pc = "served" /\ o = mut[kind].others
        BY <1>3, <2>3 DEF ChangeAnswer
      <3>. QED
        BY <3>1, ToldStays DEF Remembered
    <2>. QED
      BY <2>1, <2>2, <2>3 DEF Step, Moving, Click, Changed
  <1>4. ASSUME route' = "billing", NEW o,
               (page'.data # NoData /\ o = page'.data.others)
                 \/ (page'.flight.pc = "answered" /\ o = page'.flight.data.others)
        PROVE  Told(o)'
    <2>1. ~Moving
      BY <1>4, PageOfType DEF Moving, Sent
    <2>2. CASE route' = route
      <3>1. Told(OtherWrites)
        BY ToldNow
      <3>2. AnswerOf("billing").others = OtherWrites
        BY DEF AnswerOf
      <3>3. page.flight.pc # "counting"
        BY <1>1, <1>4, <2>2 DEF Located
      <3>4. Told(o)
        <4>1. CASE page' = page
          BY <1>4, <2>2, <4>1 DEF Remembered
        <4>2. CASE Asking
          BY <1>1, <1>4, <2>2, <4>2, AskingType DEF Remembered, Sent
        <4>3. CASE Serving
          BY <1>1, <1>4, <2>2, <3>1, <3>2, <3>3, <4>3, ServingType DEF Remembered
        <4>4. ASSUME NEW kind \in Kinds, ChangeAnswer(kind)
              PROVE  FALSE
          <5>1. mut[kind].pc # "idle" /\ route # RouteOf(kind)
            BY <1>4, <2>2, <4>4 DEF ChangeAnswer, RouteOf
          <5>. QED
            BY <1>1, <5>1 DEF Located
        <4>. QED
          BY <2>1, <4>1, <4>2, <4>3, <4>4 DEF Step, Click, Changed
      <3>. QED
        BY <3>4, ToldStays
    <2>. QED
      BY <2>1, <2>2 DEF Step
  <1>5. (\A k \in Kinds : mut[k].pc = "served" => Told(mut[k].others))'
    <2>. SUFFICES ASSUME NEW k \in Kinds, mut'[k].pc = "served"  PROVE Told(mut[k].others)'
      OBVIOUS
    <2>1. PICK o : o = mut'[k].others
      OBVIOUS
    <2>. QED
      BY <1>2, <2>1 DEF Told
  <1>6. (own.kind # "" => Told(own.others))'
    <2>1. PICK o : o = own'.others
      OBVIOUS
    <2>. QED
      BY <1>3, <2>1 DEF Told
  <1>7. (route = "billing" /\ page.data # NoData => Told(page.data.others))'
    <2>1. PICK o : o = page'.data.others
      OBVIOUS
    <2>. QED
      BY <1>4, <2>1 DEF Told
  <1>8. (route = "billing" /\ page.flight.pc = "answered" => Told(page.flight.data.others))'
    <2>1. PICK o : o = page'.flight.data.others
      OBVIOUS
    <2>. QED
      BY <1>4, <2>1 DEF Told
  <1>. QED
    BY <1>5, <1>6, <1>7, <1>8 DEF Remembered

LEMMA MadeStep ==
  ASSUME AccountsInv, TabInv, Step, upsets \in Nat, script \in ScriptPc, Forward, Remembered, Made
  PROVE  Made'
  <1>1. TabOK /\ Asked
    BY DEF TabInv
  <1>2. ASSUME NEW k \in Kinds, mut'[k].pc = "served", mut'[k].others = OtherWrites',
               NEW target, target = mut'[k].target, NEW value, value = mut'[k].value
        PROVE  Holds(k, target, value)'
    <2>1. CASE mut'[k] = mut[k]
      <3>1. Told(mut[k].others)
        BY <1>2, <2>1 DEF Remembered
      <3>2. UNCHANGED <<upsets, script>>
        BY <1>2, <2>1, <3>1, ToldStays
      <3>3. Holds(k, target, value)
        BY <1>2, <2>1, <3>2 DEF Made, OtherWrites
      <3>. QED
        BY <1>2, <2>1, <3>2, <3>3, HoldsStep
    <2>2. CASE Serves(k)
      <3>1. Possible(k, target, value) /\ Apply(k, target, value)
        BY <1>1, <1>2, <2>2 DEF Serves, Asked
      <3>. QED
        BY <3>1, ChangeHolds
    <2>. QED
      BY <1>1, <1>2, <2>1, <2>2, ServedStep
  <1>3. ASSUME NEW k \in Kinds, own'.kind = k, own'.others = OtherWrites', mut'[k].pc # "served",
               NEW target, target = own'.target, NEW value, value = own'.value
        PROVE  Holds(k, target, value)'
    <2>1. CASE Fresh(k) /\ own' = own /\ UNCHANGED <<upsets, script>>
      BY <1>3, <2>1, HoldsStep DEF Made
    <2>2. CASE Tells(k)
      <3>1. Holds(k, target, value) /\ users' = users /\ orgs' = orgs
        BY <1>3, <2>2 DEF Made, Tells, accountVars
      <3>. QED
        BY <3>1, HoldsStays DEF SameRows
    <2>. QED
      BY <1>3, <2>1, <2>2, FreshStep
  <1>6. (\A k \in Kinds : mut[k].pc = "served" /\ mut[k].others = OtherWrites =>
           Holds(k, mut[k].target, mut[k].value))'
    <2>. SUFFICES ASSUME NEW k \in Kinds, mut'[k].pc = "served", mut'[k].others = OtherWrites'
                  PROVE  Holds(k, mut[k].target, mut[k].value)'
      OBVIOUS
    <2>1. PICK target, value : target = mut'[k].target /\ value = mut'[k].value
      OBVIOUS
    <2>2. Holds(k, target, value)'
      BY <1>2, <2>1
    <2>. QED
      BY <2>1, <2>2 DEF Holds, Exists
  <1>7. (\A k \in Kinds : Fresh(k) => Holds(k, own.target, own.value))'
    <2>. SUFFICES ASSUME NEW k \in Kinds, own'.kind = k, own'.others = OtherWrites', mut'[k].pc # "served"
                  PROVE  Holds(k, own.target, own.value)'
      BY DEF Fresh
    <2>1. PICK target, value : target = own'.target /\ value = own'.value
      OBVIOUS
    <2>2. Holds(k, target, value)'
      BY <1>3, <2>1
    <2>. QED
      BY <2>1, <2>2 DEF Holds, Exists
  <1>. QED
    BY <1>6, <1>7 DEF Made

LEMMA SeenStep ==
  ASSUME TabInv, Step, upsets \in Nat, script \in ScriptPc, Forward, Remembered, Made, Seen
  PROVE  Seen'
  <1>1. TabOK /\ Located
    BY DEF TabInv
  <1>2. ASSUME NEW k \in Kinds, own'.kind = k, own'.others = OtherWrites', mut'[k].pc # "served",
               NEW target, target = own'.target, NEW value, value = own'.value
        PROVE  /\ page'.flight.pc = "answered" => Agrees(k, page'.flight.data, target, value)
               /\ page'.flight.pc = "none" /\ ~page'.failed /\ page'.data # NoData => Agrees(k, page'.data, target, value)
    <2>1. CASE Tells(k)
      BY <2>1 DEF Tells, Sent
    <2>2. CASE Fresh(k) /\ own' = own
      <3>1. /\ page.flight.pc = "answered" => Agrees(k, page.flight.data, target, value)
            /\ page.flight.pc = "none" /\ ~page.failed /\ page.data # NoData => Agrees(k, page.data, target, value)
        BY <1>2, <2>2 DEF Seen
      <3>2. Agrees(k, AnswerOf(RouteOf(k)), target, value)
        BY <1>2, <2>2, AnswerAgrees DEF Made
      <3>3. route = RouteOf(k) /\ route # "admin" /\ page.flight.pc # "counting"
        BY <1>1, <2>2 DEF Located, Fresh, Kinds, RouteOf
      <3>4. CASE page' = page
        BY <3>1, <3>4
      <3>5. CASE Asking
        BY <1>1, <3>1, <3>5, AskingType DEF Sent
      <3>6. CASE Serving
        BY <1>1, <3>1, <3>2, <3>3, <3>6, ServingType
      <3>7. CASE Moving
        BY <3>7, PageOfType DEF Moving, Sent
      <3>8. ASSUME NEW kind \in Kinds, ChangeAnswer(kind)
            PROVE  page'.flight.pc = Sent
        BY <1>1, <3>8 DEF ChangeAnswer, TabOK, NoFlight
      <3>. QED
        BY <3>4, <3>5, <3>6, <3>7, <3>8 DEF Step, Click, Changed, Sent
    <2>. QED
      BY <1>2, <2>1, <2>2, FreshStep
  <1>3. ASSUME NEW k \in Kinds, Fresh(k)'
        PROVE  /\ page'.flight.pc = "answered" => Agrees(k, page'.flight.data, own'.target, own'.value)
               /\ page'.flight.pc = "none" /\ ~page'.failed /\ page'.data # NoData =>
                    Agrees(k, page'.data, own'.target, own'.value)
    BY <1>2, <1>3 DEF Fresh, OtherWrites
  <1>. QED
    BY <1>3 DEF Seen, Fresh, Agrees, OtherWrites

LEMMA AnswerBills ==
  ASSUME Allowed("billing")
  PROVE  /\ cfOrg \in DOMAIN orgs
         /\ AnswerOf("billing").plan = orgs[cfOrg].plan
  BY DEF Allowed, AdminRoutes, MemberOf, OrganizationsOf, AnswerOf

LEMMA BilledStep ==
  ASSUME AccountsInv, TabInv, Step, upsets \in Nat, script \in ScriptPc, Forward, Remembered, Billed
  PROVE  Billed'
  <1>1. TabOK /\ Located
    BY DEF TabInv
  <1>2. ASSUME route' = "billing", NEW data,
               (page'.data # NoData /\ data = page'.data) \/ (page'.flight.pc = "answered" /\ data = page'.flight.data),
               data.others = OtherWrites'
        PROVE  cfOrg' \in DOMAIN orgs' /\ data.plan = orgs'[cfOrg'].plan
    <2>1. ~Moving
      BY <1>2, PageOfType DEF Moving, Sent
    <2>2. route = "billing" /\ cfOrg' = cfOrg
      BY <1>2, <2>1 DEF Step
    <2>3. \A k \in Kinds : mut[k].pc = "idle"
      BY <1>1, <2>2 DEF Located, RouteOf
    <2>4. \/ page' = page /\ (users' # users \/ orgs' # orgs => Others)
          \/ Asking \/ Serving
      <3>1. ASSUME NEW kind \in Kinds, NEW target, NEW value  PROVE ~Click(kind, target, value)
        BY <2>2 DEF Click
      <3>2. ASSUME NEW kind \in Kinds  PROVE ~Changed(kind) /\ ~ChangeAnswer(kind)
        BY <2>3 DEF Changed, ChangeAnswer, Sent
      <3>. QED
        BY <2>1, <3>1, <3>2 DEF Step
    <2>5. \/ page.data # NoData /\ data = page.data
          \/ page.flight.pc = "answered" /\ data = page.flight.data
          \/ Serving /\ Allowed("billing") /\ data = AnswerOf("billing")
      <3>1. page.flight.pc # "counting"
        BY <1>1, <2>2 DEF Located
      <3>2. CASE page' = page
        BY <1>2, <3>2
      <3>3. CASE Asking
        BY <1>1, <1>2, <3>3, AskingType DEF Sent
      <3>4. CASE Serving
        BY <1>1, <1>2, <2>2, <3>1, <3>4, ServingType
      <3>. QED
        BY <2>4, <3>2, <3>3, <3>4
    <2>6. CASE Serving /\ Allowed("billing") /\ data = AnswerOf("billing")
      BY <2>2, <2>6, AnswerBills DEF Serving
    <2>7. CASE \/ page.data # NoData /\ data = page.data
               \/ page.flight.pc = "answered" /\ data = page.flight.data
      <3>1. Told(data.others) /\ Bills(data)
        BY <2>2, <2>7 DEF Remembered, Billed
      <3>2. UNCHANGED <<upsets, script>>
        BY <1>2, <3>1, ToldStays
      <3>3. cfOrg \in DOMAIN orgs /\ data.plan = orgs[cfOrg].plan
        BY <1>2, <3>1, <3>2 DEF Bills, OtherWrites
      <3>4. SameRows
        <4>1. CASE users' = users /\ orgs' = orgs
          BY <4>1 DEF SameRows
        <4>2. CASE users' # users \/ orgs' # orgs => Others
          BY <3>2, <4>2, RowsStay
        <4>. QED
          BY <2>4, <4>1, <4>2 DEF Asking, Serving
      <3>. QED
        BY <2>2, <3>3, <3>4 DEF SameRows
    <2>. QED
      BY <2>5, <2>6, <2>7
  <1>3. ASSUME route' = "billing", page'.data # NoData, page'.data.others = OtherWrites'
        PROVE  cfOrg' \in DOMAIN orgs' /\ page'.data.plan = orgs'[cfOrg'].plan
    BY <1>2, <1>3
  <1>4. ASSUME route' = "billing", page'.flight.pc = "answered", page'.flight.data.others = OtherWrites'
        PROVE  cfOrg' \in DOMAIN orgs' /\ page'.flight.data.plan = orgs'[cfOrg'].plan
    BY <1>2, <1>4
  <1>. QED
    BY <1>3, <1>4 DEF Billed, Bills

LEMMA ShownStep ==
  ASSUME ShownInv, Next
  PROVE  ShownInv'
  <1>1. ConsoleInv /\ AccountsInv /\ TabInv /\ Belongs
    BY DEF ShownInv, ConsoleInv
  <1>2. Step /\ Forward
    BY <1>1, StepKinds, OthersStep
  <1>3. upsets \in Nat /\ script \in ScriptPc
    BY <1>1 DEF AccountsInv, RowsOK, TabInv, TabOK, ScriptPc
  <1>4. ConsoleInv'
    BY <1>1, ConsoleStep
  <1>. QED
    BY <1>1, <1>2, <1>3, <1>4, RememberedStep, MadeStep, SeenStep, BilledStep DEF ShownInv

LEMMA ShownInit ==
  Init => ShownInv
  <1>. SUFFICES ASSUME Init PROVE ShownInv
    OBVIOUS
  <1>1. /\ route = "login" /\ own.kind = "" /\ \A k \in Kinds : mut[k].pc = "idle"
    BY DEF Init, NoChange, NoMutation
  <1>2. \A k \in Kinds : ~Fresh(k)
    BY <1>1 DEF Fresh, Kinds
  <1>. QED
    BY <1>1, <1>2, ConsoleInit DEF ShownInv, Remembered, Made, Seen, Billed

LEMMA ShownSame ==
  ASSUME ShownInv, UNCHANGED vars
  PROVE  ShownInv'
  <1>1. ConsoleInv'
    BY ConsoleSame DEF ShownInv
  <1>2. UNCHANGED <<users, orgs, script, upsets, route, cfOrg, page, mut, own>>
    BY DEF vars, accountVars, tabVars
  <1>3. Remembered'
    BY <1>2 DEF ShownInv, Remembered, Told
  <1>4. Made'
    BY <1>2 DEF ShownInv, Made, Fresh, Holds, Exists, OtherWrites
  <1>5. Seen'
    BY <1>2 DEF ShownInv, Seen, Fresh, Agrees, OtherWrites
  <1>6. Billed'
    BY <1>2 DEF ShownInv, Billed, Bills, OtherWrites
  <1>. QED
    BY <1>1, <1>3, <1>4, <1>5, <1>6 DEF ShownInv

LEMMA ShownInvariant ==
  Spec => []ShownInv
  <1>1. ShownInv /\ [Next]_vars => ShownInv'
    BY ShownStep, ShownSame
  <1>. QED
    BY <1>1, ShownInit, PTL DEF Spec

LEMMA InvShows ==
  ShownInv => ChangeShown
  <1>. SUFFICES ASSUME ShownInv PROVE ChangeShown
    OBVIOUS
  <1>1. NoFlight.pc = "none"
    BY DEF NoFlight
  <1>2. ASSUME NEW k \in Kinds, own.kind = k, page.data # NoData, page.flight = NoFlight, ~page.failed,
               mut[k].pc = "idle", own.others = OtherWrites
        PROVE  Agrees(k, page.data, own.target, own.value)
    BY <1>1, <1>2 DEF ShownInv, Seen, Fresh
  <1>3. ASSUME route = "billing", page.data # NoData, page.data.others = OtherWrites, NEW id \in DOMAIN PlanCards
        PROVE  PlanCards[id] = "Current Plan" <=> id = orgs[cfOrg].plan
    <2>1. page.data.plan = orgs[cfOrg].plan
      BY <1>3 DEF ShownInv, Billed, Bills
    <2>. QED
      BY <1>3, <2>1 DEF PlanCards
  <1>4. ASSUME own.kind = "role", page.data # NoData, page.flight = NoFlight, ~page.failed,
               own.target \in DOMAIN page.data, \A k \in Kinds : mut[k].pc = "idle", own.others = OtherWrites
        PROVE  page.data[own.target].role = own.value
    BY <1>2, <1>4 DEF Agrees, Kinds
  <1>5. ASSUME own.kind = "status", page.data # NoData, page.flight = NoFlight, ~page.failed,
               own.target \in DOMAIN page.data, \A k \in Kinds : mut[k].pc = "idle", own.others = OtherWrites
        PROVE  page.data[own.target].status = own.value
    BY <1>2, <1>5 DEF Agrees, Kinds
  <1>6. ASSUME own.kind = "plan", page.data # NoData, page.flight = NoFlight, ~page.failed,
               own.target \in DOMAIN page.data, \A k \in Kinds : mut[k].pc = "idle", own.others = OtherWrites
        PROVE  page.data[own.target].plan = own.value
    BY <1>2, <1>6 DEF Agrees, Kinds
  <1>. QED
    BY <1>3, <1>4, <1>5, <1>6 DEF ChangeShown

(* A change made in the console is on the screen once it is answered and   *)
(* nothing is under way, unless somebody else has written since: what the  *)
(* page has fetched was read after the change, as the answer gives up the  *)
(* fetch that was under way (onSuccess of the mutations).  The same goes   *)
(* for the cards of the billing page, whatever registers meanwhile.        *)
THEOREM ChangesAreShown ==
  Spec => []ChangeShown
  BY ShownInvariant, InvShows, PTL
==============================================================================
