------------------------------- MODULE Console -------------------------------
(***************************************************************************)
(* A browser tab at the accounts: the pages that sign in and up, the shell *)
(* around the pages of a user, and the console of an administrator.        *)
(*                                                                         *)
(* Queries are kept by React Query: a page that is mounted shows what is   *)
(* cached under its key and fetches it again.  auth-me is the key of both  *)
(* shells; what a page has fetched is dropped when the page is left.       *)
(***************************************************************************)
EXTENDS Accounts, Sequences

CONSTANTS
  Web,     \* the client that is this tab
  NoData,  \* a query without an answer
  MaxClicks  \* bound: changes made in this tab

ASSUME ConsoleAssumption == Web \in Clients /\ MaxClicks \in Nat

VARIABLES
  route,    \* the page
  session,  \* whose tokens the browser has, and the organization the answer named
  cfOrg,    \* cf_org in localStorage
  form,     \* the submitted form of the login page
  me,       \* the query auth-me
  page,     \* the query of the page
  filter,   \* the search of the users page, the pill of the billing page
  mut,      \* the mutations of the console
  own,      \* the last change the page was told of
  clicks    \* changes made in this tab so far

tabVars == <<route, session, cfOrg, form, me, page, filter, mut, own, clicks>>
vars == <<accountVars, tabVars>>

NoOrg == <<"", 0>>
AdminRoutes == {"admin", "admin-users", "admin-billing"}
UserRoutes == {"overview", "billing", "settings"}
OfPlans == {offer[1] : offer \in Offers}   \* bound: the plans pills and selects are set to
Kinds == {"role", "status", "plan"}

Sent == "sent"     \* a request on its way to the API
NoFlight == [pc |-> "none", data |-> NoData]
NoQuery == [data |-> NoData, failed |-> FALSE, flight |-> NoFlight]
NoForm == [pc |-> "idle", email |-> NoUser, org |-> NoOrg, role |-> "USER"]
OtherWrites == <<upsets, script>>   \* changes when somebody else writes a role or a plan
NoChange == [kind |-> "", target |-> NoData, value |-> "", others |-> <<0, "idle">>]
NoMutation == [pc |-> "idle", target |-> NoData, value |-> "", others |-> <<0, "idle">>]

Init ==
  /\ AccountsInit
  /\ route = "login" /\ session = [user |-> NoUser, org |-> NoOrg] /\ cfOrg = NoOrg
  /\ form = NoForm /\ me = NoQuery /\ page = NoQuery /\ filter = "ALL"
  /\ mut = [k \in Kinds |-> NoMutation]
  /\ own = NoChange
  /\ clicks = 0

-----------------------------------------------------------------------------
(* What the API answers                                                    *)

PlanPrice == [FREE |-> 0, STARTER |-> 9, BUSINESS |-> 19, PRO |-> 49]

WithPlan(plan) == {s \in DOMAIN orgs : orgs[s].plan = plan}

(* getSystemStats counts row by row, and other requests come in between:   *)
(* the first half is users, organizations and free plans.                  *)
StatsBegun == [users |-> Cardinality({e \in Emails : Exists(e)}),
               organizations |-> Cardinality(DOMAIN orgs), FREE |-> Cardinality(WithPlan("FREE"))]

StatsEnded ==
  LET n == [plan \in Plan |-> Cardinality(WithPlan(plan))]
  IN  [paid |-> n["STARTER"] + n["BUSINESS"] + n["PRO"],
       active |-> Cardinality({s \in DOMAIN orgs : orgs[s].status = "ACTIVE"}),
       estimatedMRR |-> n["STARTER"] * 9 + n["BUSINESS"] * 19 + n["PRO"] * 49]

(* getAllUsers searches names and addresses; here, one address.            *)
AllUsers(search) ==
  [e \in {x \in Emails : Exists(x) /\ search \in {"ALL", x}} |->
     [role |-> users[e].role, status |-> users[e].status, memberships |-> OrganizationsOf(e)]]

AllSubscriptions == [s \in DOMAIN orgs |-> [plan |-> orgs[s].plan, status |-> orgs[s].status,
                                            members |-> DOMAIN orgs[s].members]]

AnswerOf(r) ==
  CASE r = "admin-users" -> AllUsers(filter)
    [] r = "admin-billing" -> AllSubscriptions
    [] r = "admin" -> [begun |-> page.flight.data, ended |-> StatsEnded]
    [] r = "billing" -> [plan |-> orgs[cfOrg].plan, others |-> OtherWrites]

Allowed(r) == IF r \in AdminRoutes THEN Administrator(session.user) ELSE MemberOf(session.user, cfOrg)

-----------------------------------------------------------------------------
(* What the pages show                                                     *)

(* The navigation of the shells.                                           *)
DashboardLinks == UserRoutes \cup (IF me.data = "ADMIN" THEN {"admin"} ELSE {})
AdminLinks == AdminRoutes \cup {"overview", "login"}

Links == CASE route = "login" -> {"signup"} [] route = "signup" -> {"login"}
           [] route \in UserRoutes -> DashboardLinks [] route \in AdminRoutes -> AdminLinks

(* A row of the users page: its badges and what its two buttons send.      *)
UserRow(e, row) ==
  LET isAdmin == row.role = "ADMIN" \/ e \in Fallback
      isSuspended == row.status = "SUSPENDED"
  IN  [role |-> IF isAdmin THEN "ADMIN" ELSE "USER",
       status |-> IF isSuspended THEN "SUSPENDED" ELSE "ACTIVE",
       newRole |-> IF isAdmin THEN "USER" ELSE "ADMIN",
       newStatus |-> IF isSuspended THEN "ACTIVE" ELSE "SUSPENDED"]

UserRows == [e \in DOMAIN page.data |-> UserRow(e, page.data[e])]

(* A row of the subscriptions page, with the plans it offers.              *)
SubscriptionRow(sub) == [plan |-> sub.plan, price |-> PlanPrice[sub.plan], status |-> sub.status,
                         offered |-> Plan \ {sub.plan}]

SubscriptionRows ==
  [s \in {t \in DOMAIN page.data : filter \in {"ALL", page.data[t].plan}} |-> SubscriptionRow(page.data[s])]

(* The billing page of a user has a card for three of the plans.           *)
PlanCards == LET current == IF page.data = NoData THEN "FREE" ELSE page.data.plan
             IN  [id \in {"FREE", "STARTER", "PRO"} |-> IF id = current THEN "Current Plan" ELSE "Upgrade"]

-----------------------------------------------------------------------------
(* Queries                                                                 *)

Unchanged == UNCHANGED <<form, mut, clicks>>
Stay == Unchanged /\ own' = own

Fetching(query) == IF query.flight = NoFlight THEN [query EXCEPT !.flight.pc = Sent] ELSE query

Fetched(r) == r \in AdminRoutes \cup {"billing"}

PageOf(r) == IF Fetched(r) THEN [NoQuery EXCEPT !.flight.pc = Sent] ELSE NoQuery

(* router.push and Link keep the cache; both shells ask who this is.       *)
Goto(r) ==
  /\ route' = r /\ filter' = "ALL" /\ page' = PageOf(r) /\ own' = NoChange
  /\ me' = IF r \in UserRoutes \cup AdminRoutes THEN Fetching(me) ELSE me

(* An address that is opened: nothing is cached.                           *)
Load(r) ==
  /\ route' = r /\ filter' = "ALL" /\ page' = PageOf(r) /\ own' = NoChange
  /\ me' = IF r \in UserRoutes \cup AdminRoutes THEN Fetching(NoQuery) ELSE NoQuery

(* Bound: the user waits on a page until its changes are answered.         *)
Settled == form.pc = "idle" /\ \A k \in Kinds : mut[k].pc = "idle"

(* "Sign Out Admin" only goes to the login page.                           *)
Follow(r) ==
  /\ Settled /\ tx[Web] = Idle /\ r \in Links /\ Goto(r)
  /\ UNCHANGED <<accountVars, session, cfOrg>> /\ Unchanged

Reload ==
  /\ Settled /\ tx[Web] = Idle /\ Load(route)
  /\ UNCHANGED <<accountVars, session, cfOrg>> /\ Unchanged

(* Typing in the search field is another key, a pill is not.               *)
Search(text) ==
  /\ route = "admin-users" /\ text # filter /\ filter' = text
  /\ page' = PageOf(route)
  /\ UNCHANGED <<accountVars, route, session, cfOrg, me>> /\ Stay

Pill(plan) ==
  /\ route = "admin-billing" /\ plan # filter /\ filter' = plan
  /\ UNCHANGED <<accountVars, route, session, cfOrg, me, page>> /\ Stay

(* The window gets the focus, or the button that refreshes is pressed.     *)
Focus ==
  /\ route \in UserRoutes \cup AdminRoutes
  /\ me' = Fetching(me)
  /\ page' = IF Fetched(route) THEN Fetching(page) ELSE page
  /\ UNCHANGED <<accountVars, route, session, cfOrg, filter>> /\ Stay

(* A 401 that the refresh does not cure: api() opens the login page.       *)
Expel ==
  /\ Load("login") /\ cfOrg' = cfOrg /\ session' = session
  /\ form' = form /\ mut' = [k \in Kinds |-> NoMutation] /\ clicks' = clicks

(* Of the paths under /auth/ api() only throws: the query fails.           *)
MeServe ==
  /\ me.flight.pc = Sent
  /\ me' = IF Authenticated(session.user)
           THEN [me EXCEPT !.flight = [pc |-> "answered", data |-> users[session.user].role]]
           ELSE [me EXCEPT !.failed = TRUE, !.flight = NoFlight]
  /\ UNCHANGED <<accountVars, route, page, filter, session, cfOrg>> /\ Stay

MeReceive ==
  /\ me.flight.pc = "answered"
  /\ me' = [NoQuery EXCEPT !.data = me.flight.data]
  /\ UNCHANGED <<accountVars, route, session, cfOrg, page, filter>> /\ Stay

(* The query has no retry.                                                 *)
MeFails ==
  /\ me.flight # NoFlight /\ Upset
  /\ me' = [me EXCEPT !.failed = TRUE, !.flight = NoFlight]
  /\ UNCHANGED <<users, orgs, tx, script, route, session, cfOrg, page, filter>> /\ Stay

PageServe ==
  /\ page.flight.pc = Sent
  /\ IF ~Authenticated(session.user) THEN Expel
     ELSE /\ page' = CASE ~Allowed(route) -> [page EXCEPT !.failed = TRUE, !.flight = NoFlight]
                       [] Allowed(route) /\ route = "admin" -> [page EXCEPT !.flight = [pc |-> "counting", data |-> StatsBegun]]
                       [] OTHER -> [page EXCEPT !.flight = [pc |-> "answered", data |-> AnswerOf(route)]]
          /\ UNCHANGED <<route, session, cfOrg, me, filter>> /\ Stay
  /\ UNCHANGED accountVars

StatsServe ==
  /\ page.flight.pc = "counting"
  /\ page' = [page EXCEPT !.flight = [pc |-> "answered", data |-> AnswerOf("admin")]]
  /\ UNCHANGED <<accountVars, route, session, cfOrg, me, filter>> /\ Stay

PageReceive ==
  /\ page.flight.pc = "answered"
  /\ page' = [NoQuery EXCEPT !.data = page.flight.data]
  /\ UNCHANGED <<accountVars, route, session, cfOrg, me, filter>> /\ Stay

\* A bug: only a query that failed is looked at.
RedirectFailed ==
  /\ route \in AdminRoutes
  /\ me.failed
  /\ Settled /\ Goto("overview")
  /\ UNCHANGED <<accountVars, session, cfOrg>> /\ Unchanged

(* The effect of AdminShell.                                               *)
Redirect ==
  /\ route \in AdminRoutes
  /\ me.data # NoData \/ me.failed
  /\ me.failed \/ me.data # "ADMIN"
  /\ Settled /\ Goto("overview")
  /\ UNCHANGED <<accountVars, session, cfOrg>> /\ Unchanged

-----------------------------------------------------------------------------
(* Signing in, up and out                                                  *)

SubmitLogin(email) ==
  /\ route = "login" /\ form.pc = "idle"
  /\ form' = [NoForm EXCEPT !.pc = Sent, !.email = email]
  /\ UNCHANGED <<accountVars, route, session, cfOrg, me, page, filter, mut, own, clicks>>

(* The organizations of a member come in no order.                         *)
ServeLogin ==
  /\ form.pc = Sent
  /\ IF Active(form.email)
     THEN \E org \in IF OrganizationsOf(form.email) = {} THEN {NoOrg} ELSE OrganizationsOf(form.email) :
            form' = [form EXCEPT !.pc = "answered", !.org = org, !.role = users[form.email].role]
     ELSE form' = [form EXCEPT !.pc = "refused"]
  /\ UNCHANGED <<accountVars, route, session, cfOrg, me, page, filter, mut, own, clicks>>

\* A bug: an organization that is there stays.
LoginKeepsOrg ==
  /\ form.pc \in {"answered", "refused"} /\ form' = NoForm
  /\ IF form.pc = "refused" THEN UNCHANGED <<route, session, cfOrg, me, page, filter, own>>
     ELSE /\ session' = [user |-> form.email, org |-> form.org]
          /\ cfOrg' = IF cfOrg = NoOrg THEN form.org ELSE cfOrg
          /\ Goto(IF form.role = "ADMIN" THEN "admin" ELSE "overview")
  /\ UNCHANGED <<accountVars, mut, clicks>>

LoginAnswer ==
  /\ form.pc \in {"answered", "refused"} /\ form' = NoForm
  /\ IF form.pc = "refused" THEN UNCHANGED <<route, session, cfOrg, me, page, filter, own>>
     ELSE /\ session' = [user |-> form.email, org |-> form.org]
          /\ cfOrg' = IF form.org = NoOrg THEN cfOrg ELSE form.org
          /\ Goto(IF form.role = "ADMIN" THEN "admin" ELSE "overview")
  /\ UNCHANGED <<accountVars, mut, clicks>>

SubmitSignup(email, name) ==
  /\ route = "signup" /\ Register(Web, email, name)
  /\ UNCHANGED tabVars

SignupAnswer ==
  /\ route = "signup" /\ Answered(Web)
  /\ IF tx[Web].pc = "failed" THEN UNCHANGED <<route, session, cfOrg, me, page, filter, own>>
     ELSE /\ session' = [user |-> tx[Web].email, org |-> tx[Web].slug]
          /\ cfOrg' = tx[Web].slug
          /\ Goto("overview")
  /\ Unchanged

(* The settings page opens the login page; cf_org stays.                   *)
Logout ==
  /\ route = "settings" /\ Load("login")
  /\ session' = [user |-> NoUser, org |-> NoOrg] /\ cfOrg' = cfOrg
  /\ UNCHANGED accountVars /\ Unchanged

-----------------------------------------------------------------------------
(* The changes of the console                                              *)

Click(kind, target, value) ==
  /\ mut[kind].pc = "idle" /\ page.data # NoData /\ clicks < MaxClicks
  /\ \/ kind \in {"role", "status"} /\ route = "admin-users" /\ target \in DOMAIN UserRows
          /\ value = IF kind = "role" THEN UserRows[target].newRole ELSE UserRows[target].newStatus
     \/ kind = "plan" /\ route = "admin-billing" /\ target \in DOMAIN SubscriptionRows
          /\ value \in SubscriptionRows[target].offered
  /\ mut' = [mut EXCEPT ![kind] = [NoMutation EXCEPT !.pc = Sent, !.target = target, !.value = value]]
  /\ clicks' = clicks + 1
  /\ UNCHANGED <<accountVars, route, session, cfOrg, form, me, page, filter, own>>

Apply(kind, target, value) ==
  CASE kind = "role" -> UpdateUserRole(target, value) /\ UNCHANGED orgs
    [] kind = "status" -> UpdateUserStatus(target, value) /\ UNCHANGED orgs
    [] kind = "plan" -> UpdateSubscription(target, value, NoStatus) /\ UNCHANGED users

ServeChange(kind) ==
  /\ mut[kind].pc = Sent
  /\ \/ ~Authenticated(session.user) /\ Expel /\ UNCHANGED accountVars
     \/ /\ Authenticated(session.user) /\ ~Administrator(session.user)
        /\ mut' = [mut EXCEPT ![kind] = NoMutation]
        /\ UNCHANGED <<accountVars, route, session, cfOrg, form, me, page, filter, own, clicks>>
     \/ /\ Administrator(session.user)
        /\ Apply(kind, mut[kind].target, mut[kind].value)
        /\ mut' = [mut EXCEPT ![kind].pc = "served", ![kind].others = OtherWrites]
        /\ UNCHANGED <<tx, script, upsets, route, session, cfOrg, form, me, page, filter, own, clicks>>

\* A bug: a fetch that is under way is taken for the new one.
ChangeAnswerKeeps(kind) ==
  /\ mut[kind].pc = "served" /\ mut' = [mut EXCEPT ![kind] = NoMutation]
  /\ own' = [kind |-> kind, target |-> mut[kind].target, value |-> mut[kind].value,
             others |-> mut[kind].others]
  /\ page' = Fetching(page)
  /\ UNCHANGED <<accountVars, route, session, cfOrg, form, me, filter, clicks>>

(* invalidateQueries gives up a fetch that is under way and starts one.    *)
ChangeAnswer(kind) ==
  /\ mut[kind].pc = "served" /\ mut' = [mut EXCEPT ![kind] = NoMutation]
  /\ own' = [kind |-> kind, target |-> mut[kind].target, value |-> mut[kind].value,
             others |-> mut[kind].others]
  /\ page' = [page EXCEPT !.flight = [NoFlight EXCEPT !.pc = Sent]]
  /\ UNCHANGED <<accountVars, route, session, cfOrg, form, me, filter, clicks>>

-----------------------------------------------------------------------------

Pages ==
  \/ \E r \in UserRoutes \cup AdminRoutes \cup {"login", "signup"} : Follow(r)
  \/ Reload \/ Focus \/ Redirect
  \/ \E text \in Fallback \cup {"ALL"} : Search(text)
  \/ \E plan \in OfPlans \cup {"ALL"} : Pill(plan)
  \/ MeServe \/ MeReceive \/ MeFails \/ PageServe \/ StatsServe \/ PageReceive

Signing ==
  \/ \E e \in Emails : SubmitLogin(e) \/ \E name \in Names : SubmitSignup(e, name)
  \/ ServeLogin \/ LoginAnswer \/ SignupAnswer \/ Logout

Changing ==
  \/ \E kind \in Kinds, target \in Emails \cup DOMAIN orgs,
        value \in {"USER", "ADMIN", "ACTIVE", "SUSPENDED"} \cup OfPlans : Click(kind, target, value)
  \/ \E kind \in Kinds : ServeChange(kind) \/ ChangeAnswer(kind)

(* What fails at the API is left to the module Accounts.                   *)
Others ==
  /\ Handle(Web) \/ OtherAdministrator \/ ScriptUpsert \/ ScriptOrganization
  /\ UNCHANGED tabVars

Next == Pages \/ Signing \/ Changing \/ Others

(* The API serves what was sent, answers arrive and effects run.  Nothing  *)
(* makes a user come back to the window or the page change by itself.      *)
Fairness ==
  /\ WF_vars(MeServe) /\ WF_vars(MeReceive) /\ WF_vars(Redirect)
  /\ \A kind \in Kinds : WF_vars(ServeChange(kind)) /\ WF_vars(ChangeAnswer(kind))

Spec == Init /\ [][Next]_vars /\ Fairness

-----------------------------------------------------------------------------
(* Properties                                                              *)

(* The organization every request of a page names is one the user belongs  *)
(* to, whoever has used this browser before: the sign-in stores it.  (The  *)
(* answer names none for somebody create-admin is not yet done with.)      *)
OrgOfUser ==
  (session.user # NoUser /\ session.org # NoOrg) => cfOrg \in OrganizationsOf(session.user)

(* A change made in the console is on the screen as soon as it is answered *)
(* and the page has nothing under way, unless somebody else has changed    *)
(* something since; and the cards of the billing page name the plan the    *)
(* organization has, on the same condition.                                *)
ChangeShown ==
  LET shown == /\ page.data # NoData /\ page.flight = NoFlight /\ ~page.failed
               /\ own.target \in DOMAIN page.data
               /\ \A k \in Kinds : mut[k].pc = "idle"
               /\ own.others = OtherWrites
  IN  /\ own.kind = "role" /\ route = "admin-users" /\ shown => page.data[own.target].role = own.value
      /\ own.kind = "status" /\ route = "admin-users" /\ shown => page.data[own.target].status = own.value
      /\ own.kind = "plan" /\ route = "admin-billing" /\ shown => page.data[own.target].plan = own.value
      /\ route = "billing" /\ page.data # NoData /\ page.flight = NoFlight /\ page.data.others = OtherWrites =>
           \A id \in DOMAIN PlanCards : PlanCards[id] = "Current Plan" <=> id = orgs[cfOrg].plan

(* Nobody who comes back to the window of the console now and then stays   *)
(* there as no administrator: nothing asks auth-me again but the focus of  *)
(* the window and the next page, and it is the answer, or its failure when *)
(* he has been suspended, that moves him.  Not so if he keeps reloading,   *)
(* which gives the answer up.                                              *)
DemotedLeaves ==
  <>[](route \in AdminRoutes) /\ <>[][~Reload]_vars /\ []<><<Focus>>_vars
    => []<>(session.user # NoUser /\ users[session.user].role = "ADMIN")
=============================================================================
