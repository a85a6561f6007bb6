---------------------------- MODULE AuthSession ----------------------------
(***************************************************************************)
(* The session of one user in one browser: api() of the web application,   *)
(* which answers a 401 with a refresh and a second try, and the handlers   *)
(* that issue, rotate and revoke refresh tokens.                           *)
(*                                                                         *)
(* The tokens of one issueTokens have one number: access token n and       *)
(* refresh token n.  Tabs share cookies and localStorage; each has one     *)
(* call in flight at most.  "No token" is 0.                               *)
(* Refresh tokens are used within the week they last.                      *)
(***************************************************************************)
EXTENDS Naturals

CONSTANTS
  Tabs,       \* tabs of the browser
  Cookies,    \* whether the browser keeps the API's cookies
  MaxTokens,  \* bound: tokens issued
  MaxAborts,  \* bound: requests that fail
  MaxOthers   \* bound: revocations of all tokens from another device

ASSUME AuthAssumption ==
  /\ Cookies \in BOOLEAN
  /\ MaxTokens \in Nat /\ MaxAborts \in Nat /\ MaxOthers \in Nat

VARIABLES
  issued,   \* number of tokens issued
  live,     \* RefreshToken rows whose revokedAt is null
  fresh,    \* access tokens that have not expired
  jar,      \* the cookies cf_access and cf_refresh
  store,    \* cf_token and cf_refresh in localStorage
  call,     \* what each tab is doing
  session,  \* what the user knows: signed in or out, signing in, or unsure
  aborts,   \* failed requests so far
  others    \* revocations from elsewhere so far

vars == <<issued, live, fresh, jar, store, call, session, aborts, others>>

----------------------------------------------------------------------------
(* Types                                                                   *)

Token == 1 .. issued

Maybe == {0} \cup Token

Pair == [access : Maybe, refresh : Maybe]

None == [access |-> 0, refresh |-> 0]

CallPc ==
  {"login", "signin", "page", "sent", "denied", "refresh", "revoke", "issue",
   "receive", "retry", "leave", "logout", "clear"}

(* access: the token AuthGuard will see; used: the refresh token a request *)
(* carries; new: the tokens of the answer.                                 *)
Call == [pc : CallPc, access : Maybe, used : Maybe, new : Maybe]

At(pc) == [pc |-> pc, access |-> 0, used |-> 0, new |-> 0]

(* The cookie of an access token is gone when the token has expired.       *)
AuthTypeOK ==
  /\ issued \in 0 .. MaxTokens
  /\ live \subseteq Token /\ fresh \subseteq Token
  /\ jar \in Pair /\ store \in Pair
  /\ jar.access \in fresh \cup {0}
  /\ call \in [Tabs -> Call]
  /\ session \in {"in", "out", "signing", "unsure"}
  /\ aborts \in Nat /\ others \in Nat

Init ==
  /\ issued = 0 /\ live = {} /\ fresh = {}
  /\ jar = None /\ store = None
  /\ call = [t \in Tabs |-> At("login")]
  /\ session = "out"
  /\ aborts = 0 /\ others = 0

----------------------------------------------------------------------------
(* What the steps have in common                                           *)

Turn(t, c) == call' = [call EXCEPT ![t] = c]

IssueTokens ==
  /\ issued < MaxTokens
  /\ issued' = issued + 1
  /\ live' = live \cup {issued'}
  /\ fresh' = fresh \cup {issued'}

(* setAuthCookies                                                          *)
Keep(n) == jar' = IF Cookies THEN [access |-> n, refresh |-> n] ELSE jar

(* Requests that change which refresh token is good, and the refusal of    *)
(* one on its way to the page.                                             *)
Exchanging(t) ==
  call[t].pc \in {"signin", "refresh", "revoke", "issue", "receive", "leave", "logout", "clear"}

Overlaps(t) == \E u \in Tabs \ {t} : Exchanging(u)

(* The user cannot tell any more once two such requests have overlapped.   *)
Begin(t) == session' = IF Overlaps(t) THEN "unsure" ELSE session

----------------------------------------------------------------------------
(* Signing in                                                              *)

(* POST /auth/login or /auth/register, up to issueTokens.                  *)
SignIn(t) ==
  /\ call[t].pc = "login"
  /\ IssueTokens
  /\ Turn(t, [At("signin") EXCEPT !.new = issued'])
  /\ session' = IF Overlaps(t) THEN "unsure" ELSE "signing"
  /\ UNCHANGED <<jar, store, aborts, others>>

(* The answer sets the cookies, and api() stores both tokens.              *)
SignInReceive(t) ==
  LET n == call[t].new
  IN  /\ call[t].pc = "signin"
      /\ Keep(n)
      /\ store' = [access |-> n, refresh |-> n]
      /\ Turn(t, At("page"))
      /\ session' = IF session = "signing" THEN "in" ELSE "unsure"
      /\ UNCHANGED <<issued, live, fresh, aborts, others>>

(* The user enters the address of a page instead of signing in.            *)
OpenPage(t) ==
  /\ call[t].pc = "login"
  /\ Turn(t, At("page"))
  /\ UNCHANGED <<issued, live, fresh, jar, store, session, aborts, others>>

----------------------------------------------------------------------------
(* A call of api(), and AuthGuard                                          *)

(* AuthGuard prefers the cookie to the Authorization header.               *)
Send(t) ==
  /\ call[t].pc = "page"
  /\ Turn(t, [At("sent") EXCEPT !.access = IF jar.access # 0 THEN jar.access ELSE store.access])
  /\ UNCHANGED <<issued, live, fresh, jar, store, session, aborts, others>>

Guard(t) ==
  /\ call[t].pc = "sent"
  /\ Turn(t, IF call[t].access \in fresh THEN At("page") ELSE At("denied"))
  /\ UNCHANGED <<issued, live, fresh, jar, store, session, aborts, others>>

(* Variant of Credential that asks the body before the cookie.             *)
BodyFirst == IF store.refresh # 0 THEN store.refresh ELSE jar.refresh

(* POST /auth/refresh takes the cookie, or else the body.                  *)
Credential == IF jar.refresh # 0 THEN jar.refresh ELSE store.refresh

StartRefresh(t) ==
  /\ call[t].pc = "denied"
  /\ Turn(t, [At("refresh") EXCEPT !.used = Credential])
  /\ Begin(t)
  /\ UNCHANGED <<issued, live, fresh, jar, store, aborts, others>>

(* refreshToken.findUnique: missing, unknown or revoked.                   *)
Refuse(t) ==
  /\ call[t].pc = "refresh" /\ call[t].used \notin live
  /\ Turn(t, At("leave"))
  /\ UNCHANGED <<issued, live, fresh, jar, store, session, aborts, others>>

Accept(t) ==
  /\ call[t].pc = "refresh" /\ call[t].used \in live
  /\ Turn(t, [call[t] EXCEPT !.pc = "revoke"])
  /\ UNCHANGED <<issued, live, fresh, jar, store, session, aborts, others>>

Revoke(t) ==
  /\ call[t].pc = "revoke"
  /\ live' = live \ {call[t].used}
  /\ Turn(t, [call[t] EXCEPT !.pc = "issue"])
  /\ UNCHANGED <<issued, fresh, jar, store, session, aborts, others>>

Issue(t) ==
  /\ call[t].pc = "issue"
  /\ IssueTokens
  /\ Turn(t, [call[t] EXCEPT !.pc = "receive", !.new = issued'])
  /\ UNCHANGED <<jar, store, session, aborts, others>>

(* Variant of Receive for a handler that only answers with a body.         *)
ReceiveBody(t) ==
  LET n == call[t].new
  IN  /\ call[t].pc = "receive"
      /\ store' = [store EXCEPT !.access = n]
      /\ Turn(t, [At("retry") EXCEPT !.access = n])
      /\ UNCHANGED <<issued, live, fresh, jar, session, aborts, others>>

(* The answer sets the cookies; api() stores the access token only, and    *)
(* tries again.                                                            *)
Receive(t) ==
  LET n == call[t].new
  IN  /\ call[t].pc = "receive"
      /\ Keep(n)
      /\ store' = [store EXCEPT !.access = n]
      /\ Turn(t, [At("retry") EXCEPT !.access = n])
      /\ UNCHANGED <<issued, live, fresh, session, aborts, others>>

Retry(t) ==
  /\ call[t].pc = "retry"
  /\ Turn(t, IF call[t].access \in fresh THEN At("page") ELSE At("leave"))
  /\ UNCHANGED <<issued, live, fresh, jar, store, session, aborts, others>>

(* localStorage is cleared, and the tab goes to /login.                    *)
Leave(t) ==
  /\ call[t].pc = "leave"
  /\ store' = None
  /\ Turn(t, At("login"))
  /\ UNCHANGED <<issued, live, fresh, jar, session, aborts, others>>

----------------------------------------------------------------------------
(* Signing out                                                             *)

(* The button of the settings page; the handler looks at the cookie only.  *)
Logout(t) ==
  /\ call[t].pc = "page"
  /\ Turn(t, [At("logout") EXCEPT !.used = jar.refresh])
  /\ Begin(t)
  /\ UNCHANGED <<issued, live, fresh, jar, store, aborts, others>>

(* Variant of LogoutRevoke that leaves the row to the clearing of cookies. *)
LogoutKeepsRow(t) ==
  /\ call[t].pc = "logout"
  /\ Turn(t, [call[t] EXCEPT !.pc = "clear"])
  /\ UNCHANGED <<issued, live, fresh, jar, store, session, aborts, others>>

LogoutRevoke(t) ==
  /\ call[t].pc = "logout"
  /\ live' = live \ {call[t].used}
  /\ Turn(t, [call[t] EXCEPT !.pc = "clear"])
  /\ UNCHANGED <<issued, fresh, jar, store, session, aborts, others>>

(* The cookies are cleared and the tab goes to /login.                     *)
LogoutReceive(t) ==
  /\ call[t].pc = "clear"
  /\ jar' = None
  /\ Turn(t, At("login"))
  /\ session' = IF Overlaps(t) \/ session = "unsure" THEN "unsure" ELSE "out"
  /\ UNCHANGED <<issued, live, fresh, store, aborts, others>>

----------------------------------------------------------------------------
(* The environment                                                         *)

(* Variant of Expire for cookies without maxAge.                           *)
ExpireToken(n) ==
  /\ n \in fresh
  /\ \A t \in Tabs : call[t].new # n /\ (call[t].pc = "retry" => call[t].access # n)
  /\ fresh' = fresh \ {n}
  /\ UNCHANGED <<issued, live, jar, store, call, session, aborts, others>>

(* An access token and its cookie live much longer than a call.            *)
Expire(n) ==
  /\ n \in fresh
  /\ \A t \in Tabs : call[t].new # n /\ (call[t].pc = "retry" => call[t].access # n)
  /\ fresh' = fresh \ {n}
  /\ jar' = IF jar.access = n THEN [jar EXCEPT !.access = 0] ELSE jar
  /\ UNCHANGED <<issued, live, store, call, session, aborts, others>>

(* Where the tab is after a request fails: an await of the handler rejects *)
(* or the answer is lost.  A second try that gets any answer but 2xx, from *)
(* the handler it called as much as from AuthGuard, ends at /login too.    *)
AfterFailure(pc) ==
  CASE pc \in {"refresh", "revoke", "issue", "receive", "retry"} -> "leave"
    [] pc = "signin" -> "login"
    [] OTHER -> "page"

Abort(t) ==
  /\ call[t].pc \notin {"login", "page", "denied", "leave"}
  /\ aborts < MaxAborts
  /\ aborts' = aborts + 1
  /\ Turn(t, At(AfterFailure(call[t].pc)))
  /\ session' = "unsure"
  /\ UNCHANGED <<issued, live, fresh, jar, store, others>>

(* logoutAll or resetPassword on another device.                           *)
RevokeAll ==
  /\ others < MaxOthers
  /\ others' = others + 1
  /\ live' = {}
  /\ session' = "unsure"
  /\ UNCHANGED <<issued, fresh, jar, store, call, aborts>>

Refresh(t) ==
  StartRefresh(t) \/ Refuse(t) \/ Accept(t) \/ Revoke(t) \/ Issue(t) \/ Receive(t)

Step(t) ==
  \/ SignIn(t) \/ SignInReceive(t) \/ OpenPage(t)
  \/ Send(t) \/ Guard(t) \/ Refresh(t) \/ Retry(t) \/ Leave(t)
  \/ Logout(t) \/ LogoutRevoke(t) \/ LogoutReceive(t)

Next ==
  \/ \E t \in Tabs : Step(t) \/ Abort(t)
  \/ \E n \in fresh : Expire(n)
  \/ RevokeAll

Spec == Init /\ [][Next]_vars

----------------------------------------------------------------------------
(* Properties                                                              *)

(* However many tabs refresh, sign in and sign out at once, and in         *)
(* whatever order their answers arrive: as long as no request fails and    *)
(* nobody revokes the tokens from elsewhere, a refresh cookie that has     *)
(* been revoked is about to be replaced or cleared.                        *)
Replacing(t) == call[t].pc \in {"issue", "receive", "clear"}

JarUsable ==
  aborts = 0 /\ others = 0 /\ jar.refresh # 0 /\ jar.refresh \notin live =>
    \E t \in Tabs : Replacing(t) /\ call[t].used = jar.refresh

(* A user who has signed in stays so until signing out: as long as those   *)
(* requests have not overlapped, failed, or been undone from elsewhere, no *)
(* tab is sent back to the login page, however often tokens expire.        *)
StaysSignedIn == session = "in" => \A t \in Tabs : call[t].pc # "leave"

(* Having signed out, the browser has nothing left to stay signed in with: *)
(* no good cookie, and no refresh token that the API takes, although       *)
(* nothing removes the one in localStorage.  The access token there is     *)
(* good until it expires; nothing renews it.                               *)
SignedOut == session = "out" =>
  jar.access \notin fresh /\ jar.refresh \notin live /\ store.refresh \notin live

=============================================================================
