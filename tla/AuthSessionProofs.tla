------------------------- MODULE AuthSessionProofs -------------------------
(***************************************************************************)
(* For any number of tabs, tokens and failures: the types of the session,  *)
(* that a revoked refresh cookie is about to be replaced, and, in a        *)
(* browser that keeps cookies, that users stay signed in and signed out.   *)
(***************************************************************************)
EXTENDS AuthSession, TLAPS

----------------------------------------------------------------------------
(* Types                                                                   *)

(* The access token of an answer under way, or of a second try, has not    *)
(* expired.                                                                *)
NewFresh ==
  \A t \in Tabs : /\ call[t].pc \in {"signin", "receive"} => call[t].new \in fresh
                  /\ call[t].pc = "retry" => call[t].access \in fresh

AuthTypeInv == AuthTypeOK /\ NewFresh

LEMMA AuthTypeInit == Init => AuthTypeInv
BY AuthAssumption
   DEF Init, AuthTypeInv, NewFresh, AuthTypeOK, Token, Maybe, Pair, None, Call, CallPc, At

(* Everything but the tokens of one step: what issueTokens adds.           *)
LEMMA IssuedMore ==
  ASSUME AuthTypeOK, IssueTokens
  PROVE  /\ issued' \in Nat /\ issued' = issued + 1 /\ issued' <= MaxTokens
         /\ issued' \in Token' /\ issued' \notin Maybe /\ issued' # 0
         /\ Maybe \subseteq Maybe' /\ issued' \in Maybe'
         /\ live' \subseteq Token' /\ fresh' \subseteq Token'
         /\ Pair \subseteq Pair' /\ Call \subseteq Call'
<1>1. issued \in Nat /\ issued' = issued + 1 /\ issued' <= MaxTokens
  BY AuthAssumption DEF AuthTypeOK, IssueTokens
<1>2. Token \subseteq Token' /\ issued' \in Token' /\ issued' \notin Token /\ issued' # 0
  BY <1>1 DEF Token
<1>3. Maybe \subseteq Maybe' /\ issued' \in Maybe' /\ issued' \notin Maybe
  BY <1>2 DEF Maybe
<1>4. live' \subseteq Token' /\ fresh' \subseteq Token'
  BY <1>2 DEF AuthTypeOK, IssueTokens
<1>5. Pair \subseteq Pair' /\ Call \subseteq Call'
  BY <1>3 DEF Pair, Call
<1> QED
  BY <1>1, <1>2, <1>3, <1>4, <1>5

LEMMA IssuedSame ==
  ASSUME UNCHANGED issued
  PROVE  Token' = Token /\ Maybe' = Maybe /\ Pair' = Pair /\ Call' = Call
BY DEF Token, Maybe, Pair, Call

(* A step that issues nothing only has to type what it changes.            *)
LEMMA CallType ==
  ASSUME AuthTypeOK, UNCHANGED issued, NEW t \in Tabs, NEW c \in Call, Turn(t, c)
  PROVE  call' \in [Tabs -> Call']
BY IssuedSame DEF Turn, AuthTypeOK

LEMMA AtType ==
  ASSUME NEW pc \in CallPc
  PROVE  /\ At(pc) \in Call
         /\ \A n \in Maybe : /\ [At(pc) EXCEPT !.access = n] \in Call
                             /\ [At(pc) EXCEPT !.used = n] \in Call
                             /\ [At(pc) EXCEPT !.new = n] \in Call
BY DEF At, Call, Maybe

LEMMA StepType ==
  ASSUME AuthTypeInv, NEW t \in Tabs, Step(t)
  PROVE  AuthTypeOK'
<1> USE AuthAssumption
<1> AuthTypeOK
  BY DEF AuthTypeInv
<1>0. /\ call[t] \in Call /\ jar \in Pair /\ store \in Pair
      /\ 0 \in Maybe /\ Token \subseteq Maybe /\ None \in Pair
      /\ {"login", "page", "denied", "leave"} \subseteq CallPc
  BY DEF AuthTypeOK, Maybe, Pair, None, CallPc
<1>1. ASSUME SignIn(t) PROVE AuthTypeOK'
  <2>1. IssueTokens /\ UNCHANGED <<jar, store, aborts, others>>
    BY <1>1 DEF SignIn
  <2>2. [At("signin") EXCEPT !.new = issued'] \in Call'
    BY <2>1, IssuedMore DEF At, Call, CallPc, Maybe
  <2>3. call' \in [Tabs -> Call']
    BY <1>1, <2>1, <2>2, IssuedMore DEF SignIn, Turn, AuthTypeOK
  <2>4. session' \in {"in", "out", "signing", "unsure"}
    BY <1>1 DEF SignIn
  <2> QED
    BY <2>1, <2>3, <2>4, IssuedMore DEF AuthTypeOK, IssueTokens
<1>2. ASSUME Issue(t) PROVE AuthTypeOK'
  <2>1. IssueTokens /\ UNCHANGED <<jar, store, session, aborts, others>>
    BY <1>2 DEF Issue
  <2>2. [call[t] EXCEPT !.pc = "receive", !.new = issued'] \in Call'
    BY <1>0, <2>1, IssuedMore DEF Call, CallPc
  <2>3. call' \in [Tabs -> Call']
    BY <1>2, <2>1, <2>2, IssuedMore DEF Issue, Turn, AuthTypeOK
  <2> QED
    BY <2>1, <2>3, IssuedMore DEF AuthTypeOK, IssueTokens
<1>3. ASSUME SignInReceive(t) \/ Receive(t) PROVE AuthTypeOK'
  <2>1. /\ call[t].new \in Maybe
        /\ UNCHANGED <<issued, live, fresh, aborts, others>>
        /\ session' \in {"in", "out", "signing", "unsure"}
    BY <1>0, <1>3 DEF SignInReceive, Receive, Call, AuthTypeOK
  <2>2. store' \in Pair
    BY <1>0, <1>3, <2>1 DEF SignInReceive, Receive, Pair
  <2>3. \E c \in Call : Turn(t, c)
    BY <1>3, <2>1, AtType DEF SignInReceive, Receive, CallPc
  <2>4. jar' \in Pair /\ jar'.access \in fresh \cup {0}
    <3>1. call[t].new \in fresh
      BY <1>3 DEF AuthTypeInv, NewFresh, SignInReceive, Receive
    <3> QED
      BY <1>0, <1>3, <2>1, <3>1 DEF SignInReceive, Receive, Keep, Pair, AuthTypeOK
  <2> QED
    BY <2>1, <2>2, <2>3, <2>4, CallType, IssuedSame DEF AuthTypeOK
<1>5. ASSUME OpenPage(t) \/ Guard(t) \/ Refuse(t) \/ Retry(t) PROVE AuthTypeOK'
  <2>1. UNCHANGED <<issued, live, fresh, jar, store, session, aborts, others>>
    BY <1>5 DEF OpenPage, Guard, Refuse, Retry
  <2>2. \E c \in Call : Turn(t, c)
    BY <1>0, <1>5, AtType DEF OpenPage, Guard, Refuse, Retry
  <2> QED
    BY <2>1, <2>2, CallType, IssuedSame DEF AuthTypeOK
<1>6. ASSUME Send(t) \/ StartRefresh(t) \/ Logout(t) PROVE AuthTypeOK'
  <2>1. /\ UNCHANGED <<issued, live, fresh, jar, store, aborts, others>>
        /\ session' \in {"in", "out", "signing", "unsure"}
    BY <1>6 DEF Send, StartRefresh, Logout, Begin, AuthTypeOK
  <2>2. \E c \in Call : Turn(t, c)
    BY <1>0, <1>6, AtType DEF Send, StartRefresh, Logout, Credential, CallPc, Pair
  <2> QED
    BY <2>1, <2>2, CallType, IssuedSame DEF AuthTypeOK
<1>7. ASSUME Accept(t) \/ Revoke(t) \/ LogoutRevoke(t) PROVE AuthTypeOK'
  <2>1. /\ UNCHANGED <<issued, fresh, jar, store, session, aborts, others>>
        /\ live' \subseteq Token
    BY <1>7 DEF Accept, Revoke, LogoutRevoke, AuthTypeOK
  <2>2. \E c \in Call : Turn(t, c)
    BY <1>0, <1>7 DEF Accept, Revoke, LogoutRevoke, Call, CallPc
  <2> QED
    BY <2>1, <2>2, CallType, IssuedSame DEF AuthTypeOK
<1>8. ASSUME Leave(t) \/ LogoutReceive(t) PROVE AuthTypeOK'
  <2>1. /\ UNCHANGED <<issued, live, fresh, aborts, others>>
        /\ session' \in {"in", "out", "signing", "unsure"}
        /\ jar' \in {jar, None} /\ store' \in {store, None}
    BY <1>8 DEF Leave, LogoutReceive, AuthTypeOK
  <2>2. \E c \in Call : Turn(t, c)
    BY <1>0, <1>8, AtType DEF Leave, LogoutReceive
  <2> QED
    BY <1>0, <2>1, <2>2, CallType, IssuedSame DEF AuthTypeOK, None
<1> QED
  BY <1>1, <1>2, <1>3, <1>5, <1>6, <1>7, <1>8 DEF Step, Refresh

(* What becomes of the calls of the other tabs.                            *)
LEMMA TurnCalls ==
  ASSUME AuthTypeOK, NEW t \in Tabs, NEW c, Turn(t, c)
  PROVE  call'[t] = c /\ \A u \in Tabs \ {t} : call'[u] = call[u]
BY DEF Turn, AuthTypeOK

LEMMA StepFresh ==
  ASSUME AuthTypeInv, NEW t \in Tabs, Step(t)
  PROVE  NewFresh'
<1>0. AuthTypeOK /\ NewFresh
  BY DEF AuthTypeInv
<1>1. fresh \subseteq fresh'
  BY DEF Step, Refresh, SignIn, SignInReceive, OpenPage, Send, Guard, StartRefresh, Refuse,
     Accept, Revoke, Issue, Receive, Retry, Leave, Logout, LogoutRevoke, LogoutReceive,
     IssueTokens
<1> DEFINE Turned ==
       /\ \A u \in Tabs \ {t} : call'[u] = call[u]
       /\ call'[t].pc \in {"signin", "receive"} => call'[t].new \in fresh'
       /\ call'[t].pc = "retry" => call'[t].access \in fresh'
<1>2. Turned
  <2>1. ASSUME SignIn(t) PROVE Turned
    BY <1>0, <2>1, TurnCalls DEF SignIn, IssueTokens, At
  <2>5. ASSUME Issue(t) PROVE Turned
    <3>1. /\ Turn(t, [call[t] EXCEPT !.pc = "receive", !.new = issued'])
          /\ issued' \in fresh' /\ call[t] \in Call
      BY <1>0, <2>5 DEF Issue, IssueTokens, AuthTypeOK
    <3>2. call'[t] = [call[t] EXCEPT !.pc = "receive", !.new = issued']
      BY <1>0, <3>1, TurnCalls
    <3> QED
      BY <1>0, <3>1, <3>2, TurnCalls DEF Call
  <2>2. ASSUME Receive(t) PROVE Turned
    BY <1>0, <1>1, <2>2, TurnCalls DEF Receive, NewFresh, At
  <2>3. ASSUME SignInReceive(t) \/ OpenPage(t) \/ Send(t) \/ Guard(t) \/ StartRefresh(t)
               \/ Refuse(t) \/ Retry(t) \/ Leave(t) \/ Logout(t) \/ LogoutReceive(t)
        PROVE Turned
    BY <1>0, <2>3, TurnCalls
       DEF SignInReceive, OpenPage, Send, Guard, StartRefresh, Refuse, Retry, Leave, Logout,
           LogoutReceive, At
  <2>4. ASSUME Accept(t) \/ Revoke(t) \/ LogoutRevoke(t) PROVE Turned
    BY <1>0, <2>4, TurnCalls DEF Accept, Revoke, LogoutRevoke, Call, AuthTypeOK
  <2> QED
    BY <2>1, <2>2, <2>3, <2>4, <2>5 DEF Step, Refresh
<1> QED
  BY <1>0, <1>1, <1>2 DEF NewFresh

LEMMA AuthTypeNext == AuthTypeInv /\ [Next]_vars => AuthTypeInv'
<1> SUFFICES ASSUME AuthTypeInv, [Next]_vars PROVE AuthTypeInv'
  OBVIOUS
<1>0. AuthTypeOK /\ NewFresh
  BY DEF AuthTypeInv
<1>1. ASSUME NEW t \in Tabs, Step(t) PROVE AuthTypeInv'
  BY <1>1, StepType, StepFresh DEF AuthTypeInv
<1>2. ASSUME NEW t \in Tabs, Abort(t) PROVE AuthTypeInv'
  <2>1. AfterFailure(call[t].pc) \in {"leave", "login", "page"}
    BY DEF AfterFailure
  <2>2. /\ Turn(t, At(AfterFailure(call[t].pc)))
        /\ UNCHANGED <<issued, live, fresh, jar, store, others>>
        /\ aborts' \in Nat /\ session' = "unsure"
    BY <1>0, <1>2 DEF Abort, AuthTypeOK
  <2>3. At(AfterFailure(call[t].pc)) \in Call
    BY <2>1, AtType DEF CallPc
  <2>4. NewFresh'
    BY <1>0, <2>1, <2>2, TurnCalls DEF NewFresh, At
  <2> QED
    BY <1>0, <2>2, <2>3, <2>4, CallType, IssuedSame DEF AuthTypeInv, AuthTypeOK
<1>3. ASSUME NEW n \in fresh, Expire(n) PROVE AuthTypeInv'
  <2>1. jar' \in Pair /\ jar'.access \in fresh' \cup {0}
    BY <1>0, <1>3 DEF Expire, AuthTypeOK, Pair, Maybe
  <2>2. NewFresh'
    BY <1>0, <1>3 DEF Expire, NewFresh
  <2> QED
    BY <1>0, <1>3, <2>1, <2>2, IssuedSame DEF Expire, AuthTypeInv, AuthTypeOK
<1>4. ASSUME RevokeAll PROVE AuthTypeInv'
  BY <1>0, <1>4, IssuedSame DEF RevokeAll, AuthTypeInv, AuthTypeOK, NewFresh
<1>5. CASE UNCHANGED vars
  BY <1>0, <1>5, IssuedSame DEF vars, AuthTypeInv, AuthTypeOK, NewFresh
<1> QED
  BY <1>1, <1>2, <1>3, <1>4, <1>5 DEF Next

LEMMA AuthTypesStrong == Spec => []AuthTypeInv
BY AuthTypeInit, AuthTypeNext, PTL DEF Spec

(* Every variable keeps its type; in particular the browser has no cookie  *)
(* of an access token that has expired.                                    *)
THEOREM AuthTypes == Spec => []AuthTypeOK
<1>1. AuthTypeInv => AuthTypeOK
  BY DEF AuthTypeInv
<1> QED
  BY <1>1, AuthTypesStrong, PTL

----------------------------------------------------------------------------
(* The cookie                                                              *)

Delivering(t) == call[t].pc \in {"signin", "receive"}

(* Tokens on their way to the browser are known to nobody else.            *)
NewIsNew ==
  \A t \in Tabs : Delivering(t) =>
    /\ call[t].new \notin {0, jar.refresh, store.refresh}
    /\ \A u \in Tabs : call[u].used # call[t].new
    /\ \A u \in Tabs \ {t} : Delivering(u) => call[u].new # call[t].new

NewIsLive == others = 0 => \A t \in Tabs : Delivering(t) => call[t].new \in live

JarInv ==
  /\ AuthTypeInv /\ NewIsNew /\ NewIsLive /\ JarUsable
  /\ ~Cookies => jar.refresh = 0

LEMMA JarInit == Init => JarInv
BY AuthTypeInit DEF Init, JarInv, NewIsNew, NewIsLive, JarUsable, Delivering, None, At

(* A new token is no token of before.                                      *)
LEMMA FreshNumber ==
  ASSUME AuthTypeOK, IssueTokens
  PROVE  /\ issued' \notin {0, jar.refresh, store.refresh}
         /\ \A u \in Tabs : issued' \notin {call[u].used, call[u].new}
         /\ live' = live \cup {issued'}
BY IssuedMore DEF AuthTypeOK, Pair, Call, IssueTokens

LEMMA JarStep ==
  ASSUME JarInv, NEW t \in Tabs, Step(t)
  PROVE  JarInv'
<1>0. /\ AuthTypeOK /\ AuthTypeInv'
      /\ call[t] \in Call /\ jar \in Pair /\ store \in Pair
  BY StepType, StepFresh DEF JarInv, AuthTypeInv, AuthTypeOK
<1> USE DEF JarInv, NewIsNew, NewIsLive, JarUsable, Delivering, Replacing
<1>1. ASSUME SignIn(t) PROVE JarInv'
  <2>1. /\ call'[t] = [At("signin") EXCEPT !.new = issued']
        /\ \A u \in Tabs \ {t} : call'[u] = call[u]
        /\ call[t].pc = "login"
    BY <1>0, <1>1, TurnCalls DEF SignIn
  <2>2. IssueTokens /\ UNCHANGED <<jar, store, aborts, others>>
    BY <1>1 DEF SignIn
  <2> QED
    BY <1>0, <2>1, <2>2, FreshNumber DEF At
<1>2. ASSUME Issue(t) PROVE JarInv'
  <2>1. /\ call'[t] = [call[t] EXCEPT !.pc = "receive", !.new = issued']
        /\ \A u \in Tabs \ {t} : call'[u] = call[u]
        /\ call[t].pc = "issue"
    BY <1>0, <1>2, TurnCalls DEF Issue
  <2>2. IssueTokens /\ UNCHANGED <<jar, store, aborts, others>>
    BY <1>2 DEF Issue
  <2>3. call'[t].pc = "receive" /\ call'[t].new = issued' /\ call'[t].used = call[t].used
    BY <1>0, <2>1 DEF Call
  <2>4. /\ issued' \notin {0, jar.refresh, store.refresh}
        /\ \A u \in Tabs : issued' \notin {call[u].used, call[u].new}
        /\ live' = live \cup {issued'}
    BY <1>0, <2>2, FreshNumber
  <2>5. \A u \in Tabs : call'[u].used = call[u].used
    BY <2>1, <2>3
  <2>6. \A u \in Tabs \ {t} : call'[u].pc = call[u].pc /\ call'[u].new = call[u].new
    BY <2>1
  <2>7. NewIsNew'
    BY <2>2, <2>3, <2>4, <2>5, <2>6
  <2>8. NewIsLive'
    BY <2>2, <2>3, <2>4, <2>6
  <2>9. JarUsable'
    <3>1. \A u \in Tabs : Replacing(u) => Replacing(u)'
      BY <2>1, <2>3
    <3> QED
      BY <2>2, <2>4, <2>5, <3>1
  <2> QED
    BY <1>0, <2>2, <2>7, <2>8, <2>9
<1>3. ASSUME SignInReceive(t) \/ Receive(t) PROVE JarInv'
  <2>1. /\ \A u \in Tabs \ {t} : call'[u] = call[u]
        /\ call'[t].pc \in {"page", "retry"} /\ call'[t].used = 0
    BY <1>0, <1>3, TurnCalls DEF SignInReceive, Receive, At
  <2>2. /\ Delivering(t)
        /\ jar' = IF Cookies THEN [access |-> call[t].new, refresh |-> call[t].new] ELSE jar
        /\ store'.refresh \in {call[t].new, store.refresh}
        /\ UNCHANGED <<live, aborts, others>>
    BY <1>0, <1>3 DEF SignInReceive, Receive, Keep, Pair
  <2> QED
    BY <1>0, <2>1, <2>2
<1>4. ASSUME OpenPage(t) \/ Guard(t) \/ Refuse(t) \/ Retry(t) \/ Send(t) PROVE JarInv'
  <2>1. /\ \A u \in Tabs \ {t} : call'[u] = call[u]
        /\ ~Delivering(t)' /\ call'[t].used = 0 /\ ~Replacing(t)
    BY <1>0, <1>4, TurnCalls DEF OpenPage, Guard, Refuse, Retry, Send, At
  <2>2. UNCHANGED <<jar, store, live, aborts, others>>
    BY <1>4 DEF OpenPage, Guard, Refuse, Retry, Send
  <2> QED
    BY <1>0, <2>1, <2>2
<1>5. ASSUME StartRefresh(t) \/ Logout(t) PROVE JarInv'
  <2>1. /\ \A u \in Tabs \ {t} : call'[u] = call[u]
        /\ ~Delivering(t)' /\ call'[t].used \in {0, jar.refresh, store.refresh}
        /\ ~Replacing(t)
    BY <1>0, <1>5, TurnCalls DEF StartRefresh, Logout, Credential, At
  <2>2. UNCHANGED <<jar, store, live, aborts, others>>
    BY <1>5 DEF StartRefresh, Logout
  <2> QED
    BY <1>0, <2>1, <2>2
<1>6. ASSUME Accept(t) PROVE JarInv'
  <2>1. /\ \A u \in Tabs \ {t} : call'[u] = call[u]
        /\ ~Delivering(t)' /\ call'[t].used = call[t].used /\ ~Replacing(t)
    BY <1>0, <1>6, TurnCalls DEF Accept, Call
  <2> QED
    BY <1>0, <1>6, <2>1 DEF Accept
<1>7. ASSUME Revoke(t) \/ LogoutRevoke(t) PROVE JarInv'
  <2>1. /\ \A u \in Tabs \ {t} : call'[u] = call[u]
        /\ ~Delivering(t)' /\ call'[t].used = call[t].used /\ Replacing(t)' /\ ~Replacing(t)
    BY <1>0, <1>7, TurnCalls DEF Revoke, LogoutRevoke, Call
  <2>2. live' = live \ {call[t].used} /\ UNCHANGED <<jar, store, aborts, others>>
    BY <1>7 DEF Revoke, LogoutRevoke
  <2> QED
    BY <1>0, <2>1, <2>2
<1>8. ASSUME Leave(t) \/ LogoutReceive(t) PROVE JarInv'
  <2>1. /\ \A u \in Tabs \ {t} : call'[u] = call[u]
        /\ ~Delivering(t)' /\ call'[t].used = 0
        /\ jar'.refresh = 0 \/ (jar' = jar /\ ~Replacing(t))
        /\ store'.refresh \in {0, store.refresh}
        /\ UNCHANGED <<live, aborts, others>>
    BY <1>0, <1>8, TurnCalls DEF Leave, LogoutReceive, At, None
  <2>2. JarUsable' /\ (~Cookies => jar.refresh = 0)'
    BY <2>1
  <2>3. NewIsNew' /\ NewIsLive'
    BY <2>1
  <2> QED
    BY <1>0, <2>2, <2>3
<1> QED
  BY <1>1, <1>2, <1>3, <1>4, <1>5, <1>6, <1>7, <1>8 DEF Step, Refresh

LEMMA JarNext == JarInv /\ [Next]_vars => JarInv'
<1> SUFFICES ASSUME JarInv, [Next]_vars PROVE JarInv'
  OBVIOUS
<1>0. AuthTypeOK /\ AuthTypeInv'
  BY AuthTypeNext DEF JarInv, AuthTypeInv
<1>1. ASSUME NEW t \in Tabs, Step(t) PROVE JarInv'
  BY <1>1, JarStep
<1> USE DEF JarInv, NewIsNew, NewIsLive, JarUsable, Delivering, Replacing
<1>2. ASSUME NEW t \in Tabs, Abort(t) PROVE JarInv'
  <2>1. AfterFailure(call[t].pc) \in {"leave", "login", "page"}
    BY DEF AfterFailure
  <2>2. /\ \A u \in Tabs \ {t} : call'[u] = call[u]
        /\ ~Delivering(t)' /\ call'[t].used = 0
        /\ UNCHANGED <<live, jar, store, others>>
        /\ aborts' # 0
    BY <1>0, <1>2, <2>1, TurnCalls DEF Abort, At, AuthTypeOK
  <2> QED
    BY <1>0, <2>2
<1>3. ASSUME NEW n \in fresh, Expire(n) PROVE JarInv'
  <2>1. jar'.refresh = jar.refresh /\ UNCHANGED <<live, store, call, aborts, others>>
    BY <1>0, <1>3 DEF Expire, AuthTypeOK, Pair
  <2> QED
    BY <1>0, <2>1
<1>4. ASSUME RevokeAll PROVE JarInv'
  BY <1>0, <1>4 DEF RevokeAll, AuthTypeOK
<1>5. CASE UNCHANGED vars
  BY <1>0, <1>5 DEF vars
<1> QED
  BY <1>1, <1>2, <1>3, <1>4, <1>5 DEF Next

(* As long as no request fails and no other device revokes the tokens, a   *)
(* revoked refresh cookie is about to be replaced or cleared, however many *)
(* tabs refresh, sign in and sign out in whatever order.                   *)
THEOREM CookieStaysUsable == Spec => []JarUsable
<1>1. JarInv => JarUsable
  BY DEF JarInv
<1> QED
  BY <1>1, JarInit, JarNext, PTL DEF Spec

----------------------------------------------------------------------------
(* The session                                                             *)

OneExchange == session # "unsure" =>
  \A t, u \in Tabs : Exchanging(t) /\ Exchanging(u) => t = u

(* A user who is signing in is about to get live tokens.                   *)
WhileSigning == session = "signing" =>
  /\ \E t \in Tabs : call[t].pc = "signin"
  /\ \A t \in Tabs : Exchanging(t) => call[t].pc = "signin" /\ call[t].new \in live

(* A user who is signed in has a live cookie, unless the one exchange that *)
(* is going on has revoked it: that one carries what replaces it.  What    *)
(* localStorage holds is that token or dead.                               *)
WhileIn == session = "in" =>
  /\ store.refresh \in live => store.refresh = jar.refresh
  /\ (\A t \in Tabs : ~Exchanging(t)) => jar.refresh \in live
  /\ \A t \in Tabs :
       /\ call[t].pc \notin {"signin", "leave"}
       /\ call[t].pc \in {"refresh", "revoke", "logout"} =>
            call[t].used = jar.refresh /\ jar.refresh \in live
       /\ call[t].pc \in {"issue", "receive", "clear"} => jar.refresh \notin live
       /\ call[t].pc = "receive" => call[t].new \in live

(* A user who is signed out has dead tokens, and no call gets new ones.    *)
WhileOut == session = "out" =>
  /\ jar.access = 0 /\ jar.refresh \notin live /\ store.refresh \notin live
  /\ \A t \in Tabs : /\ call[t].pc \notin {"signin", "revoke", "issue", "receive"}
                     /\ call[t].pc \in {"refresh", "logout"} => call[t].used \notin live

SessionInv == AuthTypeInv /\ OneExchange /\ WhileSigning /\ WhileIn /\ WhileOut

LEMMA SessionInit == Init => SessionInv
BY AuthTypeInit
   DEF Init, SessionInv, OneExchange, WhileSigning, WhileIn, WhileOut, Exchanging, At, None

(* An unsure user is promised nothing.                                     *)
LEMMA UnsureSession ==
  ASSUME AuthTypeInv', session' = "unsure"
  PROVE  SessionInv'
BY DEF SessionInv, OneExchange, WhileSigning, WhileIn, WhileOut

LEMMA SessionStep ==
  ASSUME Cookies, SessionInv, NEW t \in Tabs, Step(t), session' # "unsure"
  PROVE  SessionInv'
<1>0. /\ AuthTypeOK /\ NewFresh /\ AuthTypeInv'
      /\ call[t] \in Call /\ jar \in Pair /\ store \in Pair
      /\ 0 \notin live
  BY StepType, StepFresh DEF SessionInv, AuthTypeInv, AuthTypeOK, Token
<1> USE DEF SessionInv, OneExchange, WhileSigning, WhileIn, WhileOut, Exchanging
<1>1. ASSUME SignIn(t) PROVE SessionInv'
  <2>1. /\ call'[t] = [At("signin") EXCEPT !.new = issued']
        /\ \A u \in Tabs \ {t} : call'[u] = call[u]
        /\ call[t].pc = "login" /\ IssueTokens
    BY <1>0, <1>1, TurnCalls DEF SignIn
  <2>2. session' = "signing" /\ \A u \in Tabs \ {t} : ~Exchanging(u)
    BY <1>1 DEF SignIn, Overlaps
  <2>3. issued' \in live'
    BY <2>1 DEF IssueTokens
  <2> QED
    BY <1>0, <2>1, <2>2, <2>3 DEF At
<1>2. ASSUME Issue(t) PROVE SessionInv'
  <2>1. /\ call'[t] = [call[t] EXCEPT !.pc = "receive", !.new = issued']
        /\ \A u \in Tabs \ {t} : call'[u] = call[u]
        /\ call[t].pc = "issue" /\ IssueTokens
        /\ UNCHANGED <<jar, store, session>>
    BY <1>0, <1>2, TurnCalls DEF Issue
  <2>2. session = "in" /\ \A u \in Tabs \ {t} : ~Exchanging(u)
    BY <1>0, <2>1 DEF AuthTypeOK
  <2>3. /\ issued' \notin {0, jar.refresh, store.refresh}
        /\ live' = live \cup {issued'}
    BY <1>0, <2>1, FreshNumber
  <2>4. call'[t].pc = "receive" /\ call'[t].new = issued'
    BY <1>0, <2>1 DEF Call
  <2> QED
    BY <1>0, <2>1, <2>2, <2>3, <2>4
<1>3. ASSUME SignInReceive(t) PROVE SessionInv'
  <2>1. /\ call'[t] = At("page")
        /\ \A u \in Tabs \ {t} : call'[u] = call[u]
        /\ call[t].pc = "signin" /\ live' = live
        /\ session = "signing" /\ session' = "in"
        /\ jar'.refresh = call[t].new /\ store'.refresh = call[t].new
    BY <1>0, <1>3, TurnCalls DEF SignInReceive, Keep
  <2>2. call[t].new \in live /\ \A u \in Tabs \ {t} : ~Exchanging(u)
    BY <2>1
  <2> QED
    BY <1>0, <2>1, <2>2 DEF At
<1>4. ASSUME Receive(t) PROVE SessionInv'
  <2>1. /\ call'[t].pc = "retry"
        /\ \A u \in Tabs \ {t} : call'[u] = call[u]
        /\ call[t].pc = "receive" /\ live' = live /\ session' = session
        /\ jar'.refresh = call[t].new /\ store'.refresh = store.refresh
    BY <1>0, <1>4, TurnCalls DEF Receive, Keep, At, Pair
  <2>2. session = "in" /\ \A u \in Tabs \ {t} : ~Exchanging(u)
    BY <1>0, <2>1 DEF AuthTypeOK
  <2>3. call[t].new \in live /\ store.refresh \notin live
    BY <2>1, <2>2
  <2> QED
    BY <1>0, <2>1, <2>2, <2>3
<1>5. ASSUME OpenPage(t) \/ Guard(t) \/ Send(t) \/ Retry(t) PROVE SessionInv'
  <2>1. /\ call'[t].pc \in {"page", "denied", "sent"}
        /\ \A u \in Tabs \ {t} : call'[u] = call[u]
        /\ ~Exchanging(t)
        /\ UNCHANGED <<live, jar, store, session>>
    BY <1>0, <1>5, TurnCalls DEF OpenPage, Guard, Send, Retry, At, NewFresh
  <2> QED
    BY <1>0, <2>1
<1>6. ASSUME Refuse(t) PROVE SessionInv'
  <2>1. /\ call'[t].pc = "leave" /\ call[t].pc = "refresh" /\ call[t].used \notin live
        /\ \A u \in Tabs \ {t} : call'[u] = call[u]
        /\ UNCHANGED <<live, jar, store, session>>
    BY <1>0, <1>6, TurnCalls DEF Refuse, At
  <2>2. session = "out"
    BY <1>0, <2>1, <1>6 DEF AuthTypeOK
  <2> QED
    BY <1>0, <2>1, <2>2
<1>7. ASSUME StartRefresh(t) \/ Logout(t) PROVE SessionInv'
  <2>1. /\ call'[t].pc \in {"refresh", "logout"} /\ ~Exchanging(t)
        /\ call'[t].used \in {Credential, jar.refresh}
        /\ \A u \in Tabs \ {t} : call'[u] = call[u]
        /\ UNCHANGED <<live, jar, store, session>>
        /\ \A u \in Tabs \ {t} : ~Exchanging(u)
    BY <1>0, <1>7, TurnCalls DEF StartRefresh, Logout, Begin, Overlaps, At
  <2>2. /\ session = "in" => call'[t].used = jar.refresh
        /\ session = "out" => call'[t].used \notin live
    BY <1>0, <2>1 DEF Credential
  <2> QED
    BY <1>0, <2>1, <2>2
<1>8. ASSUME Accept(t) PROVE SessionInv'
  <2>1. /\ call'[t].pc = "revoke" /\ call[t].pc = "refresh" /\ call[t].used \in live
        /\ call'[t].used = call[t].used
        /\ \A u \in Tabs \ {t} : call'[u] = call[u]
        /\ UNCHANGED <<live, jar, store, session>>
    BY <1>0, <1>8, TurnCalls DEF Accept, Call
  <2>2. session = "in"
    BY <1>0, <2>1, <1>8 DEF AuthTypeOK
  <2> QED
    BY <1>0, <2>1, <2>2
<1>9. ASSUME Revoke(t) \/ LogoutRevoke(t) PROVE SessionInv'
  <2>1. /\ call'[t].pc \in {"issue", "clear"} /\ call[t].pc \in {"revoke", "logout"}
        /\ call[t].pc = "revoke" => call'[t].pc = "issue"
        /\ call[t].pc = "logout" => call'[t].pc = "clear"
        /\ \A u \in Tabs \ {t} : call'[u] = call[u]
        /\ live' = live \ {call[t].used}
        /\ UNCHANGED <<jar, store, session>>
    BY <1>0, <1>9, TurnCalls DEF Revoke, LogoutRevoke, Call
  <2>2. session \in {"in", "out"} /\ \A u \in Tabs \ {t} : ~Exchanging(u)
    BY <1>0, <2>1 DEF AuthTypeOK
  <2> QED
    BY <1>0, <2>1, <2>2
<1>10. ASSUME Leave(t) PROVE SessionInv'
  <2>1. /\ call'[t].pc = "login" /\ call[t].pc = "leave"
        /\ \A u \in Tabs \ {t} : call'[u] = call[u]
        /\ store'.refresh = 0
        /\ UNCHANGED <<live, jar, session>>
    BY <1>0, <1>10, TurnCalls DEF Leave, At, None
  <2>2. session = "out"
    BY <1>0, <2>1 DEF AuthTypeOK
  <2> QED
    BY <1>0, <2>1, <2>2
<1>11. ASSUME LogoutReceive(t) PROVE SessionInv'
  <2>1. /\ call'[t].pc = "login" /\ call[t].pc = "clear"
        /\ \A u \in Tabs \ {t} : call'[u] = call[u]
        /\ jar'.access = 0 /\ jar'.refresh = 0 /\ session' = "out" /\ session # "unsure"
        /\ UNCHANGED <<live, store>>
    BY <1>0, <1>11, TurnCalls DEF LogoutReceive, At, None
  <2>2. session \in {"in", "out"} /\ \A u \in Tabs \ {t} : ~Exchanging(u)
    BY <1>0, <2>1 DEF AuthTypeOK
  <2>3. store.refresh \notin live
    BY <2>1, <2>2
  <2> QED
    BY <1>0, <2>1, <2>2, <2>3
<1> QED
  BY <1>1, <1>2, <1>3, <1>4, <1>5, <1>6, <1>7, <1>8, <1>9, <1>10, <1>11 DEF Step, Refresh

LEMMA SessionNext ==
  ASSUME Cookies, SessionInv, [Next]_vars
  PROVE  SessionInv'
<1>0. AuthTypeOK /\ AuthTypeInv'
  BY AuthTypeNext DEF SessionInv, AuthTypeInv
<1>1. ASSUME NEW t \in Tabs, Step(t) PROVE SessionInv'
  BY <1>0, <1>1, SessionStep, UnsureSession
<1>2. ASSUME (\E t \in Tabs : Abort(t)) \/ RevokeAll PROVE SessionInv'
  BY <1>0, <1>2, UnsureSession DEF Abort, RevokeAll
<1> USE DEF SessionInv, OneExchange, WhileSigning, WhileIn, WhileOut, Exchanging
<1>3. ASSUME NEW n \in fresh, Expire(n) PROVE SessionInv'
  <2>1. /\ jar'.refresh = jar.refresh /\ (jar.access = 0 => jar'.access = 0)
        /\ UNCHANGED <<live, store, call, session>>
    BY <1>0, <1>3 DEF Expire, AuthTypeOK, Pair
  <2> QED
    BY <1>0, <2>1
<1>4. CASE UNCHANGED vars
  BY <1>0, <1>4 DEF vars
<1> QED
  BY <1>1, <1>2, <1>3, <1>4 DEF Next

LEMMA SessionAlways == ASSUME Cookies PROVE Spec => []SessionInv
<1>1. SessionInv /\ [Next]_vars => SessionInv'
  BY SessionNext
<1> QED
  BY <1>1, SessionInit, PTL DEF Spec

(* In a browser that keeps cookies, a user who has signed in is not sent   *)
(* to the login page, however often access tokens expire, unless requests  *)
(* that change the session have overlapped or failed.                      *)
THEOREM UsersStaySignedIn == ASSUME Cookies PROVE Spec => []StaysSignedIn
<1>1. SessionInv => StaysSignedIn
  BY DEF SessionInv, WhileIn, StaysSignedIn
<1> QED
  BY <1>1, SessionAlways, PTL

(* In a browser that keeps cookies, signing out leaves no good cookie and  *)
(* no refresh token that the API takes, although localStorage keeps the    *)
(* one of the sign-in, and an access token until it expires.               *)
THEOREM SigningOutIsFinal == ASSUME Cookies PROVE Spec => []SignedOut
<1>1. SessionInv => SignedOut
  BY DEF SessionInv, AuthTypeInv, AuthTypeOK, Token, WhileOut, SignedOut
<1> QED
  BY <1>1, SessionAlways, PTL

=============================================================================
