--------------------------- MODULE WebSessionProofs ---------------------------
(***************************************************************************)
(* Theorems about WebSession, for every number of accounts, of calls under *)
(* way, of logins, reloads, expiries and faults.                           *)
(***************************************************************************)
EXTENDS WebSession, TLAPS, FiniteSetTheorems

-------------------------------------------------------------------------------
(* What the operators of the tab return.                                   *)

Paths   == {"none", "restore", "login", "me", "wallet", "data", "revoke"}
MyKinds == {"none", "boot", "login", "use", "logout"}

LEMMA KnownTokens ==
  ASSUME server.issued \in Nat, NEW t \in Known
  PROVE  /\ t.user \in Account /\ t.n \in Nat /\ t.n <= server.issued
         /\ t \in Tokens <=> t # NoToken
         /\ t # NoToken => t.user \in Users /\ t.n > 0
<1>1. NoToken = [user |-> None, n |-> 0]
  BY DEF NoToken, Token
<1>2. CASE t = NoToken
  BY <1>1, <1>2 DEF Account, Tokens
<1>3. CASE t # NoToken
  <2>1. t \in Tokens
    BY <1>3 DEF Known
  <2> QED BY <1>3, <2>1 DEF Account, Tokens
<1> QED BY <1>2, <1>3

LEMMA ConstantsAreTyped ==
  /\ NoToken \in Known
  /\ Refused \in Response
  /\ Idle \in Call
BY DEF Known, NoToken, Token, Refused, Answer, Response, Idle, Call

LEMMA SentIsCall ==
  ASSUME NEW p \in Page, NEW kind \in MyKinds, NEW path \in Paths
  PROVE  Send(p, kind, path) \in Call
BY ConstantsAreTyped DEF Send, Page, Call, MyKinds, Paths

LEMMA AwaitingIsCall ==
  ASSUME NEW kind \in MyKinds, NEW path \in Paths
  PROVE  Awaiting(kind, path) \in Call
BY ConstantsAreTyped DEF Awaiting, Call, MyKinds, Paths

\* The next request of a chain: none, or one sent with the page's token.
LEMMA FollowUpSends ==
  ASSUME NEW p, NEW t, NEW ok
  PROVE  \/ /\ FollowUp(p, t, ok) = Idle
            /\ ~ (ok /\ t.path \in {"restore", "login", "me"})
         \/ /\ FollowUp(p, t, ok) = Send(p, t.kind, "me")
            /\ ok /\ t.path \in {"restore", "login"}
         \/ /\ FollowUp(p, t, ok) = Send(p, t.kind, "wallet")
            /\ ok /\ t.path = "me"
         \/ /\ FollowUp(p, t, ok) = Send(p, t.kind, "data")
            /\ t.path = "wallet"
<1>1. CASE ok /\ t.path \in {"restore", "login"}
  BY <1>1 DEF FollowUp
<1>2. CASE ok /\ t.path = "me"
  BY <1>2 DEF FollowUp
<1>3. CASE t.kind = "boot" /\ t.path = "wallet"
  BY <1>3 DEF FollowUp
<1> QED BY <1>1, <1>2, <1>3 DEF FollowUp

LEMMA FollowUpIsCall ==
  ASSUME NEW p \in Page, NEW t \in Call, NEW ok
  PROVE  FollowUp(p, t, ok) \in Call
<1>1. t.kind \in MyKinds /\ {"me", "wallet", "data"} \subseteq Paths
  BY DEF Call, MyKinds, Paths
<1> QED BY <1>1, FollowUpSends, SentIsCall, ConstantsAreTyped

LEMMA RetriedIsCall ==
  ASSUME NEW p \in Page, NEW t \in Call
  PROVE  Retried(p, t) \in Call
<1>1. t.kind \in MyKinds /\ t.path \in Paths
  BY DEF Call, MyKinds, Paths
<1>2. \A x \in Call : [x EXCEPT !.retry = FALSE] \in Call
  BY DEF Call
<1>3. [Send(p, t.kind, t.path) EXCEPT !.retry = FALSE] \in Call
  BY <1>1, <1>2, SentIsCall
<1> QED BY <1>3, FollowUpIsCall DEF Retried

\* What a page becomes by an answer, a failure, or the end of its session.
LEMMA AcceptedIsPage ==
  ASSUME server.issued \in Nat, NEW p \in Page, NEW t \in Call
  PROVE  Accepted(p, t) \in Page
<1>1. t.answer.token \in Known /\ t.answer.token.user \in Account
  BY KnownTokens DEF Call, Response
<1>2. NoToken \in Known
  BY ConstantsAreTyped
<1> QED BY <1>1, <1>2 DEF Accepted, Page

LEMMA FailedIsPage ==
  ASSUME NEW p \in Page, NEW t
  PROVE  /\ clearSessionState(p) \in Page
         /\ notifyUnauthorized(p) \in Page
         /\ Failed(p, t) \in Page
         /\ AllFailed(p) \in Page
<1>1. NoToken \in Known /\ None \in Account
  BY ConstantsAreTyped DEF Account
<1>2. clearSessionState(p) \in Page
  BY <1>1 DEF clearSessionState, Page
<1>3. notifyUnauthorized(p) \in Page
  BY <1>1, <1>2 DEF notifyUnauthorized, Page
<1>4. Failed(p, t) \in Page
  BY <1>1, <1>2 DEF Failed, Page
<1>5. AllFailed(p) \in Page
  BY <1>2 DEF AllFailed, Page
<1> QED BY <1>2, <1>3, <1>4, <1>5

\* The fields of those pages.
LEMMA AcceptedFields ==
  ASSUME NEW p \in Page, NEW t
  PROVE  LET q == Accepted(p, t) IN
         /\ q.cookie = p.cookie
         /\ q.token  = IF t.path = "login" THEN t.answer.token
                       ELSE IF t.path = "revoke" THEN NoToken ELSE p.token
         /\ q.auth   = (t.path \in {"login", "me"} \/ p.auth)
         /\ q.user   = IF t.path = "me" THEN t.answer.token.user ELSE p.user
         /\ q.wallet = IF t.path = "wallet" THEN t.answer.token.user ELSE p.wallet
BY DEF Accepted, Page

LEMMA FailedFields ==
  ASSUME NEW p \in Page, NEW t
  PROVE  LET q == Failed(p, t) IN
         /\ q.cookie = p.cookie
         /\ q.token  = IF t.path = "revoke" THEN NoToken ELSE p.token
         /\ IF t.path \in {"restore", "me"}
            THEN ~ q.auth /\ q.user = None /\ q.wallet = None
            ELSE q.auth = p.auth /\ q.user = p.user /\ q.wallet = p.wallet
BY DEF Failed, clearSessionState, Page

LEMMA AllFailedFields ==
  ASSUME NEW p \in Page
  PROVE  LET q == AllFailed(p) IN
         /\ q.cookie = p.cookie /\ q.token = p.token
         /\ \/ ~ q.auth /\ q.user = None /\ q.wallet = None
            \/ /\ q.auth = p.auth /\ q.user = p.user /\ q.wallet = p.wallet
               /\ \A c \in Awaiters : calls[c].path \notin {"restore", "me"}
BY DEF AllFailed, clearSessionState, Page

LEMMA ClearedFields ==
  ASSUME NEW p \in Page
  PROVE  /\ LET q == clearSessionState(p) IN
            /\ q.cookie = p.cookie /\ q.token = p.token
            /\ ~ q.auth /\ q.user = None /\ q.wallet = None
         /\ LET q == notifyUnauthorized(p) IN
            /\ q.cookie = p.cookie /\ q.token = NoToken
            /\ ~ q.auth /\ q.user = None /\ q.wallet = None
BY DEF clearSessionState, notifyUnauthorized, Page

-------------------------------------------------------------------------------
(* The actions, case by case.                                              *)

\* The page once the browser has applied the cookie of an answer.
Applying(answer) == [page EXCEPT !.cookie = Applied(answer)]

ReceiveOk(c) ==
    LET t == calls[c]
        p == Applying(t.answer)
    IN  /\ t.phase = "served" /\ t.answer.ok
        /\ page' = Accepted(p, t)
        /\ calls' = [calls EXCEPT ![c] = FollowUp(Accepted(p, t), t, TRUE)]
        /\ kept' = (kept \/ t.path = "login")
        /\ UNCHANGED <<refreshPromise, revoked, server, spent>>

ReceiveExpired(c) ==
    LET t == calls[c]
        p == Applying(t.answer)
    IN  /\ t.phase = "served" /\ ~ t.answer.ok /\ Refreshable(t)
        /\ page' = p
        /\ StartRefresh(p)
        /\ calls' = [calls EXCEPT ![c] = Awaiting(t.kind, t.path)]
        /\ UNCHANGED <<server, spent, kept, revoked>>

ReceiveRefused(c) ==
    LET t == calls[c]
        p == Applying(t.answer)
    IN  /\ t.phase = "served" /\ ~ t.answer.ok /\ ~ Refreshable(t)
        /\ page' = Failed(p, t)
        /\ calls' = [calls EXCEPT ![c] = FollowUp(Failed(p, t), t, FALSE)]
        /\ UNCHANGED <<refreshPromise, server, spent, kept, revoked>>

LEMMA ReceiveCases ==
  ASSUME NEW c, Receive(c)
  PROVE  ReceiveOk(c) \/ ReceiveExpired(c) \/ ReceiveRefused(c)
BY DEF Receive, ReceiveOk, ReceiveExpired, ReceiveRefused, Applying, history

\* A refresh token that is accepted is rotated.
Rotated ==
    LET old   == refreshPromise.cookie
        token == Token(old.user, server.issued + 1)
    IN  /\ refreshPromise.phase = "sent" /\ old \in server.valid
        /\ server' = Issued(Blacklisted(server, old), old.user)
        /\ refreshPromise' = [refreshPromise EXCEPT !.phase = "served",
                                !.answer = Setting(Answer(TRUE, token), token)]
        /\ UNCHANGED <<page, calls, spent, kept, revoked>>

NotRotated ==
    LET old == refreshPromise.cookie
    IN  /\ refreshPromise.phase = "sent" /\ old \notin server.valid
        /\ refreshPromise' = [refreshPromise EXCEPT !.phase = "served",
                !.answer = IF old = NoToken THEN Setting(Refused, NoToken) ELSE Refused]
        /\ UNCHANGED <<page, calls, server, spent, kept, revoked>>

LEMMA RefreshCases ==
  ASSUME TokenRefreshAuditView
  PROVE  Rotated \/ NotRotated
BY DEF TokenRefreshAuditView, Rotated, NotRotated, history

\* The promise resolves: everyone who awaits it goes on with the new token.
Renews ==
    LET answer == refreshPromise.answer
        q == [Applying(answer) EXCEPT !.token = answer.token]
    IN  /\ refreshPromise.phase = "served" /\ answer.ok
        /\ refreshPromise' = NoPromise
        /\ page' = q
        /\ calls' = [c \in Calls |-> IF c \in Awaiters THEN Retried(q, calls[c])
                                     ELSE calls[c]]
        /\ UNCHANGED <<server, spent, kept, revoked>>

\* It fails, with an answer or without: everyone who awaits it has failed.
Expels(p) ==
    /\ refreshPromise.phase # "none"
    /\ refreshPromise' = NoPromise
    /\ RefreshFails(p)
    /\ UNCHANGED <<server, revoked>>

LEMMA ReceiveRefreshCases ==
  ASSUME ReceiveRefresh
  PROVE  \/ Renews
         \/ /\ refreshPromise.phase = "served" /\ ~ refreshPromise.answer.ok
            /\ Expels(notifyUnauthorized(Applying(refreshPromise.answer)))
            /\ UNCHANGED <<spent, kept>>
BY DEF ReceiveRefresh, Renews, Expels, Applying, history

LEMMA FaultOfRefreshCase ==
  ASSUME FaultOfRefresh
  PROVE  Expels(page) /\ Spend("fault") /\ kept' = FALSE
BY DEF FaultOfRefresh, Expels

\* A request is served.
Obtains(c) ==
    /\ calls[c].phase = "sent" /\ calls[c].path = "login"
    /\ TokenObtainPairAuditView(c)
    /\ UNCHANGED <<page, refreshPromise, spent, kept, revoked>>

Reads(c) ==
    /\ calls[c].phase = "sent" /\ calls[c].path \notin {"login", "revoke"}
    /\ ServeData(c)
    /\ UNCHANGED <<page, refreshPromise, server, spent, kept, revoked>>

Revokes(c) ==
    LET confirmed == calls[c].cookie \in server.valid \cup {NoToken}
    IN  /\ calls[c].phase = "sent" /\ calls[c].path = "revoke"
        /\ calls' = [calls EXCEPT ![c].phase = "served",
                        ![c].answer = Setting(Answer(confirmed, NoToken), NoToken)]
        /\ server' = Blacklisted(server, calls[c].cookie)
        /\ revoked' = (revoked \/ confirmed) /\ kept' = FALSE
        /\ UNCHANGED <<page, refreshPromise, spent>>

RevokesNot(c) ==
    /\ calls[c].phase = "sent" /\ calls[c].path = "revoke"
    /\ calls' = [calls EXCEPT ![c].phase = "served", ![c].answer = Refused]
    /\ UNCHANGED <<page, refreshPromise, server, spent, kept, revoked>>

LEMMA ServeCases ==
  ASSUME NEW c, Serve(c)
  PROVE  Obtains(c) \/ Reads(c) \/ Revokes(c) \/ RevokesNot(c)
<1>1. CASE calls[c].path = "login"
  BY <1>1 DEF Serve, Obtains, TokenObtainPairAuditView, history
<1>2. CASE calls[c].path = "revoke"
  BY <1>2 DEF Serve, Revokes, RevokesNot, TokenRevokeView, history
<1>3. CASE calls[c].path \notin {"login", "revoke"}
  BY <1>3 DEF Serve, Reads, ServeData, history
<1> QED BY <1>1, <1>2, <1>3

-------------------------------------------------------------------------------
(* Types.                                                                  *)

PromiseRecord == [phase : {"none", "sent", "served"}, cookie : Known, answer : Response]

ServerRecord == [issued : Nat, valid : SUBSET Tokens, fresh : SUBSET Tokens]

Types ==
    /\ page \in Page
    /\ calls \in [Calls -> Call]
    /\ refreshPromise \in PromiseRecord
    /\ server \in ServerRecord
    /\ spent \in [Kinds -> Nat] /\ kept \in BOOLEAN /\ revoked \in BOOLEAN

\* Issuing tokens makes none unknown.
LEMMA KnownGrows ==
  ASSUME server.issued \in Nat, server'.issued \in Nat, server.issued <= server'.issued
  PROVE  /\ Tokens \subseteq Tokens' /\ Known \subseteq Known'
         /\ Page \subseteq Page' /\ Call \subseteq Call'
         /\ Response \subseteq Response' /\ PromiseRecord \subseteq PromiseRecord'
<1>2. Tokens \subseteq Tokens'
  BY DEF Tokens
<1>3. Known \subseteq Known'
  BY <1>2 DEF Known
<1>4. Response \subseteq Response' /\ Page \subseteq Page'
  BY <1>3 DEF Response, Page
<1>5. Call \subseteq Call' /\ PromiseRecord \subseteq PromiseRecord'
  BY <1>3, <1>4 DEF Call, PromiseRecord
<1> QED BY <1>2, <1>3, <1>4, <1>5

\* The token a server issues is known from then on.
LEMMA IssueGrows ==
  ASSUME Types, NEW u \in Users, NEW s \in ServerRecord,
         s.issued = server.issued, server' = Issued(s, u)
  PROVE  /\ server' \in ServerRecord'
         /\ server'.issued = server.issued + 1
         /\ server'.valid = s.valid \cup {Token(u, server.issued + 1)}
         /\ server'.fresh = s.fresh \cup {Token(u, server.issued + 1)}
         /\ Token(u, server.issued + 1) \in Tokens'
         /\ Tokens \subseteq Tokens' /\ Known \subseteq Known'
         /\ Page \subseteq Page' /\ Call \subseteq Call'
         /\ Response \subseteq Response' /\ PromiseRecord \subseteq PromiseRecord'
<1>1. server.issued \in Nat
  BY DEF Types, ServerRecord
<1>2. /\ server'.issued = server.issued + 1
      /\ server'.valid = s.valid \cup {Token(u, server.issued + 1)}
      /\ server'.fresh = s.fresh \cup {Token(u, server.issued + 1)}
  BY DEF Issued, ServerRecord
<1>3. /\ Tokens \subseteq Tokens' /\ Known \subseteq Known'
      /\ Page \subseteq Page' /\ Call \subseteq Call'
      /\ Response \subseteq Response' /\ PromiseRecord \subseteq PromiseRecord'
  BY <1>1, <1>2, KnownGrows
<1>4. Token(u, server.issued + 1) \in Tokens'
  BY <1>1, <1>2 DEF Token, Tokens
<1>5. server' \in ServerRecord'
  <2>1. server' = [issued |-> server'.issued, valid |-> server'.valid, fresh |-> server'.fresh]
    BY <1>2 DEF Issued, ServerRecord
  <2>2. s.valid \subseteq Tokens /\ s.fresh \subseteq Tokens
    BY DEF ServerRecord
  <2>3. server'.valid \subseteq Tokens' /\ server'.fresh \subseteq Tokens'
    BY <1>2, <1>3, <1>4, <2>2
  <2>4. server'.issued \in Nat
    BY <1>1, <1>2
  <2> QED BY <2>1, <2>3, <2>4 DEF ServerRecord
<1> QED BY <1>2, <1>3, <1>4, <1>5

LEMMA BlacklistedIsServer ==
  ASSUME NEW s \in ServerRecord, NEW token
  PROVE  /\ Blacklisted(s, token) \in ServerRecord
         /\ Blacklisted(s, token).issued = s.issued
         /\ Blacklisted(s, token).valid = s.valid \ {token}
         /\ Blacklisted(s, token).fresh = s.fresh
BY DEF Blacklisted, ServerRecord

LEMMA ApplyingIsPage ==
  ASSUME Types, NEW answer \in Response
  PROVE  /\ Applying(answer) \in Page
         /\ Applying(answer).cookie = IF answer.sets THEN answer.cookie ELSE page.cookie
         /\ Applying(answer).token = page.token /\ Applying(answer).auth = page.auth
         /\ Applying(answer).user = page.user /\ Applying(answer).wallet = page.wallet
BY DEF Applying, Applied, Types, Page, Response

\* What the state of each call says of its request and its answer.
CallShape(t) ==
    /\ (t.phase = "idle") <=> (t.path = "none")
    /\ (t.phase = "idle") <=> (t.kind = "none")
    /\ t.path = "restore" => t.phase = "awaiting"
    /\ t.phase = "awaiting" => t.path \in {"restore", "me", "wallet", "data"}
    /\ t.path = "login" => t.kind = "login" /\ t.bearer.user \in Users
    /\ t.phase = "served" /\ t.path = "login" =>
         /\ t.answer.ok /\ t.answer.sets
         /\ t.answer.token # NoToken /\ t.answer.cookie = t.answer.token
    /\ t.phase = "served" /\ t.path = "revoke" => t.answer.cookie = NoToken
    /\ t.phase = "served" /\ t.path \in {"me", "wallet", "data"} =>
         /\ ~ t.answer.sets
         /\ t.answer.ok => t.answer.token = t.bearer /\ t.bearer # NoToken

PromiseShape ==
    /\ refreshPromise.phase = "served" =>
         IF refreshPromise.answer.ok
         THEN /\ refreshPromise.answer.sets
              /\ refreshPromise.answer.token # NoToken
              /\ refreshPromise.answer.cookie = refreshPromise.answer.token
         ELSE /\ refreshPromise.answer.cookie = NoToken
              /\ refreshPromise.answer.sets => refreshPromise.cookie = NoToken
    /\ refreshPromise.phase = "none" => \A c \in Calls : calls[c].phase # "awaiting"

LoginOnce ==
    \A c, d \in Calls : calls[c].kind = "login" /\ calls[d].kind = "login" => c = d

Opening == \E c \in Calls : calls[c].path = "login" /\ calls[c].phase = "sent"

\* A login that is under way has its refresh token still to come.
OneTokenEach ==
    /\ IsFiniteSet(server.valid)
    /\ Cardinality(server.valid) + (IF Opening THEN 1 ELSE 0) <= spent["login"]

ShapeInv ==
    /\ Types
    /\ \A c \in Calls : CallShape(calls[c])
    /\ PromiseShape
    /\ LoginOnce
    /\ OneTokenEach

LEMMA NewCallShapes ==
  ASSUME NEW p, NEW kind \in MyKinds \ {"none"}
  PROVE  /\ CallShape(Idle)
         /\ \A path \in {"me", "wallet", "data", "revoke"} : CallShape(Send(p, kind, path))
         /\ \A path \in {"restore", "me", "wallet", "data"} : CallShape(Awaiting(kind, path))
BY DEF CallShape, Send, Awaiting, Idle, Refused, Answer, MyKinds

LEMMA IdleIsShaped == CallShape(Idle)
BY DEF CallShape, Idle

LEMMA SentIsShaped ==
  ASSUME NEW p, NEW kind \in MyKinds \ {"none"}, NEW x,
         NEW path \in {"me", "wallet", "data", "revoke"}, x = Send(p, kind, path)
  PROVE  /\ CallShape(x) /\ x.kind = kind /\ x.path = path /\ x.phase = "sent" /\ x.retry
         /\ x.bearer = p.token /\ x.cookie = p.cookie
BY DEF CallShape, Send, MyKinds

LEMMA AwaitingIsShaped ==
  ASSUME NEW kind \in MyKinds \ {"none"}, NEW x,
         NEW path \in {"restore", "me", "wallet", "data"}, x = Awaiting(kind, path)
  PROVE  /\ CallShape(x) /\ x.kind = kind /\ x.path = path /\ x.phase = "awaiting"
         /\ ~ x.retry /\ x.bearer = NoToken /\ x.cookie = NoToken
BY DEF CallShape, Awaiting, Idle, MyKinds

\* How an answered call goes on, and how it gives up.
Onward(p, t)  == FollowUp(p, t, TRUE)
GivenUp(p, t) == FollowUp(p, t, FALSE)

LEMMA OnwardIsCall ==
  ASSUME NEW p \in Page, NEW t \in Call
  PROVE  Onward(p, t) \in Call /\ GivenUp(p, t) \in Call
BY FollowUpIsCall DEF Onward, GivenUp

LEMMA GoesOn ==
  ASSUME NEW p, NEW t, t.kind \in MyKinds \ {"none"}
  PROVE  LET x == Onward(p, t) IN
         /\ CallShape(x) /\ x.path \in {"none", "me", "wallet", "data"}
         /\ x.kind \in {"none", t.kind} /\ x.phase \in {"idle", "sent"}
         /\ x.phase = "sent" => x.bearer = p.token /\ x.cookie = p.cookie /\ x.retry
         /\ x.phase = "idle" => x.bearer = NoToken /\ x.cookie = NoToken
         /\ x.path = IF t.path \in {"restore", "login"} THEN "me"
                  ELSE IF t.path = "me" THEN "wallet"
                  ELSE IF t.path = "wallet" /\ t.kind = "boot" THEN "data" ELSE "none"
<1>0. ASSUME NEW path \in {"me", "wallet", "data"}
      PROVE  LET x == Send(p, t.kind, path) IN
             /\ CallShape(x) /\ x.phase = "sent" /\ x.retry /\ x.kind = t.kind
             /\ x.bearer = p.token /\ x.cookie = p.cookie /\ x.path = path
  <2>1. CallShape(Send(p, t.kind, path))
    BY NewCallShapes
  <2> QED BY <2>1 DEF Send
<1>1. /\ CallShape(Idle) /\ Idle.phase = "idle" /\ Idle.path = "none" /\ Idle.kind = "none"
      /\ Idle.bearer = NoToken /\ Idle.cookie = NoToken
  BY NewCallShapes DEF Idle
<1>2. CASE t.path \in {"restore", "login"}
  <2>1. Onward(p, t) = Send(p, t.kind, "me")
    BY <1>2 DEF Onward, GivenUp, FollowUp
  <2> QED BY <1>0, <1>2, <2>1
<1>3. CASE t.path = "me"
  <2>1. Onward(p, t) = Send(p, t.kind, "wallet")
    BY <1>3 DEF Onward, GivenUp, FollowUp
  <2> QED BY <1>0, <1>3, <2>1
<1>4. CASE t.path = "wallet" /\ t.kind = "boot"
  <2>1. Onward(p, t) = Send(p, t.kind, "data")
    BY <1>4 DEF Onward, GivenUp, FollowUp
  <2> QED BY <1>0, <1>4, <2>1
<1>5. CASE t.path \notin {"restore", "login", "me"} /\ ~ (t.path = "wallet" /\ t.kind = "boot")
  <2>1. Onward(p, t) = Idle
    BY <1>5 DEF Onward, GivenUp, FollowUp
  <2> QED BY <1>1, <1>5, <2>1
<1> QED BY <1>2, <1>3, <1>4, <1>5

LEMMA GivesUp ==
  ASSUME NEW p, NEW t, t.kind \in MyKinds \ {"none"}
  PROVE  LET x == GivenUp(p, t) IN
         /\ CallShape(x)
         /\ x.kind \in {"none", t.kind} /\ x.phase \in {"idle", "sent"}
         /\ x.phase = "sent" => x.bearer = p.token /\ x.cookie = p.cookie /\ x.retry
         /\ x.phase = "idle" => x.bearer = NoToken /\ x.cookie = NoToken
         /\ x.path = IF t.path = "wallet" /\ t.kind = "boot" THEN "data" ELSE "none"
<1>0. ASSUME NEW path \in {"me", "wallet", "data"}
      PROVE  LET x == Send(p, t.kind, path) IN
             /\ CallShape(x) /\ x.phase = "sent" /\ x.retry /\ x.kind = t.kind
             /\ x.bearer = p.token /\ x.cookie = p.cookie /\ x.path = path
  <2>1. CallShape(Send(p, t.kind, path))
    BY NewCallShapes
  <2> QED BY <2>1 DEF Send
<1>1. /\ CallShape(Idle) /\ Idle.phase = "idle" /\ Idle.path = "none" /\ Idle.kind = "none"
      /\ Idle.bearer = NoToken /\ Idle.cookie = NoToken
  BY NewCallShapes DEF Idle
<1>2. CASE t.path = "wallet" /\ t.kind = "boot"
  <2>1. GivenUp(p, t) = Send(p, t.kind, "data")
    BY <1>2 DEF Onward, GivenUp, FollowUp
  <2> QED BY <1>0, <1>2, <2>1
<1>3. CASE ~ (t.path = "wallet" /\ t.kind = "boot")
  <2>1. GivenUp(p, t) = Idle
    BY <1>3 DEF Onward, GivenUp, FollowUp
  <2> QED BY <1>1, <1>3, <2>1
<1> QED BY <1>2, <1>3

\* The same of a call of the state that goes on, gives up, is sent, or begins to wait.
LEMMA CallGoesOn ==
  ASSUME NEW c \in Calls, calls[c].kind \in MyKinds \ {"none"}, NEW p,
         calls'[c] = Onward(p, calls[c])
  PROVE  /\ CallShape(calls'[c]) /\ calls'[c].path \in {"none", "me", "wallet", "data"}
         /\ calls'[c].kind \in {"none", calls[c].kind} /\ calls'[c].phase \in {"idle", "sent"}
         /\ calls'[c].phase = "sent" =>
              calls'[c].bearer = p.token /\ calls'[c].cookie = p.cookie /\ calls'[c].retry
         /\ calls'[c].phase = "idle" => calls'[c].bearer = NoToken /\ calls'[c].cookie = NoToken
         /\ calls'[c].path = IF calls[c].path \in {"restore", "login"} THEN "me"
                          ELSE IF calls[c].path = "me" THEN "wallet"
                          ELSE IF calls[c].path = "wallet" /\ calls[c].kind = "boot" THEN "data" ELSE "none"
<1> DEFINE t == calls[c]
<1>1. t.kind \in MyKinds \ {"none"} /\ calls'[c] = Onward(p, t)
  OBVIOUS
<1> HIDE DEF t
<1>2. LET x == Onward(p, t) IN
      /\ CallShape(x) /\ x.path \in {"none", "me", "wallet", "data"}
      /\ x.kind \in {"none", t.kind} /\ x.phase \in {"idle", "sent"}
      /\ x.phase = "sent" =>
           x.bearer = p.token /\ x.cookie = p.cookie /\ x.retry
      /\ x.phase = "idle" => x.bearer = NoToken /\ x.cookie = NoToken
      /\ x.path = IF t.path \in {"restore", "login"} THEN "me"
               ELSE IF t.path = "me" THEN "wallet"
               ELSE IF t.path = "wallet" /\ t.kind = "boot" THEN "data" ELSE "none"
  BY <1>1, GoesOn
<1> QED BY <1>1, <1>2 DEF t

LEMMA CallGivesUp ==
  ASSUME NEW c \in Calls, calls[c].kind \in MyKinds \ {"none"}, NEW p,
         calls'[c] = GivenUp(p, calls[c])
  PROVE  /\ CallShape(calls'[c]) /\ calls'[c].path \in {"none", "me", "wallet", "data"}
         /\ calls'[c].kind \in {"none", calls[c].kind} /\ calls'[c].phase \in {"idle", "sent"}
         /\ calls'[c].phase = "sent" =>
              calls'[c].bearer = p.token /\ calls'[c].cookie = p.cookie /\ calls'[c].retry
         /\ calls'[c].phase = "idle" => calls'[c].bearer = NoToken /\ calls'[c].cookie = NoToken
         /\ calls'[c].path = IF calls[c].path = "wallet" /\ calls[c].kind = "boot" THEN "data"
                            ELSE "none"
<1> DEFINE t == calls[c]
<1>1. t.kind \in MyKinds \ {"none"} /\ calls'[c] = GivenUp(p, t)
  OBVIOUS
<1> HIDE DEF t
<1>2. LET x == GivenUp(p, t) IN
      /\ CallShape(x)
      /\ x.kind \in {"none", t.kind} /\ x.phase \in {"idle", "sent"}
      /\ x.phase = "sent" =>
           x.bearer = p.token /\ x.cookie = p.cookie /\ x.retry
      /\ x.phase = "idle" => x.bearer = NoToken /\ x.cookie = NoToken
      /\ x.path = IF t.path = "wallet" /\ t.kind = "boot" THEN "data" ELSE "none"
  BY <1>1, GivesUp
<1> QED BY <1>1, <1>2 DEF t

LEMMA CallIsSent ==
  ASSUME NEW c \in Calls, NEW p, NEW kind \in MyKinds \ {"none"},
         NEW path \in {"me", "wallet", "data", "revoke"}, calls'[c] = Send(p, kind, path)
  PROVE  /\ CallShape(calls'[c]) /\ calls'[c].kind = kind /\ calls'[c].path = path
         /\ calls'[c].phase = "sent" /\ calls'[c].retry
         /\ calls'[c].bearer = p.token /\ calls'[c].cookie = p.cookie
<1> DEFINE x == calls'[c]
<1>1. x = Send(p, kind, path)
  OBVIOUS
<1> HIDE DEF x
<1>2. /\ CallShape(x) /\ x.kind = kind /\ x.path = path /\ x.phase = "sent" /\ x.retry
      /\ x.bearer = p.token /\ x.cookie = p.cookie
  BY <1>1, SentIsShaped
<1> QED BY <1>2 DEF x

LEMMA CallAwaits ==
  ASSUME NEW c \in Calls, NEW kind \in MyKinds \ {"none"},
         NEW path \in {"restore", "me", "wallet", "data"}, calls'[c] = Awaiting(kind, path)
  PROVE  /\ CallShape(calls'[c]) /\ calls'[c].kind = kind /\ calls'[c].path = path
         /\ calls'[c].phase = "awaiting" /\ ~ calls'[c].retry
         /\ calls'[c].bearer = NoToken /\ calls'[c].cookie = NoToken
<1> DEFINE x == calls'[c]
<1>1. x = Awaiting(kind, path)
  OBVIOUS
<1> HIDE DEF x
<1>2. /\ CallShape(x) /\ x.kind = kind /\ x.path = path /\ x.phase = "awaiting"
      /\ ~ x.retry /\ x.bearer = NoToken /\ x.cookie = NoToken
  BY <1>1, AwaitingIsShaped
<1> QED BY <1>2 DEF x

LEMMA RetriedFields ==
  ASSUME NEW p, NEW t, t.kind \in MyKinds \ {"none"},
         t.path \in {"restore", "me", "wallet", "data"}
  PROVE  LET x == Retried(p, t) IN
         /\ CallShape(x)
         /\ x.phase = "sent" /\ x.kind = t.kind
         /\ x.bearer = p.token /\ x.cookie = p.cookie
         /\ x.path = IF t.path = "restore" THEN "me" ELSE t.path
<1>1. CASE t.path = "restore"
  BY <1>1, GoesOn DEF Retried, Onward, FollowUp, Send
<1>2. CASE t.path # "restore"
  BY <1>2 DEF Retried, Send, CallShape, MyKinds
<1> QED BY <1>1, <1>2

-------------------------------------------------------------------------------
(* What each action leaves behind, field by field.                         *)

Only(c) == \A d \in Calls \ {c} : calls'[d] = calls[d]

\* The request of c stays as it is; it is answered.
Answered(c) ==
    /\ calls[c].phase = "sent" /\ calls'[c].phase = "served"
    /\ calls'[c].kind = calls[c].kind /\ calls'[c].path = calls[c].path
    /\ calls'[c].bearer = calls[c].bearer /\ calls'[c].cookie = calls[c].cookie
    /\ calls'[c].retry = calls[c].retry

LEMMA AnswerFields ==
  ASSUME Types, NEW c \in Calls, calls[c].phase = "sent", NEW a,
         calls' = [calls EXCEPT ![c].phase = "served", ![c].answer = a]
  PROVE  Only(c) /\ Answered(c) /\ calls'[c].answer = a
BY DEF Types, Call, Only, Answered

LEMMA AnswerIsTyped ==
  ASSUME Types, NEW c \in Calls, NEW a \in Response',
         calls' = [calls EXCEPT ![c].phase = "served", ![c].answer = a],
         Call \subseteq Call'
  PROVE  calls' \in [Calls -> Call']
<1>1. \A x \in Call' : [x EXCEPT !.phase = "served", !.answer = a] \in Call'
  BY DEF Call
<1>2. calls \in [Calls -> Call']
  BY DEF Types
<1>3. calls' = [calls EXCEPT ![c] = [calls[c] EXCEPT !.phase = "served", !.answer = a]]
  OBVIOUS
<1> QED BY <1>1, <1>2, <1>3

\* A token that has just been issued is none of those known before.
LEMMA NewIsUnknown ==
  ASSUME Types, NEW u
  PROVE  Token(u, server.issued + 1) \notin Known
<1>1. server.issued \in Nat
  BY DEF Types, ServerRecord
<1>2. Token(u, server.issued + 1).n = server.issued + 1
  BY DEF Token
<1> QED BY <1>1, <1>2, KnownTokens

LEMMA ObtainsEffect ==
  ASSUME ShapeInv, NEW c \in Calls, Obtains(c)
  PROVE  LET new == Token(calls[c].bearer.user, server.issued + 1) IN
         /\ Types' /\ Only(c) /\ Answered(c)
         /\ calls'[c].answer.ok /\ calls'[c].answer.sets
         /\ calls'[c].answer.token = new /\ calls'[c].answer.cookie = new
         /\ new \notin Known /\ new # NoToken
         /\ server'.valid = server.valid \cup {new}
         /\ server'.fresh = server.fresh \cup {new}
<1> DEFINE new == Token(calls[c].bearer.user, server.issued + 1)
           a   == Setting(Answer(TRUE, new), new)
<1>1. calls[c].bearer.user \in Users /\ Types /\ server \in ServerRecord
  BY DEF ShapeInv, CallShape, Obtains, Types
<1>2. /\ server' = Issued(server, calls[c].bearer.user)
      /\ calls' = [calls EXCEPT ![c].phase = "served", ![c].answer = a]
      /\ calls[c].phase = "sent"
      /\ UNCHANGED <<page, refreshPromise, spent, kept, revoked>>
  BY DEF Obtains, TokenObtainPairAuditView, Token
<1>3. /\ server' \in ServerRecord'
      /\ server'.valid = server.valid \cup {new}
      /\ server'.fresh = server.fresh \cup {new}
      /\ new \in Tokens'
      /\ Page \subseteq Page' /\ Call \subseteq Call'
      /\ PromiseRecord \subseteq PromiseRecord'
  BY <1>1, <1>2, IssueGrows
<1>4. new \notin Known /\ new # NoToken
  BY <1>1, NewIsUnknown DEF Known
<1>5. /\ a.ok /\ a.sets /\ a.token = new /\ a.cookie = new
      /\ a \in Response'
  BY <1>3 DEF Setting, Answer, Response, Known
<1> HIDE DEF a, new
<1>6. Only(c) /\ Answered(c) /\ calls'[c].answer = a
  BY <1>1, <1>2, AnswerFields
<1>7. calls' \in [Calls -> Call']
  BY <1>1, <1>2, <1>3, <1>5, AnswerIsTyped
<1>8. Types'
  BY <1>1, <1>2, <1>3, <1>7 DEF Types
<1> QED BY <1>3, <1>4, <1>5, <1>6, <1>8 DEF new

LEMMA ReadsEffect ==
  ASSUME ShapeInv, NEW c \in Calls, Reads(c)
  PROVE  /\ Types' /\ Only(c) /\ Answered(c)
         /\ ~ calls'[c].answer.sets
         /\ calls'[c].answer.ok <=> calls[c].bearer \in server.fresh
         /\ calls'[c].answer.ok => calls'[c].answer.token = calls[c].bearer
<1> DEFINE a == IF calls[c].bearer \in server.fresh
                THEN Answer(TRUE, calls[c].bearer) ELSE Refused
<1>1. Types /\ server.fresh \subseteq Known
  BY DEF ShapeInv, Types, ServerRecord, Known
<1>2. /\ calls' = [calls EXCEPT ![c].phase = "served", ![c].answer = a]
      /\ calls[c].phase = "sent"
      /\ UNCHANGED <<page, refreshPromise, server, spent, kept, revoked>>
  BY DEF Reads, ServeData
<1>3. /\ Known' = Known /\ Call' = Call /\ Page' = Page /\ Response' = Response
      /\ PromiseRecord' = PromiseRecord /\ ServerRecord' = ServerRecord
  BY <1>2 DEF Known, Call, Page, Response, PromiseRecord, ServerRecord, Tokens
<1>4. /\ a \in Response' /\ ~ a.sets
      /\ a.ok <=> calls[c].bearer \in server.fresh
      /\ a.ok => a.token = calls[c].bearer
  BY <1>1, <1>3, ConstantsAreTyped DEF Answer, Refused, Response
<1> HIDE DEF a
<1>5. Only(c) /\ Answered(c) /\ calls'[c].answer = a
  BY <1>1, <1>2, AnswerFields
<1>6. calls' \in [Calls -> Call']
  BY <1>1, <1>2, <1>3, <1>4, AnswerIsTyped
<1>7. Types'
  BY <1>1, <1>2, <1>3, <1>6 DEF Types
<1> QED BY <1>4, <1>5, <1>7

LEMMA RevokesEffect ==
  ASSUME ShapeInv, NEW c \in Calls, Revokes(c)
  PROVE  /\ Types' /\ Only(c) /\ Answered(c)
         /\ calls'[c].answer.cookie = NoToken
         /\ server'.valid = server.valid \ {calls[c].cookie}
         /\ server'.fresh = server.fresh
<1> DEFINE a == Setting(Answer(calls[c].cookie \in server.valid \cup {NoToken}, NoToken),
                        NoToken)
<1>1. Types /\ server \in ServerRecord
  BY DEF ShapeInv, Types
<1>2. /\ calls' = [calls EXCEPT ![c].phase = "served", ![c].answer = a]
      /\ calls[c].phase = "sent"
      /\ server' = Blacklisted(server, calls[c].cookie)
      /\ kept' = FALSE /\ revoked' \in BOOLEAN
      /\ UNCHANGED <<page, refreshPromise, spent>>
  BY <1>1 DEF Revokes, Types
<1>3. /\ server' \in ServerRecord /\ server'.issued = server.issued
      /\ server'.valid = server.valid \ {calls[c].cookie}
      /\ server'.fresh = server.fresh
  BY <1>1, <1>2, BlacklistedIsServer
<1>4. /\ Known' = Known /\ Call' = Call /\ Page' = Page /\ Response' = Response
      /\ PromiseRecord' = PromiseRecord /\ ServerRecord' = ServerRecord
  BY <1>3 DEF Known, Call, Page, Response, PromiseRecord, ServerRecord, Tokens
<1>5. a \in Response' /\ a.cookie = NoToken
  <2>1. \A b \in BOOLEAN : LET x == Setting(Answer(b, NoToken), NoToken) IN
          x \in Response' /\ x.cookie = NoToken
    BY <1>4, ConstantsAreTyped DEF Setting, Answer, Response
  <2>2. (calls[c].cookie \in server.valid \cup {NoToken}) \in BOOLEAN
    BY SMT
  <2> QED BY <2>1, <2>2
<1> HIDE DEF a
<1>6. Only(c) /\ Answered(c) /\ calls'[c].answer = a
  BY <1>1, <1>2, AnswerFields
<1>7. calls' \in [Calls -> Call']
  BY <1>1, <1>2, <1>4, <1>5, AnswerIsTyped
<1>8. Types'
  BY <1>1, <1>2, <1>3, <1>4, <1>7 DEF Types
<1> QED BY <1>3, <1>5, <1>6, <1>8

LEMMA RevokesNotEffect ==
  ASSUME ShapeInv, NEW c \in Calls, RevokesNot(c)
  PROVE  Types' /\ Only(c) /\ Answered(c) /\ calls'[c].answer = Refused
<1>1. Types
  BY DEF ShapeInv
<1>2. /\ Known' = Known /\ Call' = Call /\ Page' = Page /\ Response' = Response
      /\ PromiseRecord' = PromiseRecord /\ ServerRecord' = ServerRecord
  BY DEF RevokesNot, Known, Call, Page, Response, PromiseRecord, ServerRecord, Tokens
<1>3. Only(c) /\ Answered(c) /\ calls'[c].answer = Refused
  BY <1>1, AnswerFields DEF RevokesNot
<1>4. calls' \in [Calls -> Call']
  BY <1>1, <1>2, ConstantsAreTyped, AnswerIsTyped DEF RevokesNot
<1>5. Types'
  BY <1>1, <1>2, <1>4 DEF Types, RevokesNot
<1> QED BY <1>3, <1>5

\* The state the following actions start from and what they leave alone.
LEMMA TypedParts ==
  ASSUME Types
  PROVE  /\ server.issued \in Nat /\ page \in Page
         /\ \A c \in Calls : calls[c] \in Call /\ calls[c].answer \in Response
                             /\ calls[c].kind \in MyKinds /\ calls[c].path \in Paths
         /\ refreshPromise.answer \in Response /\ refreshPromise.cookie \in Known
         /\ page.cookie \in Known /\ page.token \in Known
         /\ server.valid \subseteq Tokens /\ server.fresh \subseteq Tokens
BY DEF Types, Page, Call, PromiseRecord, ServerRecord, MyKinds, Paths

\* An action that issues no token is typed if what it writes is.
LEMMA TypesKept ==
  ASSUME Types, server' \in ServerRecord, server'.issued = server.issued,
         page' \in Page, calls' \in [Calls -> Call], refreshPromise' \in PromiseRecord,
         spent' \in [Kinds -> Nat], kept' \in BOOLEAN, revoked' \in BOOLEAN
  PROVE  Types'
<1>1. /\ Known' = Known /\ Call' = Call /\ Page' = Page /\ Response' = Response
      /\ PromiseRecord' = PromiseRecord /\ ServerRecord' = ServerRecord
  BY DEF Known, Call, Page, Response, PromiseRecord, ServerRecord, Tokens
<1> QED BY <1>1 DEF Types

LEMMA ReplaceCall ==
  ASSUME Types, NEW c \in Calls, NEW x \in Call, calls' = [calls EXCEPT ![c] = x]
  PROVE  calls' \in [Calls -> Call] /\ Only(c) /\ calls'[c] = x
BY DEF Types, Only

LEMMA ReceiveOkEffect ==
  ASSUME ShapeInv, NEW c \in Calls, ReceiveOk(c)
  PROVE  LET t == calls[c]
             p == Applying(t.answer) IN
         /\ Types' /\ Only(c)
         /\ p \in Page /\ page' = Accepted(p, t)
         /\ t.kind \in MyKinds \ {"none"}
         /\ calls'[c] = Onward(page', t)
<1> DEFINE t == calls[c]
           p == Applying(t.answer)
<1>1. Types /\ t \in Call /\ t.answer \in Response /\ server.issued \in Nat
        /\ t.kind \in MyKinds
  BY TypedParts DEF ShapeInv
<1>2. t.kind # "none"
  BY DEF ShapeInv, CallShape, ReceiveOk
<1>3. p \in Page
  BY <1>1, ApplyingIsPage
<1>4. page' = Accepted(p, t) /\ calls' = [calls EXCEPT ![c] = Onward(page', t)]
        /\ kept' = (kept \/ t.path = "login")
        /\ UNCHANGED <<refreshPromise, revoked, server, spent>>
  BY DEF ReceiveOk, Onward
<1> HIDE DEF p, t
<1>5. page' \in Page
  BY <1>1, <1>3, <1>4, AcceptedIsPage
<1>6. Onward(page', t) \in Call
  BY <1>1, <1>5, OnwardIsCall
<1>7. calls' \in [Calls -> Call] /\ Only(c) /\ calls'[c] = Onward(page', t)
  BY <1>1, <1>4, <1>6, ReplaceCall
<1>8. Types'
  <2>1. kept' \in BOOLEAN
    BY <1>1, <1>4 DEF Types
  <2> QED BY <1>1, <1>4, <1>5, <1>7, <2>1, TypesKept DEF Types
<1> QED BY <1>1, <1>2, <1>3, <1>4, <1>7, <1>8 DEF p, t

LEMMA ReceiveExpiredEffect ==
  ASSUME ShapeInv, NEW c \in Calls, ReceiveExpired(c)
  PROVE  LET t == calls[c]
             p == Applying(t.answer) IN
         /\ Types' /\ Only(c)
         /\ p \in Page /\ page' = p
         /\ t.kind \in MyKinds \ {"none"} /\ t.path \in {"me", "wallet", "data"}
         /\ page' = page
         /\ calls'[c] = Awaiting(t.kind, t.path)
         /\ refreshPromise' = IF refreshPromise.phase = "none"
                              THEN Promise(page.cookie) ELSE refreshPromise
<1> DEFINE t == calls[c]
           p == Applying(t.answer)
<1>1. Types /\ t \in Call /\ t.answer \in Response /\ server.issued \in Nat
        /\ t.kind \in MyKinds /\ t.path \in Paths
  BY TypedParts DEF ShapeInv
<1>2. t.kind # "none" /\ t.path \in {"me", "wallet", "data"} /\ ~ t.answer.sets
  BY <1>1 DEF ShapeInv, CallShape, ReceiveExpired, Refreshable, Paths
<1>3. p \in Page /\ p = page
  <2>1. p \in Page
    BY <1>1, ApplyingIsPage
  <2>2. p = page
    BY <1>1, <1>2 DEF Applying, Applied, Types, Page
  <2> QED BY <2>1, <2>2
<1>4. /\ page' = p
      /\ calls' = [calls EXCEPT ![c] = Awaiting(t.kind, t.path)]
      /\ refreshPromise' = IF refreshPromise.phase = "none"
                           THEN Promise(page.cookie) ELSE refreshPromise
      /\ UNCHANGED <<server, spent, kept, revoked>>
  BY <1>3 DEF ReceiveExpired, StartRefresh
<1> HIDE DEF p, t
<1>5. Awaiting(t.kind, t.path) \in Call
  BY <1>1, <1>2, AwaitingIsCall
<1>6. calls' \in [Calls -> Call] /\ Only(c) /\ calls'[c] = Awaiting(t.kind, t.path)
  BY <1>1, <1>4, <1>5, ReplaceCall
<1>7. refreshPromise' \in PromiseRecord
  BY <1>1, <1>4, TypedParts, ConstantsAreTyped DEF Promise, NoPromise, PromiseRecord, Types
<1>8. Types'
  BY <1>1, <1>3, <1>4, <1>6, <1>7, TypesKept DEF Types
<1> QED BY <1>1, <1>2, <1>3, <1>4, <1>6, <1>8 DEF p, t

LEMMA ReceiveRefusedEffect ==
  ASSUME ShapeInv, NEW c \in Calls, ReceiveRefused(c)
  PROVE  LET t == calls[c]
             p == Applying(t.answer) IN
         /\ Types' /\ Only(c)
         /\ p \in Page /\ page' = Failed(p, t)
         /\ t.kind \in MyKinds \ {"none"} /\ t.path \in {"me", "wallet", "data", "revoke"}
         /\ t.path # "revoke" => ~ t.retry
         /\ calls'[c] = GivenUp(page', t)
<1> DEFINE t == calls[c]
           p == Applying(t.answer)
<1>1. Types /\ t \in Call /\ t.answer \in Response /\ server.issued \in Nat
        /\ t.kind \in MyKinds /\ t.path \in Paths
  BY TypedParts DEF ShapeInv
<1>2. /\ t.kind # "none" /\ t.path \in {"me", "wallet", "data", "revoke"}
      /\ t.path # "revoke" => ~ t.retry
  BY <1>1 DEF ShapeInv, CallShape, ReceiveRefused, Refreshable, Paths
<1>3. p \in Page
  BY <1>1, ApplyingIsPage
<1>4. /\ page' = Failed(p, t) /\ calls' = [calls EXCEPT ![c] = GivenUp(page', t)]
      /\ UNCHANGED <<refreshPromise, server, spent, kept, revoked>>
  BY DEF ReceiveRefused, GivenUp
<1> HIDE DEF p, t
<1>5. page' \in Page
  BY <1>3, <1>4, FailedIsPage
<1>6. GivenUp(page', t) \in Call
  BY <1>1, <1>5, OnwardIsCall
<1>7. calls' \in [Calls -> Call] /\ Only(c) /\ calls'[c] = GivenUp(page', t)
  BY <1>1, <1>4, <1>6, ReplaceCall
<1>8. Types'
  BY <1>1, <1>4, <1>5, <1>7, TypesKept DEF Types
<1> QED BY <1>1, <1>2, <1>3, <1>4, <1>7, <1>8 DEF p, t

LEMMA RotatedEffect ==
  ASSUME ShapeInv, Rotated
  PROVE  LET old == refreshPromise.cookie
             new == Token(old.user, server.issued + 1) IN
         /\ Types' /\ old \in server.valid
         /\ refreshPromise'.phase = "served" /\ refreshPromise'.cookie = old
         /\ refreshPromise'.answer.ok /\ refreshPromise'.answer.sets
         /\ refreshPromise'.answer.token = new /\ refreshPromise'.answer.cookie = new
         /\ new \notin Known /\ new # NoToken
         /\ server'.valid = (server.valid \ {old}) \cup {new}
         /\ server'.fresh = server.fresh \cup {new}
<1> DEFINE old == refreshPromise.cookie
           new == Token(old.user, server.issued + 1)
           a   == Setting(Answer(TRUE, new), new)
           s   == Blacklisted(server, old)
<1>1. Types /\ server \in ServerRecord /\ old \in server.valid /\ old \in Tokens
        /\ old.user \in Users
  BY TypedParts DEF ShapeInv, Types, Rotated, Tokens
<1>2. /\ server' = Issued(s, old.user)
      /\ refreshPromise' = [refreshPromise EXCEPT !.phase = "served", !.answer = a]
      /\ UNCHANGED <<page, calls, spent, kept, revoked>>
  BY DEF Rotated
<1>3. s \in ServerRecord /\ s.issued = server.issued /\ s.fresh = server.fresh
        /\ s.valid = server.valid \ {old}
  BY <1>1, BlacklistedIsServer
<1> HIDE DEF s
<1>4. /\ server' \in ServerRecord'
      /\ server'.valid = (server.valid \ {old}) \cup {new}
      /\ server'.fresh = server.fresh \cup {new}
      /\ new \in Tokens'
      /\ Page \subseteq Page' /\ Call \subseteq Call'
      /\ PromiseRecord \subseteq PromiseRecord'
  BY <1>1, <1>2, <1>3, IssueGrows
<1>5. new \notin Known /\ new # NoToken
  BY <1>1, NewIsUnknown DEF Known
<1>6. /\ a.ok /\ a.sets /\ a.token = new /\ a.cookie = new
      /\ a \in Response'
  BY <1>4 DEF Setting, Answer, Response, Known
<1> HIDE DEF a, new
<1>7. refreshPromise' \in PromiseRecord' /\ refreshPromise'.phase = "served"
        /\ refreshPromise'.cookie = old /\ refreshPromise'.answer = a
  <2>1. refreshPromise \in PromiseRecord'
    BY <1>1, <1>4 DEF Types
  <2> QED BY <1>2, <1>6, <2>1 DEF PromiseRecord
<1>8. Types'
  BY <1>1, <1>2, <1>4, <1>7 DEF Types
<1> QED BY <1>1, <1>4, <1>5, <1>6, <1>7, <1>8 DEF new

LEMMA NotRotatedEffect ==
  ASSUME ShapeInv, NotRotated
  PROVE  /\ Types'
         /\ refreshPromise'.phase = "served"
         /\ refreshPromise'.cookie = refreshPromise.cookie
         /\ ~ refreshPromise'.answer.ok /\ refreshPromise'.answer.cookie = NoToken
         /\ refreshPromise'.answer.sets => refreshPromise.cookie = NoToken
<1>1. Types
  BY DEF ShapeInv
<1>2. refreshPromise' \in PromiseRecord
  BY <1>1, ConstantsAreTyped
     DEF NotRotated, Types, PromiseRecord, Setting, Refused, Answer, Response
<1>3. Types'
  BY <1>1, <1>2, TypesKept DEF Types, NotRotated
<1> QED BY <1>1, <1>3 DEF NotRotated, Types, PromiseRecord, Setting, Refused, Answer

LEMMA AwaitersAreCalls ==
  ASSUME ShapeInv
  PROVE  \A c \in Awaiters :
           /\ calls[c] \in Call /\ calls[c].kind \in MyKinds \ {"none"}
           /\ calls[c].path \in {"restore", "me", "wallet", "data"}
BY TypedParts DEF ShapeInv, CallShape, Awaiters

LEMMA RenewsEffect ==
  ASSUME ShapeInv, Renews
  PROVE  LET new == refreshPromise.answer.token IN
         /\ Types' /\ refreshPromise' = NoPromise
         /\ page'.cookie = new /\ page'.token = new
         /\ page'.auth = page.auth /\ page'.user = page.user /\ page'.wallet = page.wallet
         /\ \A c \in Calls : IF c \in Awaiters THEN calls'[c] = Retried(page', calls[c])
                             ELSE calls'[c] = calls[c]
<1> DEFINE answer == refreshPromise.answer
           p == Applying(answer)
           q == [p EXCEPT !.token = answer.token]
<1>1. Types /\ answer \in Response /\ answer.token \in Known
  BY TypedParts DEF ShapeInv, Response
<1>2. answer.sets /\ answer.cookie = answer.token
  BY DEF ShapeInv, PromiseShape, Renews
<1>3. p \in Page /\ p.cookie = answer.token /\ p.auth = page.auth
        /\ p.user = page.user /\ p.wallet = page.wallet
  BY <1>1, <1>2, ApplyingIsPage
<1>4. /\ page' = q
      /\ calls' = [c \in Calls |-> IF c \in Awaiters THEN Retried(q, calls[c]) ELSE calls[c]]
      /\ refreshPromise' = NoPromise
      /\ UNCHANGED <<server, spent, kept, revoked>>
  BY DEF Renews
<1> HIDE DEF p, answer
<1>5. q \in Page /\ q.cookie = answer.token /\ q.token = answer.token /\ q.auth = page.auth
        /\ q.user = page.user /\ q.wallet = page.wallet
  BY <1>1, <1>3 DEF Page
<1> HIDE DEF q
<1>6. ASSUME NEW c \in Calls
      PROVE  (IF c \in Awaiters THEN Retried(q, calls[c]) ELSE calls[c]) \in Call
  BY <1>1, <1>5, TypedParts, RetriedIsCall
<1>7. calls' \in [Calls -> Call]
  BY <1>4, <1>6
<1>8. refreshPromise' \in PromiseRecord
  BY <1>4, ConstantsAreTyped DEF NoPromise, PromiseRecord
<1>9. Types'
  BY <1>1, <1>4, <1>5, <1>7, <1>8, TypesKept DEF Types
<1> QED BY <1>4, <1>5, <1>9 DEF answer

\* What awaited a refresh that failed, has failed; the page p was made of it.
LEMMA ExpelsEffect ==
  ASSUME ShapeInv, NEW p \in Page, Expels(p),
         spent' \in [Kinds -> Nat], kept' \in BOOLEAN
  PROVE  /\ Types' /\ refreshPromise' = NoPromise
         /\ page' = AllFailed(p)
         /\ \A c \in Calls : IF c \in Awaiters THEN calls'[c] = GivenUp(page', calls[c])
                             ELSE calls'[c] = calls[c]
<1>1. Types
  BY DEF ShapeInv
<1>2. page' \in Page /\ page' = AllFailed(p)
  BY FailedIsPage DEF Expels, RefreshFails
<1>3. calls' = [c \in Calls |-> IF c \in Awaiters THEN GivenUp(page', calls[c])
                               ELSE calls[c]]
  BY <1>2 DEF Expels, RefreshFails, GivenUp
<1>4. ASSUME NEW c \in Calls
      PROVE  (IF c \in Awaiters THEN GivenUp(page', calls[c]) ELSE calls[c]) \in Call
  BY <1>1, <1>2, TypedParts, OnwardIsCall
<1>5. calls' \in [Calls -> Call]
  BY <1>3, <1>4
<1>6. refreshPromise' \in PromiseRecord
  BY ConstantsAreTyped DEF Expels, NoPromise, PromiseRecord
<1>7. Types'
  BY <1>1, <1>2, <1>5, <1>6, TypesKept DEF Types, Expels
<1> QED BY <1>2, <1>3, <1>7 DEF Expels

LEMMA SpendFields ==
  ASSUME Types, NEW kind \in Kinds, Spend(kind)
  PROVE  /\ spent' \in [Kinds -> Nat] /\ spent'[kind] = spent[kind] + 1
         /\ \A k \in Kinds \ {kind} : spent'[k] = spent[k]
BY DEF Types, Spend

LEMMA FaultEffect ==
  ASSUME ShapeInv, NEW c \in Calls, Fault(c)
  PROVE  LET t == calls[c] IN
         /\ Types' /\ Only(c)
         /\ t.phase \in {"sent", "served"} /\ t.kind \in MyKinds \ {"none"}
         /\ page' = Failed(page, t)
         /\ calls'[c] = GivenUp(page', t)
         /\ spent'["fault"] = spent["fault"] + 1 /\ spent'["login"] = spent["login"]
<1>1. Types /\ calls[c] \in Call /\ calls[c].kind \in MyKinds /\ page \in Page
  BY TypedParts DEF ShapeInv
<1>2. calls[c].kind # "none" /\ calls[c].phase \in {"sent", "served"}
  BY DEF ShapeInv, CallShape, Fault
<1>3. page' \in Page /\ page' = Failed(page, calls[c])
  BY <1>1, FailedIsPage DEF Fault
<1>4. GivenUp(page', calls[c]) \in Call
  BY <1>1, <1>3, OnwardIsCall
<1>5. calls' = [calls EXCEPT ![c] = GivenUp(page', calls[c])]
  BY <1>3 DEF Fault, GivenUp
<1>6. calls' \in [Calls -> Call] /\ Only(c) /\ calls'[c] = GivenUp(page', calls[c])
  BY <1>1, <1>4, <1>5, ReplaceCall
<1>7. /\ spent' \in [Kinds -> Nat] /\ spent'["fault"] = spent["fault"] + 1
      /\ spent'["login"] = spent["login"]
  BY <1>1, SpendFields DEF Fault, Kinds
<1>8. Types'
  BY <1>1, <1>3, <1>6, <1>7, TypesKept DEF Types, Fault
<1> QED BY <1>1, <1>2, <1>3, <1>6, <1>7, <1>8

LEMMA LoginEffect ==
  ASSUME ShapeInv, NEW c \in Calls, NEW u \in Users, login(c, u)
  PROVE  /\ Types' /\ Only(c) /\ calls[c].phase = "idle"
         /\ calls'[c].kind = "login" /\ calls'[c].path = "login"
         /\ calls'[c].phase = "sent" /\ calls'[c].bearer.user = u
         /\ calls'[c].cookie = page.cookie
         /\ \A d \in Calls : calls[d].kind # "login"
         /\ spent'["login"] = spent["login"] + 1 /\ spent'["fault"] = spent["fault"]
<1> DEFINE x == [Send(page, "login", "login") EXCEPT !.bearer = Token(u, 0)]
<1>1. Types
  BY DEF ShapeInv
<1>2. /\ x \in Call /\ x.kind = "login" /\ x.path = "login" /\ x.phase = "sent"
      /\ x.bearer.user = u /\ x.cookie = page.cookie
  <2>1. Send(page, "login", "login") \in Call
    BY <1>1, SentIsCall DEF Types, MyKinds, Paths
  <2>2. Token(u, 0) \in {Token(v, 0) : v \in Users} /\ Token(u, 0).user = u
    BY DEF Token
  <2>3. \A y \in Call : [y EXCEPT !.bearer = Token(u, 0)] \in Call
    BY <2>2 DEF Call
  <2> QED BY <2>1, <2>2, <2>3 DEF Send
<1>3. calls' = [calls EXCEPT ![c] = x]
  BY DEF login
<1> HIDE DEF x
<1>4. calls' \in [Calls -> Call] /\ Only(c) /\ calls'[c] = x
  BY <1>1, <1>2, <1>3, ReplaceCall
<1>5. /\ spent' \in [Kinds -> Nat] /\ spent'["login"] = spent["login"] + 1
      /\ spent'["fault"] = spent["fault"]
  BY <1>1, SpendFields DEF login, Kinds
<1>6. Types'
  BY <1>1, <1>4, <1>5, TypesKept DEF Types, login
<1> QED BY <1>2, <1>4, <1>5, <1>6 DEF login, Free

LEMMA UseEffect ==
  ASSUME ShapeInv, NEW c \in Calls, use(c)
  PROVE  /\ Types' /\ Only(c) /\ calls[c].phase = "idle" /\ page.auth
         /\ \E path \in {"wallet", "data"} : calls'[c] = Send(page, "use", path)
         /\ spent'["login"] = spent["login"] /\ spent'["fault"] = spent["fault"]
<1>1. Types /\ page \in Page
  BY DEF ShapeInv, Types
<1>2. PICK path \in {"wallet", "data"} : calls' = [calls EXCEPT ![c] = Send(page, "use", path)]
  BY DEF use
<1>3. Send(page, "use", path) \in Call
  BY <1>1, SentIsCall DEF MyKinds, Paths
<1>4. calls' \in [Calls -> Call] /\ Only(c) /\ calls'[c] = Send(page, "use", path)
  BY <1>1, <1>2, <1>3, ReplaceCall
<1>5. /\ spent' \in [Kinds -> Nat] /\ spent'["login"] = spent["login"]
      /\ spent'["fault"] = spent["fault"]
  BY <1>1, SpendFields DEF use, Kinds
<1>6. Types'
  BY <1>1, <1>4, <1>5, TypesKept DEF Types, use, history
<1> QED BY <1>2, <1>4, <1>5, <1>6 DEF use, Free

LEMMA LogoutEffect ==
  ASSUME ShapeInv, NEW c \in Calls, logout(c)
  PROVE  /\ Types' /\ Only(c) /\ calls[c].phase = "idle" /\ page.auth
         /\ page' = clearSessionState(page)
         /\ calls'[c] = IF page.token = NoToken THEN calls[c]
                        ELSE Send(page, "logout", "revoke")
<1>1. Types /\ page \in Page /\ calls[c] \in Call
  BY DEF ShapeInv, Types
<1>2. Send(page, "logout", "revoke") \in Call
  BY <1>1, SentIsCall DEF MyKinds, Paths
<1>3. /\ calls' \in [Calls -> Call] /\ Only(c)
      /\ calls'[c] = IF page.token = NoToken THEN calls[c]
                     ELSE Send(page, "logout", "revoke")
  <2>1. CASE page.token = NoToken
    BY <1>1, <2>1 DEF logout, Types, Only
  <2>2. CASE page.token # NoToken
    BY <1>1, <1>2, <2>2, ReplaceCall DEF logout
  <2> QED BY <2>1, <2>2
<1>4. page' \in Page /\ page' = clearSessionState(page)
  BY <1>1, FailedIsPage DEF logout
<1>5. Types'
  BY <1>1, <1>3, <1>4, TypesKept DEF Types, logout
<1> QED BY <1>3, <1>4, <1>5 DEF logout, Free

LEMMA ReloadEffect ==
  ASSUME ShapeInv, NEW c \in Calls, Reload(c)
  PROVE  /\ Types' /\ Only(c) /\ Quiet
         /\ page' = NewPage(page.cookie)
         /\ refreshPromise' = Promise(page.cookie)
         /\ calls'[c] = Awaiting("boot", "restore")
         /\ spent'["login"] = spent["login"] /\ spent'["fault"] = spent["fault"]
<1>1. Types /\ page.cookie \in Known
  BY TypedParts DEF ShapeInv
<1>2. Awaiting("boot", "restore") \in Call
  BY AwaitingIsCall DEF MyKinds, Paths
<1>3. calls' \in [Calls -> Call] /\ Only(c) /\ calls'[c] = Awaiting("boot", "restore")
  BY <1>1, <1>2, ReplaceCall DEF Reload
<1>4. NewPage(page.cookie) \in Page
  BY <1>1, ConstantsAreTyped DEF NewPage, Page, Account
<1>5. Promise(page.cookie) \in PromiseRecord
  BY <1>1, ConstantsAreTyped DEF Promise, NoPromise, PromiseRecord
<1>6. /\ spent' \in [Kinds -> Nat] /\ spent'["login"] = spent["login"]
      /\ spent'["fault"] = spent["fault"]
  BY <1>1, SpendFields DEF Reload, Kinds
<1>7. Types'
  BY <1>1, <1>3, <1>4, <1>5, <1>6, TypesKept DEF Types, Reload, history
<1> QED BY <1>3, <1>6, <1>7 DEF Reload

LEMMA AccessExpiresEffect ==
  ASSUME ShapeInv, AccessExpires
  PROVE  /\ Types'
         /\ spent'["login"] = spent["login"] /\ spent'["fault"] = spent["fault"]
         /\ server'.valid = server.valid /\ server'.fresh = server.fresh \ {page.token}
<1>1. Types /\ server \in ServerRecord
  BY DEF ShapeInv, Types
<1>2. /\ spent' \in [Kinds -> Nat] /\ spent'["login"] = spent["login"]
      /\ spent'["fault"] = spent["fault"]
  BY <1>1, SpendFields DEF AccessExpires, Kinds
<1>3. /\ server' \in ServerRecord /\ server'.issued = server.issued
      /\ server'.valid = server.valid /\ server'.fresh = server.fresh \ {page.token}
  BY <1>1 DEF AccessExpires, ServerRecord
<1>4. Types'
  BY <1>1, <1>2, <1>3, TypesKept DEF Types, AccessExpires, history
<1> QED BY <1>2, <1>3, <1>4

LEMMA SessionExpiresEffect ==
  ASSUME ShapeInv, SessionExpires
  PROVE  /\ Types'
         /\ spent'["login"] = spent["login"] /\ spent'["fault"] = spent["fault"]
         /\ server'.valid = server.valid \ {page.cookie} /\ server'.fresh = server.fresh
<1>1. Types /\ server \in ServerRecord
  BY DEF ShapeInv, Types
<1>2. /\ spent' \in [Kinds -> Nat] /\ spent'["login"] = spent["login"]
      /\ spent'["fault"] = spent["fault"]
  BY <1>1, SpendFields DEF SessionExpires, Kinds
<1>3. /\ server' \in ServerRecord /\ server'.issued = server.issued
      /\ server'.valid = server.valid \ {page.cookie} /\ server'.fresh = server.fresh
  BY <1>1, BlacklistedIsServer DEF SessionExpires
<1>4. Types'
  BY <1>1, <1>2, <1>3, TypesKept DEF Types, SessionExpires
<1> QED BY <1>2, <1>3, <1>4

-------------------------------------------------------------------------------
(* Every step keeps the shape of the state.                                *)

\* The tokens stay few when no login begins and none is issued.
LEMMA TokensStayFew ==
  ASSUME ShapeInv, server'.valid \subseteq server.valid, spent'["login"] = spent["login"],
         Opening' => Opening
  PROVE  OneTokenEach'
<1>1. IsFiniteSet(server.valid) /\ spent["login"] \in Nat
        /\ Cardinality(server.valid) + (IF Opening THEN 1 ELSE 0) <= spent["login"]
  BY DEF ShapeInv, OneTokenEach, Types, Kinds
<1>2. /\ IsFiniteSet(server'.valid)
      /\ Cardinality(server'.valid) <= Cardinality(server.valid)
      /\ Cardinality(server.valid) \in Nat /\ Cardinality(server'.valid) \in Nat
  BY <1>1, FS_Subset, FS_CardinalityType
<1> QED BY <1>1, <1>2 DEF OneTokenEach

\* A step of one call that begins no login and issues no token.
LEMMA OneCallStep ==
  ASSUME ShapeInv, Types', PromiseShape', NEW c \in Calls, Only(c), CallShape(calls'[c]),
         calls'[c].kind = "login" => calls[c].kind = "login",
         calls'[c].path = "login" => calls'[c].phase # "sent",
         server'.valid \subseteq server.valid, spent'["login"] = spent["login"]
  PROVE  ShapeInv'
<1>1. \A d \in Calls : CallShape(calls'[d])
  BY DEF ShapeInv, Only
<1>2. \A d \in Calls : calls'[d].kind = "login" => calls[d].kind = "login"
  BY DEF Only
<1>3. LoginOnce'
  BY <1>2 DEF ShapeInv, LoginOnce
<1>4. Opening' => Opening
  BY DEF Opening, Only
<1>5. OneTokenEach'
  BY <1>4, TokensStayFew
<1> QED BY <1>1, <1>3, <1>5 DEF ShapeInv

\* The same, of all the calls that awaited a refresh.
LEMMA AwaitersStep ==
  ASSUME ShapeInv, Types', refreshPromise' = NoPromise,
         \A c \in Calls : IF c \in Awaiters
                          THEN /\ CallShape(calls'[c]) /\ calls'[c].phase # "awaiting"
                               /\ calls'[c].kind \in {"none", calls[c].kind}
                               /\ calls'[c].path # "login"
                          ELSE calls'[c] = calls[c],
         UNCHANGED server, spent'["login"] = spent["login"]
  PROVE  ShapeInv'
<1>1. \A c \in Calls : CallShape(calls'[c])
  BY DEF ShapeInv
<1>2. \A c \in Calls : calls'[c].kind = "login" => calls[c].kind = "login"
  OBVIOUS
<1>3. LoginOnce'
  BY <1>2 DEF ShapeInv, LoginOnce
<1>4. Opening' => Opening
  BY DEF Opening
<1>5. OneTokenEach'
  BY <1>4, TokensStayFew
<1>6. PromiseShape'
  BY DEF PromiseShape, NoPromise, Awaiters
<1> QED BY <1>1, <1>3, <1>5, <1>6 DEF ShapeInv

LEMMA PromiseStays ==
  ASSUME ShapeInv, NEW c \in Calls, Only(c), calls'[c].phase # "awaiting",
         UNCHANGED refreshPromise
  PROVE  PromiseShape'
BY DEF ShapeInv, PromiseShape, Only

LEMMA ServedIsShaped ==
  ASSUME ShapeInv, NEW c \in Calls, Only(c), Answered(c), Types',
         UNCHANGED <<refreshPromise, spent>>,
         server'.valid \subseteq server.valid, calls[c].path # "login",
         calls[c].path = "revoke" => calls'[c].answer.cookie = NoToken,
         calls[c].path \in {"me", "wallet", "data"} =>
           /\ ~ calls'[c].answer.sets
           /\ calls'[c].answer.ok =>
                calls'[c].answer.token = calls[c].bearer /\ calls[c].bearer # NoToken
  PROVE  ShapeInv'
<1>1. CallShape(calls'[c])
  BY DEF Answered, CallShape, ShapeInv
<1>2. PromiseShape'
  BY PromiseStays DEF Answered
<1> QED BY <1>1, <1>2, OneCallStep DEF Answered

LEMMA AddOne ==
  ASSUME NEW S, IsFiniteSet(S), NEW x, x \notin S, NEW T, T = S \cup {x}
  PROVE  IsFiniteSet(T) /\ Cardinality(T) = Cardinality(S) + 1
BY FS_AddElement

LEMMA ObtainsShaped ==
  ASSUME ShapeInv, NEW c \in Calls, Obtains(c)
  PROVE  ShapeInv'
<1> DEFINE new == Token(calls[c].bearer.user, server.issued + 1)
<1>1. /\ Types' /\ Only(c) /\ Answered(c)
      /\ calls'[c].answer.ok /\ calls'[c].answer.sets
      /\ calls'[c].answer.token = new /\ calls'[c].answer.cookie = new
      /\ new \notin Known /\ new # NoToken
      /\ server'.valid = server.valid \cup {new}
  BY ObtainsEffect
<1> HIDE DEF new
<1>2. CallShape(calls'[c])
  BY <1>1 DEF Answered, CallShape, ShapeInv, Obtains
<1>3. \A d \in Calls : CallShape(calls'[d]) /\ calls'[d].kind = calls[d].kind
  BY <1>1, <1>2 DEF ShapeInv, Only, Answered
<1>4. LoginOnce'
  BY <1>3 DEF ShapeInv, LoginOnce
<1>5. PromiseShape'
  BY <1>1, PromiseStays DEF Answered, Obtains
<1>6. Opening /\ ~ Opening'
  <2>1. calls[c].kind = "login"
    BY DEF Obtains, ShapeInv, CallShape
  <2>2. \A d \in Calls : calls'[d].path = "login" => d = c
    BY <1>3, <2>1 DEF ShapeInv, LoginOnce, CallShape
  <2> QED BY <1>1, <2>2 DEF Opening, Obtains, Answered
<1>7. OneTokenEach'
  <2>1. new \notin server.valid
    BY <1>1, TypedParts DEF ShapeInv, Known
  <2>2. IsFiniteSet(server.valid) /\ spent["login"] \in Nat
          /\ Cardinality(server.valid) + 1 <= spent["login"]
    BY <1>6 DEF ShapeInv, OneTokenEach, Types, Kinds
  <2>3. IsFiniteSet(server'.valid) /\ Cardinality(server'.valid) = Cardinality(server.valid) + 1
    BY <1>1, <2>1, <2>2, AddOne
  <2>4. spent' = spent
    BY DEF Obtains
  <2> QED BY <1>6, <2>2, <2>3, <2>4, FS_CardinalityType DEF OneTokenEach
<1> QED BY <1>1, <1>3, <1>4, <1>5, <1>7 DEF ShapeInv

LEMMA RotatedShaped ==
  ASSUME ShapeInv, Rotated
  PROVE  ShapeInv'
<1> DEFINE old == refreshPromise.cookie
           new == Token(old.user, server.issued + 1)
<1>1. /\ Types' /\ old \in server.valid
      /\ refreshPromise'.phase = "served"
      /\ refreshPromise'.answer.ok /\ refreshPromise'.answer.sets
      /\ refreshPromise'.answer.token = new /\ refreshPromise'.answer.cookie = new
      /\ new \notin Known /\ new # NoToken
      /\ server'.valid = (server.valid \ {old}) \cup {new}
  BY RotatedEffect
<1> HIDE DEF new, old
<1>2. calls' = calls /\ spent' = spent
  BY DEF Rotated
<1>3. PromiseShape'
  BY <1>1 DEF PromiseShape
<1>4. OneTokenEach'
  <2>1. new \notin server.valid
    BY <1>1, TypedParts DEF ShapeInv, Known
  <2>2. IsFiniteSet(server.valid)
          /\ Cardinality(server.valid) + (IF Opening THEN 1 ELSE 0) <= spent["login"]
    BY DEF ShapeInv, OneTokenEach
  <2>3. /\ IsFiniteSet(server.valid \ {old})
        /\ Cardinality(server.valid \ {old}) = Cardinality(server.valid) - 1
    BY <1>1, <2>2, FS_RemoveElement
  <2>4. /\ IsFiniteSet(server'.valid)
        /\ Cardinality(server'.valid) = Cardinality(server.valid \ {old}) + 1
    BY <1>1, <2>1, <2>3, AddOne
  <2>5. Cardinality(server'.valid) = Cardinality(server.valid)
    BY <2>2, <2>3, <2>4, FS_CardinalityType
  <2>6. Opening' = Opening
    BY <1>2 DEF Opening
  <2> QED BY <1>2, <2>2, <2>4, <2>5, <2>6 DEF OneTokenEach
<1> QED BY <1>1, <1>2, <1>3, <1>4 DEF ShapeInv, LoginOnce

LEMMA LoginShaped ==
  ASSUME ShapeInv, NEW c \in Calls, NEW u \in Users, login(c, u)
  PROVE  ShapeInv'
<1>1. /\ Types' /\ Only(c)
      /\ calls'[c].kind = "login" /\ calls'[c].path = "login"
      /\ calls'[c].phase = "sent" /\ calls'[c].bearer.user = u
      /\ \A d \in Calls : calls[d].kind # "login"
      /\ spent'["login"] = spent["login"] + 1
  BY LoginEffect
<1>2. \A d \in Calls : CallShape(calls'[d])
  BY <1>1 DEF ShapeInv, Only, CallShape
<1>3. LoginOnce'
  BY <1>1 DEF Only, LoginOnce
<1>4. PromiseShape'
  BY <1>1, PromiseStays DEF login
<1>5. OneTokenEach'
  <2>1. ~ Opening
    BY <1>1 DEF Opening, ShapeInv, CallShape
  <2>2. IsFiniteSet(server.valid) /\ spent["login"] \in Nat
          /\ Cardinality(server.valid) + 0 <= spent["login"]
    BY <2>1 DEF ShapeInv, OneTokenEach, Types, Kinds
  <2>3. server' = server /\ Cardinality(server.valid) \in Nat
    BY <2>2, FS_CardinalityType DEF login
  <2> QED BY <1>1, <2>2, <2>3 DEF OneTokenEach
<1> QED BY <1>1, <1>2, <1>3, <1>4, <1>5 DEF ShapeInv

LEMMA ReceiveShaped ==
  ASSUME ShapeInv, NEW c \in Calls, Receive(c)
  PROVE  ShapeInv'
<1>1. CASE ReceiveOk(c)
  <2>1. Types' /\ Only(c) /\ calls[c].kind \in MyKinds \ {"none"}
          /\ calls'[c] = Onward(page', calls[c])
    BY <1>1, ReceiveOkEffect
  <2>2. /\ CallShape(calls'[c]) /\ calls'[c].path \in {"none", "me", "wallet", "data"}
        /\ calls'[c].phase \in {"idle", "sent"} /\ calls'[c].kind \in {"none", calls[c].kind}
    BY <2>1, CallGoesOn
  <2>3. calls'[c].kind = "login" => calls[c].kind = "login"
    BY <2>2
  <2>4. PromiseShape'
    BY <1>1, <2>1, <2>2, PromiseStays DEF ReceiveOk
  <2> QED BY <1>1, <2>1, <2>2, <2>3, <2>4, OneCallStep DEF ReceiveOk
<1>2. CASE ReceiveRefused(c)
  <2>1. Types' /\ Only(c) /\ calls[c].kind \in MyKinds \ {"none"}
          /\ calls'[c] = GivenUp(page', calls[c])
    BY <1>2, ReceiveRefusedEffect
  <2>2. /\ CallShape(calls'[c]) /\ calls'[c].path \in {"none", "me", "wallet", "data"}
        /\ calls'[c].phase \in {"idle", "sent"} /\ calls'[c].kind \in {"none", calls[c].kind}
    BY <2>1, CallGivesUp
  <2>3. calls'[c].kind = "login" => calls[c].kind = "login"
    BY <2>2
  <2>4. PromiseShape'
    BY <1>2, <2>1, <2>2, PromiseStays DEF ReceiveRefused
  <2> QED BY <1>2, <2>1, <2>2, <2>3, <2>4, OneCallStep DEF ReceiveRefused
<1>3. CASE ReceiveExpired(c)
  <2>1. /\ Types' /\ Only(c) /\ calls[c].kind \in MyKinds \ {"none"}
        /\ calls[c].path \in {"me", "wallet", "data"}
        /\ calls'[c] = Awaiting(calls[c].kind, calls[c].path)
        /\ refreshPromise' = IF refreshPromise.phase = "none"
                             THEN Promise(page.cookie) ELSE refreshPromise
    BY <1>3, ReceiveExpiredEffect
  <2>2. /\ CallShape(calls'[c]) /\ calls'[c].kind = calls[c].kind
        /\ calls'[c].phase = "awaiting"
    BY <2>1, CallAwaits
  <2>3. PromiseShape'
    BY <2>1 DEF PromiseShape, Promise, ShapeInv
  <2> QED BY <1>3, <2>1, <2>2, <2>3, OneCallStep DEF ReceiveExpired
<1> QED BY <1>1, <1>2, <1>3, ReceiveCases

LEMMA ServeShaped ==
  ASSUME ShapeInv, NEW c \in Calls, Serve(c)
  PROVE  ShapeInv'
<1>1. CASE Obtains(c)
  BY <1>1, ObtainsShaped
<1>2. CASE Reads(c)
  <2>1. /\ Types' /\ Only(c) /\ Answered(c)
        /\ ~ calls'[c].answer.sets
        /\ calls'[c].answer.ok <=> calls[c].bearer \in server.fresh
        /\ calls'[c].answer.ok => calls'[c].answer.token = calls[c].bearer
    BY <1>2, ReadsEffect
  <2>2. NoToken \notin server.fresh
    BY TypedParts, KnownTokens, ConstantsAreTyped DEF ShapeInv
  <2> QED BY <1>2, <2>1, <2>2, ServedIsShaped DEF Reads
<1>3. CASE Revokes(c)
  <2>1. /\ Types' /\ Only(c) /\ Answered(c)
        /\ calls'[c].answer.cookie = NoToken
        /\ server'.valid \subseteq server.valid
    BY <1>3, RevokesEffect
  <2> QED BY <1>3, <2>1, ServedIsShaped DEF Revokes
<1>4. CASE RevokesNot(c)
  <2>1. Types' /\ Only(c) /\ Answered(c) /\ calls'[c].answer.cookie = NoToken
    BY <1>4, RevokesNotEffect DEF Refused, Answer
  <2> QED BY <1>4, <2>1, ServedIsShaped DEF RevokesNot
<1> QED BY <1>1, <1>2, <1>3, <1>4, ServeCases

\* The calls that awaited a refresh that failed.
LEMMA ExpelsShaped ==
  ASSUME ShapeInv, NEW p \in Page, Expels(p),
         spent' \in [Kinds -> Nat], kept' \in BOOLEAN, spent'["login"] = spent["login"]
  PROVE  ShapeInv'
<1>1. /\ Types' /\ refreshPromise' = NoPromise
      /\ \A c \in Calls : IF c \in Awaiters THEN calls'[c] = GivenUp(page', calls[c])
                          ELSE calls'[c] = calls[c]
  BY ExpelsEffect
<1>2. ASSUME NEW c \in Awaiters
      PROVE  /\ CallShape(calls'[c]) /\ calls'[c].phase # "awaiting"
             /\ calls'[c].kind \in {"none", calls[c].kind}
             /\ calls'[c].path # "login"
  <2>1. c \in Calls /\ calls[c].kind \in MyKinds \ {"none"}
          /\ calls'[c] = GivenUp(page', calls[c])
    BY <1>1, AwaitersAreCalls DEF Awaiters
  <2>2. /\ CallShape(calls'[c]) /\ calls'[c].path \in {"none", "me", "wallet", "data"}
        /\ calls'[c].phase \in {"idle", "sent"} /\ calls'[c].kind \in {"none", calls[c].kind}
    BY <2>1, CallGivesUp
  <2> QED BY <2>2 DEF CallShape
<1> QED BY <1>1, <1>2, AwaitersStep DEF Expels

LEMMA ReceiveRefreshShaped ==
  ASSUME ShapeInv, ReceiveRefresh
  PROVE  ShapeInv'
<1>1. CASE Renews
  <2>1. /\ Types' /\ refreshPromise' = NoPromise
        /\ \A c \in Calls : IF c \in Awaiters THEN calls'[c] = Retried(page', calls[c])
                            ELSE calls'[c] = calls[c]
    BY <1>1, RenewsEffect
  <2>2. ASSUME NEW c \in Awaiters
        PROVE  /\ CallShape(calls'[c]) /\ calls'[c].phase # "awaiting"
               /\ calls'[c].kind \in {"none", calls[c].kind}
               /\ calls'[c].path # "login"
    <3>1. calls[c].kind \in MyKinds \ {"none"} /\ calls'[c] = Retried(page', calls[c])
            /\ calls[c].path \in {"restore", "me", "wallet", "data"}
      BY <2>1, AwaitersAreCalls DEF Awaiters
    <3> QED BY <3>1, RetriedFields
  <2> QED BY <1>1, <2>1, <2>2, AwaitersStep DEF Renews
<1>2. CASE /\ Expels(notifyUnauthorized(Applying(refreshPromise.answer)))
           /\ UNCHANGED <<spent, kept>>
  <2>1. notifyUnauthorized(Applying(refreshPromise.answer)) \in Page
    BY TypedParts, ApplyingIsPage, FailedIsPage DEF ShapeInv
  <2> QED BY <1>2, <2>1, ExpelsShaped DEF ShapeInv, Types
<1> QED BY <1>1, <1>2, ReceiveRefreshCases

LEMMA RefreshShaped ==
  ASSUME ShapeInv, TokenRefreshAuditView
  PROVE  ShapeInv'
<1>1. CASE Rotated
  BY <1>1, RotatedShaped
<1>2. CASE NotRotated
  <2>1. /\ Types' /\ refreshPromise'.phase = "served"
        /\ ~ refreshPromise'.answer.ok /\ refreshPromise'.answer.cookie = NoToken
        /\ refreshPromise'.answer.sets => refreshPromise'.cookie = NoToken
    BY <1>2, NotRotatedEffect
  <2>2. PromiseShape'
    BY <2>1 DEF PromiseShape
  <2>3. UNCHANGED <<calls, server, spent>>
    BY <1>2 DEF NotRotated
  <2> QED BY <2>1, <2>2, <2>3 DEF ShapeInv, LoginOnce, OneTokenEach, Opening
<1> QED BY <1>1, <1>2, RefreshCases

LEMMA UserShaped ==
  ASSUME ShapeInv, NEW c \in Calls, use(c) \/ logout(c) \/ Reload(c) \/ Fault(c)
  PROVE  ShapeInv'
<1>1. CASE use(c)
  <2>1. PICK path \in {"wallet", "data"} : calls'[c] = Send(page, "use", path)
    BY <1>1, UseEffect
  <2>2. CallShape(calls'[c]) /\ calls'[c].kind = "use" /\ calls'[c].path = path
          /\ calls'[c].phase = "sent"
    BY <2>1, CallIsSent DEF MyKinds
  <2>3. PromiseShape'
    BY <1>1, <2>2, UseEffect, PromiseStays DEF use
  <2>4. server' = server
    BY <1>1 DEF use
  <2> QED BY <1>1, <2>2, <2>3, <2>4, UseEffect, OneCallStep
<1>2. CASE logout(c)
  <2>1. Types' /\ Only(c) /\ calls[c].phase = "idle"
          /\ calls'[c] = IF page.token = NoToken THEN calls[c]
                         ELSE Send(page, "logout", "revoke")
    BY <1>2, LogoutEffect
  <2>2. CallShape(calls'[c]) /\ calls'[c].phase # "awaiting"
          /\ calls'[c].kind \in {"logout", calls[c].kind} /\ calls'[c].path # "login"
    BY <2>1, NewCallShapes DEF ShapeInv, Send, MyKinds, CallShape
  <2>3. PromiseShape'
    BY <1>2, <2>1, <2>2, PromiseStays DEF logout
  <2>4. server' = server /\ spent' = spent
    BY <1>2 DEF logout
  <2> QED BY <2>1, <2>2, <2>3, <2>4, OneCallStep
<1>3. CASE Reload(c)
  <2>1. Types' /\ Only(c) /\ calls'[c] = Awaiting("boot", "restore")
          /\ refreshPromise' = Promise(page.cookie) /\ spent'["login"] = spent["login"]
    BY <1>3, ReloadEffect
  <2>2. CallShape(calls'[c]) /\ calls'[c].kind = "boot" /\ calls'[c].path = "restore"
    BY <2>1, CallAwaits DEF MyKinds
  <2>3. PromiseShape'
    BY <2>1 DEF PromiseShape, Promise
  <2>4. server' = server
    BY <1>3 DEF Reload
  <2> QED BY <2>1, <2>2, <2>3, <2>4, OneCallStep
<1>4. CASE Fault(c)
  <2>1. /\ Types' /\ Only(c) /\ calls[c].kind \in MyKinds \ {"none"}
        /\ calls'[c] = GivenUp(page', calls[c])
        /\ spent'["login"] = spent["login"]
    BY <1>4, FaultEffect
  <2>2. /\ CallShape(calls'[c]) /\ calls'[c].path \in {"none", "me", "wallet", "data"}
        /\ calls'[c].phase \in {"idle", "sent"} /\ calls'[c].kind \in {"none", calls[c].kind}
    BY <2>1, CallGivesUp
  <2>3. calls'[c].kind = "login" => calls[c].kind = "login"
    BY <2>2
  <2>4. PromiseShape'
    BY <1>4, <2>1, <2>2, PromiseStays DEF Fault
  <2>5. server' = server
    BY <1>4 DEF Fault
  <2> QED BY <2>1, <2>2, <2>3, <2>4, <2>5, OneCallStep
<1> QED BY <1>1, <1>2, <1>3, <1>4

LEMMA ExpiryShaped ==
  ASSUME ShapeInv, AccessExpires \/ SessionExpires
  PROVE  ShapeInv'
<1>1. /\ Types' /\ server'.valid \subseteq server.valid /\ spent'["login"] = spent["login"]
  BY AccessExpiresEffect, SessionExpiresEffect
<1>2. UNCHANGED <<page, calls, refreshPromise>>
  BY DEF AccessExpires, SessionExpires
<1>3. OneTokenEach'
  BY <1>1, <1>2, TokensStayFew DEF Opening
<1> QED BY <1>1, <1>2, <1>3 DEF ShapeInv, LoginOnce, PromiseShape

LEMMA ShapeStep ==
  ASSUME ShapeInv, [Next]_vars
  PROVE  ShapeInv'
<1>1. CASE UNCHANGED vars
  BY <1>1 DEF vars, ShapeInv, Types, Page, Call, PromiseRecord, ServerRecord, Response, Known,
              Tokens, PromiseShape, LoginOnce, OneTokenEach, Opening
<1>2. ASSUME NEW c \in Calls, Work(c)
      PROVE  ShapeInv'
  BY <1>2, ServeShaped, ReceiveShaped DEF Work
<1>3. ASSUME NEW c \in Calls, use(c) \/ logout(c) \/ Reload(c) \/ Fault(c)
      PROVE  ShapeInv'
  BY <1>3, UserShaped
<1>4. ASSUME NEW c \in Calls, NEW u \in Users, login(c, u)
      PROVE  ShapeInv'
  BY <1>4, LoginShaped
<1>5. CASE TokenRefreshAuditView \/ ReceiveRefresh
  BY <1>5, RefreshShaped, ReceiveRefreshShaped
<1>6. CASE FaultOfRefresh
  <2>1. page \in Page /\ Types
    BY DEF ShapeInv, Types
  <2>2. spent' \in [Kinds -> Nat] /\ spent'["login"] = spent["login"]
    BY <1>6, <2>1, FaultOfRefreshCase, SpendFields DEF Kinds
  <2> QED BY <1>6, <2>1, <2>2, FaultOfRefreshCase, ExpelsShaped
<1>7. CASE AccessExpires \/ SessionExpires
  BY <1>7, ExpiryShaped
<1> QED BY <1>1, <1>2, <1>3, <1>4, <1>5, <1>6, <1>7 DEF Next

LEMMA ShapeInit ==
  ASSUME Init
  PROVE  ShapeInv
<1>1. PICK c \in Calls :
        calls = [d \in Calls |-> IF d = c THEN Awaiting("boot", "restore") ELSE Idle]
  BY DEF Init
<1>2. /\ Awaiting("boot", "restore") \in Call /\ CallShape(Awaiting("boot", "restore"))
      /\ Idle \in Call /\ CallShape(Idle)
      /\ Awaiting("boot", "restore").kind = "boot" /\ Awaiting("boot", "restore").path = "restore"
      /\ Idle.kind = "none" /\ Idle.path = "none"
  <2>1. "boot" \in MyKinds \ {"none"} /\ "restore" \in Paths
    BY DEF MyKinds, Paths
  <2>2. Idle.kind = "none" /\ Idle.path = "none"
    BY DEF Idle
  <2>3. CallShape(Awaiting("boot", "restore"))
    BY <2>1, NewCallShapes
  <2>4. Awaiting("boot", "restore").kind = "boot" /\ Awaiting("boot", "restore").path = "restore"
    BY DEF Awaiting, Idle
  <2> QED BY <2>1, <2>2, <2>3, <2>4, AwaitingIsCall, IdleIsShaped, ConstantsAreTyped
<1>3. calls \in [Calls -> Call] /\ \A d \in Calls : CallShape(calls[d])
  BY <1>1, <1>2
<1>4. page \in Page /\ refreshPromise \in PromiseRecord
  BY ConstantsAreTyped DEF Init, NewPage, Page, Account, Promise, NoPromise, PromiseRecord
<1>5. server \in ServerRecord /\ server.valid = {}
  BY DEF Init, ServerRecord
<1>6. Types
  BY <1>3, <1>4, <1>5 DEF Types, Init
<1>7. PromiseShape
  BY DEF Init, PromiseShape, Promise, NoPromise
<1>8. LoginOnce /\ ~ Opening
  BY <1>1, <1>2 DEF LoginOnce, Opening
<1>9. OneTokenEach
  <2>1. IsFiniteSet(server.valid) /\ Cardinality(server.valid) = 0
    BY <1>5, FS_EmptySet
  <2>2. spent["login"] = 0
    BY DEF Init, Kinds
  <2> QED BY <1>8, <2>1, <2>2 DEF OneTokenEach
<1> QED BY <1>3, <1>6, <1>7, <1>8, <1>9 DEF ShapeInv

LEMMA ShapeIsTyped ==
  ASSUME ShapeInv
  PROVE  TypeOK
<1>1. Cardinality(server.valid) <= spent["login"]
  <2>1. Cardinality(server.valid) \in Nat /\ spent["login"] \in Nat
    BY FS_CardinalityType DEF ShapeInv, OneTokenEach, Types, Kinds
  <2> QED BY <2>1 DEF ShapeInv, OneTokenEach
<1>2. Awaiters # {} => refreshPromise.phase # "none"
  BY DEF ShapeInv, PromiseShape, Awaiters
<1> QED BY <1>1, <1>2 DEF ShapeInv, Types, TypeOK, PromiseRecord, ServerRecord

LEMMA ShapeAlways == Spec => []ShapeInv
<1> QED BY ShapeInit, ShapeStep, PTL DEF Spec

\* However often a session is refreshed, revoked or lost on the way, the server
\* accepts at most one refresh token per login, and whoever awaits a refresh has
\* one to await (TokenRefreshAuditView, refreshAccessToken).
THEOREM TypeCorrect == Spec => []TypeOK
<1> QED BY ShapeAlways, ShapeIsTyped, PTL

-------------------------------------------------------------------------------
(* Who is under way with whom, when users wait for the answers of a session *)
(* that ends before the next one begins.                                    *)

Lone(c) == \A d \in Calls \ {c} : calls[d].path = "none"

Pending(paths) == \E c \in Calls : calls[c].path \in paths

\* Restoring a session and signing in have the tab to themselves; a revocation
\* has seen everything else that could sign the user in come to its end.
Order ==
    \A c \in Calls :
      /\ calls[c].path = "restore" => Lone(c) /\ ~ page.auth /\ refreshPromise.phase # "none"
      /\ calls[c].path = "login"   => Lone(c) /\ ~ page.auth /\ refreshPromise.phase = "none"
      /\ calls[c].path = "revoke"  => /\ ~ page.auth /\ ~ Pending({"login", "restore", "me"})
                                      /\ \A d \in Calls : calls[d].path = "revoke" => d = c

Orderly == ShapeInv /\ Order /\ ~ Hasty

\* A step in which calls come nearer to their end.
Settles ==
    /\ \A c \in Calls : \/ calls'[c].path = calls[c].path
                        \/ /\ calls[c].path # "none"
                           /\ calls'[c].path \in {"none", "wallet", "data"}
    /\ page'.auth => page.auth \/ Pending({"me"})

LEMMA OrderSettles ==
  ASSUME Order, Settles,
         \A c \in Calls : calls'[c].path = "restore" => refreshPromise'.phase # "none",
         \A c \in Calls : calls'[c].path = "login"   => refreshPromise'.phase = "none"
  PROVE  Order'
<1>1. ASSUME NEW c \in Calls, calls'[c].path \in {"restore", "login"}
      PROVE  Lone(c)' /\ ~ page'.auth
  <2>1. calls[c].path = calls'[c].path /\ Lone(c) /\ ~ page.auth
    BY <1>1 DEF Settles, Order
  <2>2. ~ Pending({"me"})
    BY <1>1, <2>1 DEF Lone, Pending
  <2> QED BY <2>1, <2>2 DEF Settles, Lone
<1>2. ASSUME NEW c \in Calls, calls'[c].path = "revoke"
      PROVE  /\ ~ page'.auth /\ ~ Pending({"login", "restore", "me"})'
             /\ \A d \in Calls : calls'[d].path = "revoke" => d = c
  <2>1. calls[c].path = "revoke"
    BY <1>2 DEF Settles
  <2>2. ~ page.auth /\ ~ Pending({"login", "restore", "me"})
          /\ \A d \in Calls : calls[d].path = "revoke" => d = c
    BY <2>1 DEF Order
  <2>3. ~ page'.auth
    BY <2>2 DEF Settles, Pending
  <2>4. \A d \in Calls : calls'[d].path \notin {"login", "restore", "me"}
    BY <2>2 DEF Settles, Pending
  <2>5. \A d \in Calls : calls'[d].path = "revoke" => calls[d].path = "revoke"
    BY DEF Settles
  <2> QED BY <2>2, <2>3, <2>4, <2>5 DEF Pending
<1> QED BY <1>1, <1>2 DEF Order

\* A call that is sent or served is not restoring, and no other is alone.
LEMMA BusyExcludes ==
  ASSUME Orderly, NEW c \in Calls, calls[c].phase \in {"sent", "served"}
  PROVE  /\ calls[c].path \in {"login", "me", "wallet", "data", "revoke"}
         /\ \A d \in Calls \ {c} : calls[d].path \notin {"restore", "login"}
         /\ calls[c].path = "login" =>
              /\ \A d \in Calls \ {c} : calls[d].path = "none" /\ calls[d].phase = "idle"
              /\ ~ page.auth /\ refreshPromise.phase = "none"
<1>1. CallShape(calls[c]) /\ calls[c].path \in Paths
  BY TypedParts DEF Orderly, ShapeInv
<1>2. calls[c].path \notin {"none", "restore"}
  BY <1>1 DEF CallShape
<1>3. \A d \in Calls \ {c} : calls[d].path \notin {"restore", "login"}
  BY <1>2 DEF Orderly, Order, Lone
<1>4. \A d \in Calls : calls[d].path = "none" => calls[d].phase = "idle"
  BY DEF Orderly, ShapeInv, CallShape
<1> QED BY <1>1, <1>2, <1>3, <1>4 DEF Orderly, Order, Lone, Paths

LEMMA ServeSettles ==
  ASSUME Orderly, NEW c \in Calls, Serve(c)
  PROVE  /\ Only(c) /\ Answered(c) /\ Settles
         /\ \A d \in Calls : calls'[d].path = calls[d].path
         /\ UNCHANGED <<page, refreshPromise, spent>>
<1>1. Only(c) /\ Answered(c)
  BY ServeCases, ObtainsEffect, ReadsEffect, RevokesEffect, RevokesNotEffect DEF Orderly
<1>2. UNCHANGED <<page, refreshPromise, spent>>
  BY DEF Serve
<1>3. \A d \in Calls : calls'[d].path = calls[d].path
  BY <1>1 DEF Only, Answered
<1> QED BY <1>1, <1>2, <1>3 DEF Settles

LEMMA ServeOrder ==
  ASSUME Orderly, NEW c \in Calls, Serve(c)
  PROVE  Order'
BY ServeSettles, OrderSettles DEF Orderly, Order

\* What an answer does to the page, and how its call goes on.
LEMMA ReceiveOkFields ==
  ASSUME Orderly, NEW c \in Calls, ReceiveOk(c)
  PROVE  LET t == calls[c] IN
         /\ Only(c)
         /\ t.path \in {"login", "me", "wallet", "data", "revoke"}
         /\ t.path = "login" =>
              /\ t.answer.token # NoToken
              /\ page'.cookie = t.answer.token /\ page'.token = t.answer.token
         /\ t.path = "revoke" => page'.cookie \in {page.cookie, NoToken} /\ page'.token = NoToken
         /\ t.path \in {"me", "wallet", "data"} =>
              /\ page'.cookie = page.cookie /\ page'.token = page.token
              /\ t.bearer # NoToken
         /\ page'.auth <=> (t.path \in {"login", "me"} \/ page.auth)
         /\ page'.user = IF t.path = "me" THEN t.bearer.user ELSE page.user
         /\ page'.wallet = IF t.path = "wallet" THEN t.bearer.user ELSE page.wallet
<1> DEFINE t == calls[c]
           p == Applying(t.answer)
<1>1. /\ Only(c) /\ p \in Page /\ page' = Accepted(p, t)
      /\ t.phase = "served" /\ t.answer.ok
  BY ReceiveOkEffect DEF Orderly, ReceiveOk
<1>2. CallShape(t) /\ t.answer \in Response
        /\ t.path \in {"login", "me", "wallet", "data", "revoke"}
  BY <1>1, TypedParts, BusyExcludes DEF Orderly, ShapeInv
<1>3. /\ p.cookie = IF t.answer.sets THEN t.answer.cookie ELSE page.cookie
      /\ p.token = page.token /\ p.auth = page.auth
      /\ p.user = page.user /\ p.wallet = page.wallet
  BY <1>2, ApplyingIsPage DEF Orderly, ShapeInv
<1> HIDE DEF p, t
<1>4. /\ page'.cookie = p.cookie
      /\ page'.token  = IF t.path = "login" THEN t.answer.token
                        ELSE IF t.path = "revoke" THEN NoToken ELSE p.token
      /\ page'.auth   = (t.path \in {"login", "me"} \/ p.auth)
      /\ page'.user   = IF t.path = "me" THEN t.answer.token.user ELSE p.user
      /\ page'.wallet = IF t.path = "wallet" THEN t.answer.token.user ELSE p.wallet
  BY <1>1, AcceptedFields
<1>5. /\ t.path = "login" => /\ t.answer.sets /\ t.answer.token # NoToken
                             /\ t.answer.cookie = t.answer.token
      /\ t.path = "revoke" => t.answer.cookie = NoToken
      /\ t.path \in {"me", "wallet", "data"} =>
           ~ t.answer.sets /\ t.answer.token = t.bearer /\ t.bearer # NoToken
  BY <1>1, <1>2 DEF CallShape
<1> QED BY <1>1, <1>2, <1>3, <1>4, <1>5 DEF t

LEMMA ReceiveOkCall ==
  ASSUME Orderly, NEW c \in Calls, ReceiveOk(c)
  PROVE  /\ calls'[c].phase \in {"idle", "sent"}
         /\ calls'[c].phase = "sent" =>
              /\ calls'[c].bearer = page'.token /\ calls'[c].cookie = page'.cookie
              /\ calls'[c].retry
         /\ calls'[c].phase = "idle" => calls'[c].bearer = NoToken /\ calls'[c].cookie = NoToken
         /\ calls[c].path = "login" => calls'[c].path = "me"
         /\ calls[c].path = "me"    => calls'[c].path = "wallet"
         /\ calls[c].path \in {"wallet", "data", "revoke"} => calls'[c].path \in {"none", "data"}
<1>1. calls[c].kind \in MyKinds \ {"none"} /\ calls'[c] = Onward(page', calls[c])
  BY ReceiveOkEffect DEF Orderly
<1> QED BY <1>1, CallGoesOn

LEMMA ReceiveRefusedFields ==
  ASSUME Orderly, NEW c \in Calls, ReceiveRefused(c)
  PROVE  LET t == calls[c] IN
         /\ Only(c)
         /\ t.path \in {"me", "wallet", "data", "revoke"}
         /\ t.path # "revoke" => ~ t.retry
         /\ t.path = "revoke" => page'.cookie \in {page.cookie, NoToken} /\ page'.token = NoToken
         /\ t.path # "revoke" => page'.cookie = page.cookie /\ page'.token = page.token
         /\ IF t.path = "me" THEN ~ page'.auth /\ page'.user = None
            ELSE page'.auth = page.auth /\ page'.user = page.user /\ page'.wallet = page.wallet
<1> DEFINE t == calls[c]
           p == Applying(t.answer)
<1>1. /\ Only(c) /\ p \in Page /\ page' = Failed(p, t)
      /\ t.path \in {"me", "wallet", "data", "revoke"} /\ (t.path # "revoke" => ~ t.retry)
      /\ t.phase = "served" /\ CallShape(t) /\ t.answer \in Response
  BY ReceiveRefusedEffect, TypedParts DEF Orderly, ReceiveRefused, ShapeInv
<1>2. /\ p.cookie = IF t.answer.sets THEN t.answer.cookie ELSE page.cookie
      /\ p.token = page.token /\ p.auth = page.auth
      /\ p.user = page.user /\ p.wallet = page.wallet
  BY <1>1, ApplyingIsPage DEF Orderly, ShapeInv
<1> HIDE DEF p, t
<1>3. /\ page'.cookie = p.cookie
      /\ page'.token  = IF t.path = "revoke" THEN NoToken ELSE p.token
      /\ IF t.path \in {"restore", "me"}
         THEN ~ page'.auth /\ page'.user = None /\ page'.wallet = None
         ELSE page'.auth = p.auth /\ page'.user = p.user /\ page'.wallet = p.wallet
  BY <1>1, FailedFields
<1>4. /\ t.path = "revoke" => t.answer.cookie = NoToken
      /\ t.path \in {"me", "wallet", "data"} => ~ t.answer.sets
  BY <1>1 DEF CallShape
<1> QED BY <1>1, <1>2, <1>3, <1>4 DEF t

\* A call that gives up.
LEMMA ReceiveRefusedCall ==
  ASSUME Orderly, NEW c \in Calls, ReceiveRefused(c) \/ Fault(c)
  PROVE  /\ calls'[c].phase \in {"idle", "sent"} /\ calls'[c].path \in {"none", "data"}
         /\ calls'[c].phase = "sent" =>
              /\ calls'[c].bearer = page'.token /\ calls'[c].cookie = page'.cookie
              /\ calls'[c].retry
         /\ calls'[c].phase = "idle" => calls'[c].bearer = NoToken /\ calls'[c].cookie = NoToken
<1>1. calls[c].kind \in MyKinds \ {"none"} /\ calls'[c] = GivenUp(page', calls[c])
  BY ReceiveRefusedEffect, FaultEffect DEF Orderly
<1> QED BY <1>1, CallGivesUp

LEMMA ReceiveExpiredFields ==
  ASSUME Orderly, NEW c \in Calls, ReceiveExpired(c)
  PROVE  /\ Only(c) /\ page' = page
         /\ calls[c].path \in {"me", "wallet", "data"} /\ calls[c].phase = "served"
         /\ calls'[c].path = calls[c].path /\ calls'[c].phase = "awaiting"
         /\ calls'[c].bearer = NoToken /\ calls'[c].cookie = NoToken
         /\ refreshPromise' = IF refreshPromise.phase = "none"
                              THEN Promise(page.cookie) ELSE refreshPromise
<1>1. /\ Only(c) /\ page' = page
      /\ calls[c].kind \in MyKinds \ {"none"} /\ calls[c].path \in {"me", "wallet", "data"}
      /\ calls'[c] = Awaiting(calls[c].kind, calls[c].path)
      /\ refreshPromise' = IF refreshPromise.phase = "none"
                           THEN Promise(page.cookie) ELSE refreshPromise
  BY ReceiveExpiredEffect DEF Orderly
<1> QED BY <1>1, CallAwaits DEF ReceiveExpired

LEMMA FaultFields ==
  ASSUME Orderly, NEW c \in Calls, Fault(c)
  PROVE  /\ Only(c) /\ calls[c].phase \in {"sent", "served"}
         /\ calls[c].path \in {"login", "me", "wallet", "data", "revoke"}
         /\ page'.cookie = page.cookie /\ page'.token \in {page.token, NoToken}
         /\ IF calls[c].path = "me" THEN ~ page'.auth /\ page'.user = None
            ELSE page'.auth = page.auth /\ page'.user = page.user /\ page'.wallet = page.wallet
         /\ spent'["fault"] = spent["fault"] + 1
<1>1. /\ Only(c) /\ calls[c].phase \in {"sent", "served"} /\ page' = Failed(page, calls[c])
      /\ spent'["fault"] = spent["fault"] + 1 /\ page \in Page
  BY FaultEffect, TypedParts DEF Orderly, ShapeInv
<1>2. calls[c].path \in {"login", "me", "wallet", "data", "revoke"}
  BY <1>1, BusyExcludes
<1> QED BY <1>1, <1>2, FailedFields

\* A refresh that ended: with a new token, or without one.
LEMMA RenewsFields ==
  ASSUME Orderly, Renews
  PROVE  LET new == refreshPromise.answer.token IN
         /\ refreshPromise'.phase = "none" /\ new # NoToken
         /\ page'.cookie = new /\ page'.token = new
         /\ page'.auth = page.auth /\ page'.user = page.user /\ page'.wallet = page.wallet
         /\ \A c \in Calls : IF calls[c].phase = "awaiting"
                             THEN /\ calls'[c].phase = "sent"
                                  /\ calls'[c].bearer = new /\ calls'[c].cookie = new
                                  /\ calls'[c].path = IF calls[c].path = "restore" THEN "me"
                                                      ELSE calls[c].path
                                  /\ calls[c].path \in {"restore", "me", "wallet", "data"}
                             ELSE calls'[c] = calls[c]
<1> DEFINE new == refreshPromise.answer.token
<1>1. /\ refreshPromise' = NoPromise
      /\ page'.cookie = new /\ page'.token = new
      /\ page'.auth = page.auth /\ page'.user = page.user /\ page'.wallet = page.wallet
      /\ \A c \in Calls : IF c \in Awaiters THEN calls'[c] = Retried(page', calls[c])
                          ELSE calls'[c] = calls[c]
  BY RenewsEffect DEF Orderly
<1>2. new # NoToken
  BY DEF Orderly, ShapeInv, PromiseShape, Renews
<1> HIDE DEF new
<1>3. ASSUME NEW c \in Calls, calls[c].phase = "awaiting"
      PROVE  /\ calls'[c].phase = "sent"
             /\ calls'[c].bearer = new /\ calls'[c].cookie = new
             /\ calls'[c].path = IF calls[c].path = "restore" THEN "me" ELSE calls[c].path
             /\ calls[c].path \in {"restore", "me", "wallet", "data"}
  <2>1. calls'[c] = Retried(page', calls[c]) /\ calls[c].kind \in MyKinds \ {"none"}
          /\ calls[c].path \in {"restore", "me", "wallet", "data"}
    BY <1>1, <1>3, AwaitersAreCalls DEF Awaiters, Orderly
  <2> QED BY <1>1, <2>1, RetriedFields
<1> QED BY <1>1, <1>2, <1>3 DEF new, NoPromise, Awaiters

LEMMA ExpelsFields ==
  ASSUME Orderly, NEW p \in Page, Expels(p),
         spent' \in [Kinds -> Nat], kept' \in BOOLEAN
  PROVE  /\ refreshPromise'.phase = "none"
         /\ page'.cookie = p.cookie /\ page'.token = p.token
         /\ \/ ~ page'.auth /\ page'.user = None
            \/ /\ page'.auth = p.auth /\ page'.user = p.user /\ page'.wallet = p.wallet
               /\ \A c \in Calls : calls[c].phase = "awaiting" =>
                                     calls[c].path \notin {"restore", "me"}
         /\ \A c \in Calls : IF calls[c].phase = "awaiting"
                             THEN /\ calls'[c].phase \in {"idle", "sent"}
                                  /\ calls'[c].path \in {"none", "data"}
                                  /\ calls'[c].phase = "sent" =>
                                       /\ calls'[c].bearer = page'.token
                                       /\ calls'[c].cookie = page'.cookie /\ calls'[c].retry
                                  /\ calls'[c].phase = "idle" => calls'[c].cookie = NoToken
                                  /\ calls[c].path \in {"restore", "me", "wallet", "data"}
                             ELSE calls'[c] = calls[c]
<1>1. /\ refreshPromise' = NoPromise /\ page' = AllFailed(p)
      /\ \A c \in Calls : IF c \in Awaiters THEN calls'[c] = GivenUp(page', calls[c])
                          ELSE calls'[c] = calls[c]
  BY ExpelsEffect DEF Orderly
<1>2. /\ page'.cookie = p.cookie /\ page'.token = p.token
      /\ \/ ~ page'.auth /\ page'.user = None /\ page'.wallet = None
         \/ /\ page'.auth = p.auth /\ page'.user = p.user /\ page'.wallet = p.wallet
            /\ \A c \in Awaiters : calls[c].path \notin {"restore", "me"}
  BY <1>1, AllFailedFields
<1>3. ASSUME NEW c \in Calls, calls[c].phase = "awaiting"
      PROVE  /\ calls'[c].phase \in {"idle", "sent"} /\ calls'[c].path \in {"none", "data"}
             /\ calls'[c].phase = "sent" =>
                  /\ calls'[c].bearer = page'.token
                  /\ calls'[c].cookie = page'.cookie /\ calls'[c].retry
             /\ calls'[c].phase = "idle" => calls'[c].cookie = NoToken
             /\ calls[c].path \in {"restore", "me", "wallet", "data"}
  <2>1. calls'[c] = GivenUp(page', calls[c]) /\ calls[c].kind \in MyKinds \ {"none"}
          /\ calls[c].path \in {"restore", "me", "wallet", "data"}
    BY <1>1, <1>3, AwaitersAreCalls DEF Awaiters, Orderly
  <2> QED BY <2>1, CallGivesUp
<1> QED BY <1>1, <1>2, <1>3 DEF NoPromise, Awaiters

LEMMA RefusesFields ==
  ASSUME Orderly, refreshPromise.phase = "served", ~ refreshPromise.answer.ok,
         Expels(notifyUnauthorized(Applying(refreshPromise.answer))), UNCHANGED <<spent, kept>>
  PROVE  /\ refreshPromise'.phase = "none"
         /\ page'.cookie = page.cookie
              \/ (page'.cookie = NoToken /\ refreshPromise.cookie = NoToken)
         /\ page'.token = NoToken /\ ~ page'.auth /\ page'.user = None
         /\ \A c \in Calls : IF calls[c].phase = "awaiting"
                             THEN /\ calls'[c].phase \in {"idle", "sent"}
                                  /\ calls'[c].path \in {"none", "data"}
                                  /\ calls'[c].phase = "sent" =>
                                       /\ calls'[c].bearer = page'.token
                                       /\ calls'[c].cookie = page'.cookie /\ calls'[c].retry
                                  /\ calls'[c].phase = "idle" => calls'[c].cookie = NoToken
                                  /\ calls[c].path \in {"restore", "me", "wallet", "data"}
                             ELSE calls'[c] = calls[c]
<1> DEFINE a == refreshPromise.answer
           p == notifyUnauthorized(Applying(a))
<1>1. a.cookie = NoToken /\ (a.sets => refreshPromise.cookie = NoToken) /\ a \in Response
  BY TypedParts DEF Orderly, ShapeInv, PromiseShape
<1>2. Applying(a) \in Page
        /\ Applying(a).cookie = IF a.sets THEN a.cookie ELSE page.cookie
  BY <1>1, ApplyingIsPage DEF Orderly, ShapeInv
<1>3. p \in Page /\ p.token = NoToken /\ ~ p.auth /\ p.user = None
        /\ p.cookie = Applying(a).cookie
  BY <1>2, ClearedFields, FailedIsPage
<1>4. spent' \in [Kinds -> Nat] /\ kept' \in BOOLEAN /\ Expels(p)
  BY DEF Orderly, ShapeInv, Types
<1> HIDE DEF p, a
<1>5. /\ refreshPromise'.phase = "none"
      /\ page'.cookie = p.cookie /\ page'.token = p.token
      /\ \/ ~ page'.auth /\ page'.user = None
         \/ page'.auth = p.auth /\ page'.user = p.user
      /\ \A c \in Calls : IF calls[c].phase = "awaiting"
                          THEN /\ calls'[c].phase \in {"idle", "sent"}
                               /\ calls'[c].path \in {"none", "data"}
                               /\ calls'[c].phase = "sent" =>
                                    /\ calls'[c].bearer = page'.token
                                    /\ calls'[c].cookie = page'.cookie /\ calls'[c].retry
                               /\ calls'[c].phase = "idle" => calls'[c].cookie = NoToken
                               /\ calls[c].path \in {"restore", "me", "wallet", "data"}
                          ELSE calls'[c] = calls[c]
  BY <1>3, <1>4, ExpelsFields
<1> QED BY <1>1, <1>2, <1>3, <1>5

LEMMA LosesFields ==
  ASSUME Orderly, FaultOfRefresh
  PROVE  /\ refreshPromise'.phase = "none"
         /\ page'.cookie = page.cookie /\ page'.token = page.token
         /\ \/ ~ page'.auth /\ page'.user = None
            \/ page'.auth = page.auth /\ page'.user = page.user
         /\ \A c \in Calls : IF calls[c].phase = "awaiting"
                             THEN /\ calls'[c].phase \in {"idle", "sent"}
                                  /\ calls'[c].path \in {"none", "data"}
                                  /\ calls'[c].phase = "sent" =>
                                       /\ calls'[c].bearer = page'.token
                                       /\ calls'[c].cookie = page'.cookie /\ calls'[c].retry
                                  /\ calls'[c].phase = "idle" => calls'[c].cookie = NoToken
                                  /\ calls[c].path \in {"restore", "me", "wallet", "data"}
                             ELSE calls'[c] = calls[c]
         /\ spent'["fault"] = spent["fault"] + 1
<1>1. Expels(page) /\ Spend("fault") /\ kept' = FALSE
  BY FaultOfRefreshCase
<1>2. page \in Page /\ spent' \in [Kinds -> Nat] /\ spent'["fault"] = spent["fault"] + 1
  BY <1>1, TypedParts, SpendFields DEF Orderly, ShapeInv, Kinds
<1> QED BY <1>1, <1>2, ExpelsFields

LEMMA ReceiveOrder ==
  ASSUME Orderly, NEW c \in Calls, Receive(c)
  PROVE  Order'
<1>1. CASE ReceiveOk(c)
  <2>1. Only(c) /\ calls[c].path \in {"login", "me", "wallet", "data", "revoke"}
          /\ refreshPromise' = refreshPromise
    BY <1>1, ReceiveOkFields DEF ReceiveOk
  <2>2. calls[c].phase \in {"sent", "served"}
    BY <1>1 DEF ReceiveOk
  <2>3. CASE calls[c].path = "login"
    <3>1. \A d \in Calls \ {c} : calls[d].path = "none"
      BY <2>2, <2>3, BusyExcludes
    <3>2. \A d \in Calls : calls'[d].path \in {"none", "me"}
      BY <1>1, <2>1, <2>3, <3>1, ReceiveOkCall DEF Only
    <3> QED BY <3>2 DEF Order
  <2>4. CASE calls[c].path # "login"
    <3>1. calls'[c].path \in {"none", "wallet", "data"}
      BY <1>1, <2>1, <2>4, ReceiveOkCall
    <3>2. page'.auth => page.auth \/ Pending({"me"})
      BY <1>1, <2>4, ReceiveOkFields DEF Pending
    <3>3. Settles
      BY <2>1, <3>1, <3>2 DEF Settles, Only
    <3>4. \A d \in Calls : calls'[d].path \in {"restore", "login"} => calls[d].path = calls'[d].path
      BY <2>1, <3>1 DEF Only
    <3> QED BY <2>1, <3>3, <3>4, OrderSettles DEF Orderly, Order
  <2> QED BY <2>3, <2>4
<1>2. CASE ReceiveRefused(c)
  <2>1. Only(c) /\ calls[c].path # "none" /\ refreshPromise' = refreshPromise
          /\ calls'[c].path \in {"none", "data"} /\ (page'.auth => page.auth)
    BY <1>2, ReceiveRefusedFields, ReceiveRefusedCall DEF ReceiveRefused
  <2>2. Settles
    BY <2>1 DEF Settles, Only
  <2>3. \A d \in Calls : calls'[d].path \in {"restore", "login"} => calls[d].path = calls'[d].path
    BY <2>1 DEF Only
  <2> QED BY <2>1, <2>2, <2>3, OrderSettles DEF Orderly, Order
<1>3. CASE ReceiveExpired(c)
  <2>1. /\ Only(c) /\ page' = page /\ calls'[c].path = calls[c].path
        /\ calls[c].phase \in {"sent", "served"} /\ calls[c].path \notin {"login", "restore"}
    BY <1>3, ReceiveExpiredFields
  <2>2. \A d \in Calls : calls'[d].path = calls[d].path
    BY <2>1 DEF Only
  <2>3. \A d \in Calls : calls'[d].path \notin {"restore", "login"}
    BY <2>1, <2>2, BusyExcludes
  <2> QED BY <2>1, <2>2, <2>3, OrderSettles DEF Orderly, Settles
<1> QED BY <1>1, <1>2, <1>3, ReceiveCases

\* Nobody signs in while a refresh is under way.
LEMMA RefreshExcludes ==
  ASSUME Orderly, refreshPromise.phase # "none"
  PROVE  \A c \in Calls : calls[c].path # "login"
BY DEF Orderly, Order

LEMMA RefreshOrder ==
  ASSUME Orderly, TokenRefreshAuditView
  PROVE  Order'
<1>1. UNCHANGED <<page, calls>> /\ refreshPromise.phase # "none" /\ refreshPromise'.phase # "none"
  BY RefreshCases, RotatedEffect, NotRotatedEffect DEF Orderly, Rotated, NotRotated
<1>2. Settles /\ \A c \in Calls : calls'[c].path # "login"
  BY <1>1, RefreshExcludes DEF Settles
<1> QED BY <1>1, <1>2, OrderSettles DEF Orderly

\* Every call that awaited the refresh goes on.
LEMMA EndsOrder ==
  ASSUME Orderly, ReceiveRefresh \/ FaultOfRefresh
  PROVE  Order'
<1>1. refreshPromise.phase # "none"
  BY DEF ReceiveRefresh, FaultOfRefresh
<1>2. \A c \in Calls : /\ calls[c].path # "login"
                       /\ calls[c].path = "restore" => calls[c].phase = "awaiting"
  BY <1>1, RefreshExcludes DEF Orderly, ShapeInv, CallShape
<1>3. CASE Renews
  <2>1. /\ page'.auth = page.auth
        /\ \A c \in Calls : calls'[c].path = IF calls[c].path = "restore" THEN "me"
                                             ELSE calls[c].path
    BY <1>2, <1>3, RenewsFields
  <2>2. \A c \in Calls : calls'[c].path \notin {"restore", "login"}
    BY <1>2, <2>1
  <2>3. ASSUME NEW c \in Calls, calls'[c].path = "revoke"
        PROVE  /\ ~ page'.auth /\ ~ Pending({"login", "restore", "me"})'
               /\ \A d \in Calls : calls'[d].path = "revoke" => d = c
    <3>1. calls[c].path = "revoke"
      BY <2>1, <2>3
    <3>2. ~ page.auth /\ ~ Pending({"login", "restore", "me"})
            /\ \A d \in Calls : calls[d].path = "revoke" => d = c
      BY <3>1 DEF Orderly, Order
    <3> QED BY <2>1, <3>2 DEF Pending
  <2> QED BY <2>2, <2>3 DEF Order
<1>4. ASSUME page'.auth => page.auth,
             \A c \in Calls : \/ calls'[c] = calls[c] /\ calls[c].phase # "awaiting"
                              \/ /\ calls'[c].path \in {"none", "data"}
                                 /\ calls[c].path \in {"restore", "me", "wallet", "data"}
      PROVE  Order'
  <2>1. Settles
    BY <1>4 DEF Settles
  <2>2. \A c \in Calls : calls'[c].path \notin {"restore", "login"}
    BY <1>2, <1>4
  <2> QED BY <2>1, <2>2, OrderSettles DEF Orderly
<1>5. CASE FaultOfRefresh
  <2>1. page'.auth => page.auth
    BY <1>5, LosesFields
  <2>2. \A c \in Calls : \/ calls'[c] = calls[c] /\ calls[c].phase # "awaiting"
                         \/ /\ calls'[c].path \in {"none", "data"}
                            /\ calls[c].path \in {"restore", "me", "wallet", "data"}
    BY <1>5, LosesFields
  <2> QED BY <1>4, <2>1, <2>2
<1>6. CASE /\ refreshPromise.phase = "served" /\ ~ refreshPromise.answer.ok
           /\ Expels(notifyUnauthorized(Applying(refreshPromise.answer)))
           /\ UNCHANGED <<spent, kept>>
  <2>1. ~ page'.auth
    BY <1>6, RefusesFields
  <2>2. \A c \in Calls : \/ calls'[c] = calls[c] /\ calls[c].phase # "awaiting"
                         \/ /\ calls'[c].path \in {"none", "data"}
                            /\ calls[c].path \in {"restore", "me", "wallet", "data"}
    BY <1>6, RefusesFields
  <2> QED BY <1>4, <2>1, <2>2
<1> QED BY <1>3, <1>5, <1>6, ReceiveRefreshCases

LEMMA FaultOrder ==
  ASSUME Orderly, NEW c \in Calls, Fault(c)
  PROVE  Order'
<1>1. Only(c) /\ calls[c].path # "none" /\ refreshPromise' = refreshPromise
        /\ calls'[c].path \in {"none", "data"} /\ (page'.auth => page.auth)
  BY FaultFields, ReceiveRefusedCall DEF Fault
<1>2. Settles
  BY <1>1 DEF Settles, Only
<1>3. \A d \in Calls : calls'[d].path \in {"restore", "login"} => calls[d].path = calls'[d].path
  BY <1>1 DEF Only
<1> QED BY <1>1, <1>2, <1>3, OrderSettles DEF Orderly, Order

\* When all is quiet no call has a path, and when somebody is signed in none
\* restores, signs in or revokes.
LEMMA QuietIsIdle ==
  ASSUME Orderly, Quiet
  PROVE  /\ refreshPromise.phase = "none"
         /\ \A c \in Calls : calls[c].path = "none" /\ calls[c].phase = "idle"
BY DEF Orderly, ShapeInv, CallShape, Quiet, Free

LEMMA SignedInExcludes ==
  ASSUME Orderly, page.auth
  PROVE  \A c \in Calls : calls[c].path \notin {"restore", "login", "revoke"}
BY DEF Orderly, Order

LEMMA UserOrder ==
  ASSUME Orderly, NEW c \in Calls,
         (\E u \in Users : login(c, u)) \/ use(c) \/ logout(c) \/ Reload(c)
  PROVE  Order'
<1>1. CASE \E u \in Users : login(c, u)
  <2>1. Only(c) /\ calls'[c].path = "login" /\ ~ page.auth /\ Quiet
          /\ UNCHANGED <<page, refreshPromise>>
    BY <1>1, LoginEffect DEF login, Orderly
  <2> QED BY <2>1, QuietIsIdle DEF Order, Only, Lone
<1>2. CASE use(c)
  <2>1. Only(c) /\ page.auth
    BY <1>2, UseEffect DEF Orderly
  <2>2. PICK path \in {"wallet", "data"} : calls'[c] = Send(page, "use", path)
    BY <1>2, UseEffect DEF Orderly
  <2>3. calls'[c].path \in {"wallet", "data"}
    BY <2>2, CallIsSent DEF MyKinds
  <2> QED BY <2>1, <2>3, SignedInExcludes DEF Order, Only
<1>3. CASE logout(c)
  <2>1. Only(c) /\ page.auth /\ page' = clearSessionState(page) /\ page \in Page
          /\ calls'[c] = IF page.token = NoToken THEN calls[c] ELSE Send(page, "logout", "revoke")
    BY <1>3, LogoutEffect, TypedParts DEF Orderly, ShapeInv
  <2>2. \A d \in Calls : calls[d].path \notin {"restore", "login", "revoke", "me"}
    BY <1>3, <2>1, SignedInExcludes DEF logout, Orderly
  <2>3. ~ page'.auth
    BY <2>1, ClearedFields
  <2>4. calls'[c].path \in {calls[c].path, "revoke"}
    BY <2>1, CallIsSent DEF MyKinds
  <2> QED BY <2>1, <2>2, <2>3, <2>4 DEF Order, Only, Pending
<1>4. CASE Reload(c)
  <2>1. Only(c) /\ Quiet /\ page' = NewPage(page.cookie)
          /\ refreshPromise' = Promise(page.cookie) /\ calls'[c] = Awaiting("boot", "restore")
    BY <1>4, ReloadEffect DEF Orderly
  <2>2. calls'[c].path = "restore" /\ ~ page'.auth /\ refreshPromise'.phase = "sent"
    BY <2>1, CallAwaits DEF MyKinds, NewPage, Promise, NoPromise
  <2> QED BY <2>1, <2>2, QuietIsIdle DEF Order, Only, Lone
<1> QED BY <1>1, <1>2, <1>3, <1>4

LEMMA OrderStep ==
  ASSUME Orderly, [Next]_vars
  PROVE  Order'
<1>1. CASE UNCHANGED vars
  BY <1>1 DEF vars, Orderly, Order, Lone, Pending
<1>2. ASSUME NEW c \in Calls, Work(c)
      PROVE  Order'
  BY <1>2, ServeOrder, ReceiveOrder DEF Work
<1>3. ASSUME NEW c \in Calls, Fault(c)
      PROVE  Order'
  BY <1>3, FaultOrder
<1>4. ASSUME NEW c \in Calls, use(c) \/ logout(c) \/ Reload(c) \/ \E u \in Users : login(c, u)
      PROVE  Order'
  BY <1>4, UserOrder
<1>5. CASE TokenRefreshAuditView \/ ReceiveRefresh \/ FaultOfRefresh
  BY <1>5, RefreshOrder, EndsOrder
<1>6. CASE AccessExpires \/ SessionExpires
  BY <1>6 DEF AccessExpires, SessionExpires, Orderly, Order, Lone, Pending
<1> QED BY <1>1, <1>2, <1>3, <1>4, <1>5, <1>6 DEF Next

-------------------------------------------------------------------------------
(* New tokens are in nobody's hands until they arrive, and retries carry them. *)

Renewed  == refreshPromise.phase = "served" /\ refreshPromise.answer.ok
NewToken == refreshPromise.answer.token

\* The token of a refresh that has been served is accepted and nobody has it yet;
\* the one it was refreshed with is no longer accepted.
NewIsNew ==
    Renewed =>
      /\ NewToken \in server.valid /\ NewToken \in server.fresh
      /\ NewToken # page.token /\ NewToken # page.cookie
      /\ \A c \in Calls : calls[c].cookie # NewToken
      /\ refreshPromise.cookie # NoToken /\ refreshPromise.cookie \notin server.valid
      /\ refreshPromise.cookie.user = NewToken.user

LoginIsNew ==
    \A c \in Calls : calls[c].path = "login" /\ calls[c].phase = "served" =>
      calls[c].answer.token \in server.valid /\ calls[c].answer.token # page.cookie

\* A retry is not refused.
RetryIsFresh ==
    \A c \in Calls : ~ calls[c].retry /\ calls[c].path \in {"me", "wallet", "data"} =>
      /\ calls[c].phase = "sent"   => calls[c].bearer \in server.fresh
      /\ calls[c].phase = "served" => calls[c].answer.ok

Current == Orderly /\ NewIsNew /\ LoginIsNew /\ RetryIsFresh

\* A step in which no token is handed out to the tab.
Moves ==
    /\ page'.cookie \in {page.cookie, NoToken} /\ page'.token \in {page.token, NoToken}
    /\ \A c \in Calls : calls'[c].cookie \in {calls[c].cookie, page.cookie, NoToken}
    /\ \A t \in Known : t \in server'.valid => t \in server.valid
    /\ \A t \in server.valid : \/ t \in server'.valid \/ t = page.cookie
                               \/ \E c \in Calls : t = calls[c].cookie
    /\ \A t \in server.fresh : t \in server'.fresh \/ t = page.token

LEMMA NewStays ==
  ASSUME Orderly, NewIsNew, Moves, Renewed' => Renewed /\ refreshPromise' = refreshPromise
  PROVE  NewIsNew'
<1> SUFFICES ASSUME Renewed'
             PROVE  /\ NewToken' \in server'.valid /\ NewToken' \in server'.fresh
                    /\ NewToken' # page'.token /\ NewToken' # page'.cookie
                    /\ \A c \in Calls : calls'[c].cookie # NewToken'
                    /\ refreshPromise'.cookie # NoToken
                    /\ refreshPromise'.cookie \notin server'.valid
                    /\ refreshPromise'.cookie.user = NewToken'.user
  BY DEF NewIsNew
<1>1. Renewed /\ refreshPromise' = refreshPromise /\ NewToken' = NewToken
  BY DEF NewToken
<1>2. /\ NewToken \in server.valid /\ NewToken \in server.fresh
      /\ NewToken # page.token /\ NewToken # page.cookie
      /\ \A c \in Calls : calls[c].cookie # NewToken
      /\ refreshPromise.cookie # NoToken /\ refreshPromise.cookie \notin server.valid
      /\ refreshPromise.cookie.user = NewToken.user
  BY <1>1 DEF NewIsNew
<1>3. NewToken # NoToken /\ refreshPromise.cookie \in Known
  BY <1>1, TypedParts DEF Orderly, ShapeInv, PromiseShape, Renewed, NewToken
<1>4. NewToken \in server'.valid /\ NewToken \in server'.fresh
  BY <1>2 DEF Moves
<1>5. NewToken # page'.token /\ NewToken # page'.cookie
        /\ \A c \in Calls : calls'[c].cookie # NewToken
  BY <1>2, <1>3 DEF Moves
<1>6. refreshPromise.cookie \notin server'.valid
  BY <1>2, <1>3 DEF Moves
<1> QED BY <1>1, <1>2, <1>4, <1>5, <1>6

LEMMA RetryStays ==
  ASSUME RetryIsFresh,
         \A c \in Calls : \/ calls'[c] = calls[c] \/ calls'[c].phase \in {"idle", "awaiting"}
                          \/ calls'[c].retry
                          \/ calls'[c].path \notin {"me", "wallet", "data"}
                          \/ calls'[c].phase = "sent" /\ calls'[c].bearer \in server'.fresh,
         \A c \in Calls : /\ calls[c].path \in {"me", "wallet", "data"} /\ ~ calls[c].retry
                          /\ calls[c].phase = "sent" /\ calls[c].bearer \in server.fresh
                          => calls[c].bearer \in server'.fresh
  PROVE  RetryIsFresh'
<1> SUFFICES ASSUME NEW c \in Calls, ~ calls'[c].retry,
                    calls'[c].path \in {"me", "wallet", "data"}
             PROVE  /\ calls'[c].phase = "sent"   => calls'[c].bearer \in server'.fresh
                    /\ calls'[c].phase = "served" => calls'[c].answer.ok
  BY DEF RetryIsFresh
<1>1. CASE calls'[c] = calls[c]
  BY <1>1 DEF RetryIsFresh
<1>2. CASE calls'[c].phase \in {"idle", "awaiting"}
  BY <1>2
<1>3. CASE calls'[c].phase = "sent" /\ calls'[c].bearer \in server'.fresh
  BY <1>3
<1> QED BY <1>1, <1>2, <1>3

\* No login is under way after a step of a call that was.
LEMMA NoLoginLeft ==
  ASSUME Orderly, NEW c \in Calls, calls[c].phase \in {"sent", "served"}, Only(c),
         calls'[c].path # "login"
  PROVE  LoginIsNew'
<1>1. \A d \in Calls \ {c} : calls'[d].path # "login"
  BY BusyExcludes DEF Only
<1> QED BY <1>1 DEF LoginIsNew

LEMMA ServeCurrent ==
  ASSUME Current, NEW c \in Calls, Serve(c)
  PROVE  NewIsNew' /\ LoginIsNew' /\ RetryIsFresh'
<1>1. /\ Orderly /\ ShapeInv /\ Only(c) /\ Answered(c)
      /\ UNCHANGED <<page, refreshPromise, spent>>
  BY ServeSettles DEF Current, Orderly
<1>2. \A d \in Calls : calls'[d].cookie = calls[d].cookie
  BY <1>1 DEF Only, Answered
<1>3. server.valid \subseteq Known /\ server.fresh \subseteq Known
  BY <1>1, TypedParts DEF ShapeInv, Known
<1>4. CASE Obtains(c)
  <2>1. /\ calls'[c].answer.token \notin Known
        /\ server'.valid = server.valid \cup {calls'[c].answer.token}
        /\ server'.fresh = server.fresh \cup {calls'[c].answer.token}
    BY <1>1, <1>4, ObtainsEffect
  <2>2. calls[c].path = "login" /\ refreshPromise.phase = "none"
          /\ \A d \in Calls \ {c} : calls[d].path = "none"
    BY <1>1, <1>4, BusyExcludes DEF Obtains
  <2>3. NewIsNew'
    BY <1>1, <2>2 DEF NewIsNew, Renewed
  <2>4. LoginIsNew'
    <3>1. page.cookie \in Known
      BY <1>1, TypedParts DEF ShapeInv
    <3>2. \A d \in Calls : calls'[d].path = "login" => d = c
      BY <1>1, <2>2 DEF Only
    <3> QED BY <1>1, <2>1, <3>1, <3>2 DEF LoginIsNew
  <2>5. \A d \in Calls : calls'[d].path \notin {"me", "wallet", "data"}
    BY <1>1, <2>2 DEF Only, Answered
  <2> QED BY <2>3, <2>4, <2>5 DEF RetryIsFresh
<1>5. CASE Reads(c)
  <2>1. UNCHANGED server /\ calls'[c].path # "login"
          /\ (calls'[c].answer.ok <=> calls[c].bearer \in server.fresh)
    BY <1>1, <1>5, ReadsEffect DEF Reads, Answered
  <2>2. Moves
    BY <1>1, <1>2, <2>1 DEF Moves
  <2>3. NewIsNew'
    BY <1>1, <2>2, NewStays DEF Current, Renewed
  <2>4. LoginIsNew'
    BY <1>1, <2>1, NoLoginLeft DEF Answered
  <2>5. RetryIsFresh'
    BY <1>1, <2>1 DEF Current, RetryIsFresh, Only, Answered
  <2> QED BY <2>3, <2>4, <2>5
<1>6. CASE Revokes(c) \/ RevokesNot(c)
  <2>1. /\ server'.valid \in {server.valid, server.valid \ {calls[c].cookie}}
        /\ server'.fresh = server.fresh
        /\ calls'[c].path = "revoke"
    BY <1>1, <1>6, RevokesEffect DEF Revokes, RevokesNot, Answered
  <2>2. Moves
    BY <1>1, <1>2, <2>1 DEF Moves
  <2>3. NewIsNew'
    BY <1>1, <2>2, NewStays DEF Current, Renewed
  <2>4. LoginIsNew'
    BY <1>1, <2>1, NoLoginLeft DEF Answered
  <2>5. RetryIsFresh'
    BY <1>1, <2>1, RetryStays DEF Current, Only
  <2> QED BY <2>3, <2>4, <2>5
<1> QED BY <1>4, <1>5, <1>6, ServeCases

LEMMA ReceiveCurrent ==
  ASSUME Current, NEW c \in Calls, Receive(c)
  PROVE  NewIsNew' /\ LoginIsNew' /\ RetryIsFresh'
<1>1. /\ Orderly /\ UNCHANGED server /\ calls[c].phase \in {"sent", "served"}
      /\ Only(c)
  BY ReceiveCases, ReceiveOkFields, ReceiveRefusedFields, ReceiveExpiredFields
     DEF Current, Receive
<1>2. CASE ReceiveOk(c)
  <2>1. calls[c].path \in {"login", "me", "wallet", "data", "revoke"}
          /\ refreshPromise' = refreshPromise
    BY <1>1, <1>2, ReceiveOkFields DEF ReceiveOk
  <2>2. /\ calls'[c].phase = "sent" => calls'[c].cookie = page'.cookie /\ calls'[c].retry
        /\ calls'[c].phase \in {"idle", "sent"} /\ calls'[c].path # "login"
    BY <1>1, <1>2, <2>1, ReceiveOkCall
  <2>3. LoginIsNew'
    BY <1>1, <2>2, NoLoginLeft
  <2>4. RetryIsFresh'
    BY <1>1, <2>2, RetryStays DEF Current, Only
  <2>5. NewIsNew'
    <3>1. CASE calls[c].path = "login"
      BY <1>1, <2>1, <3>1, BusyExcludes DEF NewIsNew, Renewed
    <3>2. CASE calls[c].path # "login"
      <4>1. page'.cookie \in {page.cookie, NoToken} /\ page'.token \in {page.token, NoToken}
        BY <1>1, <1>2, <2>1, <3>2, ReceiveOkFields
      <4>2. calls'[c].cookie \in {page.cookie, NoToken}
        BY <1>1, <1>2, <2>2, <4>1, ReceiveOkCall
      <4>3. Moves
        BY <1>1, <4>1, <4>2 DEF Moves, Only
      <4> QED BY <1>1, <2>1, <4>3, NewStays DEF Current, Renewed
    <3> QED BY <3>1, <3>2
  <2> QED BY <2>3, <2>4, <2>5
<1>3. CASE ReceiveRefused(c)
  <2>1. page'.cookie \in {page.cookie, NoToken} /\ page'.token \in {page.token, NoToken}
          /\ refreshPromise' = refreshPromise
    BY <1>1, <1>3, ReceiveRefusedFields DEF ReceiveRefused
  <2>2. /\ calls'[c].phase = "sent" => calls'[c].cookie = page'.cookie /\ calls'[c].retry
        /\ calls'[c].phase \in {"idle", "sent"} /\ calls'[c].path # "login"
    BY <1>1, <1>3, ReceiveRefusedCall
  <2>3. calls'[c].cookie \in {page.cookie, NoToken}
    BY <1>1, <1>3, <2>1, <2>2, ReceiveRefusedCall
  <2>4. Moves
    BY <1>1, <2>1, <2>3 DEF Moves, Only
  <2>5. NewIsNew' /\ LoginIsNew'
    BY <1>1, <2>1, <2>2, <2>4, NewStays, NoLoginLeft DEF Current, Renewed
  <2>6. RetryIsFresh'
    BY <1>1, <2>2, RetryStays DEF Current, Only
  <2> QED BY <2>5, <2>6
<1>4. CASE ReceiveExpired(c)
  <2>1. /\ page' = page /\ calls'[c].phase = "awaiting" /\ calls'[c].cookie = NoToken
        /\ calls'[c].path # "login"
        /\ refreshPromise' = IF refreshPromise.phase = "none"
                             THEN Promise(page.cookie) ELSE refreshPromise
    BY <1>1, <1>4, ReceiveExpiredFields
  <2>2. Moves
    BY <1>1, <2>1 DEF Moves, Only
  <2>3. Renewed' => Renewed /\ refreshPromise' = refreshPromise
    BY <2>1 DEF Renewed, Promise, NoPromise
  <2>4. NewIsNew' /\ LoginIsNew'
    BY <1>1, <2>1, <2>2, <2>3, NewStays, NoLoginLeft DEF Current
  <2>5. RetryIsFresh'
    BY <1>1, <2>1, RetryStays DEF Current, Only
  <2> QED BY <2>4, <2>5
<1> QED BY <1>2, <1>3, <1>4, ReceiveCases

LEMMA RefreshCurrent ==
  ASSUME Current, TokenRefreshAuditView
  PROVE  NewIsNew' /\ LoginIsNew' /\ RetryIsFresh'
<1>1. Orderly /\ ShapeInv /\ UNCHANGED <<page, calls>> /\ refreshPromise.phase # "none"
  BY RefreshCases DEF Current, Orderly, Rotated, NotRotated
<1>2. LoginIsNew'
  BY <1>1, RefreshExcludes DEF LoginIsNew
<1>3. CASE Rotated
  <2> DEFINE old == refreshPromise.cookie
             new == Token(old.user, server.issued + 1)
  <2>1. /\ old \in server.valid /\ refreshPromise'.cookie = old
        /\ refreshPromise'.answer.token = new /\ new \notin Known /\ new.user = old.user
        /\ server'.valid = (server.valid \ {old}) \cup {new}
        /\ server'.fresh = server.fresh \cup {new}
    BY <1>1, <1>3, RotatedEffect DEF Token
  <2> HIDE DEF new, old
  <2>2. /\ old \in Known /\ old # NoToken /\ page.token \in Known /\ page.cookie \in Known
        /\ \A c \in Calls : calls[c].cookie \in Known
    BY <1>1, <2>1, TypedParts, KnownTokens DEF ShapeInv, Known, Call
  <2>3. NewIsNew'
    BY <1>1, <2>1, <2>2 DEF NewIsNew, NewToken
  <2>4. RetryIsFresh'
    BY <1>1, <2>1, RetryStays DEF Current
  <2> QED BY <1>2, <2>3, <2>4
<1>4. CASE NotRotated
  <2>1. ~ refreshPromise'.answer.ok
    BY <1>1, <1>4, NotRotatedEffect
  <2>2. RetryIsFresh'
    BY <1>1, <1>4, RetryStays DEF Current, NotRotated
  <2> QED BY <1>2, <2>1, <2>2 DEF NewIsNew, Renewed
<1> QED BY <1>3, <1>4, RefreshCases

LEMMA EndsCurrent ==
  ASSUME Current, ReceiveRefresh \/ FaultOfRefresh
  PROVE  NewIsNew' /\ LoginIsNew' /\ RetryIsFresh'
<1>1. Orderly /\ ShapeInv /\ refreshPromise.phase # "none" /\ UNCHANGED server
  BY DEF Current, Orderly, ReceiveRefresh, FaultOfRefresh
<1>2. \A c \in Calls : calls[c].path # "login"
  BY <1>1, RefreshExcludes
<1>3. refreshPromise'.phase = "none" => NewIsNew'
  BY DEF NewIsNew, Renewed
<1>4. CASE Renews
  <2>1. /\ refreshPromise'.phase = "none"
        /\ \A c \in Calls : /\ calls'[c].path # "login"
                            /\ \/ calls'[c] = calls[c]
                               \/ calls'[c].phase = "sent" /\ calls'[c].bearer = NewToken
    BY <1>1, <1>2, <1>4, RenewsFields DEF NewToken
  <2>2. NewToken \in server'.fresh
    BY <1>1, <1>4 DEF Current, NewIsNew, Renews, Renewed
  <2>3. RetryIsFresh'
    BY <1>1, <2>1, <2>2, RetryStays DEF Current
  <2> QED BY <1>3, <2>1, <2>3 DEF LoginIsNew
<1>5. ASSUME refreshPromise'.phase = "none",
             \A c \in Calls : \/ calls'[c] = calls[c]
                              \/ /\ calls'[c].path # "login"
                                 /\ calls'[c].phase = "idle" \/ calls'[c].retry
      PROVE  NewIsNew' /\ LoginIsNew' /\ RetryIsFresh'
  <2>1. RetryIsFresh'
    BY <1>1, <1>5, RetryStays DEF Current
  <2>2. \A c \in Calls : calls'[c].path # "login"
    BY <1>2, <1>5
  <2> QED BY <1>3, <1>5, <2>1, <2>2 DEF LoginIsNew
<1>6. CASE FaultOfRefresh
  <2>1. refreshPromise'.phase = "none"
    BY <1>1, <1>6, LosesFields
  <2>2. \A c \in Calls : \/ calls'[c] = calls[c]
                         \/ /\ calls'[c].path # "login"
                            /\ calls'[c].phase = "idle" \/ calls'[c].retry
    BY <1>1, <1>6, LosesFields
  <2> QED BY <1>5, <2>1, <2>2
<1>7. CASE /\ refreshPromise.phase = "served" /\ ~ refreshPromise.answer.ok
           /\ Expels(notifyUnauthorized(Applying(refreshPromise.answer)))
           /\ UNCHANGED <<spent, kept>>
  <2>1. refreshPromise'.phase = "none"
    BY <1>1, <1>7, RefusesFields
  <2>2. \A c \in Calls : \/ calls'[c] = calls[c]
                         \/ /\ calls'[c].path # "login"
                            /\ calls'[c].phase = "idle" \/ calls'[c].retry
    BY <1>1, <1>7, RefusesFields
  <2> QED BY <1>5, <2>1, <2>2
<1> QED BY <1>4, <1>6, <1>7, ReceiveRefreshCases

LEMMA FaultCurrent ==
  ASSUME Current, NEW c \in Calls, Fault(c)
  PROVE  NewIsNew' /\ LoginIsNew' /\ RetryIsFresh'
<1>1. Orderly /\ UNCHANGED <<server, refreshPromise>>
  BY DEF Current, Fault
<1>2. Only(c) /\ calls[c].phase \in {"sent", "served"}
        /\ page'.cookie = page.cookie /\ page'.token \in {page.token, NoToken}
  BY <1>1, FaultFields
<1>3. /\ calls'[c].phase \in {"idle", "sent"} /\ calls'[c].path # "login"
      /\ calls'[c].phase = "sent" => calls'[c].retry
      /\ calls'[c].cookie \in {page.cookie, NoToken}
  BY <1>1, <1>2, ReceiveRefusedCall
<1>4. Moves
  BY <1>1, <1>2, <1>3 DEF Moves, Only
<1>5. NewIsNew' /\ LoginIsNew'
  BY <1>1, <1>2, <1>3, <1>4, NewStays, NoLoginLeft DEF Current, Renewed
<1>6. RetryIsFresh'
  BY <1>1, <1>2, <1>3, RetryStays DEF Current, Only
<1> QED BY <1>5, <1>6

\* What a user begins: a login, the request of a page, a sign-out, a reload.
LEMMA LoginFields ==
  ASSUME Orderly, NEW c \in Calls, \E u \in Users : login(c, u)
  PROVE  /\ Only(c) /\ ~ page.auth /\ Quiet /\ calls[c].path = "none"
         /\ calls'[c].path = "login" /\ calls'[c].phase = "sent"
         /\ calls'[c].cookie = page.cookie
         /\ UNCHANGED <<page, refreshPromise, server, kept>> /\ revoked' = FALSE
         /\ spent'["fault"] = spent["fault"]
<1>1. Only(c) /\ calls'[c].path = "login" /\ calls'[c].phase = "sent"
        /\ calls'[c].cookie = page.cookie /\ spent'["fault"] = spent["fault"]
  BY LoginEffect DEF Orderly
<1>2. Quiet
  BY DEF login, Orderly
<1> QED BY <1>1, <1>2, QuietIsIdle DEF login

LEMMA UseFields ==
  ASSUME Orderly, NEW c \in Calls, use(c)
  PROVE  /\ Only(c) /\ page.auth /\ calls[c].phase = "idle" /\ calls[c].path = "none"
         /\ calls'[c].path \in {"wallet", "data"} /\ calls'[c].phase = "sent" /\ calls'[c].retry
         /\ calls'[c].bearer = page.token /\ calls'[c].cookie = page.cookie
         /\ UNCHANGED <<page, refreshPromise, server, kept, revoked>>
         /\ spent'["fault"] = spent["fault"]
<1>1. Only(c) /\ page.auth /\ calls[c].phase = "idle" /\ spent'["fault"] = spent["fault"]
  BY UseEffect DEF Orderly
<1>2. PICK path \in {"wallet", "data"} : calls'[c] = Send(page, "use", path)
  BY UseEffect DEF Orderly
<1>3. calls'[c].path \in {"wallet", "data"} /\ calls'[c].phase = "sent" /\ calls'[c].retry
        /\ calls'[c].bearer = page.token /\ calls'[c].cookie = page.cookie
  BY <1>2, CallIsSent DEF MyKinds
<1>4. calls[c].path = "none"
  BY <1>1 DEF Orderly, ShapeInv, CallShape
<1> QED BY <1>1, <1>3, <1>4 DEF use, history

LEMMA LogoutFields ==
  ASSUME Orderly, NEW c \in Calls, logout(c)
  PROVE  /\ Only(c) /\ page.auth /\ calls[c].path = "none"
         /\ page'.cookie = page.cookie /\ page'.token = page.token
         /\ ~ page'.auth /\ page'.user = None
         /\ \A d \in Calls : calls[d].path \notin {"restore", "login", "me", "revoke"}
         /\ \/ calls'[c] = calls[c]
            \/ /\ calls'[c].path = "revoke" /\ calls'[c].phase = "sent"
               /\ calls'[c].cookie = page.cookie
         /\ UNCHANGED <<refreshPromise, server, spent, revoked>> /\ ~ kept'
<1>1. /\ Only(c) /\ page.auth /\ calls[c].phase = "idle" /\ page \in Page
      /\ page' = clearSessionState(page)
      /\ calls'[c] = IF page.token = NoToken THEN calls[c] ELSE Send(page, "logout", "revoke")
  BY LogoutEffect, TypedParts DEF Orderly, ShapeInv
<1>2. calls[c].path = "none"
  BY <1>1 DEF Orderly, ShapeInv, CallShape
<1>3. page'.cookie = page.cookie /\ page'.token = page.token /\ ~ page'.auth /\ page'.user = None
  BY <1>1, ClearedFields
<1>4. \A d \in Calls : calls[d].path \notin {"restore", "login", "me", "revoke"}
  BY <1>1, SignedInExcludes DEF logout, Orderly
<1>5. \/ calls'[c] = calls[c]
      \/ calls'[c].path = "revoke" /\ calls'[c].phase = "sent" /\ calls'[c].cookie = page.cookie
  BY <1>1, CallIsSent DEF MyKinds
<1> QED BY <1>1, <1>2, <1>3, <1>4, <1>5 DEF logout

LEMMA ReloadFields ==
  ASSUME Orderly, NEW c \in Calls, Reload(c)
  PROVE  /\ Only(c) /\ Quiet
         /\ page'.cookie = page.cookie /\ page'.token = NoToken
         /\ ~ page'.auth /\ page'.user = None
         /\ refreshPromise'.phase = "sent" /\ refreshPromise'.cookie = page.cookie
         /\ calls'[c].path = "restore" /\ calls'[c].phase = "awaiting"
         /\ calls'[c].cookie = NoToken
         /\ UNCHANGED <<server, kept, revoked>> /\ spent'["fault"] = spent["fault"]
<1>1. /\ Only(c) /\ Quiet /\ page' = NewPage(page.cookie)
      /\ refreshPromise' = Promise(page.cookie) /\ calls'[c] = Awaiting("boot", "restore")
      /\ spent'["fault"] = spent["fault"]
  BY ReloadEffect DEF Orderly
<1>2. calls'[c].path = "restore" /\ calls'[c].phase = "awaiting" /\ calls'[c].cookie = NoToken
  BY <1>1, CallAwaits DEF MyKinds
<1> QED BY <1>1, <1>2 DEF Reload, history, NewPage, Promise, NoPromise

LEMMA UserCurrent ==
  ASSUME Current, NEW c \in Calls,
         (\E u \in Users : login(c, u)) \/ use(c) \/ logout(c) \/ Reload(c)
  PROVE  NewIsNew' /\ LoginIsNew' /\ RetryIsFresh'
<1>0. Orderly
  BY DEF Current
<1>1. CASE \E u \in Users : login(c, u)
  <2>1. /\ Only(c) /\ Quiet /\ calls'[c].path = "login" /\ calls'[c].phase = "sent"
        /\ UNCHANGED <<page, refreshPromise, server>>
    BY <1>0, <1>1, LoginFields
  <2>2. \A d \in Calls \ {c} : calls'[d].path = "none"
    BY <1>0, <2>1, QuietIsIdle DEF Only
  <2>3. refreshPromise'.phase = "none"
    BY <1>0, <2>1, QuietIsIdle
  <2> QED BY <2>1, <2>2, <2>3 DEF NewIsNew, Renewed, LoginIsNew, RetryIsFresh
<1>2. CASE use(c)
  <2>1. /\ Only(c) /\ page.auth
        /\ calls'[c].path \in {"wallet", "data"} /\ calls'[c].retry
        /\ calls'[c].cookie = page.cookie
        /\ UNCHANGED <<page, refreshPromise, server>>
    BY <1>0, <1>2, UseFields
  <2>2. Moves
    BY <2>1 DEF Moves, Only
  <2>3. NewIsNew'
    BY <1>0, <2>1, <2>2, NewStays DEF Current, Renewed
  <2>4. \A d \in Calls : calls'[d].path # "login"
    BY <1>0, <2>1, SignedInExcludes DEF Only
  <2>5. RetryIsFresh'
    BY <2>1, RetryStays DEF Current, Only
  <2> QED BY <2>3, <2>4, <2>5 DEF LoginIsNew
<1>3. CASE logout(c)
  <2>1. /\ Only(c)
        /\ page'.cookie = page.cookie /\ page'.token = page.token
        /\ \A d \in Calls : calls[d].path # "login"
        /\ \/ calls'[c] = calls[c]
           \/ calls'[c].path = "revoke" /\ calls'[c].cookie = page.cookie
        /\ UNCHANGED <<refreshPromise, server>>
    BY <1>0, <1>3, LogoutFields
  <2>2. Moves
    BY <2>1 DEF Moves, Only
  <2>3. NewIsNew'
    BY <1>0, <2>1, <2>2, NewStays DEF Current, Renewed
  <2>4. \A d \in Calls : calls'[d].path # "login"
    BY <2>1 DEF Only
  <2>5. RetryIsFresh'
    BY <2>1, RetryStays DEF Current, Only
  <2> QED BY <2>3, <2>4, <2>5 DEF LoginIsNew
<1>4. CASE Reload(c)
  <2>1. /\ Only(c) /\ Quiet /\ refreshPromise'.phase = "sent" /\ calls'[c].path = "restore"
    BY <1>0, <1>4, ReloadFields
  <2>2. \A d \in Calls \ {c} : calls'[d].path = "none"
    BY <1>0, <2>1, QuietIsIdle DEF Only
  <2> QED BY <2>1, <2>2 DEF NewIsNew, Renewed, LoginIsNew, RetryIsFresh
<1> QED BY <1>1, <1>2, <1>3, <1>4

LEMMA ExpiryCurrent ==
  ASSUME Current, AccessExpires \/ SessionExpires
  PROVE  NewIsNew' /\ LoginIsNew' /\ RetryIsFresh'
<1>0. Orderly /\ ShapeInv
  BY DEF Current, Orderly
<1>1. UNCHANGED <<page, calls, refreshPromise>>
  BY DEF AccessExpires, SessionExpires
<1>2. CASE AccessExpires
  <2>1. server'.valid = server.valid /\ server'.fresh = server.fresh \ {page.token}
    BY <1>0, <1>2, AccessExpiresEffect
  <2>2. Moves
    BY <1>1, <2>1 DEF Moves
  <2>3. \A c \in Calls : calls[c].phase = "sent" /\ ~ calls[c].retry => calls[c].bearer # page.token
    BY <1>2 DEF AccessExpires
  <2>4. RetryIsFresh'
    BY <1>1, <2>1, <2>3, RetryStays DEF Current
  <2> QED BY <1>0, <1>1, <2>1, <2>2, <2>4, NewStays DEF Current, Renewed, LoginIsNew
<1>3. CASE SessionExpires
  <2>1. server'.valid = server.valid \ {page.cookie} /\ server'.fresh = server.fresh
    BY <1>0, <1>3, SessionExpiresEffect
  <2>2. Moves
    BY <1>1, <2>1 DEF Moves
  <2>3. RetryIsFresh'
    BY <1>1, <2>1, RetryStays DEF Current
  <2>4. LoginIsNew'
    BY <1>1, <2>1 DEF Current, LoginIsNew
  <2> QED BY <1>0, <1>1, <2>2, <2>3, <2>4, NewStays DEF Current, Renewed
<1> QED BY <1>2, <1>3

LEMMA CurrentStep ==
  ASSUME Current, [Next]_vars
  PROVE  Current'
<1>0. Orderly'
  BY ShapeStep, OrderStep DEF Current, Orderly
<1>1. CASE UNCHANGED vars
  <2>1. NewIsNew' /\ LoginIsNew' /\ RetryIsFresh'
    BY <1>1 DEF vars, Current, NewIsNew, Renewed, NewToken, LoginIsNew, RetryIsFresh
  <2> QED BY <1>0, <2>1 DEF Current
<1>2. ASSUME NEW c \in Calls, Work(c)
      PROVE  Current'
  BY <1>0, <1>2, ServeCurrent, ReceiveCurrent DEF Work, Current
<1>3. ASSUME NEW c \in Calls, Fault(c)
      PROVE  Current'
  BY <1>0, <1>3, FaultCurrent DEF Current
<1>4. ASSUME NEW c \in Calls, use(c) \/ logout(c) \/ Reload(c) \/ \E u \in Users : login(c, u)
      PROVE  Current'
  BY <1>0, <1>4, UserCurrent DEF Current
<1>5. CASE TokenRefreshAuditView \/ ReceiveRefresh \/ FaultOfRefresh
  BY <1>0, <1>5, RefreshCurrent, EndsCurrent DEF Current
<1>6. CASE AccessExpires \/ SessionExpires
  BY <1>0, <1>6, ExpiryCurrent DEF Current
<1> QED BY <1>1, <1>2, <1>3, <1>4, <1>5, <1>6 DEF Next

LEMMA CurrentInit ==
  ASSUME Init, ~ Hasty
  PROVE  Current
<1>1. ShapeInv
  BY ShapeInit
<1>2. PICK c \in Calls :
        calls = [d \in Calls |-> IF d = c THEN Awaiting("boot", "restore") ELSE Idle]
  BY DEF Init
<1>3. /\ Awaiting("boot", "restore").path = "restore" /\ Idle.path = "none"
      /\ ~ page.auth /\ refreshPromise.phase = "sent"
  BY DEF Init, Awaiting, Idle, NewPage, Promise, NoPromise
<1>4. \A d \in Calls : calls[d].path = IF d = c THEN "restore" ELSE "none"
  BY <1>2, <1>3
<1>5. Order
  BY <1>3, <1>4 DEF Order, Lone
<1>6. NewIsNew /\ LoginIsNew /\ RetryIsFresh
  BY <1>3, <1>4 DEF NewIsNew, Renewed, LoginIsNew, RetryIsFresh
<1> QED BY <1>1, <1>5, <1>6 DEF Current, Orderly

-------------------------------------------------------------------------------
(* A session that nothing has ended.                                       *)

\* The tab has its refresh token, or the one refresh that has used it up brings
\* another; the user is signed in, or about to be.
KeptInv ==
    kept =>
      /\ ~ Pending({"login", "revoke"})
      /\ refreshPromise.phase # "served" => page.cookie \in server.valid
      /\ refreshPromise.phase = "sent"   => refreshPromise.cookie = page.cookie
      /\ refreshPromise.phase = "served" => refreshPromise.answer.ok
      /\ page.auth \/ Pending({"restore", "me"})
      /\ page.token # NoToken \/ Pending({"restore"})

\* What is refused, and not refreshed, is a revocation: no retry is.
LEMMA OnlyRevokesRefused ==
  ASSUME Current, NEW c \in Calls, ReceiveRefused(c)
  PROVE  calls[c].path = "revoke"
<1>1. calls[c].path \in {"me", "wallet", "data", "revoke"} /\ (calls[c].path # "revoke" => ~ calls[c].retry)
  BY ReceiveRefusedFields DEF Current
<1>2. calls[c].phase = "served" /\ ~ calls[c].answer.ok
  BY DEF ReceiveRefused
<1> QED BY <1>1, <1>2 DEF Current, RetryIsFresh

LEMMA ServeKept ==
  ASSUME Current, KeptInv, NEW c \in Calls, Serve(c)
  PROVE  KeptInv'
<1>1. Orderly /\ \A d \in Calls : calls'[d].path = calls[d].path
  BY ServeSettles DEF Current
<1>2. CASE Reads(c)
  BY <1>1, <1>2 DEF Reads, KeptInv, Pending
<1>3. CASE Obtains(c) \/ RevokesNot(c)
  <2>1. calls[c].path \in {"login", "revoke"} /\ kept' = kept
    BY <1>3 DEF Obtains, RevokesNot
  <2> QED BY <2>1 DEF KeptInv, Pending
<1>4. CASE Revokes(c)
  BY <1>4 DEF Revokes, KeptInv
<1> QED BY <1>2, <1>3, <1>4, ServeCases

LEMMA ReceiveKept ==
  ASSUME Current, KeptInv, NEW c \in Calls, Receive(c)
  PROVE  KeptInv'
<1>1. Orderly /\ UNCHANGED server /\ calls[c].phase = "served"
  BY DEF Current, Receive
<1>2. CASE ReceiveOk(c)
  <2>1. Only(c) /\ calls[c].path \in {"login", "me", "wallet", "data", "revoke"}
          /\ refreshPromise' = refreshPromise
    BY <1>1, <1>2, ReceiveOkFields DEF ReceiveOk
  <2>2. CASE calls[c].path = "login"
    <3>1. /\ page'.cookie = calls[c].answer.token /\ page'.token = calls[c].answer.token
          /\ calls[c].answer.token # NoToken /\ page'.auth
      BY <1>1, <1>2, <2>2, ReceiveOkFields
    <3>2. calls[c].answer.token \in server.valid
      BY <1>1, <2>2 DEF Current, LoginIsNew
    <3>3. \A d \in Calls : calls'[d].path \in {"none", "me"}
      BY <1>1, <1>2, <2>1, <2>2, BusyExcludes, ReceiveOkCall DEF Only
    <3>4. refreshPromise'.phase = "none"
      BY <1>1, <2>1, <2>2, BusyExcludes
    <3> QED BY <1>1, <3>1, <3>2, <3>3, <3>4 DEF KeptInv, Pending
  <2>3. CASE calls[c].path # "login"
    <3> SUFFICES ASSUME kept' PROVE KeptInv'
      BY DEF KeptInv
    <3>1. kept
      BY <1>2, <2>3 DEF ReceiveOk
    <3>2. calls[c].path \in {"me", "wallet", "data"}
      BY <2>1, <2>3, <3>1 DEF KeptInv, Pending
    <3>3. /\ page'.cookie = page.cookie /\ page'.token = page.token
          /\ page'.auth <=> (calls[c].path = "me" \/ page.auth)
          /\ calls'[c].path \in {"none", "wallet", "data"}
      BY <1>1, <1>2, <3>2, ReceiveOkFields, ReceiveOkCall
    <3>4. ~ Pending({"login", "revoke"})'
      BY <2>1, <3>1, <3>3 DEF KeptInv, Pending, Only
    <3>5. page'.auth \/ Pending({"restore", "me"})'
      BY <2>1, <3>1, <3>2, <3>3 DEF KeptInv, Pending, Only
    <3>6. page'.token # NoToken \/ Pending({"restore"})'
      BY <2>1, <3>1, <3>2, <3>3 DEF KeptInv, Pending, Only
    <3> QED BY <1>1, <2>1, <3>1, <3>3, <3>4, <3>5, <3>6 DEF KeptInv
  <2> QED BY <2>2, <2>3
<1>3. CASE ReceiveRefused(c)
  <2>1. calls[c].path = "revoke" /\ kept' = kept
    BY <1>3, OnlyRevokesRefused DEF ReceiveRefused
  <2> QED BY <2>1 DEF KeptInv, Pending
<1>4. CASE ReceiveExpired(c)
  <2>1. /\ page' = page /\ kept' = kept
        /\ \A d \in Calls : calls'[d].path = calls[d].path
        /\ refreshPromise' = IF refreshPromise.phase = "none"
                             THEN Promise(page.cookie) ELSE refreshPromise
    BY <1>1, <1>4, ReceiveExpiredFields DEF ReceiveExpired, Only
  <2>2. Promise(page.cookie).phase = "sent" /\ Promise(page.cookie).cookie = page.cookie
    BY DEF Promise, NoPromise
  <2> QED BY <1>1, <2>1, <2>2 DEF KeptInv, Pending
<1> QED BY <1>2, <1>3, <1>4, ReceiveCases

LEMMA KeptStep ==
  ASSUME Current, KeptInv, [Next]_vars
  PROVE  KeptInv'
<1>0. Orderly
  BY DEF Current
<1>1. CASE UNCHANGED vars
  BY <1>1 DEF vars, KeptInv, Pending
<1>2. ASSUME NEW c \in Calls, Work(c)
      PROVE  KeptInv'
  BY <1>2, ServeKept, ReceiveKept DEF Work
<1>3. ASSUME NEW c \in Calls, Fault(c) \/ logout(c)
      PROVE  KeptInv'
  BY <1>3 DEF Fault, logout, KeptInv
<1>4. ASSUME NEW c \in Calls, use(c)
      PROVE  KeptInv'
  <2>1. /\ Only(c) /\ calls[c].path = "none" /\ calls'[c].path \in {"wallet", "data"}
        /\ UNCHANGED <<page, refreshPromise, server, kept>>
    BY <1>0, <1>4, UseFields
  <2> QED BY <2>1 DEF KeptInv, Pending, Only
<1>5. ASSUME NEW c \in Calls, Reload(c)
      PROVE  KeptInv'
  <2>1. /\ Only(c) /\ Quiet /\ page'.cookie = page.cookie
        /\ refreshPromise'.phase = "sent" /\ refreshPromise'.cookie = page.cookie
        /\ calls'[c].path = "restore" /\ UNCHANGED <<server, kept>>
    BY <1>0, <1>5, ReloadFields
  <2>2. \A d \in Calls : calls'[d].path \in {"restore", "none"}
    BY <1>0, <2>1, QuietIsIdle DEF Only
  <2>3. refreshPromise.phase = "none"
    BY <2>1 DEF Quiet
  <2> QED BY <2>1, <2>2, <2>3 DEF KeptInv, Pending
<1>6. ASSUME NEW c \in Calls, \E u \in Users : login(c, u)
      PROVE  KeptInv'
  <2>1. Quiet /\ ~ page.auth /\ kept' = kept
    BY <1>0, <1>6, LoginFields
  <2>2. \A d \in Calls : calls[d].path = "none"
    BY <1>0, <2>1, QuietIsIdle
  <2> QED BY <2>1, <2>2 DEF KeptInv, Pending
<1>7. CASE TokenRefreshAuditView
  <2>1. CASE Rotated
    <3>1. UNCHANGED <<page, calls, kept>> /\ refreshPromise'.phase = "served" /\ refreshPromise'.answer.ok
      BY <1>0, <2>1, RotatedEffect DEF Rotated, Orderly
    <3> QED BY <3>1 DEF KeptInv, Pending
  <2>2. CASE NotRotated
    BY <2>2 DEF NotRotated, KeptInv
  <2> QED BY <1>7, <2>1, <2>2, RefreshCases
<1>8. CASE ReceiveRefresh
  <2>1. CASE Renews
    <3>1. /\ refreshPromise'.phase = "none" /\ NewToken # NoToken
          /\ page'.cookie = NewToken /\ page'.token = NewToken /\ page'.auth = page.auth
          /\ UNCHANGED <<server, kept>>
      BY <1>0, <2>1, RenewsFields DEF NewToken, Renews
    <3>2. NewToken \in server.valid
      BY <2>1 DEF Renews, Renewed, Current, NewIsNew
    <3>3. \A c \in Calls : calls'[c].path = IF calls[c].path = "restore" THEN "me"
                                            ELSE calls[c].path
      <4>1. \A c \in Calls : calls[c].path = "restore" => calls[c].phase = "awaiting"
        BY <1>0 DEF Orderly, ShapeInv, CallShape
      <4> QED BY <1>0, <2>1, <4>1, RenewsFields
    <3> QED BY <3>1, <3>2, <3>3 DEF KeptInv, Pending
  <2>2. CASE refreshPromise.phase = "served" /\ ~ refreshPromise.answer.ok /\ kept' = kept
    BY <2>2 DEF KeptInv
  <2> QED BY <1>8, <2>1, <2>2, ReceiveRefreshCases
<1>9. CASE FaultOfRefresh \/ SessionExpires
  BY <1>9 DEF FaultOfRefresh, SessionExpires, KeptInv
<1>10. CASE AccessExpires
  <2>1. server'.valid = server.valid /\ UNCHANGED <<page, calls, refreshPromise, kept>>
    BY <1>0, <1>10, AccessExpiresEffect DEF AccessExpires, history, Orderly
  <2> QED BY <2>1 DEF KeptInv, Pending
<1> QED BY <1>1, <1>2, <1>3, <1>4, <1>5, <1>6, <1>7, <1>8, <1>9, <1>10 DEF Next


LEMMA CurrentAlways ==
  ASSUME ~ Hasty
  PROVE  Spec => []Current
<1>1. Init => Current
  BY CurrentInit
<1>2. Current /\ [Next]_vars => Current'
  BY CurrentStep
<1> QED BY <1>1, <1>2, PTL DEF Spec

LEMMA KeptAlways ==
  ASSUME ~ Hasty
  PROVE  Spec => []KeptInv
<1>1. Init => KeptInv
  BY DEF Init, KeptInv
<1>2. Current /\ KeptInv /\ [Next]_vars => KeptInv'
  BY KeptStep
<1> QED BY <1>1, <1>2, CurrentAlways, PTL DEF Spec

\* A session that neither a sign-out, nor a lost answer, nor the expiry of its
\* refresh token has ended is there when every answer has come, however the calls
\* of the pages are interleaved and however often access tokens expire under them
\* (refreshAccessToken and request in api.ts), if users wait for the answers of
\* one session before they begin the next.
THEOREM SessionsAreKept ==
  ASSUME ~ Hasty
  PROVE  Spec => []SessionIsKept
<1>1. Current /\ KeptInv => SessionIsKept
  <2> SUFFICES ASSUME Current, KeptInv, kept, Quiet
               PROVE  page.auth /\ page.token # NoToken /\ page.cookie \in server.valid
    BY DEF SessionIsKept
  <2>1. refreshPromise.phase = "none" /\ \A c \in Calls : calls[c].path = "none"
    BY QuietIsIdle DEF Current
  <2> QED BY <2>1 DEF KeptInv, Pending
<1> QED BY <1>1, CurrentAlways, KeptAlways, PTL

-------------------------------------------------------------------------------
(* A sign-out that was confirmed.                                          *)

\* Nobody is signed in or about to be, and the server has seen the sign-out.
Closed ==
    /\ ~ page.auth /\ ~ Pending({"login", "restore", "me"})
    /\ \A c \in Calls : calls[c].path = "revoke" => calls[c].phase = "served"

\* The refresh under way was sent with the cookie of the page, unless a sign-out
\* has cleared that one meanwhile.
CookieIsOne ==
    refreshPromise.phase # "none" => refreshPromise.cookie = page.cookie \/ Closed

\* A sign-out on its way names the refresh token of the page, or one that has
\* been used up: the server will not confirm it.
RevokeReaches ==
    \A c \in Calls : calls[c].path = "revoke" /\ calls[c].phase = "sent" =>
      \/ calls[c].cookie = page.cookie /\ ~ Renewed
      \/ calls[c].cookie # NoToken /\ calls[c].cookie \notin server.valid

LEMMA ClosedStays ==
  ASSUME Closed, page'.auth => page.auth \/ Pending({"me"}),
         \A c \in Calls : \/ /\ calls'[c].path = calls[c].path
                             /\ calls[c].path = "revoke" /\ calls[c].phase = "served"
                                  => calls'[c].phase = "served"
                          \/ calls'[c].path \in {"none", "wallet", "data"}
  PROVE  Closed'
<1>1. ~ page'.auth
  BY DEF Closed, Pending
<1>2. ~ Pending({"login", "restore", "me"})'
  BY DEF Closed, Pending
<1>3. \A c \in Calls : calls'[c].path = "revoke" => calls'[c].phase = "served"
  BY DEF Closed
<1> QED BY <1>1, <1>2, <1>3 DEF Closed

\* A call that gives up, or has been answered well, leaves the tab closed if it
\* was a sign-out.
LEMMA RevokeCloses ==
  ASSUME Orderly, NEW c \in Calls, Only(c), calls[c].path = "revoke",
         calls'[c].path \in {"none", "data"}, ~ page'.auth
  PROVE  Closed'
<1>1. /\ ~ Pending({"login", "restore", "me"})
      /\ \A d \in Calls : calls[d].path = "revoke" => d = c
  BY DEF Orderly, Order
<1>2. ~ Pending({"login", "restore", "me"})'
  BY <1>1 DEF Pending, Only
<1>3. \A d \in Calls : calls'[d].path # "revoke"
  BY <1>1 DEF Only
<1> QED BY <1>2, <1>3 DEF Closed


\* After a confirmed sign-out the tab has nothing the server would accept.
RevokedInv ==
    revoked =>
      /\ ~ page.auth /\ ~ Pending({"login", "me"})
      /\ page.cookie \notin server.valid
      /\ refreshPromise.phase = "sent" => refreshPromise.cookie \notin server.valid
      /\ ~ Renewed

Signing == Current /\ CookieIsOne /\ RevokeReaches /\ RevokedInv

\* Steps that hand the tab no token and revoke none of its sign-outs.
LEMMA RevokeStays ==
  ASSUME RevokeReaches, Renewed' => Renewed,
         \A t \in server'.valid : t \in server.valid,
         \A c \in Calls : calls'[c].path = "revoke" /\ calls'[c].phase = "sent" =>
           /\ calls[c].path = "revoke" /\ calls[c].phase = "sent"
           /\ calls'[c].cookie = calls[c].cookie
           /\ calls'[c].cookie = page.cookie => page'.cookie = page.cookie
  PROVE  RevokeReaches'
BY DEF RevokeReaches

LEMMA RevokedStays ==
  ASSUME Orderly, RevokedInv, Renewed' => Renewed,
         revoked' => revoked,
         \A t \in server'.valid : t \in server.valid,
         page'.cookie \in {page.cookie, NoToken},
         page'.auth => page.auth \/ Pending({"login", "me"}),
         refreshPromise'.phase = "sent" =>
           \/ refreshPromise.phase = "sent" /\ refreshPromise'.cookie = refreshPromise.cookie
           \/ refreshPromise'.cookie = page.cookie,
         \A c \in Calls : \/ calls'[c].path = calls[c].path
                          \/ calls'[c].path \notin {"login", "me"}
                          \/ calls[c].path \in {"login", "me"}
  PROVE  RevokedInv'
<1> SUFFICES ASSUME revoked'
             PROVE  /\ ~ page'.auth /\ ~ Pending({"login", "me"})'
                    /\ page'.cookie \notin server'.valid
                    /\ refreshPromise'.phase = "sent" => refreshPromise'.cookie \notin server'.valid
                    /\ ~ Renewed'
  BY DEF RevokedInv
<1>1. /\ ~ page.auth /\ ~ Pending({"login", "me"})
      /\ page.cookie \notin server.valid
      /\ refreshPromise.phase = "sent" => refreshPromise.cookie \notin server.valid
      /\ ~ Renewed
  BY DEF RevokedInv
<1>2. NoToken \notin server.valid
  <2>1. server.valid \subseteq Tokens
    BY TypedParts DEF Orderly, ShapeInv
  <2> QED BY <2>1, SessionConstants DEF Tokens, NoToken, Token
<1>3. ~ page'.auth /\ ~ Pending({"login", "me"})'
  BY <1>1 DEF Pending
<1> QED BY <1>1, <1>2, <1>3

LEMMA ServeSigning ==
  ASSUME Signing, NEW c \in Calls, Serve(c)
  PROVE  CookieIsOne' /\ RevokeReaches' /\ RevokedInv'
<1>1. /\ Orderly /\ ShapeInv /\ Only(c) /\ Answered(c)
      /\ \A d \in Calls : calls'[d].path = calls[d].path
      /\ UNCHANGED <<page, refreshPromise>>
  BY ServeSettles DEF Signing, Current, Orderly
<1>2. CookieIsOne'
  <2>1. Closed => Closed'
    BY <1>1, ClosedStays DEF Only, Answered
  <2> QED BY <1>1, <2>1 DEF Signing, CookieIsOne
<1>3. CASE Obtains(c)
  <2>1. calls[c].path = "login" /\ revoked' = revoked /\ \A d \in Calls : calls[d].path # "revoke"
    BY <1>1, <1>3, BusyExcludes DEF Obtains
  <2>2. ~ revoked'
    BY <2>1 DEF Signing, RevokedInv, Pending
  <2>3. RevokeReaches'
    BY <1>1, <2>1 DEF RevokeReaches
  <2> QED BY <1>2, <2>2, <2>3 DEF RevokedInv
<1>4. ASSUME \A t \in server'.valid : t \in server.valid
      PROVE  RevokeReaches'
  BY <1>1, <1>4, RevokeStays DEF Signing, Only, Answered, Renewed
<1>5. ASSUME \A t \in server'.valid : t \in server.valid, revoked' => revoked
      PROVE  RevokedInv'
  <2>1. revoked' =>
          /\ ~ page.auth /\ ~ Pending({"login", "me"})
          /\ page.cookie \notin server.valid
          /\ refreshPromise.phase = "sent" => refreshPromise.cookie \notin server.valid
          /\ ~ Renewed
    BY <1>5 DEF Signing, RevokedInv
  <2> QED BY <1>1, <1>5, <2>1 DEF RevokedInv, Pending, Renewed
<1>6. CASE Reads(c) \/ RevokesNot(c)
  BY <1>2, <1>4, <1>5, <1>6 DEF Reads, RevokesNot
<1>7. CASE Revokes(c)
  <2>1. /\ server'.valid = server.valid \ {calls[c].cookie}
        /\ calls[c].path = "revoke" /\ calls[c].phase = "sent"
    BY <1>1, <1>7, RevokesEffect DEF Revokes
  <2>2. CASE revoked
    BY <1>2, <1>4, <1>5, <2>1, <2>2
  <2>3. CASE ~ revoked /\ revoked'
    <3>1. calls[c].cookie \in server.valid \/ calls[c].cookie = NoToken
      BY <1>7, <2>3 DEF Revokes
    <3>2. calls[c].cookie = page.cookie /\ ~ Renewed
      BY <2>1, <3>1 DEF Signing, RevokeReaches
    <3>3. refreshPromise.phase # "none" => refreshPromise.cookie = page.cookie
      BY <2>1 DEF Signing, CookieIsOne, Closed
    <3>4. ~ page.auth /\ ~ Pending({"login", "restore", "me"})
      BY <1>1, <2>1 DEF Orderly, Order
    <3>5. page'.cookie \notin server'.valid
            /\ (refreshPromise'.phase = "sent" => refreshPromise'.cookie \notin server'.valid)
      BY <1>1, <2>1, <3>2, <3>3
    <3>6. ~ page'.auth /\ ~ Pending({"login", "me"})' /\ ~ Renewed'
      BY <1>1, <3>2, <3>4 DEF Pending, Renewed
    <3>7. RevokedInv'
      BY <3>5, <3>6 DEF RevokedInv
    <3> QED BY <1>2, <1>4, <2>1, <3>7
  <2>4. CASE ~ revoked'
    BY <1>2, <1>4, <2>1, <2>4 DEF RevokedInv
  <2> QED BY <2>2, <2>3, <2>4
<1> QED BY <1>3, <1>6, <1>7, ServeCases

\* An answer that is not that of a login.
LEMMA ReceiveSigning ==
  ASSUME Signing, NEW c \in Calls, Receive(c)
  PROVE  CookieIsOne' /\ RevokeReaches' /\ RevokedInv'
<1>1. /\ Orderly /\ ShapeInv /\ UNCHANGED server /\ Only(c)
      /\ calls[c].phase = "served" /\ revoked' = revoked
  <2>1. Orderly /\ ShapeInv /\ UNCHANGED server /\ calls[c].phase = "served"
    BY DEF Signing, Current, Orderly, Receive
  <2>2. CASE ReceiveOk(c)
    BY <2>1, <2>2, ReceiveOkFields DEF ReceiveOk
  <2>3. CASE ReceiveRefused(c)
    BY <2>1, <2>3, ReceiveRefusedFields DEF ReceiveRefused
  <2>4. CASE ReceiveExpired(c)
    BY <2>1, <2>4, ReceiveExpiredFields DEF ReceiveExpired
  <2> QED BY <2>1, <2>2, <2>3, <2>4, ReceiveCases
<1>2. CASE ReceiveOk(c) /\ calls[c].path = "login"
  <2>1. refreshPromise'.phase = "none" /\ \A d \in Calls \ {c} : calls[d].path = "none"
    BY <1>1, <1>2, BusyExcludes DEF ReceiveOk
  <2>2. ~ revoked
    BY <1>2 DEF Signing, RevokedInv, Pending
  <2>3. \A d \in Calls : calls'[d].path # "revoke"
    BY <1>1, <1>2, <2>1, ReceiveOkCall DEF Only
  <2> QED BY <1>1, <2>1, <2>2, <2>3 DEF CookieIsOne, RevokeReaches, RevokedInv
<1>3. CASE ReceiveExpired(c)
  <2>1. /\ page' = page /\ calls[c].path \in {"me", "wallet", "data"}
        /\ \A d \in Calls : calls'[d].path = calls[d].path
        /\ calls'[c].phase = "awaiting"
        /\ refreshPromise' = IF refreshPromise.phase = "none"
                             THEN Promise(page.cookie) ELSE refreshPromise
    BY <1>1, <1>3, ReceiveExpiredFields DEF Only
  <2>2. Promise(page.cookie).phase = "sent" /\ Promise(page.cookie).cookie = page.cookie
    BY DEF Promise, NoPromise
  <2>3. Renewed' => Renewed
    BY <2>1, <2>2 DEF Renewed
  <2>4. CookieIsOne'
    <3>1. Closed => Closed'
      BY <1>1, <2>1, ClosedStays DEF Only
    <3> QED BY <2>1, <2>2, <3>1 DEF Signing, CookieIsOne
  <2>5. RevokeReaches'
    BY <1>1, <2>1, <2>3, RevokeStays DEF Signing, Only
  <2>6. RevokedInv'
    BY <1>1, <2>1, <2>2, <2>3, RevokedStays DEF Signing
  <2> QED BY <2>4, <2>5, <2>6
<1>4. CASE (ReceiveOk(c) /\ calls[c].path # "login") \/ ReceiveRefused(c)
  <2>1. /\ calls[c].path \in {"me", "wallet", "data", "revoke"}
        /\ page'.cookie \in {page.cookie, NoToken}
        /\ calls[c].path # "revoke" => page'.cookie = page.cookie
        /\ page'.auth => page.auth \/ calls[c].path = "me"
        /\ refreshPromise' = refreshPromise
    BY <1>1, <1>4, ReceiveOkFields, ReceiveRefusedFields DEF ReceiveOk, ReceiveRefused
  <2>2. /\ calls'[c].path \in {"none", "wallet", "data"}
        /\ calls[c].path # "me" => calls'[c].path \in {"none", "data"}
    BY <1>1, <1>4, <2>1, ReceiveOkCall, ReceiveRefusedCall
  <2>3. page'.auth => page.auth \/ Pending({"me"})
    BY <2>1 DEF Pending
  <2>4. CookieIsOne'
    <3>1. CASE calls[c].path = "revoke"
      <4>1. ~ page'.auth
        BY <1>1, <2>1, <3>1 DEF Orderly, Order
      <4> QED BY <1>1, <2>2, <3>1, <4>1, RevokeCloses DEF CookieIsOne
    <3>2. CASE calls[c].path # "revoke"
      <4>1. Closed => Closed'
        BY <1>1, <2>2, <2>3, ClosedStays DEF Only
      <4> QED BY <2>1, <3>2, <4>1 DEF Signing, CookieIsOne
    <3> QED BY <3>1, <3>2
  <2>5. RevokeReaches'
    <3>1. calls[c].path = "revoke" => \A d \in Calls \ {c} : calls[d].path # "revoke"
      BY <1>1 DEF Orderly, Order
    <3> QED BY <1>1, <2>1, <2>2, <3>1, RevokeStays DEF Signing, Only, Renewed
  <2>6. RevokedInv'
    <3>1. page'.auth => page.auth \/ Pending({"login", "me"})
      BY <2>3 DEF Pending
    <3> QED BY <1>1, <2>1, <2>2, <3>1, RevokedStays DEF Signing, Renewed, Only
  <2> QED BY <2>4, <2>5, <2>6
<1> QED BY <1>2, <1>3, <1>4, ReceiveCases


LEMMA RefreshSigning ==
  ASSUME Signing, TokenRefreshAuditView
  PROVE  CookieIsOne' /\ RevokeReaches' /\ RevokedInv'
<1>1. Orderly /\ ShapeInv /\ UNCHANGED <<page, calls, revoked>> /\ refreshPromise.phase = "sent"
  BY RefreshCases DEF Signing, Current, Orderly, Rotated, NotRotated
<1>2. ASSUME refreshPromise'.cookie = refreshPromise.cookie
      PROVE  CookieIsOne'
  BY <1>1, <1>2 DEF Signing, CookieIsOne, Closed, Pending
<1>3. CASE Rotated
  <2> DEFINE old == refreshPromise.cookie
             new == Token(old.user, server.issued + 1)
  <2>1. /\ old \in server.valid /\ refreshPromise'.cookie = old /\ new \notin Known
        /\ server'.valid = (server.valid \ {old}) \cup {new}
    BY <1>1, <1>3, RotatedEffect
  <2>2. old \in Known /\ old # NoToken /\ \A c \in Calls : calls[c].cookie \in Known
    BY <1>1, <2>1, TypedParts, KnownTokens DEF ShapeInv, Known, Call
  <2> HIDE DEF old, new
  <2>3. ~ revoked'
    BY <1>1, <2>1 DEF Signing, RevokedInv, old
  <2>4. RevokeReaches'
    <3> SUFFICES ASSUME NEW c \in Calls, calls[c].path = "revoke", calls[c].phase = "sent"
                 PROVE  calls[c].cookie # NoToken /\ calls[c].cookie \notin server'.valid
      BY <1>1 DEF RevokeReaches
    <3>1. old = page.cookie
      BY <1>1 DEF Signing, CookieIsOne, Closed, old
    <3>2. calls[c].cookie = old
            \/ (calls[c].cookie # NoToken /\ calls[c].cookie \notin server.valid)
      BY <3>1 DEF Signing, RevokeReaches
    <3> QED BY <2>1, <2>2, <3>2
  <2> QED BY <1>2, <2>1, <2>3, <2>4 DEF RevokedInv, old
<1>4. CASE NotRotated
  <2>1. /\ ~ refreshPromise'.answer.ok /\ refreshPromise'.cookie = refreshPromise.cookie
        /\ refreshPromise'.phase = "served" /\ server' = server
    BY <1>1, <1>4, NotRotatedEffect DEF NotRotated
  <2>2. RevokeReaches'
    BY <1>1, <2>1 DEF Signing, RevokeReaches, Renewed
  <2>3. RevokedInv'
    BY <1>1, <2>1 DEF Signing, RevokedInv, Renewed, Pending
  <2> QED BY <1>2, <2>1, <2>2, <2>3
<1> QED BY <1>3, <1>4, RefreshCases

LEMMA EndsSigning ==
  ASSUME Signing, ReceiveRefresh \/ FaultOfRefresh
  PROVE  CookieIsOne' /\ RevokeReaches' /\ RevokedInv'
<1>1. /\ Orderly /\ ShapeInv /\ refreshPromise.phase # "none"
      /\ UNCHANGED <<server, revoked>>
  BY DEF Signing, Current, Orderly, ReceiveRefresh, FaultOfRefresh, history
<1>2. refreshPromise'.phase = "none" => CookieIsOne'
  BY DEF CookieIsOne
<1>3. CASE Renews
  <2>1. /\ refreshPromise'.phase = "none" /\ Renewed
        /\ \A c \in Calls : IF calls[c].phase = "awaiting"
                            THEN calls'[c].path = (IF calls[c].path = "restore" THEN "me"
                                                   ELSE calls[c].path)
                                 /\ calls[c].path \in {"restore", "me", "wallet", "data"}
                            ELSE calls'[c] = calls[c]
    BY <1>1, <1>3, RenewsFields DEF Renews, Renewed
  <2>2. ~ revoked'
    BY <1>1, <2>1 DEF Signing, RevokedInv
  <2>3. RevokeReaches'
    <3> SUFFICES ASSUME NEW c \in Calls, calls'[c].path = "revoke", calls'[c].phase = "sent"
                 PROVE  calls'[c].cookie # NoToken /\ calls'[c].cookie \notin server'.valid
      BY DEF RevokeReaches
    <3>1. calls'[c] = calls[c]
      BY <2>1
    <3> QED BY <1>1, <2>1, <3>1 DEF Signing, RevokeReaches
  <2> QED BY <1>2, <2>1, <2>2, <2>3 DEF RevokedInv
<1>4. ASSUME refreshPromise'.phase = "none",
             page'.cookie \in {page.cookie, NoToken}, page'.auth => page.auth,
             page'.cookie = page.cookie \/ refreshPromise.cookie = NoToken,
             \A c \in Calls : \/ calls'[c] = calls[c]
                              \/ calls'[c].path \in {"none", "data"}
      PROVE  CookieIsOne' /\ RevokeReaches' /\ RevokedInv'
  <2>1. ~ Renewed'
    BY <1>4 DEF Renewed
  <2>2. RevokedInv'
    BY <1>1, <1>4, <2>1, RevokedStays DEF Signing
  <2>3. RevokeReaches'
    <3>1. ASSUME NEW c \in Calls, calls'[c].path = "revoke", calls'[c].phase = "sent"
          PROVE  calls'[c] = calls[c] /\ page'.cookie = page.cookie
      <4>1. calls'[c] = calls[c]
        BY <1>4, <3>1
      <4>2. refreshPromise.cookie = page.cookie
        BY <1>1, <3>1, <4>1 DEF Signing, CookieIsOne, Closed
      <4> QED BY <1>4, <4>1, <4>2
    <3> QED BY <1>1, <2>1, <3>1, RevokeStays DEF Signing
  <2> QED BY <1>2, <1>4, <2>2, <2>3
<1>5. CASE FaultOfRefresh
  <2>1. /\ refreshPromise'.phase = "none" /\ page'.cookie = page.cookie
        /\ page'.auth => page.auth
    BY <1>1, <1>5, LosesFields
  <2>2. \A c \in Calls : calls'[c] = calls[c] \/ calls'[c].path \in {"none", "data"}
    BY <1>1, <1>5, LosesFields
  <2> QED BY <1>4, <2>1, <2>2
<1>6. CASE /\ refreshPromise.phase = "served" /\ ~ refreshPromise.answer.ok
           /\ Expels(notifyUnauthorized(Applying(refreshPromise.answer)))
           /\ UNCHANGED <<spent, kept>>
  <2>1. /\ refreshPromise'.phase = "none" /\ ~ page'.auth
        /\ page'.cookie \in {page.cookie, NoToken}
        /\ page'.cookie = page.cookie \/ refreshPromise.cookie = NoToken
    BY <1>1, <1>6, RefusesFields
  <2>2. \A c \in Calls : calls'[c] = calls[c] \/ calls'[c].path \in {"none", "data"}
    BY <1>1, <1>6, RefusesFields
  <2> QED BY <1>4, <2>1, <2>2
<1> QED BY <1>3, <1>5, <1>6, ReceiveRefreshCases

LEMMA FaultSigning ==
  ASSUME Signing, NEW c \in Calls, Fault(c)
  PROVE  CookieIsOne' /\ RevokeReaches' /\ RevokedInv'
<1>1. Orderly /\ UNCHANGED <<refreshPromise, server, revoked>>
  BY DEF Signing, Current, Fault
<1>2. Only(c) /\ page'.cookie = page.cookie /\ (page'.auth => page.auth)
        /\ calls'[c].path \in {"none", "data"}
  BY <1>1, FaultFields, ReceiveRefusedCall
<1>3. CookieIsOne'
  <2>1. Closed => Closed'
    BY <1>2, ClosedStays DEF Only
  <2> QED BY <1>1, <1>2, <2>1 DEF Signing, CookieIsOne
<1>4. RevokeReaches'
  BY <1>1, <1>2, RevokeStays DEF Signing, Renewed, Only
<1>5. RevokedInv'
  BY <1>1, <1>2, RevokedStays DEF Signing, Renewed, Only
<1> QED BY <1>3, <1>4, <1>5

LEMMA UserSigning ==
  ASSUME Signing, NEW c \in Calls,
         (\E u \in Users : login(c, u)) \/ use(c) \/ logout(c) \/ Reload(c)
  PROVE  CookieIsOne' /\ RevokeReaches' /\ RevokedInv'
<1>0. Orderly
  BY DEF Signing, Current
<1>1. CASE \E u \in Users : login(c, u)
  <2>1. /\ Only(c) /\ Quiet /\ calls'[c].path = "login" /\ refreshPromise' = refreshPromise
        /\ ~ revoked'
    BY <1>0, <1>1, LoginFields
  <2>2. refreshPromise'.phase = "none" /\ \A d \in Calls : calls'[d].path # "revoke"
    BY <1>0, <2>1, QuietIsIdle DEF Only
  <2> QED BY <2>1, <2>2 DEF CookieIsOne, RevokeReaches, RevokedInv
<1>2. CASE use(c)
  <2>1. /\ Only(c) /\ page.auth /\ calls'[c].path \in {"wallet", "data"}
        /\ UNCHANGED <<page, refreshPromise, server, revoked>>
    BY <1>0, <1>2, UseFields
  <2>2. ~ revoked'
    BY <2>1 DEF Signing, RevokedInv
  <2>3. \A d \in Calls : calls'[d].path # "revoke"
    BY <1>0, <2>1, SignedInExcludes DEF Only
  <2>4. CookieIsOne'
    BY <2>1 DEF Signing, CookieIsOne, Closed
  <2> QED BY <2>2, <2>3, <2>4 DEF RevokeReaches, RevokedInv
<1>3. CASE logout(c)
  <2>1. /\ Only(c) /\ page.auth /\ page'.cookie = page.cookie
        /\ \A d \in Calls : calls[d].path # "revoke"
        /\ \/ calls'[c] = calls[c]
           \/ calls'[c].path = "revoke" /\ calls'[c].cookie = page.cookie
        /\ UNCHANGED <<refreshPromise, server, revoked>>
    BY <1>0, <1>3, LogoutFields
  <2>2. ~ revoked'
    BY <2>1 DEF Signing, RevokedInv
  <2>3. refreshPromise.phase # "none" => refreshPromise.cookie = page.cookie
    BY <2>1 DEF Signing, CookieIsOne, Closed
  <2>4. CookieIsOne'
    BY <2>1, <2>3 DEF CookieIsOne
  <2>5. RevokeReaches'
    <3>1. CASE ~ Renewed
      BY <2>1, <3>1 DEF RevokeReaches, Renewed, Only
    <3>2. CASE Renewed
      <4>1. page.cookie # NoToken /\ page.cookie \notin server.valid
        BY <2>3, <3>2 DEF Signing, Current, NewIsNew, Renewed
      <4> QED BY <2>1, <4>1 DEF RevokeReaches, Only
    <3> QED BY <3>1, <3>2
  <2> QED BY <2>2, <2>4, <2>5 DEF RevokedInv
<1>4. CASE Reload(c)
  <2>1. /\ Only(c) /\ Quiet /\ page'.cookie = page.cookie /\ ~ page'.auth
        /\ refreshPromise'.phase = "sent" /\ refreshPromise'.cookie = page.cookie
        /\ calls'[c].path = "restore" /\ UNCHANGED <<server, revoked>>
    BY <1>0, <1>4, ReloadFields
  <2>2. \A d \in Calls : calls'[d].path \in {"restore", "none"}
    BY <1>0, <2>1, QuietIsIdle DEF Only
  <2> QED BY <2>1, <2>2 DEF Signing, CookieIsOne, RevokeReaches, RevokedInv, Renewed, Pending
<1> QED BY <1>1, <1>2, <1>3, <1>4

LEMMA ExpirySigning ==
  ASSUME Signing, AccessExpires \/ SessionExpires
  PROVE  CookieIsOne' /\ RevokeReaches' /\ RevokedInv'
<1>1. Orderly /\ UNCHANGED <<page, calls, refreshPromise, revoked>>
  BY DEF Signing, Current, AccessExpires, SessionExpires, history
<1>2. \A t \in server'.valid : t \in server.valid
  BY <1>1, AccessExpiresEffect, SessionExpiresEffect DEF Orderly
<1>3. CookieIsOne'
  BY <1>1 DEF Signing, CookieIsOne, Closed, Pending
<1>4. RevokeReaches'
  BY <1>1, <1>2 DEF Signing, RevokeReaches, Renewed
<1>5. RevokedInv'
  BY <1>1, <1>2 DEF Signing, RevokedInv, Renewed, Pending
<1> QED BY <1>3, <1>4, <1>5

LEMMA SigningStep ==
  ASSUME Signing, [Next]_vars
  PROVE  Signing'
<1>0. Current'
  BY CurrentStep DEF Signing
<1>1. CASE UNCHANGED vars
  <2>1. CookieIsOne' /\ RevokeReaches' /\ RevokedInv'
    BY <1>1 DEF vars, Signing, CookieIsOne, RevokeReaches, RevokedInv, Closed, Renewed, Pending
  <2> QED BY <1>0, <2>1 DEF Signing
<1>2. ASSUME NEW c \in Calls, Work(c)
      PROVE  Signing'
  BY <1>0, <1>2, ServeSigning, ReceiveSigning DEF Work, Signing
<1>3. ASSUME NEW c \in Calls, Fault(c)
      PROVE  Signing'
  BY <1>0, <1>3, FaultSigning DEF Signing
<1>4. ASSUME NEW c \in Calls, use(c) \/ logout(c) \/ Reload(c) \/ \E u \in Users : login(c, u)
      PROVE  Signing'
  BY <1>0, <1>4, UserSigning DEF Signing
<1>5. CASE TokenRefreshAuditView \/ ReceiveRefresh \/ FaultOfRefresh
  BY <1>0, <1>5, RefreshSigning, EndsSigning DEF Signing
<1>6. CASE AccessExpires \/ SessionExpires
  BY <1>0, <1>6, ExpirySigning DEF Signing
<1> QED BY <1>1, <1>2, <1>3, <1>4, <1>5, <1>6 DEF Next

LEMMA SigningInit ==
  ASSUME Init, ~ Hasty
  PROVE  Signing
<1>1. Current
  BY CurrentInit
<1>2. refreshPromise.cookie = page.cookie /\ ~ revoked
  BY DEF Init, NewPage, Promise, NoPromise
<1>3. \A c \in Calls : calls[c].path # "revoke"
  BY DEF Init, Awaiting, Idle
<1> QED BY <1>1, <1>2, <1>3 DEF Signing, CookieIsOne, RevokeReaches, RevokedInv

\* A user whose sign-out the server has confirmed is not signed in again, by no
\* late answer, refresh or reload, although the page is cleared before the
\* revocation is sent (logout, TokenRevokeView), if users wait for the answers of
\* one session before they begin the next.
THEOREM SignOutsAreFinal ==
  ASSUME ~ Hasty
  PROVE  Spec => []SignedOutStaysOut
<1>1. Init => Signing
  BY SigningInit
<1>2. Signing /\ [Next]_vars => Signing'
  BY SigningStep
<1>3. Signing => SignedOutStaysOut
  BY DEF Signing, RevokedInv, SignedOutStaysOut
<1> QED BY <1>1, <1>2, <1>3, PTL DEF Spec


-------------------------------------------------------------------------------
(* Whose profile and balance the page shows.                               *)

Bears(c) ==
    calls[c].path \in {"me", "wallet", "data"} /\ calls[c].phase \in {"sent", "served"}

\* The tokens of the tab: the page's, that of a refresh under way, and those of the
\* requests for data.
Shown ==
    ({page.token, page.cookie}
       \cup (IF refreshPromise.phase = "none" THEN {} ELSE {refreshPromise.cookie})
       \cup {calls[c].bearer : c \in {d \in Calls : Bears(d)}}) \ {NoToken}

Of(u) == \A t \in Shown : t.user = u

\* They are all of one account.
OneAccount == \A s, t \in Shown : s.user = t.user

\* What is shown is of that account, or is about to be replaced.
ShownInv ==
    /\ ~ page.auth => page.user = None
    /\ page.auth /\ page.user # None => Of(page.user)
    /\ spent["fault"] = 0 /\ page.auth =>
         /\ page.user # None \/ Pending({"me"})
         /\ page.wallet = None \/ Of(page.wallet) \/ Pending({"me", "wallet"})

Showing == Current /\ OneAccount /\ ShownInv

SameAccount == \A t \in Shown' : \E s \in Shown : s.user = t.user

LEMMA AccountStays ==
  ASSUME OneAccount, SameAccount
  PROVE  OneAccount' /\ \A u : Of(u) => Of(u)'
<1>1. OneAccount'
  BY DEF OneAccount, SameAccount
<1>2. ASSUME NEW u, Of(u)
      PROVE  Of(u)'
  BY <1>2 DEF Of, SameAccount
<1> QED BY <1>1, <1>2

\* A step in which no token is handed out to the tab.
LEMMA NoneIsShown ==
  ASSUME page'.cookie \in {page.cookie, NoToken}, page'.token \in {page.token, NoToken},
         refreshPromise'.phase # "none" =>
           \/ refreshPromise.phase # "none" /\ refreshPromise'.cookie = refreshPromise.cookie
           \/ refreshPromise'.cookie = page.cookie,
         \A c \in Calls : Bears(c)' => \/ Bears(c) /\ calls'[c].bearer = calls[c].bearer
                                       \/ calls'[c].bearer \in {page.token, NoToken}
  PROVE  SameAccount
<1> SUFFICES ASSUME NEW t \in Shown'
             PROVE  t \in Shown
  BY DEF SameAccount
<1>1. t # NoToken
  BY DEF Shown
<1>2. CASE t \in {page'.token, page'.cookie}
  BY <1>1, <1>2 DEF Shown
<1>3. CASE refreshPromise'.phase # "none" /\ t = refreshPromise'.cookie
  BY <1>1, <1>3 DEF Shown
<1>4. CASE \E c \in Calls : Bears(c)' /\ t = calls'[c].bearer
  BY <1>1, <1>4 DEF Shown
<1> QED BY <1>2, <1>3, <1>4 DEF Shown

\* What is shown stays as it is, or goes.
LEMMA ShownStays ==
  ASSUME OneAccount, ShownInv, SameAccount,
         \/ ~ page'.auth /\ page'.user = None
         \/ (page'.auth <=> page.auth) /\ page'.user = page.user,
         spent'["fault"] = 0 /\ page'.auth =>
           /\ spent["fault"] = 0 /\ page.auth /\ page'.wallet = page.wallet
           /\ Pending({"me"}) => Pending({"me"})'
           /\ Pending({"me", "wallet"}) => Pending({"me", "wallet"})'
  PROVE  OneAccount' /\ ShownInv'
<1>1. OneAccount' /\ \A u : Of(u) => Of(u)'
  BY AccountStays
<1>2. ~ page'.auth => page'.user = None
  BY DEF ShownInv
<1>3. page'.auth /\ page'.user # None => Of(page.user)' /\ page'.user = page.user
  BY <1>1 DEF ShownInv
<1> QED BY <1>1, <1>2, <1>3 DEF ShownInv, Of

LEMMA ServeShowing ==
  ASSUME Showing, NEW c \in Calls, Serve(c)
  PROVE  OneAccount' /\ ShownInv'
<1>1. /\ Orderly /\ Only(c) /\ Answered(c)
      /\ \A d \in Calls : calls'[d].path = calls[d].path
      /\ UNCHANGED <<page, refreshPromise, spent>>
  BY ServeSettles DEF Showing, Current
<1>2. SameAccount
  BY <1>1, NoneIsShown DEF Bears, Only, Answered
<1>3. \A paths : Pending(paths) => Pending(paths)'
  BY <1>1 DEF Pending
<1> QED BY <1>1, <1>2, <1>3, ShownStays DEF Showing, ShownInv

\* A login that was answered is alone.
LEMMA LoginShowing ==
  ASSUME Showing, NEW c \in Calls, ReceiveOk(c), calls[c].path = "login"
  PROVE  OneAccount' /\ ShownInv'
<1> DEFINE new == calls[c].answer.token
<1>1. /\ Orderly /\ Only(c) /\ refreshPromise' = refreshPromise
      /\ page'.cookie = new /\ page'.token = new
      /\ page'.auth /\ page'.user = page.user
  BY ReceiveOkFields DEF Showing, Current, ReceiveOk
<1>2. /\ ~ page.auth /\ refreshPromise.phase = "none"
      /\ \A d \in Calls \ {c} : calls[d].path = "none"
  BY <1>1, BusyExcludes DEF ReceiveOk
<1>3. calls'[c].path = "me" /\ calls'[c].phase \in {"idle", "sent"}
        /\ (calls'[c].phase = "sent" => calls'[c].bearer = page'.token)
  BY <1>1, ReceiveOkCall
<1> HIDE DEF new
<1>4. \A t \in Shown' : t = new
  BY <1>1, <1>2, <1>3 DEF Shown, Bears, Only
<1>5. page'.user = None /\ Pending({"me"})' /\ Pending({"me", "wallet"})'
  BY <1>1, <1>2, <1>3 DEF Showing, ShownInv, Pending
<1> QED BY <1>1, <1>4, <1>5 DEF OneAccount, ShownInv

LEMMA ReceiveShowing ==
  ASSUME Showing, NEW c \in Calls, Receive(c)
  PROVE  OneAccount' /\ ShownInv'
<1>1. Orderly /\ ShapeInv /\ calls[c].phase = "served" /\ spent' = spent
  BY DEF Showing, Current, Orderly, Receive
<1>2. CASE ReceiveOk(c) /\ calls[c].path # "login"
  <2> DEFINE t == calls[c]
  <2>1. /\ Only(c) /\ t.path \in {"me", "wallet", "data", "revoke"}
        /\ page'.cookie \in {page.cookie, NoToken} /\ page'.token \in {page.token, NoToken}
        /\ page'.auth <=> (t.path = "me" \/ page.auth)
        /\ page'.user = IF t.path = "me" THEN t.bearer.user ELSE page.user
        /\ page'.wallet = IF t.path = "wallet" THEN t.bearer.user ELSE page.wallet
        /\ t.path \in {"me", "wallet", "data"} => t.bearer # NoToken
        /\ refreshPromise' = refreshPromise
    BY <1>1, <1>2, ReceiveOkFields DEF ReceiveOk
  <2>2. /\ calls'[c].phase \in {"idle", "sent"}
        /\ calls'[c].phase = "sent" => calls'[c].bearer = page'.token
        /\ t.path = "me" => calls'[c].path = "wallet"
    BY <1>1, <1>2, ReceiveOkCall
  <2> HIDE DEF t
  <2>3. SameAccount
    BY <2>1, <2>2, NoneIsShown DEF Bears, Only
  <2>4. OneAccount' /\ \A u : Of(u) => Of(u)'
    BY <2>3, AccountStays DEF Showing
  <2>5. t.path \in {"me", "wallet"} => Of(t.bearer.user)
    <3> SUFFICES ASSUME t.path \in {"me", "wallet"}
                 PROVE  t.bearer \in Shown
      BY DEF Of, Showing, OneAccount
    <3> QED BY <1>1, <2>1 DEF Shown, Bears, t
  <2>6. t.path = "me" => t.bearer.user # None
    <3>1. t \in Call
      BY <1>1, TypedParts DEF ShapeInv, t
    <3>2. t.bearer \in Known => t.bearer = NoToken \/ t.bearer.user \in Users
      BY <1>1, TypedParts, KnownTokens DEF ShapeInv
    <3>3. (\E u \in Users : t.bearer = Token(u, 0)) => t.bearer.user \in Users
      BY DEF Token
    <3> QED BY <2>1, <3>1, <3>2, <3>3, SessionConstants DEF Call
  <2>7. CASE t.path = "me"
    <3>1. page'.auth /\ page'.user # None /\ Of(page.user)' /\ Pending({"me", "wallet"})'
      BY <2>1, <2>2, <2>4, <2>5, <2>6, <2>7 DEF Pending, Of
    <3> QED BY <2>4, <3>1 DEF ShownInv
  <2>8. CASE t.path # "me"
    <3>1. (page'.auth <=> page.auth) /\ page'.user = page.user
      BY <2>1, <2>8
    <3>2. Pending({"me"}) => Pending({"me"})'
      BY <2>1, <2>8 DEF Pending, Only, t
    <3>3. CASE t.path = "wallet"
      <4>1. Of(page.wallet)'
        BY <2>1, <2>4, <2>5, <3>3 DEF Of
      <4>2. ~ page'.auth => page'.user = None
        BY <3>1 DEF Showing, ShownInv
      <4>3. page'.auth /\ page'.user # None => Of(page.user)'
        BY <2>4, <3>1 DEF Showing, ShownInv, Of
      <4> QED BY <1>1, <2>4, <3>1, <3>2, <4>1, <4>2, <4>3 DEF Showing, ShownInv
    <3>4. CASE t.path # "wallet"
      <4>1. Pending({"me", "wallet"}) => Pending({"me", "wallet"})'
        BY <2>1, <2>8, <3>4 DEF Pending, Only, t
      <4>2. page'.wallet = page.wallet
        BY <2>1, <3>4
      <4> QED BY <1>1, <2>3, <3>1, <3>2, <4>1, <4>2, ShownStays DEF Showing
    <3> QED BY <3>3, <3>4
  <2> QED BY <2>7, <2>8
<1>3. CASE ReceiveRefused(c)
  <2>1. /\ Only(c) /\ calls[c].path = "revoke"
        /\ page'.cookie \in {page.cookie, NoToken} /\ page'.token = NoToken
        /\ page'.auth = page.auth /\ page'.user = page.user
        /\ refreshPromise' = refreshPromise
    BY <1>1, <1>3, OnlyRevokesRefused, ReceiveRefusedFields DEF Showing, ReceiveRefused
  <2>2. calls'[c].phase = "sent" => calls'[c].bearer = page'.token
    BY <1>1, <1>3, ReceiveRefusedCall
  <2>3. calls'[c].phase \in {"idle", "sent"}
    BY <1>1, <1>3, ReceiveRefusedCall
  <2>4. SameAccount
    BY <2>1, <2>2, <2>3, NoneIsShown DEF Bears, Only
  <2>5. ~ page.auth
    BY <1>1, <2>1 DEF Orderly, Order
  <2> QED BY <2>1, <2>4, <2>5, ShownStays DEF Showing
<1>4. CASE ReceiveExpired(c)
  <2>1. /\ page' = page /\ calls'[c].phase = "awaiting" /\ Only(c)
        /\ \A d \in Calls : calls'[d].path = calls[d].path
        /\ refreshPromise' = IF refreshPromise.phase = "none"
                             THEN Promise(page.cookie) ELSE refreshPromise
    BY <1>1, <1>4, ReceiveExpiredFields DEF Only
  <2>2. Promise(page.cookie).cookie = page.cookie
    BY DEF Promise, NoPromise
  <2>3. SameAccount
    BY <2>1, <2>2, NoneIsShown DEF Bears, Only
  <2>4. \A paths : Pending(paths) => Pending(paths)'
    BY <2>1 DEF Pending
  <2> QED BY <1>1, <2>1, <2>3, <2>4, ShownStays DEF Showing, ShownInv
<1> QED BY <1>2, <1>3, <1>4, LoginShowing, ReceiveCases


LEMMA RefreshShowing ==
  ASSUME Showing, TokenRefreshAuditView
  PROVE  OneAccount' /\ ShownInv'
<1>1. Orderly /\ UNCHANGED <<page, calls, spent>> /\ refreshPromise.phase # "none"
  BY RefreshCases DEF Showing, Current, Rotated, NotRotated
<1>2. refreshPromise'.cookie = refreshPromise.cookie
  BY <1>1, RefreshCases, RotatedEffect, NotRotatedEffect DEF Orderly
<1>3. SameAccount
  BY <1>1, <1>2, NoneIsShown DEF Bears
<1>4. \A paths : Pending(paths) => Pending(paths)'
  BY <1>1 DEF Pending
<1> QED BY <1>1, <1>3, <1>4, ShownStays DEF Showing

LEMMA EndsShowing ==
  ASSUME Showing, ReceiveRefresh \/ FaultOfRefresh
  PROVE  OneAccount' /\ ShownInv'
<1>1. Orderly /\ refreshPromise.phase # "none"
  BY DEF Showing, Current, ReceiveRefresh, FaultOfRefresh
<1>2. CASE Renews
  <2>1. /\ refreshPromise'.phase = "none" /\ spent' = spent
        /\ page'.cookie = NewToken /\ page'.token = NewToken
        /\ page'.auth = page.auth /\ page'.user = page.user /\ page'.wallet = page.wallet
        /\ \A c \in Calls : IF calls[c].phase = "awaiting"
                            THEN /\ calls'[c].bearer = NewToken
                                 /\ calls'[c].path = IF calls[c].path = "restore" THEN "me"
                                                     ELSE calls[c].path
                            ELSE calls'[c] = calls[c]
    BY <1>1, <1>2, RenewsFields DEF Renews, NewToken
  <2>2. refreshPromise.cookie # NoToken /\ refreshPromise.cookie.user = NewToken.user
    BY <1>2 DEF Showing, Current, NewIsNew, Renewed, Renews
  <2>3. refreshPromise.cookie \in Shown
    BY <1>1, <2>2 DEF Shown
  <2>4. SameAccount
    <3> SUFFICES ASSUME NEW t \in Shown', t # NewToken
                 PROVE  t \in Shown
      BY <2>2, <2>3 DEF SameAccount
    <3>1. PICK c \in Calls : Bears(c)' /\ t = calls'[c].bearer
      BY <2>1 DEF Shown
    <3>2. calls'[c] = calls[c]
      BY <2>1, <3>1
    <3>3. t # NoToken
      BY DEF Shown
    <3> QED BY <3>1, <3>2, <3>3 DEF Shown, Bears
  <2>5. /\ Pending({"me"}) => Pending({"me"})'
        /\ Pending({"me", "wallet"}) => Pending({"me", "wallet"})'
    <3>1. \A c \in Calls : calls[c].path # "restore" => calls'[c].path = calls[c].path
      BY <2>1
    <3> QED BY <3>1 DEF Pending
  <2> QED BY <2>1, <2>4, <2>5, ShownStays DEF Showing
<1>3. ASSUME refreshPromise'.phase = "none",
             page'.cookie \in {page.cookie, NoToken}, page'.token \in {page.token, NoToken},
             \A c \in Calls : \/ calls'[c] = calls[c]
                              \/ /\ calls'[c].phase \in {"idle", "sent"}
                                 /\ calls'[c].phase = "sent" => calls'[c].bearer = page'.token
      PROVE  SameAccount
  BY <1>3, NoneIsShown DEF Bears
<1>4. CASE FaultOfRefresh
  <2>1. /\ refreshPromise'.phase = "none"
        /\ page'.cookie = page.cookie /\ page'.token = page.token
        /\ \/ ~ page'.auth /\ page'.user = None
           \/ page'.auth = page.auth /\ page'.user = page.user
        /\ spent'["fault"] = spent["fault"] + 1
    BY <1>1, <1>4, LosesFields
  <2>2. \A c \in Calls : \/ calls'[c] = calls[c]
                         \/ /\ calls'[c].phase \in {"idle", "sent"}
                            /\ calls'[c].phase = "sent" => calls'[c].bearer = page'.token
    BY <1>1, <1>4, LosesFields
  <2>3. SameAccount
    BY <1>3, <2>1, <2>2
  <2>4. spent'["fault"] # 0
    BY <1>1, <2>1 DEF Orderly, ShapeInv, Types, Kinds
  <2> QED BY <2>1, <2>3, <2>4, ShownStays DEF Showing
<1>5. CASE /\ refreshPromise.phase = "served" /\ ~ refreshPromise.answer.ok
           /\ Expels(notifyUnauthorized(Applying(refreshPromise.answer)))
           /\ UNCHANGED <<spent, kept>>
  <2>1. /\ refreshPromise'.phase = "none"
        /\ page'.cookie \in {page.cookie, NoToken} /\ page'.token = NoToken
        /\ ~ page'.auth /\ page'.user = None
    BY <1>1, <1>5, RefusesFields
  <2>2. \A c \in Calls : \/ calls'[c] = calls[c]
                         \/ /\ calls'[c].phase \in {"idle", "sent"}
                            /\ calls'[c].phase = "sent" => calls'[c].bearer = page'.token
    BY <1>1, <1>5, RefusesFields
  <2>3. SameAccount
    BY <1>3, <2>1, <2>2
  <2> QED BY <2>1, <2>3, ShownStays DEF Showing
<1> QED BY <1>2, <1>4, <1>5, ReceiveRefreshCases

LEMMA FaultShowing ==
  ASSUME Showing, NEW c \in Calls, Fault(c)
  PROVE  OneAccount' /\ ShownInv'
<1>1. Orderly /\ refreshPromise' = refreshPromise
  BY DEF Showing, Current, Fault
<1>2. /\ Only(c) /\ page'.cookie = page.cookie /\ page'.token \in {page.token, NoToken}
      /\ \/ ~ page'.auth /\ page'.user = None
         \/ page'.auth = page.auth /\ page'.user = page.user
      /\ spent'["fault"] = spent["fault"] + 1
  BY <1>1, FaultFields
<1>3. calls'[c].phase \in {"idle", "sent"} /\ (calls'[c].phase = "sent" => calls'[c].bearer = page'.token)
  BY <1>1, ReceiveRefusedCall
<1>4. SameAccount
  BY <1>1, <1>2, <1>3, NoneIsShown DEF Bears, Only
<1>5. spent'["fault"] # 0
  BY <1>1, <1>2 DEF Orderly, ShapeInv, Types, Kinds
<1> QED BY <1>2, <1>4, <1>5, ShownStays DEF Showing

LEMMA UserShowing ==
  ASSUME Showing, NEW c \in Calls,
         (\E u \in Users : login(c, u)) \/ use(c) \/ logout(c) \/ Reload(c)
  PROVE  OneAccount' /\ ShownInv'
<1>0. Orderly
  BY DEF Showing, Current
<1>1. CASE \E u \in Users : login(c, u)
  <2>1. /\ Only(c) /\ ~ page.auth /\ calls'[c].path = "login"
        /\ UNCHANGED <<page, refreshPromise>>
    BY <1>0, <1>1, LoginFields
  <2>2. SameAccount
    BY <2>1, NoneIsShown DEF Bears, Only
  <2> QED BY <2>1, <2>2, ShownStays DEF Showing
<1>2. CASE use(c)
  <2>1. /\ Only(c) /\ calls[c].path = "none" /\ calls'[c].bearer = page.token
        /\ UNCHANGED <<page, refreshPromise>> /\ spent'["fault"] = spent["fault"]
    BY <1>0, <1>2, UseFields
  <2>2. SameAccount
    BY <2>1, NoneIsShown DEF Bears, Only
  <2>3. /\ Pending({"me"}) => Pending({"me"})'
        /\ Pending({"me", "wallet"}) => Pending({"me", "wallet"})'
    BY <2>1 DEF Pending, Only
  <2> QED BY <2>1, <2>2, <2>3, ShownStays DEF Showing
<1>3. CASE logout(c)
  <2>1. /\ Only(c) /\ page'.cookie = page.cookie /\ page'.token = page.token
        /\ ~ page'.auth /\ page'.user = None /\ refreshPromise' = refreshPromise
        /\ calls'[c] = calls[c] \/ calls'[c].path = "revoke"
    BY <1>0, <1>3, LogoutFields
  <2>2. SameAccount
    BY <2>1, NoneIsShown DEF Bears, Only
  <2> QED BY <2>1, <2>2, ShownStays DEF Showing
<1>4. CASE Reload(c)
  <2>1. /\ Only(c) /\ page'.cookie = page.cookie /\ page'.token = NoToken
        /\ ~ page'.auth /\ page'.user = None
        /\ refreshPromise'.cookie = page.cookie /\ calls'[c].path = "restore"
    BY <1>0, <1>4, ReloadFields
  <2>2. SameAccount
    BY <2>1, NoneIsShown DEF Bears, Only
  <2> QED BY <2>1, <2>2, ShownStays DEF Showing
<1> QED BY <1>1, <1>2, <1>3, <1>4

LEMMA ExpiryShowing ==
  ASSUME Showing, AccessExpires \/ SessionExpires
  PROVE  OneAccount' /\ ShownInv'
<1>1. Orderly /\ UNCHANGED <<page, calls, refreshPromise>>
  BY DEF Showing, Current, AccessExpires, SessionExpires
<1>2. spent'["fault"] = spent["fault"]
  BY <1>1, AccessExpiresEffect, SessionExpiresEffect DEF Orderly
<1>3. SameAccount
  BY <1>1, NoneIsShown DEF Bears
<1>4. \A paths : Pending(paths) => Pending(paths)'
  BY <1>1 DEF Pending
<1> QED BY <1>1, <1>2, <1>3, <1>4, ShownStays DEF Showing


LEMMA ShowingStep ==
  ASSUME Showing, [Next]_vars
  PROVE  Showing'
<1>0. Current'
  BY CurrentStep DEF Showing
<1>1. CASE UNCHANGED vars
  <2>1. SameAccount
    BY <1>1, NoneIsShown DEF vars, Bears
  <2>2. \A paths : Pending(paths) => Pending(paths)'
    BY <1>1 DEF vars, Pending
  <2>3. UNCHANGED <<page, spent>>
    BY <1>1 DEF vars
  <2> QED BY <1>0, <2>1, <2>2, <2>3, ShownStays DEF Showing
<1>2. ASSUME NEW c \in Calls, Work(c)
      PROVE  Showing'
  BY <1>0, <1>2, ServeShowing, ReceiveShowing DEF Work, Showing
<1>3. ASSUME NEW c \in Calls, Fault(c)
      PROVE  Showing'
  BY <1>0, <1>3, FaultShowing DEF Showing
<1>4. ASSUME NEW c \in Calls, use(c) \/ logout(c) \/ Reload(c) \/ \E u \in Users : login(c, u)
      PROVE  Showing'
  BY <1>0, <1>4, UserShowing DEF Showing
<1>5. CASE TokenRefreshAuditView \/ ReceiveRefresh \/ FaultOfRefresh
  BY <1>0, <1>5, RefreshShowing, EndsShowing DEF Showing
<1>6. CASE AccessExpires \/ SessionExpires
  BY <1>0, <1>6, ExpiryShowing DEF Showing
<1> QED BY <1>1, <1>2, <1>3, <1>4, <1>5, <1>6 DEF Next

LEMMA ShowingInit ==
  ASSUME Init, ~ Hasty
  PROVE  Showing
<1>1. Current
  BY CurrentInit
<1>2. /\ page.cookie = NoToken /\ page.token = NoToken /\ ~ page.auth /\ page.user = None
      /\ refreshPromise.cookie = NoToken
  BY DEF Init, NewPage, Promise, NoPromise
<1>3. \A c \in Calls : ~ Bears(c)
  BY DEF Init, Bears, Awaiting, Idle
<1>4. Shown = {}
  BY <1>2, <1>3 DEF Shown
<1> QED BY <1>1, <1>2, <1>4 DEF Showing, OneAccount, ShownInv

\* Once every answer has come, and none was lost, the profile and the balance on
\* screen are those of the account whose token is sent: nobody sees another's after
\* a change of account (refreshWallet, loadAuthUser), if users wait for the answers
\* of one session before they begin the next.
THEOREM OwnAccountIsShown == Spec => []ShownIsSignedIn
<1>1. CASE Hasty
  <2>1. ShownIsSignedIn
    BY <1>1 DEF ShownIsSignedIn
  <2> QED BY <2>1, PTL
<1>2. CASE ~ Hasty
  <2>1. Init => Showing
    BY <1>2, ShowingInit
  <2>2. Showing /\ [Next]_vars => Showing'
    BY ShowingStep
  <2>3. Showing => ShownIsSignedIn
    <3> SUFFICES ASSUME Showing, spent["fault"] = 0, Quiet, page.auth, page.token # NoToken
                 PROVE  page.user = page.token.user /\ page.wallet \in {None, page.user}
      BY DEF ShownIsSignedIn
    <3>1. \A c \in Calls : calls[c].path = "none"
      BY QuietIsIdle DEF Showing, Current
    <3>2. page.user # None /\ Of(page.user) /\ (page.wallet = None \/ Of(page.wallet))
      BY <3>1 DEF Showing, ShownInv, Pending
    <3>3. page.token \in Shown
      BY DEF Shown
    <3> QED BY <3>2, <3>3 DEF Of
  <2> QED BY <2>1, <2>2, <2>3, PTL DEF Spec
<1> QED BY <1>1, <1>2

-------------------------------------------------------------------------------
(* The splash screen.                                                      *)

\* The chain of requests that takes the splash screen away, in one way or another.
Booting(t) == t.kind = "boot" /\ t.path \in {"restore", "me", "wallet"}

BootIsUnderWay == page.loading => \E c \in Calls : Booting(calls[c])

\* What each operator of the tab makes of the splash screen.
LEMMA LoadingFields ==
  ASSUME NEW p \in Page, NEW t
  PROVE  /\ clearSessionState(p).loading = p.loading
         /\ notifyUnauthorized(p).loading = p.loading
         /\ Failed(p, t).loading => p.loading
         /\ t.path \in {"restore", "me"} => ~ Failed(p, t).loading
         /\ t.path = "wallet" /\ t.kind # "use" => ~ Failed(p, t).loading
         /\ Accepted(p, t).loading => p.loading
         /\ t.path = "wallet" /\ t.kind # "use" => ~ Accepted(p, t).loading
BY DEF clearSessionState, notifyUnauthorized, Failed, Accepted, Page

LEMMA AllFailedLoads ==
  ASSUME NEW p \in Page, AllFailed(p).loading
  PROVE  p.loading /\ \A c \in Awaiters : calls[c].kind = "use"
<1> DEFINE profile == \E c \in Awaiters : calls[c].path \in {"restore", "me"}
           loaded  == \E c \in Awaiters : calls[c].kind # "use"
           q       == IF profile THEN clearSessionState(p) ELSE p
<1>1. AllFailed(p) = [q EXCEPT !.loading = @ /\ ~ loaded]
  BY DEF AllFailed
<1>2. q \in Page /\ q.loading = p.loading
  BY FailedIsPage, LoadingFields
<1> HIDE DEF q, loaded
<1>3. AllFailed(p).loading = (q.loading /\ ~ loaded)
  BY <1>1, <1>2 DEF Page
<1> QED BY <1>2, <1>3 DEF loaded

\* A step of one call takes the chain on, or the splash screen away.
LEMMA BootGoesOn ==
  ASSUME BootIsUnderWay, NEW c \in Calls, Only(c),
         page'.loading => page.loading,
         page'.loading /\ Booting(calls[c]) => Booting(calls'[c])
  PROVE  BootIsUnderWay'
BY DEF BootIsUnderWay, Only

LEMMA ServeBoots ==
  ASSUME ShapeInv, BootIsUnderWay, NEW c \in Calls, Serve(c)
  PROVE  BootIsUnderWay'
<1>1. Only(c) /\ Answered(c)
  BY ServeCases, ObtainsEffect, ReadsEffect, RevokesEffect, RevokesNotEffect
<1>2. UNCHANGED page
  BY DEF Serve
<1> QED BY <1>1, <1>2, BootGoesOn DEF Answered, Booting

\* A chain whose request is accepted: the profile, then the wallet, with which the
\* splash screen goes.
LEMMA OnwardBoots ==
  ASSUME NEW p, NEW t, t.kind \in MyKinds \ {"none"}, Booting(t), t.path # "wallet"
  PROVE  Booting(Onward(p, t))
BY DEF Booting, Onward, FollowUp, Send

LEMMA ReceiveBoots ==
  ASSUME ShapeInv, BootIsUnderWay, NEW c \in Calls, Receive(c)
  PROVE  BootIsUnderWay'
<1> DEFINE t == calls[c]
           p == Applying(t.answer)
<1>1. CASE ReceiveOk(c)
  <2>1. /\ Only(c) /\ p \in Page /\ page' = Accepted(p, t)
        /\ t.kind \in MyKinds \ {"none"} /\ calls'[c] = Onward(page', t)
    BY <1>1, ReceiveOkEffect
  <2>2. p.loading = page.loading
    BY DEF Applying, ShapeInv, Types, Page
  <2> HIDE DEF p
  <2>3. /\ page'.loading => page.loading
        /\ t.path = "wallet" /\ t.kind # "use" => ~ page'.loading
    BY <2>1, <2>2, LoadingFields
  <2>4. ASSUME page'.loading, Booting(t)
        PROVE  Booting(calls'[c])
    <3>1. t.path # "wallet"
      BY <2>3, <2>4 DEF Booting
    <3> QED BY <2>1, <2>4, <3>1, OnwardBoots
  <2> QED BY <2>1, <2>3, <2>4, BootGoesOn
<1>2. CASE ReceiveExpired(c)
  <2>1. Only(c) /\ calls'[c] = Awaiting(t.kind, t.path) /\ page'.loading = page.loading
    BY <1>2, ReceiveExpiredEffect DEF ReceiveExpired, Applying, ShapeInv, Types, Page
  <2>2. calls'[c].kind = t.kind /\ calls'[c].path = t.path
    BY <2>1 DEF Awaiting, Idle
  <2> QED BY <2>1, <2>2, BootGoesOn DEF Booting
<1>3. CASE ReceiveRefused(c)
  <2>1. Only(c) /\ p \in Page /\ page' = Failed(p, t)
    BY <1>3, ReceiveRefusedEffect
  <2>2. p.loading = page.loading
    BY DEF Applying, ShapeInv, Types, Page
  <2> HIDE DEF p
  <2>3. /\ page'.loading => page.loading
        /\ Booting(t) => ~ page'.loading
    BY <2>1, <2>2, LoadingFields DEF Booting
  <2> QED BY <2>1, <2>3, BootGoesOn
<1> QED BY <1>1, <1>2, <1>3, ReceiveCases

LEMMA FaultBoots ==
  ASSUME ShapeInv, BootIsUnderWay, NEW c \in Calls, Fault(c)
  PROVE  BootIsUnderWay'
<1>1. Only(c) /\ page' = Failed(page, calls[c]) /\ page \in Page
  BY FaultEffect DEF Fault, ShapeInv, Types
<1>2. /\ page'.loading => page.loading
      /\ Booting(calls[c]) => ~ page'.loading
  BY <1>1, LoadingFields DEF Booting
<1> QED BY <1>1, <1>2, BootGoesOn

\* A refresh renews every chain that awaits it, or takes the splash screen away.
LEMMA RenewsBoots ==
  ASSUME ShapeInv, BootIsUnderWay, Renews
  PROVE  BootIsUnderWay'
<1> DEFINE q == [Applying(refreshPromise.answer) EXCEPT !.token = refreshPromise.answer.token]
<1>1. page'.loading = page.loading
  BY DEF Renews, Applying, ShapeInv, Types, Page
<1>2. ASSUME NEW c \in Calls, Booting(calls[c])
      PROVE  Booting(calls'[c])
  <2>1. calls[c].kind \in MyKinds \ {"none"} /\ calls[c].path \in {"restore", "me", "wallet", "data"}
    BY <1>2 DEF Booting, MyKinds
  <2>2. calls'[c] = IF c \in Awaiters THEN Retried(q, calls[c]) ELSE calls[c]
    BY DEF Renews
  <2> HIDE DEF q
  <2>3. CASE c \in Awaiters
    <3>1. /\ calls'[c].kind = calls[c].kind
          /\ calls'[c].path = IF calls[c].path = "restore" THEN "me" ELSE calls[c].path
      BY <2>1, <2>2, <2>3, RetriedFields
    <3> QED BY <1>2, <3>1 DEF Booting
  <2>4. CASE c \notin Awaiters
    BY <1>2, <2>2, <2>4
  <2> QED BY <2>3, <2>4
<1> QED BY <1>1, <1>2 DEF BootIsUnderWay

LEMMA ExpelsBoots ==
  ASSUME ShapeInv, BootIsUnderWay, NEW p \in Page, p.loading = page.loading, Expels(p)
  PROVE  BootIsUnderWay'
<1> SUFFICES ASSUME page'.loading
             PROVE  (\E c \in Calls : Booting(calls[c]))'
  BY DEF BootIsUnderWay
<1>1. page.loading /\ \A c \in Awaiters : calls[c].kind = "use"
  BY AllFailedLoads DEF Expels, RefreshFails
<1>2. PICK c \in Calls : Booting(calls[c])
  BY <1>1 DEF BootIsUnderWay
<1>3. c \notin Awaiters
  BY <1>1, <1>2 DEF Booting
<1>4. calls'[c] = calls[c]
  BY <1>3 DEF Expels, RefreshFails
<1> QED BY <1>2, <1>4

LEMMA ReceiveRefreshBoots ==
  ASSUME ShapeInv, BootIsUnderWay, ReceiveRefresh \/ FaultOfRefresh
  PROVE  BootIsUnderWay'
<1>0. page \in Page
  BY DEF ShapeInv, Types
<1>1. CASE ReceiveRefresh
  <2> DEFINE p == Applying(refreshPromise.answer)
  <2>1. CASE Renews
    BY <2>1, RenewsBoots
  <2>2. CASE refreshPromise.phase = "served" /\ Expels(notifyUnauthorized(p))
    <3>1. p \in Page /\ p.loading = page.loading
      <4>1. Types /\ refreshPromise.answer \in Response
        BY DEF ShapeInv, Types, PromiseRecord
      <4>2. p \in Page
        BY <4>1, ApplyingIsPage
      <4> QED BY <1>0, <4>2 DEF Applying, Page
    <3> HIDE DEF p
    <3>2. notifyUnauthorized(p) \in Page /\ notifyUnauthorized(p).loading = page.loading
      BY <3>1, FailedIsPage, LoadingFields
    <3> QED BY <2>2, <3>2, ExpelsBoots
  <2> QED BY <1>1, <2>1, <2>2, ReceiveRefreshCases
<1>2. CASE FaultOfRefresh
  BY <1>0, <1>2, FaultOfRefreshCase, ExpelsBoots
<1> QED BY <1>1, <1>2

\* What the user does begins a chain of its own.
LEMMA UserBoots ==
  ASSUME ShapeInv, BootIsUnderWay, NEW c \in Calls,
         use(c) \/ logout(c) \/ Reload(c) \/ \E u \in Users : login(c, u)
  PROVE  BootIsUnderWay'
<1>0. page \in Page /\ CallShape(calls[c])
  BY DEF ShapeInv, Types
<1>1. calls[c].phase = "idle" => ~ Booting(calls[c])
  BY <1>0 DEF CallShape, Booting
<1>2. CASE use(c)
  <2>1. Only(c) /\ calls[c].phase = "idle"
    BY <1>2, UseEffect
  <2>2. UNCHANGED page
    BY <1>2 DEF use
  <2> QED BY <1>1, <2>1, <2>2, BootGoesOn
<1>3. CASE logout(c)
  <2>1. Only(c) /\ calls[c].phase = "idle" /\ page' = clearSessionState(page)
    BY <1>3, LogoutEffect
  <2> QED BY <1>0, <1>1, <2>1, LoadingFields, BootGoesOn
<1>4. CASE Reload(c)
  <2>1. calls'[c] = Awaiting("boot", "restore")
    BY <1>4, ReloadEffect
  <2> QED BY <2>1 DEF BootIsUnderWay, Booting, Awaiting, Idle
<1>5. ASSUME NEW u \in Users, login(c, u)
      PROVE  BootIsUnderWay'
  <2>1. ~ page.loading /\ UNCHANGED page
    BY <1>5 DEF login
  <2> QED BY <2>1 DEF BootIsUnderWay
<1> QED BY <1>2, <1>3, <1>4, <1>5

LEMMA BootStep ==
  ASSUME ShapeInv, BootIsUnderWay, [Next]_vars
  PROVE  BootIsUnderWay'
<1>1. CASE UNCHANGED vars
  BY <1>1 DEF vars, BootIsUnderWay
<1>2. ASSUME NEW c \in Calls, Work(c)
      PROVE  BootIsUnderWay'
  BY <1>2, ServeBoots, ReceiveBoots DEF Work
<1>3. ASSUME NEW c \in Calls, Fault(c)
      PROVE  BootIsUnderWay'
  BY <1>3, FaultBoots
<1>4. ASSUME NEW c \in Calls, use(c) \/ logout(c) \/ Reload(c) \/ \E u \in Users : login(c, u)
      PROVE  BootIsUnderWay'
  BY <1>4, UserBoots
<1>5. CASE ReceiveRefresh \/ FaultOfRefresh
  BY <1>5, ReceiveRefreshBoots
<1>6. CASE TokenRefreshAuditView \/ AccessExpires \/ SessionExpires
  <2>1. UNCHANGED <<page, calls>>
    BY <1>6 DEF TokenRefreshAuditView, AccessExpires, SessionExpires
  <2> QED BY <2>1 DEF BootIsUnderWay
<1> QED BY <1>1, <1>2, <1>3, <1>4, <1>5, <1>6 DEF Next

\* As long as the splash screen is up, the chain of requests that takes it away is
\* under way, whatever fails, expires or is reloaded (LeadStreamProvider, request):
\* nobody waits before it for an answer no one is going to give.
THEOREM BootsAreUnderWay == Spec => []BootIsUnderWay
<1>1. Init => BootIsUnderWay
  <2> SUFFICES ASSUME Init
               PROVE  \E c \in Calls : Booting(calls[c])
    BY DEF BootIsUnderWay
  <2>1. PICK c \in Calls :
          calls = [d \in Calls |-> IF d = c THEN Awaiting("boot", "restore") ELSE Idle]
    BY DEF Init
  <2>2. calls[c] = Awaiting("boot", "restore")
    BY <2>1
  <2> QED BY <2>2 DEF Booting, Awaiting, Idle
<1>2. ShapeInv /\ BootIsUnderWay /\ [Next]_vars => BootIsUnderWay'
  BY BootStep
<1> QED BY <1>1, <1>2, ShapeAlways, PTL DEF Spec

===============================================================================
