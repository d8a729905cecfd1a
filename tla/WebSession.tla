------------------------------ MODULE WebSession ------------------------------
(***************************************************************************)
(* The session of a browser tab with the API: frontend/src/api.ts,         *)
(* LeadStreamContext.tsx, App.tsx and Login.tsx against the token views of *)
(* leadstream/security/views.py.  The access token lives in the memory of  *)
(* the tab, the refresh token in a cookie; refreshing rotates the refresh  *)
(* token and blacklists the old one, so two refreshes with one cookie      *)
(* would end the session: concurrent requests share one.                   *)
(*                                                                         *)
(* A call is a chain of requests that one async function awaits in turn: a *)
(* request is sent with the token and the cookie of that moment, served,   *)
(* and its answer received, each at a time of its own.                     *)
(***************************************************************************)
EXTENDS Naturals, FiniteSets

CONSTANTS
  Users,          \* accounts that sign in
  Calls,          \* chains of requests under way at one time
  None,
  Limits,         \* bound on each kind of event (see Kinds)
  Hasty           \* may a user sign in while answers are still on their way, and
                  \* sign out while the profile is loading?

Kinds == {"login", "use", "reload", "expiry", "fault"}

ASSUME SessionConstants ==
    /\ Limits \in [Kinds -> Nat] /\ Hasty \in BOOLEAN
    /\ None \notin Users

VARIABLES
  page,           \* the tab: cookie, token, and the state of LeadStreamProvider
  calls,          \* what each call is doing
  refreshPromise, \* the one refresh under way
  server,         \* refresh tokens not blacklisted, access tokens not expired
  spent,          \* how often each kind of event has happened
  kept,           \* history: signed in, and nothing has ended it since
  revoked         \* history: a revocation was confirmed, no login since

vars == <<page, calls, refreshPromise, server, spent, kept, revoked>>

history == <<kept, revoked>>

\* A refresh token and the access token issued with it have the same number.
Token(u, n) == [user |-> u, n |-> n]

NoToken == Token(None, 0)

\* What the tab sees of an answer: its data or token, and the cookie it sets.
Answer(ok, token) == [ok |-> ok, token |-> token, sets |-> FALSE, cookie |-> NoToken]

Refused == Answer(FALSE, NoToken)

Idle == [kind |-> "none", path |-> "none", bearer |-> NoToken, cookie |-> NoToken,
         retry |-> FALSE, phase |-> "idle", answer |-> Refused]

NoPromise == [phase |-> "none", cookie |-> NoToken, answer |-> Refused]

\* The request a refresh sends with the cookie of the moment.
Promise(jar) == [NoPromise EXCEPT !.phase = "sent", !.cookie = jar]

\* A page just loaded, in a browser that has kept its cookie.
NewPage(jar) == [cookie |-> jar, token |-> NoToken, auth |-> FALSE, user |-> None,
                 wallet |-> None, loading |-> TRUE]

Spend(kind) ==
    /\ spent[kind] < Limits[kind]
    /\ spent' = [spent EXCEPT ![kind] = @ + 1]

Free(c) == calls[c].phase = "idle"
Quiet   == refreshPromise.phase = "none" /\ \A c \in Calls : Free(c)

-------------------------------------------------------------------------------
(* The tab.  p is the page, t a call.                                      *)

clearSessionState(p) == [p EXCEPT !.auth = FALSE, !.user = None, !.wallet = None]

\* request(): sent with the page's token, if it has one.
Send(p, kind, path) ==
    [kind |-> kind, path |-> path, bearer |-> p.token, cookie |-> p.cookie,
     retry |-> TRUE, phase |-> "sent", answer |-> Refused]

\* refreshAccessToken(): awaited by the call, whatever started it.
Awaiting(kind, path) == [Idle EXCEPT !.kind = kind, !.path = path, !.phase = "awaiting"]

\* What a failure leaves of the page: loadAuthUser gives up on the profile, and
\* logout drops the token; the wallet and the data of the pages are optional.
Failed(p, t) ==
    CASE t.path \in {"restore", "me"} -> [clearSessionState(p) EXCEPT !.loading = FALSE]
      [] t.path = "wallet"            -> [p EXCEPT !.loading = @ /\ t.kind = "use"]
      [] t.path = "revoke"            -> [p EXCEPT !.token = NoToken]
      [] OTHER                        -> p

\* What a good answer changes in the page.
Accepted(p, t) ==
    CASE t.path = "login"  -> [p EXCEPT !.token = t.answer.token, !.auth = TRUE]
      [] t.path = "me"     -> [p EXCEPT !.user = t.answer.token.user, !.auth = TRUE]
      [] t.path = "wallet" -> [p EXCEPT !.wallet = t.answer.token.user,
                                        !.loading = @ /\ t.kind = "use"]
      [] t.path = "revoke" -> [p EXCEPT !.token = NoToken]
      [] OTHER             -> p

\* (Mutant.)  A login does not load the profile.
FollowUpUnprofiled(p, t, ok) ==
    CASE ok /\ t.path = "restore"           -> Send(p, t.kind, "me")
      [] ok /\ t.path = "me"                -> Send(p, t.kind, "wallet")
      [] t.kind = "boot" /\ t.path = "wallet" -> Send(p, "boot", "data")
      [] OTHER                              -> Idle

\* How a call goes on when its request is answered, or has failed: the session
\* is restored or begun, the profile loaded, then the wallet, and after a
\* reload the data of the pages.
FollowUp(p, t, ok) ==
    CASE ok /\ t.path \in {"restore", "login"} -> Send(p, t.kind, "me")
      [] ok /\ t.path = "me"                   -> Send(p, t.kind, "wallet")
      [] t.kind = "boot" /\ t.path = "wallet"  -> Send(p, "boot", "data")
      [] OTHER                                 -> Idle

\* (Mutant.)  The retry goes out as the request was.
RetriedStale(p, t) == [Send(p, t.kind, t.path) EXCEPT !.retry = FALSE, !.bearer = NoToken]

\* The one retry after a refresh; a restored session has nothing to retry.
Retried(p, t) ==
    IF t.path = "restore" THEN FollowUp(p, t, TRUE)
    ELSE [Send(p, t.kind, t.path) EXCEPT !.retry = FALSE]

\* A browser applies the cookie of an answer before anyone sees the answer.
Applied(answer) == IF answer.sets THEN answer.cookie ELSE page.cookie

-------------------------------------------------------------------------------
(* The server.                                                             *)

Setting(answer, jar) == [answer EXCEPT !.sets = TRUE, !.cookie = jar]

Issued(s, u) ==
    LET token == Token(u, s.issued + 1)
    IN  [s EXCEPT !.issued = @ + 1, !.valid = @ \cup {token}, !.fresh = @ \cup {token}]

\* (Mutant.)  A rotated token goes on being accepted.
BlacklistedNot(s, token) == s

Blacklisted(s, token) == [s EXCEPT !.valid = @ \ {token}]

TokenObtainPairAuditView(c) ==
    LET token == Token(calls[c].bearer.user, server.issued + 1)
    IN  /\ server' = Issued(server, token.user)
        /\ calls' = [calls EXCEPT ![c].phase = "served",
                                  ![c].answer = Setting(Answer(TRUE, token), token)]
        /\ UNCHANGED history

\* Me, wallet and data need an access token that has not expired.
ServeData(c) ==
    /\ calls' = [calls EXCEPT ![c].phase = "served",
                   ![c].answer = IF calls[c].bearer \in server.fresh
                                 THEN Answer(TRUE, calls[c].bearer) ELSE Refused]
    /\ UNCHANGED <<server, history>>

\* (Mutant.)  The refresh token is not blacklisted, its cookie not cleared.
TokenRevokeViewKeeping(c) ==
    /\ calls' = [calls EXCEPT ![c].phase = "served", ![c].answer = Answer(TRUE, NoToken)]
    /\ revoked' = TRUE /\ kept' = FALSE
    /\ UNCHANGED server

\* Revoking blacklists the refresh token the request came with and clears the
\* cookie; it refuses a token rotated meanwhile (but clears the cookie), and with
\* an expired access token does neither.
TokenRevokeView(c) ==
    LET confirmed == calls[c].cookie \in server.valid \cup {NoToken}
    IN  IF calls[c].bearer \in server.fresh
        THEN /\ calls' = [calls EXCEPT ![c].phase = "served",
                            ![c].answer = Setting(Answer(confirmed, NoToken), NoToken)]
             /\ server' = Blacklisted(server, calls[c].cookie)
             /\ revoked' = (revoked \/ confirmed) /\ kept' = FALSE
        ELSE /\ calls' = [calls EXCEPT ![c].phase = "served", ![c].answer = Refused]
             /\ UNCHANGED <<server, history>>

Serve(c) ==
    /\ calls[c].phase = "sent"
    /\ CASE calls[c].path = "login"  -> TokenObtainPairAuditView(c)
         [] calls[c].path = "revoke" -> TokenRevokeView(c)
         [] OTHER                    -> ServeData(c)
    /\ UNCHANGED <<page, refreshPromise, spent>>

\* Rotation: a new pair for a refresh token that is not blacklisted yet.
TokenRefreshAuditView ==
    /\ refreshPromise.phase = "sent"
    /\ LET old   == refreshPromise.cookie
           token == Token(old.user, server.issued + 1)
       IN  IF old \in server.valid
           THEN /\ server' = Issued(Blacklisted(server, old), old.user)
                /\ refreshPromise' = [refreshPromise EXCEPT !.phase = "served",
                                        !.answer = Setting(Answer(TRUE, token), token)]
           ELSE /\ refreshPromise' = [refreshPromise EXCEPT !.phase = "served",
                       !.answer = IF old = NoToken THEN Setting(Refused, NoToken) ELSE Refused]
                /\ UNCHANGED server
    /\ UNCHANGED <<page, calls, spent, history>>

-------------------------------------------------------------------------------
(* Answers.                                                                *)

\* The promise is shared: who finds one under way awaits it.
StartRefresh(p) ==
    refreshPromise' = IF refreshPromise.phase # "none" THEN refreshPromise
                      ELSE Promise(p.cookie)

Refreshable(t) == t.retry /\ t.path \notin {"login", "revoke"}

Receive(c) ==
    /\ calls[c].phase = "served"
    /\ LET t == calls[c]
           p == [page EXCEPT !.cookie = Applied(t.answer)]
       IN  IF t.answer.ok
           THEN /\ page' = Accepted(p, t)
                /\ calls' = [calls EXCEPT ![c] = FollowUp(Accepted(p, t), t, TRUE)]
                /\ kept' = (kept \/ t.path = "login")
                /\ UNCHANGED <<refreshPromise, revoked>>
           ELSE IF Refreshable(t)
           THEN /\ page' = p
                /\ StartRefresh(p)
                /\ calls' = [calls EXCEPT ![c] = Awaiting(t.kind, t.path)]
                /\ UNCHANGED history
           ELSE /\ page' = Failed(p, t)
                /\ calls' = [calls EXCEPT ![c] = FollowUp(Failed(p, t), t, FALSE)]
                /\ UNCHANGED <<refreshPromise, history>>
    /\ UNCHANGED <<server, spent>>

Awaiters == {c \in Calls : calls[c].phase = "awaiting"}

\* (Mutant.)  A refresh that failed leaves the splash screen on.
AllFailedLoading(p) ==
    LET profile == \E c \in Awaiters : calls[c].path \in {"restore", "me"}
    IN  IF profile THEN clearSessionState(p) ELSE p

\* The effect on the page of every call that awaited a refresh that failed.
AllFailed(p) ==
    LET profile == \E c \in Awaiters : calls[c].path \in {"restore", "me"}
        loaded  == \E c \in Awaiters : calls[c].kind # "use"
    IN  [IF profile THEN clearSessionState(p) ELSE p EXCEPT !.loading = @ /\ ~ loaded]

RefreshFails(p) ==
    /\ page' = AllFailed(p)
    /\ calls' = [c \in Calls |-> IF c \in Awaiters THEN FollowUp(AllFailed(p), calls[c], FALSE)
                                 ELSE calls[c]]

notifyUnauthorized(p) == [clearSessionState(p) EXCEPT !.token = NoToken]

ReceiveRefresh ==
    /\ refreshPromise.phase = "served"
    /\ refreshPromise' = NoPromise
    /\ LET answer == refreshPromise.answer
           p == [page EXCEPT !.cookie = Applied(answer)]
           q == [p EXCEPT !.token = answer.token]
       IN  IF answer.ok
           THEN /\ page' = q
                /\ calls' = [c \in Calls |-> IF c \in Awaiters THEN Retried(q, calls[c])
                                             ELSE calls[c]]
           ELSE RefreshFails(notifyUnauthorized(p))
    /\ UNCHANGED <<server, spent, history>>

\* A request is lost on the way, served or not; a lost refresh tells nobody.
Fault(c) ==
    /\ Spend("fault") /\ calls[c].phase \in {"sent", "served"}
    /\ page' = Failed(page, calls[c])
    /\ calls' = [calls EXCEPT ![c] = FollowUp(Failed(page, calls[c]), calls[c], FALSE)]
    /\ kept' = FALSE
    /\ UNCHANGED <<refreshPromise, server, revoked>>

FaultOfRefresh ==
    /\ Spend("fault") /\ refreshPromise.phase # "none"
    /\ refreshPromise' = NoPromise
    /\ RefreshFails(page)
    /\ kept' = FALSE
    /\ UNCHANGED <<server, revoked>>

-------------------------------------------------------------------------------
(* The user, and time.                                                     *)

\* Login.tsx, shown while nobody is authenticated.  The request carries the
\* account (in the place of a bearer, which the view does not look at).
login(c, u) ==
    /\ ~ page.auth /\ ~ page.loading /\ Free(c)
    /\ \A d \in Calls : calls[d].kind # "login"
    /\ Hasty \/ Quiet
    /\ Spend("login")
    /\ calls' = [calls EXCEPT ![c] = [Send(page, "login", "login") EXCEPT
                                        !.bearer = Token(u, 0)]]
    /\ revoked' = FALSE
    /\ UNCHANGED <<page, refreshPromise, server, kept>>

\* The request of a page, or the refresh button.
use(c) ==
    /\ page.auth /\ Free(c) /\ Spend("use")
    /\ \E path \in {"wallet", "data"} : calls' = [calls EXCEPT ![c] = Send(page, "use", path)]
    /\ UNCHANGED <<page, refreshPromise, server, history>>

\* logout does not wait for the revocation before it clears the page.
logout(c) ==
    /\ page.auth /\ Free(c)
    /\ Hasty \/ \A d \in Calls : calls[d].path # "me"
    /\ page' = clearSessionState(page)
    /\ calls' = IF page.token = NoToken THEN calls
                ELSE [calls EXCEPT ![c] = Send(page, "logout", "revoke")]
    /\ kept' = FALSE
    /\ UNCHANGED <<refreshPromise, server, spent, revoked>>

\* A reload, with no request on its way.
Reload(c) ==
    /\ Quiet /\ Spend("reload")
    /\ page' = NewPage(page.cookie)
    /\ calls' = [calls EXCEPT ![c] = Awaiting("boot", "restore")]
    /\ refreshPromise' = Promise(page.cookie)
    /\ UNCHANGED <<server, history>>

\* An access token lives longer than a retry takes.
AccessExpires ==
    /\ Spend("expiry") /\ page.token \in server.fresh
    /\ \A c \in Calls : calls[c].phase = "sent" /\ ~ calls[c].retry => calls[c].bearer # page.token
    /\ server' = [server EXCEPT !.fresh = @ \ {page.token}]
    /\ UNCHANGED <<page, calls, refreshPromise, history>>

\* The refresh token expires, or is blacklisted elsewhere.
SessionExpires ==
    /\ Spend("expiry") /\ page.cookie \in server.valid
    /\ server' = Blacklisted(server, page.cookie)
    /\ kept' = FALSE
    /\ UNCHANGED <<page, calls, refreshPromise, revoked>>

-------------------------------------------------------------------------------
Init ==
    /\ page = NewPage(NoToken)
    /\ \E c \in Calls : calls = [d \in Calls |-> IF d = c THEN Awaiting("boot", "restore") ELSE Idle]
    /\ refreshPromise = Promise(NoToken)
    /\ server = [issued |-> 0, valid |-> {}, fresh |-> {}]
    /\ spent = [k \in Kinds |-> 0]
    /\ kept = FALSE /\ revoked = FALSE

Work(c) == Serve(c) \/ Receive(c)

Next ==
    \/ \E c \in Calls : \/ Work(c) \/ use(c) \/ logout(c) \/ Reload(c) \/ Fault(c)
                        \/ \E u \in Users : login(c, u)
    \/ TokenRefreshAuditView \/ ReceiveRefresh \/ FaultOfRefresh
    \/ AccessExpires \/ SessionExpires

Spec == Init /\ [][Next]_vars

\* The server answers and the tab runs its callbacks; the user need not act.
FairSpec ==
    /\ Spec /\ WF_vars(TokenRefreshAuditView) /\ WF_vars(ReceiveRefresh)
    /\ \A c \in Calls : WF_vars(Work(c))

-------------------------------------------------------------------------------
(* Properties.                                                             *)

Tokens == [user : Users, n : 1..server.issued]
Known  == Tokens \cup {NoToken}

Account == Users \cup {None}

Page == [cookie : Known, token : Known, auth : BOOLEAN, user : Account,
         wallet : Account, loading : BOOLEAN]

Response == [ok : BOOLEAN, token : Known, sets : BOOLEAN, cookie : Known]

Call == [kind : {"none", "boot", "login", "use", "logout"},
         path : {"none", "restore", "login", "me", "wallet", "data", "revoke"},
         bearer : Known \cup {Token(u, 0) : u \in Users}, cookie : Known,
         retry : BOOLEAN, phase : {"idle", "sent", "served", "awaiting"},
         answer : Response]

\* The types.  Every login leaves at most one refresh token that is accepted,
\* however often it is rotated, and what awaits a refresh has one to await.
TypeOK ==
    /\ page \in Page
    /\ calls \in [Calls -> Call]
    /\ refreshPromise \in [phase : {"none", "sent", "served"}, cookie : Known,
                           answer : Response]
    /\ server \in [issued : Nat, valid : SUBSET Tokens, fresh : SUBSET Tokens]
    /\ spent \in [Kinds -> Nat] /\ kept \in BOOLEAN /\ revoked \in BOOLEAN
    /\ Cardinality(server.valid) <= spent["login"]
    /\ Awaiters # {} => refreshPromise.phase # "none"

\* A session nobody has ended is never lost: once every answer has come, the tab
\* is signed in and can refresh.  Rotation would end it if two calls refreshed
\* with one cookie, or if a retry went out with the old token (refreshAccessToken,
\* request).
SessionIsKept ==
    kept /\ Quiet => page.auth /\ page.token # NoToken /\ page.cookie \in server.valid

\* A user whose sign-out the server has confirmed is not signed in again, by a
\* late answer, a refresh or a reload (TokenRevokeView, logout).
SignedOutStaysOut == revoked /\ Quiet => ~ page.auth

\* The profile and the balance on screen are those of the account whose token
\* is sent, once every answer has come, if none was lost and nobody signed in
\* before that: a wallet that answers after a sign-out stays in the provider until
\* the next one replaces it (refreshWallet).
ShownIsSignedIn ==
    ~ Hasty /\ spent["fault"] = 0 /\ Quiet /\ page.auth /\ page.token # NoToken =>
      page.user = page.token.user /\ page.wallet \in {None, page.user}

\* The splash screen goes away, whatever fails.
BootEnds == page.loading ~> ~ page.loading
===============================================================================
