---------------------------- MODULE EphemeralAuth ----------------------------
(***************************************************************************)
(* ephemeralauth: guest cookie, issuance of short-lived tokens after a bot *)
(* check, and the middleware that protects API routes.                     *)
(*                                                                         *)
(* The servers keep no session: everything they know comes with the        *)
(* request, signed with the key of their release.  What may go wrong is    *)
(* between them and the browsers: the tabs of a browser share a cookie     *)
(* jar and send requests at once, an answer takes its time or is lost, a   *)
(* browser moves to another address, tokens age, and a release replaces    *)
(* key, scopes or proxy trust while cookies and tokens of the last one are *)
(* out.                                                                    *)
(*                                                                         *)
(* A signature is the key it was made with: DeriveKey maps different       *)
(* signing keys to different keys, and a cookie or token verifies under    *)
(* its own key only.  Context hashes are the values they are made of.  A   *)
(* token has the seconds it has left in place of its expiry.               *)
(***************************************************************************)
EXTENDS Integers, Sequences, FiniteSets

CONSTANTS
    Servers,
    Browsers,
    Tabs,
    BrowserOf,   \* BrowserOf[t]: the browser of tab t
    Scripted,    \* tabs whose pages call the API; the others only load pages
    Places,      \* [ip, ua] pairs: addresses and user agents browsers have
    ProxyOf,     \* ProxyOf[b]: the proxy between b and the servers, or Direct
    Direct,      \* no proxy, and no X-Forwarded-For
    Releases,    \* the configurations, in the order they are deployed
    Sessions,    \* bound: guest ids in use at a time
    Unit,        \* bound: seconds that pass in a step of time
    NoCookie,
    NoToken

UserAgents == {p.ua : p \in Places}
Addresses  == {p.ip : p \in Places} \cup {ProxyOf[b] : b \in Browsers}
Keys       == {Releases[n].key : n \in DOMAIN Releases}
Scopes     == UNION {Releases[n].scopes : n \in DOMAIN Releases}

MaxTokenTTL     == 180
DefaultTokenTTL == 120

Cookie == [id : Sessions, key : Keys]
Token  == [sub : Sessions, key : Keys, ip : Addresses, ua : UserAgents,
           scopes : SUBSET Scopes, left : 0 .. MaxTokenTTL]

ASSUME AuthAssumption ==
    /\ BrowserOf \in [Tabs -> Browsers]
    /\ Scripted \subseteq Tabs
    /\ \A p \in Places : p = [ip |-> p.ip, ua |-> p.ua]
    /\ Direct \notin {p.ip : p \in Places}
    /\ \A n \in DOMAIN Releases : Releases[n].ttl \in Int
    /\ \A n \in DOMAIN Releases : Releases[n].trustProxy \in BOOLEAN
    /\ Releases \in Seq({Releases[n] : n \in DOMAIN Releases}) /\ Releases # <<>>
    /\ Sessions \subseteq Nat
    /\ Unit \in Nat \ {0}
    /\ NoCookie \notin Cookie
    /\ NoToken \notin Token

VARIABLES
    conf,    \* conf[s]: the release that server s runs
    place,   \* place[b]: address and user agent of browser b
    jar,     \* jar[b]: its guest_session cookie
    tok,     \* tok[t]: the token that the script of tab t holds
    doing,   \* doing[t]: the request that t sends next, or has sent
    pc,      \* pc[t]: where that request is
    req,     \* req[t]: what it carries
    by,      \* by[t]: the release whose IssuanceHandler has it
    resp,    \* resp[t]: the answer on its way back
    recent   \* seconds left of MaxTokenTTL since a bot check passed, for
             \* <<session, address, user agent>>

vars == <<conf, place, jar, tok, doing, pc, req, by, resp, recent>>

NoRequest  == [cookie |-> NoCookie, token |-> NoToken, peer |-> Direct, fwd |-> Direct, ua |-> Direct]
NoResponse == [status |-> "none", cookie |-> NoCookie, token |-> NoToken]
Contexts   == Sessions \X Addresses \X UserAgents

Init ==
    /\ conf   = [s \in Servers |-> 1]
    /\ place \in [Browsers -> Places]
    /\ jar    = [b \in Browsers |-> NoCookie]
    /\ tok    = [t \in Tabs |-> NoToken]
    /\ doing  = [t \in Tabs |-> "page"]
    /\ pc     = [t \in Tabs |-> "idle"]
    /\ req    = [t \in Tabs |-> NoRequest]
    /\ by     = [t \in Tabs |-> 0]
    /\ resp   = [t \in Tabs |-> NoResponse]
    /\ recent = [x \in Contexts |-> 0]

(***************************************************************************)
(* What the handlers compute.                                              *)
(***************************************************************************)
\* Mutant: no upper bound.
clampTTLBelow(ttl) ==
    IF ttl <= 0 THEN DefaultTokenTTL ELSE IF ttl < 60 THEN 60 ELSE ttl

\* clampTTL, in seconds.
clampTTL(ttl) ==
    IF ttl <= 0 THEN DefaultTokenTTL
    ELSE IF ttl < 60 THEN 60
    ELSE IF ttl > MaxTokenTTL THEN MaxTokenTTL ELSE ttl

\* verifyGuestCookie under the key of release n.
verifyGuestCookie(n, c) == c # NoCookie /\ c.key = Releases[n].key

\* The first entry of X-Forwarded-For if there is one and it is trusted.
clientIP(n, r) == IF Releases[n].trustProxy /\ r.fwd # Direct THEN r.fwd ELSE r.peer

\* What a bot check and a token are bound to.
Context(n, r) == <<r.cookie.id, clientIP(n, r), r.ua>>

\* Issuer.Issue, with the hashes that IssuanceHandler computes.
Issue(n, r) ==
    [sub |-> r.cookie.id, key |-> Releases[n].key, ip |-> clientIP(n, r), ua |-> r.ua,
     scopes |-> Releases[n].scopes, left |-> clampTTL(Releases[n].ttl)]

\* Mutant: expiry is not checked.
VerifyForever(n, r) == r.token # NoToken /\ r.token.key = Releases[n].key

\* A Bearer token that Issuer.Verify accepts: signature and expiry.
Verify(n, r) == r.token # NoToken /\ r.token.key = Releases[n].key /\ r.token.left > 0

\* Mutant: any guest of this server may use the token.
BoundToAnyGuest(n, r) ==
    /\ verifyGuestCookie(n, r.cookie)
    /\ clientIP(n, r) = r.token.ip
    /\ r.ua = r.token.ua

\* Session, address and user agent of the request are those of its token.
Bound(n, r) ==
    /\ verifyGuestCookie(n, r.cookie)
    /\ r.cookie.id = r.token.sub
    /\ clientIP(n, r) = r.token.ip
    /\ r.ua = r.token.ua

hasRequiredScopes(n, r) == Releases[n].required \subseteq r.token.scopes

\* Mutant: it fails open.
BotVerdictOpen(outcome) == [passed |-> outcome # "refused", err |-> FALSE]

\* What TurnstileVerifier.Verify makes of siteverify's answer: it fails closed.
BotVerdict(outcome) == [passed |-> outcome = "success", err |-> outcome = "unreadable"]

(***************************************************************************)
(* Requests.                                                               *)
(***************************************************************************)
Goto(t, l) == pc' = [pc EXCEPT ![t] = l]

Answer(t, status, cookie, token) ==
    /\ Goto(t, "answered")
    /\ resp' = [resp EXCEPT ![t] = [status |-> status, cookie |-> cookie, token |-> token]]
    /\ req'  = [req EXCEPT ![t] = NoRequest]
    /\ by'   = [by EXCEPT ![t] = 0]

\* The browser sends cookie, address and user agent as they are now; loading a page
\* drops what its script held.
Send(t) ==
    LET b == BrowserOf[t]
        proxied == ProxyOf[b] # Direct
    IN  /\ pc[t] = "idle"
        /\ Goto(t, "sent")
        /\ req' = [req EXCEPT ![t] =
                    [cookie |-> jar[b],
                     token  |-> IF doing[t] = "call" THEN tok[t] ELSE NoToken,
                     peer   |-> IF proxied THEN ProxyOf[b] ELSE place[b].ip,
                     fwd    |-> IF proxied THEN place[b].ip ELSE Direct,
                     ua     |-> place[b].ua]]
        /\ tok' = [tok EXCEPT ![t] = IF doing[t] = "page" THEN NoToken ELSE @]
        /\ UNCHANGED <<conf, place, jar, doing, by, resp, recent>>

\* Guest ids that somebody still has; generateGuestID gives another one.
Known ==
    LET cookies == {jar[b] : b \in Browsers} \cup {req[t].cookie : t \in Tabs}
                        \cup {resp[t].cookie : t \in Tabs}
        tokens  == {tok[t] : t \in Tabs} \cup {req[t].token : t \in Tabs}
                        \cup {resp[t].token : t \in Tabs}
    IN  {c.id : c \in cookies \ {NoCookie}}
          \cup {k.sub : k \in {j \in tokens \ {NoToken} : j.left > 0}}
          \cup {x[1] : x \in {y \in Contexts : recent[y] > 0}}

\* Mutant: the cookie of the request is ignored.
GuestSessionAnew(t, s) ==
    /\ pc[t] = "sent" /\ doing[t] = "page"
    /\ \E id \in Sessions \ Known :
          Answer(t, "ok", [id |-> id, key |-> Releases[conf[s]].key], NoToken)
    /\ UNCHANGED <<conf, place, jar, tok, doing, recent>>

\* GuestSession, and the page behind it: a request without a valid cookie gets a new one
\* with its answer, and 500 when there is no randomness.  Which id is new does not
\* matter; the least is taken.
GuestSession(t, s) ==
    LET valid == verifyGuestCookie(conf[s], req[t].cookie)
        new(id) == [id |-> id, key |-> Releases[conf[s]].key]
    IN  /\ pc[t] = "sent" /\ doing[t] = "page"
        /\ \/ valid /\ Answer(t, "ok", NoCookie, NoToken)
           \/ /\ ~valid
              /\ \E id \in Sessions \ Known :
                    /\ \A i \in Sessions \ Known : id <= i
                    /\ Answer(t, "ok", new(id), NoToken)
           \/ ~valid /\ Answer(t, "failed", NoCookie, NoToken)
        /\ UNCHANGED <<conf, place, jar, tok, doing, recent>>

\* IssuanceHandler until it calls the verifier; a bad method, size, body or an empty
\* bot_token is refused after the cookie.
IssuanceHandler(t, s) ==
    LET valid == verifyGuestCookie(conf[s], req[t].cookie)
    IN  /\ pc[t] = "sent" /\ doing[t] = "issue"
        /\ \/ ~valid /\ Answer(t, "unauthorized", NoCookie, NoToken)
           \/ valid /\ Answer(t, "failed", NoCookie, NoToken)
           \/ /\ valid
              /\ Goto(t, "verifying")
              /\ by' = [by EXCEPT ![t] = conf[s]]
              /\ UNCHANGED <<req, resp>>
        /\ UNCHANGED <<conf, place, jar, tok, doing, recent>>

\* The verifier has answered: the rest of IssuanceHandler, with the release it began
\* with and the cookie, address and user agent of its request.
Judge(t) ==
    /\ pc[t] = "verifying"
    /\ \E outcome \in {"success", "refused", "unreadable"} :
         LET v == BotVerdict(outcome)
         IN  /\ \/ v.passed /\ ~v.err /\ Answer(t, "ok", NoCookie, Issue(by[t], req[t]))
                \/ (~v.passed \/ v.err) /\ Answer(t, "forbidden", NoCookie, NoToken)
             /\ recent' = IF outcome = "success"
                          THEN [recent EXCEPT ![Context(by[t], req[t])] = MaxTokenTTL]
                          ELSE recent
    /\ UNCHANGED <<conf, place, jar, tok, doing>>

\* Protect in front of an API route.
Protect(t, s) ==
    LET n == conf[s]
        r == req[t]
        pass == Bound(n, r) /\ hasRequiredScopes(n, r)
    IN  /\ pc[t] = "sent" /\ doing[t] = "call"
        /\ \/ ~Verify(n, r) /\ Answer(t, "unauthorized", NoCookie, NoToken)
           \/ Verify(n, r) /\ ~pass /\ Answer(t, "forbidden", NoCookie, NoToken)
           \/ Verify(n, r) /\ pass /\ Answer(t, "ok", NoCookie, NoToken)
        /\ UNCHANGED <<conf, place, jar, tok, doing, recent>>

\* What the script requests after an answer: a token is renewed on 401 only, and a
\* page is loaded for a new cookie.
Follow(t, kind, status) ==
    CASE kind = "page"  /\ status = "ok" /\ t \in Scripted -> {"issue", "call"}
      [] kind = "issue" /\ status = "ok"                    -> {"call"}
      [] kind = "issue" /\ status = "unauthorized"          -> {"page"}
      [] kind = "call"  /\ status = "unauthorized"          -> {"issue"}
      [] OTHER                                              -> {kind}

\* The browser stores the cookie of the answer, the script its token.
Receive(t) ==
    LET a == resp[t]
    IN  /\ pc[t] = "answered"
        /\ Goto(t, "idle")
        /\ resp' = [resp EXCEPT ![t] = NoResponse]
        /\ jar'  = [jar EXCEPT ![BrowserOf[t]] = IF a.cookie = NoCookie THEN @ ELSE a.cookie]
        /\ tok'  = [tok EXCEPT ![t] = IF doing[t] = "call" /\ a.status = "unauthorized" THEN NoToken
                                      ELSE IF a.token = NoToken THEN @ ELSE a.token]
        /\ \E k \in Follow(t, doing[t], a.status) : doing' = [doing EXCEPT ![t] = k]
        /\ UNCHANGED <<conf, place, req, by, recent>>

(***************************************************************************)
(* What else happens.                                                      *)
(***************************************************************************)
\* Request or answer is lost: the connection broke, the client gave up or the server
\* died.
Lose(t) ==
    /\ pc[t] # "idle"
    /\ Goto(t, "idle")
    /\ req'  = [req EXCEPT ![t] = NoRequest]
    /\ by'   = [by EXCEPT ![t] = 0]
    /\ resp' = [resp EXCEPT ![t] = NoResponse]
    /\ UNCHANGED <<conf, place, jar, tok, doing, recent>>

\* The user reloads the page of an idle tab.
Reload(t) ==
    /\ pc[t] = "idle" /\ doing[t] # "page"
    /\ doing' = [doing EXCEPT ![t] = "page"]
    /\ UNCHANGED <<conf, place, jar, tok, pc, req, by, resp, recent>>

\* Another network or another user agent.
Move(b) ==
    /\ \E p \in Places \ {place[b]} : place' = [place EXCEPT ![b] = p]
    /\ UNCHANGED <<conf, jar, tok, doing, pc, req, by, resp, recent>>

\* The browser is closed and opened again; the cookie has no lifetime of its own.
Close(b) ==
    /\ jar[b] # NoCookie
    /\ \A t \in Tabs : BrowserOf[t] = b => pc[t] = "idle"
    /\ jar'   = [jar EXCEPT ![b] = NoCookie]
    /\ tok'   = [t \in Tabs |-> IF BrowserOf[t] = b THEN NoToken ELSE tok[t]]
    /\ doing' = [t \in Tabs |-> IF BrowserOf[t] = b THEN "page" ELSE doing[t]]
    /\ UNCHANGED <<conf, place, pc, req, by, resp, recent>>

\* A server starts the next release, with its key, lifetime and scopes.
Deploy(s) ==
    /\ conf[s] < Len(Releases)
    /\ conf' = [conf EXCEPT ![s] = @ + 1]
    /\ UNCHANGED <<place, jar, tok, doing, pc, req, by, resp, recent>>

Less(x) == IF x > Unit THEN x - Unit ELSE 0
Older(k) == IF k = NoToken THEN k ELSE [k EXCEPT !.left = Less(@)]

\* Unit seconds pass.
Tick ==
    /\ \E x \in Contexts : recent[x] > 0
    /\ tok'    = [t \in Tabs |-> Older(tok[t])]
    /\ req'    = [t \in Tabs |-> [req[t] EXCEPT !.token = Older(@)]]
    /\ resp'   = [t \in Tabs |-> [resp[t] EXCEPT !.token = Older(@)]]
    /\ recent' = [x \in Contexts |-> Less(recent[x])]
    /\ UNCHANGED <<conf, place, jar, doing, pc, by>>

Handle(t, s) == GuestSession(t, s) \/ IssuanceHandler(t, s) \/ Protect(t, s)

Next ==
    \/ \E t \in Tabs : \E s \in Servers : Handle(t, s)
    \/ \E t \in Tabs : Send(t) \/ Judge(t) \/ Receive(t) \/ Lose(t) \/ Reload(t)
    \/ \E b \in Browsers : Move(b) \/ Close(b)
    \/ \E s \in Servers : Deploy(s)
    \/ Tick

Spec == Init /\ [][Next]_vars

\* Time passes, scripts go on, and a request that is sent again and again is answered
\* some time; nothing is assumed of users, verifier and deployments.
FairSpec ==
    /\ Spec
    /\ WF_vars(Tick)
    /\ \A t \in Tabs : WF_vars(Send(t)) /\ SF_vars(Receive(t))
    /\ \A t \in Tabs : SF_vars(\E s \in Servers : Protect(t, s))

(***************************************************************************)
(* Properties.                                                             *)
(***************************************************************************)
TokenOrNone  == Token \cup {NoToken}
CookieOrNone == Cookie \cup {NoCookie}
Request      == [cookie : CookieOrNone, token : TokenOrNone, peer : Addresses,
                 fwd : Addresses \cup {Direct}, ua : UserAgents]
Statuses     == {"none", "ok", "unauthorized", "forbidden", "failed"}

\* Type invariant.
TypeOK ==
    /\ conf \in [Servers -> DOMAIN Releases]
    /\ place \in [Browsers -> Places]
    /\ jar \in [Browsers -> CookieOrNone]
    /\ tok \in [Tabs -> TokenOrNone]
    /\ doing \in [Tabs -> {"page", "issue", "call"}]
    /\ pc \in [Tabs -> {"idle", "sent", "verifying", "answered"}]
    /\ req \in [Tabs -> Request \cup {NoRequest}]
    /\ by \in [Tabs -> DOMAIN Releases \cup {0}]
    /\ resp \in [Tabs -> [status : Statuses, cookie : CookieOrNone, token : TokenOrNone]]
    /\ recent \in [Contexts -> 0 .. MaxTokenTTL]

Tokens == {tok[t] : t \in Tabs} \cup {req[t].token : t \in Tabs} \cup {resp[t].token : t \in Tabs}

\* No token outlives, by configuration, delay or release, the 180 seconds after a bot
\* check that passed for its own session, address and user agent.
TokensVerified ==
    \A k \in Tokens \ {NoToken} : k.left > 0 => recent[<<k.sub, k.ip, k.ua>>] >= k.left

\* A protected route is reached only by a guest whose bot check passed in the last 180
\* seconds, in the same session and from the same address and user agent, whatever
\* token, cookie or address its browser had or got in between.
AdmittedVerified ==
    [][\A t \in Tabs :
         pc[t] = "sent" /\ doing[t] = "call" /\ resp'[t].status = "ok" =>
           \E s \in Servers :
              recent[Context(conf[s], req[t])] > 0]_vars

\* Every server accepts b's cookie, and no other one is on its way to b.
Settled(b) ==
    /\ jar[b] # NoCookie
    /\ \A s \in Servers : verifyGuestCookie(conf[s], jar[b])
    /\ \A t \in Tabs : BrowserOf[t] = b =>
          /\ pc[t] = "sent" /\ doing[t] = "page" => req[t].cookie = jar[b]
          /\ pc[t] = "answered" => resp[t].cookie = NoCookie

\* A browser whose first page requests are through keeps its session, whatever its tabs
\* request and however answers cross, until it is closed or a release changes the key: no
\* handler replaces a cookie that is good.
SessionKept ==
    [][\A b \in Browsers : Settled(b) /\ UNCHANGED conf =>
          jar'[b] = NoCookie \/ (jar'[b] = jar[b] /\ Settled(b)')]_vars

\* A call of t with its token would pass on some server as things are now.
Usable(t) ==
    \E s \in Servers :
      LET b == BrowserOf[t]
          r == [cookie |-> jar[b], token |-> tok[t], ua |-> place[b].ua,
                peer |-> IF ProxyOf[b] # Direct THEN ProxyOf[b] ELSE place[b].ip,
                fwd  |-> IF ProxyOf[b] # Direct THEN place[b].ip ELSE Direct]
      IN  Verify(conf[s], r) /\ Bound(conf[s], r) /\ hasRequiredScopes(conf[s], r)

\* A guest whose token does not bind any more, because its cookie, address or user agent
\* changed or a release asks for more scopes, does not keep it for good, although 403
\* never makes its script renew it.
TokenGivenUp == \A t \in Tabs : []<>(tok[t] = NoToken \/ Usable(t))
=============================================================================
