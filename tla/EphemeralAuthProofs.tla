------------------------- MODULE EphemeralAuthProofs -------------------------
(***************************************************************************)
(* Proofs about EphemeralAuth, for any number of servers, browsers, tabs,  *)
(* places and releases.                                                    *)
(*                                                                         *)
(* TokensVerified is inductive with what a request in flight carries:      *)
(* IssuanceHandler has a request with a cookie and a release until it      *)
(* answers, and a tab that is not answered has no answer (InFlight).       *)
(***************************************************************************)
EXTENDS EphemeralAuth, TLAPS

InFlight ==
    \A t \in Tabs :
      /\ pc[t] \in {"sent", "verifying"} => req[t] \in Request
      /\ pc[t] = "verifying" => by[t] \in DOMAIN Releases /\ req[t].cookie # NoCookie
      /\ pc[t] # "answered" => resp[t] = NoResponse

IInv == TypeOK /\ InFlight /\ TokensVerified

(***************************************************************************)
(* What the handlers compute.                                              *)
(***************************************************************************)
\* clampTTL gives a lifetime from 60 to 180 seconds whatever the configuration says.
LEMMA ClampBounds ==
    ASSUME NEW ttl \in Int
    PROVE  clampTTL(ttl) \in 60 .. MaxTokenTTL
BY DEF clampTTL, MaxTokenTTL, DefaultTokenTTL

\* The address that a server takes a request to come from is an address.
LEMMA AddressOfRequest ==
    ASSUME NEW n \in DOMAIN Releases, NEW r \in Request
    PROVE  clientIP(n, r) \in Addresses
BY DEF clientIP, Request

\* A bot check of a request with a cookie is kept by session, address and user agent.
LEMMA ContextOfRequest ==
    ASSUME NEW n \in DOMAIN Releases, NEW r \in Request, r.cookie # NoCookie
    PROVE  Context(n, r) \in Contexts
<1>1. r.cookie.id \in Sessions
    BY DEF Request, CookieOrNone, Cookie
<1>2. r.ua \in UserAgents
    BY DEF Request
<1>. QED
    BY <1>1, <1>2, AddressOfRequest DEF Context, Contexts

\* Issue makes a token, for the context of its request and with at most 180 seconds.
LEMMA IssuedToken ==
    ASSUME NEW n \in DOMAIN Releases, NEW r \in Request, r.cookie # NoCookie
    PROVE  /\ Issue(n, r) \in Token
           /\ <<Issue(n, r).sub, Issue(n, r).ip, Issue(n, r).ua>> = Context(n, r)
<1>1. r.cookie.id \in Sessions /\ r.ua \in UserAgents
    BY DEF Request, CookieOrNone, Cookie
<1>2. clientIP(n, r) \in Addresses
    BY AddressOfRequest
<1>3. Releases[n].key \in Keys /\ Releases[n].scopes \in SUBSET Scopes
    BY DEF Keys, Scopes
<1>4. clampTTL(Releases[n].ttl) \in 0 .. MaxTokenTTL
    <2>1. Releases[n].ttl \in Int
        BY AuthAssumption
    <2>2. clampTTL(Releases[n].ttl) \in 60 .. MaxTokenTTL
        BY <2>1, ClampBounds
    <2>. QED
        BY <2>2 DEF MaxTokenTTL
<1>. QED
    BY <1>1, <1>2, <1>3, <1>4 DEF Issue, Token, Context

\* Time leaves a number of seconds from 0 to 180, and keeps the order of two of them.
LEMMA LessBounds ==
    ASSUME NEW x \in 0 .. MaxTokenTTL
    PROVE  /\ Less(x) \in 0 .. MaxTokenTTL
           /\ \A y \in 0 .. MaxTokenTTL : x >= y => Less(x) >= Less(y)
           /\ Less(x) > 0 => x > 0
<1>1. Unit \in Nat \ {0}
    BY AuthAssumption
<1>. QED
    BY <1>1 DEF Less, MaxTokenTTL

\* An older token is the same one with less time.
LEMMA OlderToken ==
    ASSUME NEW k \in TokenOrNone
    PROVE  /\ Older(k) \in TokenOrNone
           /\ Older(k) = NoToken <=> k = NoToken
           /\ k # NoToken => /\ Older(k).left = Less(k.left)
                             /\ <<Older(k).sub, Older(k).ip, Older(k).ua>> = <<k.sub, k.ip, k.ua>>
<1>1. CASE k = NoToken
    BY <1>1 DEF Older, TokenOrNone
<1>2. CASE k # NoToken
    <2>1. k \in Token
        BY <1>2 DEF TokenOrNone
    <2>2. Less(k.left) \in 0 .. MaxTokenTTL
        BY <2>1, LessBounds DEF Token
    <2>3. Older(k) = [k EXCEPT !.left = Less(k.left)]
        BY <1>2 DEF Older
    <2>4. Older(k) \in Token
        BY <2>1, <2>2, <2>3 DEF Token
    <2>5. Older(k) # NoToken
        BY <2>4, AuthAssumption
    <2>. QED
        BY <1>2, <2>1, <2>3, <2>4, <2>5 DEF Token, TokenOrNone
<1>. QED
    BY <1>1, <1>2

(***************************************************************************)
(* Type correctness.                                                       *)
(***************************************************************************)
\* An answer of the right type keeps the tab's part of the state typed.
LEMMA AnswerTypes ==
    ASSUME TypeOK, NEW t \in Tabs, NEW st \in Statuses, NEW c \in CookieOrNone,
           NEW k \in TokenOrNone, Answer(t, st, c, k)
    PROVE  /\ pc' \in [Tabs -> {"idle", "sent", "verifying", "answered"}]
           /\ req' \in [Tabs -> Request \cup {NoRequest}]
           /\ by' \in [Tabs -> DOMAIN Releases \cup {0}]
           /\ resp' \in [Tabs -> [status : Statuses, cookie : CookieOrNone, token : TokenOrNone]]
<1>1. [status |-> st, cookie |-> c, token |-> k]
         \in [status : Statuses, cookie : CookieOrNone, token : TokenOrNone]
    OBVIOUS
<1>. QED
    BY <1>1 DEF TypeOK, Answer, Goto

\* The same of an answer without cookie and token.
LEMMA PlainAnswerTypes ==
    ASSUME TypeOK, NEW t \in Tabs, NEW st \in Statuses, Answer(t, st, NoCookie, NoToken)
    PROVE  /\ pc' \in [Tabs -> {"idle", "sent", "verifying", "answered"}]
           /\ req' \in [Tabs -> Request \cup {NoRequest}]
           /\ by' \in [Tabs -> DOMAIN Releases \cup {0}]
           /\ resp' \in [Tabs -> [status : Statuses, cookie : CookieOrNone, token : TokenOrNone]]
<1>1. NoCookie \in CookieOrNone /\ NoToken \in TokenOrNone
    BY DEF CookieOrNone, TokenOrNone
<1>. QED
    BY <1>1, AnswerTypes

\* What Send puts into flight is a request.
LEMMA SentRequest ==
    ASSUME TypeOK, NEW t \in Tabs, Send(t)
    PROVE  /\ req'[t] \in Request
           /\ req'[t].cookie = jar[BrowserOf[t]]
           /\ req'[t].token \in {tok[t], NoToken}
           /\ \A u \in Tabs \ {t} : req'[u] = req[u]
<1>. DEFINE b == BrowserOf[t]
            r == [cookie |-> jar[b],
                  token  |-> IF doing[t] = "call" THEN tok[t] ELSE NoToken,
                  peer   |-> IF ProxyOf[b] # Direct THEN ProxyOf[b] ELSE place[b].ip,
                  fwd    |-> IF ProxyOf[b] # Direct THEN place[b].ip ELSE Direct,
                  ua     |-> place[b].ua]
<1>1. b \in Browsers
    BY AuthAssumption
<1>2. place[b] \in Places
    BY <1>1 DEF TypeOK
<1>3. place[b].ip \in Addresses /\ ProxyOf[b] \in Addresses /\ place[b].ua \in UserAgents
    BY <1>1, <1>2 DEF Addresses, UserAgents
<1>4. jar[b] \in CookieOrNone /\ r.token \in TokenOrNone /\ r.token \in {tok[t], NoToken}
    BY <1>1 DEF TypeOK, TokenOrNone
<1>5. r \in Request
    BY <1>3, <1>4 DEF Request
<1>6. req' = [req EXCEPT ![t] = r]
    BY DEF Send
<1>7. req'[t] = r /\ \A u \in Tabs \ {t} : req'[u] = req[u]
    BY <1>6 DEF TypeOK
<1>. QED
    BY <1>4, <1>5, <1>7

\* A request that grows older stays a request with the same cookie, context and sender.
LEMMA OlderRequest ==
    ASSUME NEW r \in Request \cup {NoRequest}
    PROVE  /\ [r EXCEPT !.token = Older(@)] \in Request \cup {NoRequest}
           /\ r \in Request => [r EXCEPT !.token = Older(@)] \in Request
           /\ [r EXCEPT !.token = Older(@)].cookie = r.cookie
           /\ [r EXCEPT !.token = Older(@)].token = Older(r.token)
<1>1. CASE r \in Request
    <2>1. r.token \in TokenOrNone
        BY <1>1 DEF Request
    <2>2. Older(r.token) \in TokenOrNone
        BY <2>1, OlderToken
    <2>. QED
        BY <1>1, <2>2 DEF Request
<1>2. CASE r = NoRequest
    <2>1. Older(NoToken) = NoToken
        BY DEF Older
    <2>. QED
        BY <1>2, <2>1 DEF NoRequest
<1>. QED
    BY <1>1, <1>2

\* The same of an answer.
LEMMA OlderResponse ==
    ASSUME NEW a \in [status : Statuses, cookie : CookieOrNone, token : TokenOrNone]
    PROVE  /\ [a EXCEPT !.token = Older(@)]
                 \in [status : Statuses, cookie : CookieOrNone, token : TokenOrNone]
           /\ [a EXCEPT !.token = Older(@)].status = a.status
           /\ [a EXCEPT !.token = Older(@)].cookie = a.cookie
           /\ [a EXCEPT !.token = Older(@)].token = Older(a.token)
           /\ a = NoResponse => [a EXCEPT !.token = Older(@)] = NoResponse
<1>1. Older(a.token) \in TokenOrNone
    BY OlderToken
<1>2. Older(NoToken) = NoToken
    BY DEF Older
<1>. QED
    BY <1>1, <1>2 DEF NoResponse

\* The initial states are typed.
LEMMA InitTypes == Init => TypeOK
<1>. SUFFICES ASSUME Init PROVE TypeOK
    OBVIOUS
<1>1. 1 \in DOMAIN Releases
    <2>1. Releases \in Seq({Releases[n] : n \in DOMAIN Releases}) /\ Releases # <<>>
        BY AuthAssumption
    <2>. QED
        BY <2>1
<1>2. NoResponse \in [status : Statuses, cookie : CookieOrNone, token : TokenOrNone]
    BY DEF NoResponse, Statuses, CookieOrNone, TokenOrNone
<1>. QED
    BY <1>1, <1>2 DEF Init, TypeOK, CookieOrNone, TokenOrNone, MaxTokenTTL

\* Statuses, for the answers below.
LEMMA StatusTypes == {"ok", "failed", "unauthorized", "forbidden"} \subseteq Statuses
BY DEF Statuses

\* No step leaves the types.
LEMMA NextTypes == TypeOK /\ InFlight /\ [Next]_vars => TypeOK'
<1>. SUFFICES ASSUME TypeOK, InFlight, [Next]_vars PROVE TypeOK'
    OBVIOUS
<1>. USE StatusTypes
<1>1. ASSUME NEW t \in Tabs, NEW s \in Servers, GuestSession(t, s) PROVE TypeOK'
    <2>. DEFINE A == /\ pc' \in [Tabs -> {"idle", "sent", "verifying", "answered"}]
                     /\ req' \in [Tabs -> Request \cup {NoRequest}]
                     /\ by' \in [Tabs -> DOMAIN Releases \cup {0}]
                     /\ resp' \in [Tabs -> [status : Statuses, cookie : CookieOrNone,
                                            token : TokenOrNone]]
    <2>1. A
        <3>1. CASE Answer(t, "ok", NoCookie, NoToken) \/ Answer(t, "failed", NoCookie, NoToken)
            BY <3>1, PlainAnswerTypes
        <3>2. CASE \E id \in Sessions :
                      Answer(t, "ok", [id |-> id, key |-> Releases[conf[s]].key], NoToken)
            <4>1. PICK id \in Sessions :
                      Answer(t, "ok", [id |-> id, key |-> Releases[conf[s]].key], NoToken)
                BY <3>2
            <4>2. Releases[conf[s]].key \in Keys
                BY DEF TypeOK, Keys
            <4>3. [id |-> id, key |-> Releases[conf[s]].key] \in CookieOrNone
                BY <4>2 DEF Cookie, CookieOrNone
            <4>4. NoToken \in TokenOrNone
                BY DEF TokenOrNone
            <4>. QED
                BY <4>1, <4>3, <4>4, AnswerTypes
        <3>. QED
            BY <1>1, <3>1, <3>2 DEF GuestSession
    <2>. QED
        BY <1>1, <2>1 DEF GuestSession, TypeOK
<1>2. ASSUME NEW t \in Tabs, NEW s \in Servers, IssuanceHandler(t, s) PROVE TypeOK'
    <2>1. CASE \/ Answer(t, "unauthorized", NoCookie, NoToken)
               \/ Answer(t, "failed", NoCookie, NoToken)
        BY <1>2, <2>1, PlainAnswerTypes DEF IssuanceHandler, TypeOK
    <2>2. CASE Goto(t, "verifying") /\ by' = [by EXCEPT ![t] = conf[s]] /\ UNCHANGED <<req, resp>>
        BY <1>2, <2>2 DEF IssuanceHandler, TypeOK, Goto
    <2>. QED
        BY <1>2, <2>1, <2>2 DEF IssuanceHandler
<1>3. ASSUME NEW t \in Tabs, NEW s \in Servers, Protect(t, s) PROVE TypeOK'
    <2>1. \/ Answer(t, "unauthorized", NoCookie, NoToken)
          \/ Answer(t, "forbidden", NoCookie, NoToken)
          \/ Answer(t, "ok", NoCookie, NoToken)
        BY <1>3 DEF Protect
    <2>2. /\ pc' \in [Tabs -> {"idle", "sent", "verifying", "answered"}]
          /\ req' \in [Tabs -> Request \cup {NoRequest}]
          /\ by' \in [Tabs -> DOMAIN Releases \cup {0}]
          /\ resp' \in [Tabs -> [status : Statuses, cookie : CookieOrNone, token : TokenOrNone]]
        BY <2>1, PlainAnswerTypes
    <2>. QED
        BY <1>3, <2>2 DEF Protect, TypeOK
<1>4. ASSUME NEW t \in Tabs, Judge(t) PROVE TypeOK'
    <2>. DEFINE n == by[t]
                r == req[t]
    <2>1. n \in DOMAIN Releases /\ r \in Request /\ r.cookie # NoCookie
        BY <1>4 DEF Judge, InFlight
    <2>2. Issue(n, r) \in TokenOrNone /\ NoCookie \in CookieOrNone
        BY <2>1, IssuedToken DEF TokenOrNone, CookieOrNone
    <2>3. \/ Answer(t, "ok", NoCookie, Issue(n, r))
          \/ Answer(t, "forbidden", NoCookie, NoToken)
        BY <1>4 DEF Judge
    <2>4. /\ pc' \in [Tabs -> {"idle", "sent", "verifying", "answered"}]
          /\ req' \in [Tabs -> Request \cup {NoRequest}]
          /\ by' \in [Tabs -> DOMAIN Releases \cup {0}]
          /\ resp' \in [Tabs -> [status : Statuses, cookie : CookieOrNone, token : TokenOrNone]]
        BY <2>2, <2>3, AnswerTypes, PlainAnswerTypes
    <2>5. recent' \in [Contexts -> 0 .. MaxTokenTTL]
        <3>1. recent' = recent \/ recent' = [recent EXCEPT ![Context(n, r)] = MaxTokenTTL]
            BY <1>4 DEF Judge
        <3>. QED
            BY <3>1 DEF TypeOK, MaxTokenTTL
    <2>. QED
        BY <1>4, <2>4, <2>5 DEF Judge, TypeOK
<1>5. ASSUME NEW t \in Tabs, Send(t) PROVE TypeOK'
    <2>1. req' \in [Tabs -> Request \cup {NoRequest}]
        <3>1. req'[t] \in Request /\ \A u \in Tabs \ {t} : req'[u] = req[u]
            BY <1>5, SentRequest
        <3>2. req' = [u \in Tabs |-> req'[u]]
            BY <1>5 DEF Send, TypeOK
        <3>. QED
            BY <3>1, <3>2 DEF TypeOK
    <2>2. tok' \in [Tabs -> TokenOrNone]
        BY <1>5 DEF Send, TypeOK, TokenOrNone
    <2>. QED
        BY <1>5, <2>1, <2>2 DEF Send, TypeOK, Goto
<1>6. ASSUME NEW t \in Tabs, Receive(t) PROVE TypeOK'
    <2>1. jar' \in [Browsers -> CookieOrNone]
        BY <1>6 DEF Receive, TypeOK
    <2>2. tok' \in [Tabs -> TokenOrNone]
        BY <1>6 DEF Receive, TypeOK, TokenOrNone
    <2>3. doing' \in [Tabs -> {"page", "issue", "call"}]
        <3>1. \A st : Follow(t, doing[t], st) \subseteq {"page", "issue", "call"}
            BY DEF Follow, TypeOK
        <3>. QED
            BY <1>6, <3>1 DEF Receive, TypeOK
    <2>4. NoResponse \in [status : Statuses, cookie : CookieOrNone, token : TokenOrNone]
        BY DEF NoResponse, Statuses, CookieOrNone, TokenOrNone
    <2>. QED
        BY <1>6, <2>1, <2>2, <2>3, <2>4 DEF Receive, TypeOK, Goto
<1>7. ASSUME NEW t \in Tabs, Lose(t) PROVE TypeOK'
    <2>1. NoResponse \in [status : Statuses, cookie : CookieOrNone, token : TokenOrNone]
        BY DEF NoResponse, Statuses, CookieOrNone, TokenOrNone
    <2>. QED
        BY <1>7, <2>1 DEF Lose, TypeOK, Goto
<1>8. ASSUME NEW t \in Tabs, Reload(t) PROVE TypeOK'
    BY <1>8 DEF Reload, TypeOK
<1>9. ASSUME NEW b \in Browsers, Move(b) PROVE TypeOK'
    BY <1>9 DEF Move, TypeOK
<1>10. ASSUME NEW b \in Browsers, Close(b) PROVE TypeOK'
    BY <1>10 DEF Close, TypeOK, CookieOrNone, TokenOrNone
<1>11. ASSUME NEW s \in Servers, Deploy(s) PROVE TypeOK'
    <2>1. DOMAIN Releases = 1 .. Len(Releases) /\ Len(Releases) \in Nat
        <3>1. Releases \in Seq({Releases[n] : n \in DOMAIN Releases})
            BY AuthAssumption
        <3>. QED
            BY <3>1
    <2>2. conf' \in [Servers -> DOMAIN Releases]
        BY <1>11, <2>1 DEF Deploy, TypeOK
    <2>. QED
        BY <1>11, <2>2 DEF Deploy, TypeOK
<1>12. ASSUME Tick PROVE TypeOK'
    <2>1. tok' \in [Tabs -> TokenOrNone]
        BY <1>12, OlderToken DEF Tick, TypeOK
    <2>2. req' \in [Tabs -> Request \cup {NoRequest}]
        BY <1>12, OlderRequest DEF Tick, TypeOK
    <2>3. resp' \in [Tabs -> [status : Statuses, cookie : CookieOrNone, token : TokenOrNone]]
        BY <1>12, OlderResponse DEF Tick, TypeOK
    <2>4. recent' \in [Contexts -> 0 .. MaxTokenTTL]
        BY <1>12, LessBounds DEF Tick, TypeOK
    <2>. QED
        BY <1>12, <2>1, <2>2, <2>3, <2>4 DEF Tick, TypeOK
<1>13. CASE UNCHANGED vars
    BY <1>13 DEF vars, TypeOK
<1>. QED
    BY <1>1, <1>2, <1>3, <1>4, <1>5, <1>6, <1>7, <1>8, <1>9, <1>10, <1>11, <1>12, <1>13
       DEF Next, Handle

\* What an answer changes.
LEMMA AnswerEffect ==
    ASSUME TypeOK, NEW t \in Tabs, NEW st, NEW c, NEW k, Answer(t, st, c, k)
    PROVE  /\ pc'[t] = "answered" /\ by'[t] = 0 /\ req'[t] = NoRequest
           /\ resp'[t] = [status |-> st, cookie |-> c, token |-> k]
           /\ \A u \in Tabs \ {t} : /\ pc'[u] = pc[u] /\ req'[u] = req[u]
                                    /\ by'[u] = by[u] /\ resp'[u] = resp[u]
BY DEF TypeOK, Answer, Goto

\* An answer keeps what is in flight.
LEMMA AnswerInFlight ==
    ASSUME TypeOK, InFlight, NEW t \in Tabs, NEW st, NEW c, NEW k, Answer(t, st, c, k)
    PROVE  InFlight'
BY AnswerEffect DEF InFlight

\* No step breaks what is in flight.
LEMMA NextInFlight == TypeOK /\ InFlight /\ [Next]_vars => InFlight'
<1>. SUFFICES ASSUME TypeOK, InFlight, [Next]_vars PROVE InFlight'
    OBVIOUS
<1>1. ASSUME NEW t \in Tabs, NEW s \in Servers, GuestSession(t, s) PROVE InFlight'
    <2>1. \E st, c, k : Answer(t, st, c, k)
        BY <1>1 DEF GuestSession
    <2>. QED
        BY <2>1, AnswerInFlight
<1>2. ASSUME NEW t \in Tabs, NEW s \in Servers, IssuanceHandler(t, s) PROVE InFlight'
    <2>1. CASE \E st, c, k : Answer(t, st, c, k)
        BY <2>1, AnswerInFlight
    <2>2. CASE /\ verifyGuestCookie(conf[s], req[t].cookie) /\ Goto(t, "verifying")
               /\ by' = [by EXCEPT ![t] = conf[s]] /\ UNCHANGED <<req, resp>>
        <3>1. pc[t] = "sent" /\ conf[s] \in DOMAIN Releases /\ req[t].cookie # NoCookie
            BY <1>2, <2>2 DEF IssuanceHandler, verifyGuestCookie, TypeOK
        <3>. QED
            BY <2>2, <3>1 DEF InFlight, Goto, TypeOK
    <2>. QED
        BY <1>2, <2>1, <2>2 DEF IssuanceHandler
<1>3. ASSUME NEW t \in Tabs, NEW s \in Servers, Protect(t, s) PROVE InFlight'
    <2>1. \E st, c, k : Answer(t, st, c, k)
        BY <1>3 DEF Protect
    <2>. QED
        BY <2>1, AnswerInFlight
<1>4. ASSUME NEW t \in Tabs, Judge(t) PROVE InFlight'
    <2>1. \E st, c, k : Answer(t, st, c, k)
        BY <1>4 DEF Judge
    <2>. QED
        BY <2>1, AnswerInFlight
<1>5. ASSUME NEW t \in Tabs, Send(t) PROVE InFlight'
    <2>1. req'[t] \in Request /\ \A u \in Tabs \ {t} : req'[u] = req[u]
        BY <1>5, SentRequest
    <2>. QED
        BY <1>5, <2>1 DEF Send, InFlight, Goto, TypeOK
<1>6. ASSUME NEW t \in Tabs, Receive(t) PROVE InFlight'
    BY <1>6 DEF Receive, InFlight, Goto, TypeOK
<1>7. ASSUME NEW t \in Tabs, Lose(t) PROVE InFlight'
    BY <1>7 DEF Lose, InFlight, Goto, TypeOK
<1>8. ASSUME NEW t \in Tabs, Reload(t) PROVE InFlight'
    BY <1>8 DEF Reload, InFlight
<1>9. ASSUME NEW b \in Browsers, Move(b) \/ Close(b) PROVE InFlight'
    BY <1>9 DEF Move, Close, InFlight
<1>10. ASSUME NEW s \in Servers, Deploy(s) PROVE InFlight'
    BY <1>10 DEF Deploy, InFlight
<1>11. ASSUME Tick PROVE InFlight'
    <2>1. \A t \in Tabs : /\ req[t] \in Request => req'[t] \in Request
                          /\ req'[t].cookie = req[t].cookie
        BY <1>11, OlderRequest DEF Tick, TypeOK
    <2>2. \A t \in Tabs : resp[t] = NoResponse => resp'[t] = NoResponse
        BY <1>11, OlderResponse DEF Tick, TypeOK
    <2>. QED
        BY <1>11, <2>1, <2>2 DEF Tick, InFlight
<1>12. CASE UNCHANGED vars
    BY <1>12 DEF vars, InFlight
<1>. QED
    BY <1>1, <1>2, <1>3, <1>4, <1>5, <1>6, <1>7, <1>8, <1>9, <1>10, <1>11, <1>12 DEF Next, Handle

(***************************************************************************)
(* Tokens and bot checks.                                                  *)
(***************************************************************************)
\* Where a token is.
LEMMA TokenPlaces ==
    \A k : k \in Tokens <=> \E t \in Tabs : k \in {tok[t], req[t].token, resp[t].token}
BY DEF Tokens

\* All tokens are tokens.
LEMMA TokensTyped == TypeOK => Tokens \subseteq TokenOrNone
<1>. SUFFICES ASSUME TypeOK, NEW t \in Tabs
              PROVE  {tok[t], req[t].token, resp[t].token} \subseteq TokenOrNone
    BY TokenPlaces
<1>1. req[t].token \in TokenOrNone
    BY DEF TypeOK, Request, NoRequest, TokenOrNone
<1>2. resp[t].token \in TokenOrNone
    BY DEF TypeOK
<1>. QED
    BY <1>1, <1>2 DEF TypeOK

\* A step that makes no token and does not touch the bot checks keeps TokensVerified.
LEMMA TokensKept ==
    ASSUME TokensVerified, recent' = recent,
           \A t \in Tabs : {tok'[t], req'[t].token, resp'[t].token} \subseteq Tokens \cup {NoToken}
    PROVE  TokensVerified'
<1>1. Tokens' \subseteq Tokens \cup {NoToken}
    BY DEF Tokens
<1>. QED
    BY <1>1 DEF TokensVerified

\* An answer carries a token of its own; the request it answers is gone.
LEMMA AnswerTokens ==
    ASSUME TypeOK, NEW t \in Tabs, NEW st, NEW c, NEW k, Answer(t, st, c, k), UNCHANGED tok
    PROVE  \A u \in Tabs : {tok'[u], req'[u].token, resp'[u].token} \subseteq Tokens \cup {NoToken, k}
<1>1. /\ req'[t] = NoRequest
      /\ resp'[t] = [status |-> st, cookie |-> c, token |-> k]
      /\ \A u \in Tabs \ {t} : req'[u] = req[u] /\ resp'[u] = resp[u]
    BY DEF TypeOK, Answer, Goto
<1>2. req'[t].token = NoToken /\ resp'[t].token = k
    BY <1>1 DEF NoRequest
<1>3. ASSUME NEW u \in Tabs
      PROVE  {tok'[u], req'[u].token, resp'[u].token} \subseteq Tokens \cup {NoToken, k}
    <2>1. tok'[u] = tok[u]
        OBVIOUS
    <2>2. CASE u = t
        BY <1>2, <2>1, <2>2, TokenPlaces
    <2>3. CASE u # t
        BY <1>1, <2>1, <2>3, TokenPlaces
    <2>. QED
        BY <2>2, <2>3
<1>. QED
    BY <1>3

\* No step leaves a token without its bot check.
LEMMA NextTokens == TypeOK /\ InFlight /\ TokensVerified /\ [Next]_vars => TokensVerified'
<1>. SUFFICES ASSUME TypeOK, InFlight, TokensVerified, [Next]_vars PROVE TokensVerified'
    OBVIOUS
<1>1. ASSUME NEW t \in Tabs, NEW s \in Servers, Handle(t, s) PROVE TokensVerified'
    <2>1. recent' = recent /\ tok' = tok
        BY <1>1 DEF Handle, GuestSession, IssuanceHandler, Protect
    <2>2. CASE \E st, c : Answer(t, st, c, NoToken)
        BY <2>1, <2>2, AnswerTokens, TokensKept
    <2>3. CASE UNCHANGED <<req, resp>>
        BY <2>1, <2>3, TokenPlaces, TokensKept
    <2>. QED
        BY <1>1, <2>2, <2>3 DEF Handle, GuestSession, IssuanceHandler, Protect
<1>2. ASSUME NEW t \in Tabs, Judge(t) PROVE TokensVerified'
    <2>. DEFINE n == by[t]
                r == req[t]
                x == Context(n, r)
    <2>1. n \in DOMAIN Releases /\ r \in Request /\ r.cookie # NoCookie
        BY <1>2 DEF Judge, InFlight
    <2>2. /\ Issue(n, r) \in Token /\ x \in Contexts
          /\ <<Issue(n, r).sub, Issue(n, r).ip, Issue(n, r).ua>> = x
        BY <2>1, IssuedToken, ContextOfRequest
    <2>3. Tokens \subseteq TokenOrNone
        BY TokensTyped
    <2>4. CASE recent' = recent /\ Answer(t, "forbidden", NoCookie, NoToken)
        BY <1>2, <2>4, AnswerTokens, TokensKept DEF Judge
    <2>5. CASE /\ recent' = [recent EXCEPT ![x] = MaxTokenTTL]
               /\ Answer(t, "ok", NoCookie, Issue(n, r))
        <3>1. Tokens' \subseteq Tokens \cup {NoToken, Issue(n, r)}
            <4>1. \A u \in Tabs : {tok'[u], req'[u].token, resp'[u].token}
                                     \subseteq Tokens \cup {NoToken, Issue(n, r)}
                BY <1>2, <2>5, AnswerTokens DEF Judge
            <4>. QED
                BY <4>1 DEF Tokens
        <3>2. ASSUME NEW k \in Token, k.left > 0,
                     k = Issue(n, r) \/ recent[<<k.sub, k.ip, k.ua>>] >= k.left
              PROVE  recent'[<<k.sub, k.ip, k.ua>>] >= k.left
            <4>1. <<k.sub, k.ip, k.ua>> \in Contexts /\ k.left \in 0 .. MaxTokenTTL
                BY DEF Token, Contexts
            <4>2. CASE <<k.sub, k.ip, k.ua>> = x
                BY <2>5, <4>1, <4>2 DEF TypeOK, MaxTokenTTL
            <4>3. CASE <<k.sub, k.ip, k.ua>> # x
                BY <2>2, <2>5, <3>2, <4>1, <4>3 DEF TypeOK
            <4>. QED
                BY <4>2, <4>3
        <3>. QED
            BY <2>2, <2>3, <3>1, <3>2 DEF TokensVerified, TokenOrNone
    <2>. QED
        BY <1>2, <2>4, <2>5 DEF Judge, BotVerdict
<1>3. ASSUME NEW t \in Tabs, Send(t) PROVE TokensVerified'
    <2>1. \A u \in Tabs : tok'[u] \in {tok[u], NoToken} /\ resp'[u] = resp[u]
        BY <1>3 DEF Send, TypeOK
    <2>2. \A u \in Tabs : req'[u].token \in {req[u].token, tok[u], NoToken}
        BY <1>3, SentRequest
    <2>3. recent' = recent
        BY <1>3 DEF Send
    <2>. QED
        BY <2>1, <2>2, <2>3, TokenPlaces, TokensKept
<1>4. ASSUME NEW t \in Tabs, Receive(t) \/ Lose(t) PROVE TokensVerified'
    <2>1. \A u \in Tabs : tok'[u] \in {tok[u], resp[u].token, NoToken}
        BY <1>4 DEF Receive, Lose, TypeOK
    <2>2. \A u \in Tabs : req'[u] \in {req[u], NoRequest} /\ resp'[u] \in {resp[u], NoResponse}
        BY <1>4 DEF Receive, Lose, TypeOK
    <2>3. NoRequest.token = NoToken /\ NoResponse.token = NoToken
        BY DEF NoRequest, NoResponse
    <2>4. recent' = recent
        BY <1>4 DEF Receive, Lose
    <2>. QED
        BY <2>1, <2>2, <2>3, <2>4, TokenPlaces, TokensKept
<1>5. ASSUME NEW b \in Browsers, Close(b) PROVE TokensVerified'
    <2>1. \A u \in Tabs : /\ tok'[u] \in {tok[u], NoToken}
                          /\ req'[u] = req[u] /\ resp'[u] = resp[u]
        BY <1>5 DEF Close
    <2>2. recent' = recent
        BY <1>5 DEF Close
    <2>. QED
        BY <2>1, <2>2, TokenPlaces, TokensKept
<1>6. CASE UNCHANGED <<tok, req, resp, recent>>
    BY <1>6 DEF TokensVerified, Tokens
<1>7. ASSUME Tick PROVE TokensVerified'
    <2>1. ASSUME NEW t \in Tabs, NEW k \in {tok'[t], req'[t].token, resp'[t].token}
          PROVE  \E j \in Tokens : k = Older(j)
        <3>1. tok'[t] = Older(tok[t])
            BY <1>7 DEF Tick
        <3>2. req'[t].token = Older(req[t].token)
            BY <1>7, OlderRequest DEF Tick, TypeOK
        <3>3. resp'[t].token = Older(resp[t].token)
            BY <1>7, OlderResponse DEF Tick, TypeOK
        <3>. QED
            BY <2>1, <3>1, <3>2, <3>3, TokenPlaces
    <2>2. \A k \in Tokens' : \E j \in Tokens : k = Older(j)
        BY <2>1 DEF Tokens
    <2>3. ASSUME NEW j \in Tokens, Older(j) # NoToken, Older(j).left > 0
          PROVE  recent'[<<Older(j).sub, Older(j).ip, Older(j).ua>>] >= Older(j).left
        <3>1. j \in Token
            BY <2>3, TokensTyped, OlderToken DEF TokenOrNone
        <3>2. /\ Older(j).left = Less(j.left)
              /\ <<Older(j).sub, Older(j).ip, Older(j).ua>> = <<j.sub, j.ip, j.ua>>
              /\ j # NoToken
            BY <3>1, <2>3, TokensTyped, OlderToken
        <3>3. j.left \in 0 .. MaxTokenTTL /\ <<j.sub, j.ip, j.ua>> \in Contexts
            BY <3>1 DEF Token, Contexts
        <3>4. j.left > 0
            BY <2>3, <3>2, <3>3, LessBounds
        <3>5. recent[<<j.sub, j.ip, j.ua>>] >= j.left
            BY <3>2, <3>4 DEF TokensVerified
        <3>6. recent[<<j.sub, j.ip, j.ua>>] \in 0 .. MaxTokenTTL
            BY <3>3 DEF TypeOK
        <3>7. Less(recent[<<j.sub, j.ip, j.ua>>]) >= Less(j.left)
            BY <3>3, <3>5, <3>6, LessBounds
        <3>8. recent'[<<j.sub, j.ip, j.ua>>] = Less(recent[<<j.sub, j.ip, j.ua>>])
            BY <1>7, <3>3 DEF Tick
        <3>. QED
            BY <3>2, <3>7, <3>8
    <2>. QED
        BY <2>2, <2>3 DEF TokensVerified
<1>8. CASE \/ \E t \in Tabs : Reload(t)
           \/ \E b \in Browsers : Move(b)
           \/ \E s \in Servers : Deploy(s)
           \/ UNCHANGED vars
    BY <1>6, <1>8 DEF Reload, Move, Deploy, vars
<1>. QED
    BY <1>1, <1>2, <1>3, <1>4, <1>5, <1>7, <1>8 DEF Next

(***************************************************************************)
(* Theorems.                                                               *)
(***************************************************************************)
\* The invariant of the steps below.
LEMMA InvariantHolds == Spec => []IInv
<1>1. Init => IInv
    <2>. SUFFICES ASSUME Init PROVE IInv
        OBVIOUS
    <2>1. InFlight
        BY DEF Init, InFlight
    <2>2. Tokens \subseteq {NoToken}
        BY DEF Tokens, Init, NoRequest, NoResponse
    <2>. QED
        BY <2>1, <2>2, InitTypes DEF IInv, TokensVerified
<1>2. IInv /\ [Next]_vars => IInv'
    BY NextTypes, NextInFlight, NextTokens DEF IInv
<1>. QED
    BY <1>1, <1>2, PTL DEF Spec

\* The state keeps its types; a token never has more than 180 seconds.
THEOREM TypeCorrect == Spec => []TypeOK
<1>1. IInv => TypeOK
    BY DEF IInv
<1>. QED
    BY <1>1, InvariantHolds, PTL

\* IssuanceHandler: every live token stands for a bot check that passed, for its session
\* and context, less than 180 seconds ago.
THEOREM TokensVerifiedHolds == Spec => []TokensVerified
<1>1. IInv => TokensVerified
    BY DEF IInv
<1>. QED
    BY <1>1, InvariantHolds, PTL

\* Only Protect lets a call through.
LEMMA CallAdmitted ==
    ASSUME IInv, [Next]_vars, NEW t \in Tabs,
           pc[t] = "sent", doing[t] = "call", resp'[t].status = "ok"
    PROVE  \E s \in Servers : /\ Verify(conf[s], req[t]) /\ Bound(conf[s], req[t])
                              /\ req[t] \in Request
<1>1. resp[t] = NoResponse /\ req[t] \in Request
    BY DEF IInv, InFlight
<1>2. resp'[t] # resp[t]
    BY <1>1 DEF NoResponse
<1>3. ASSUME NEW u \in Tabs, u # t, NEW st, NEW c, NEW k, Answer(u, st, c, k) PROVE FALSE
    BY <1>2, <1>3, AnswerEffect DEF IInv
<1>4. ASSUME NEW u \in Tabs, NEW s \in Servers, GuestSession(u, s) PROVE FALSE
    <2>1. u # t /\ \E st, c, k : Answer(u, st, c, k)
        BY <1>4 DEF GuestSession
    <2>. QED
        BY <2>1, <1>3
<1>5. ASSUME NEW u \in Tabs, NEW s \in Servers, IssuanceHandler(u, s) PROVE FALSE
    <2>1. u # t /\ ((\E st, c, k : Answer(u, st, c, k)) \/ UNCHANGED resp)
        BY <1>5 DEF IssuanceHandler
    <2>. QED
        BY <2>1, <1>2, <1>3
<1>6. ASSUME NEW u \in Tabs, Judge(u) PROVE FALSE
    <2>1. u # t /\ \E st, c, k : Answer(u, st, c, k)
        BY <1>6 DEF Judge
    <2>. QED
        BY <2>1, <1>3
<1>7. ASSUME NEW u \in Tabs, Send(u) \/ Receive(u) \/ Lose(u) \/ Reload(u) PROVE FALSE
    BY <1>1, <1>2, <1>7 DEF Send, Receive, Lose, Reload, IInv, TypeOK
<1>8. ASSUME Tick PROVE FALSE
    BY <1>1, <1>2, <1>8, OlderResponse DEF Tick, IInv, TypeOK
<1>9. CASE \/ \E b \in Browsers : Move(b) \/ Close(b)
           \/ \E s \in Servers : Deploy(s)
           \/ UNCHANGED vars
    BY <1>2, <1>9 DEF Move, Close, Deploy, vars
<1>10. ASSUME NEW u \in Tabs, NEW s \in Servers, Protect(u, s)
       PROVE  Verify(conf[s], req[t]) /\ Bound(conf[s], req[t])
    <2>1. u = t
        BY <1>3, <1>10 DEF Protect
    <2>2. CASE Answer(t, "unauthorized", NoCookie, NoToken)
        <3>1. resp'[t].status = "unauthorized"
            BY <2>2 DEF Answer, IInv, TypeOK
        <3>. QED
            BY <3>1
    <2>3. CASE Answer(t, "forbidden", NoCookie, NoToken)
        <3>1. resp'[t].status = "forbidden"
            BY <2>3 DEF Answer, IInv, TypeOK
        <3>. QED
            BY <3>1
    <2>. QED
        BY <1>10, <2>1, <2>2, <2>3 DEF Protect
<1>. QED
    BY <1>1, <1>4, <1>5, <1>6, <1>7, <1>8, <1>9, <1>10 DEF Next, Handle

\* Protect: a call goes through only if a bot check of this session from this address and
\* user agent passed in the last 180 seconds.
THEOREM AdmittedVerifiedHolds == Spec => AdmittedVerified
<1>. DEFINE Admitted ==
        \A t \in Tabs :
          pc[t] = "sent" /\ doing[t] = "call" /\ resp'[t].status = "ok" =>
            \E s \in Servers : recent[Context(conf[s], req[t])] > 0
<1>1. IInv /\ [Next]_vars => Admitted
    <2>. SUFFICES ASSUME IInv, [Next]_vars, NEW t \in Tabs,
                         pc[t] = "sent", doing[t] = "call", resp'[t].status = "ok"
                  PROVE  \E s \in Servers : recent[Context(conf[s], req[t])] > 0
        OBVIOUS
    <2>1. PICK s \in Servers : /\ Verify(conf[s], req[t]) /\ Bound(conf[s], req[t])
                               /\ req[t] \in Request
        BY CallAdmitted
    <2>. DEFINE k == req[t].token
    <2>2. k # NoToken /\ k.left > 0
        BY <2>1 DEF Verify
    <2>3. k \in Tokens /\ k \in Token
        BY <2>1, <2>2, TokenPlaces DEF Request, TokenOrNone
    <2>4. recent[<<k.sub, k.ip, k.ua>>] >= k.left
        BY <2>2, <2>3 DEF IInv, TokensVerified
    <2>5. <<k.sub, k.ip, k.ua>> = Context(conf[s], req[t])
        BY <2>1 DEF Bound, Context
    <2>6. <<k.sub, k.ip, k.ua>> \in Contexts /\ k.left \in Nat
        BY <2>3 DEF Token, Contexts
    <2>7. recent[<<k.sub, k.ip, k.ua>>] \in 0 .. MaxTokenTTL
        BY <2>6 DEF IInv, TypeOK
    <2>. QED
        BY <2>2, <2>4, <2>5, <2>6, <2>7 DEF MaxTokenTTL
<1>. QED
    BY <1>1, InvariantHolds, PTL DEF Spec, AdmittedVerified

\* A browser stays settled when its cookie stays and nothing foreign comes on its way.
LEMMA StaysSettled ==
    ASSUME NEW b \in Browsers, Settled(b), conf' = conf, jar'[b] = jar[b],
           \A t \in Tabs : BrowserOf[t] = b =>
              /\ pc'[t] = "sent" /\ doing'[t] = "page" => req'[t].cookie = jar[b]
              /\ pc'[t] = "answered" => resp'[t].cookie = NoCookie
    PROVE  Settled(b)'
BY DEF Settled, verifyGuestCookie

\* An answer without a cookie leaves every browser settled.
LEMMA AnswerSettled ==
    ASSUME TypeOK, NEW b \in Browsers, Settled(b), UNCHANGED <<conf, jar, doing>>,
           NEW t \in Tabs, NEW st, NEW k, Answer(t, st, NoCookie, k)
    PROVE  Settled(b)'
<1>1. /\ pc'[t] = "answered" /\ resp'[t].cookie = NoCookie
      /\ \A u \in Tabs \ {t} : pc'[u] = pc[u] /\ req'[u] = req[u] /\ resp'[u] = resp[u]
    BY DEF TypeOK, Answer, Goto
<1>2. ASSUME NEW u \in Tabs, BrowserOf[u] = b
      PROVE  /\ pc'[u] = "sent" /\ doing'[u] = "page" => req'[u].cookie = jar[b]
             /\ pc'[u] = "answered" => resp'[u].cookie = NoCookie
    BY <1>1, <1>2 DEF Settled
<1>. QED
    BY <1>2, StaysSettled

\* GuestSession: a browser whose cookie is good keeps it.
THEOREM SessionKeptHolds == Spec => SessionKept
<1>. DEFINE Kept(b) == Settled(b) /\ UNCHANGED conf =>
                          jar'[b] = NoCookie \/ (jar'[b] = jar[b] /\ Settled(b)')
<1>1. ASSUME IInv, Next, NEW b \in Browsers, Settled(b), UNCHANGED conf
      PROVE  jar'[b] = NoCookie \/ (jar'[b] = jar[b] /\ Settled(b)')
    <2>. USE <1>1
    <2>1. TypeOK /\ InFlight
        BY DEF IInv
    <2>2. ASSUME NEW t \in Tabs, NEW s \in Servers, GuestSession(t, s)
          PROVE  jar' = jar /\ Settled(b)'
        <3>1. jar' = jar /\ doing' = doing
            BY <2>2 DEF GuestSession
        <3>2. CASE \E st, k : Answer(t, st, NoCookie, k)
            BY <2>1, <3>1, <3>2, AnswerSettled
        <3>3. CASE /\ ~verifyGuestCookie(conf[s], req[t].cookie)
                   /\ \E st, c, k : Answer(t, st, c, k)
            <4>1. BrowserOf[t] # b
                BY <2>2, <3>3 DEF GuestSession, Settled
            <4>2. \A u \in Tabs \ {t} : pc'[u] = pc[u] /\ req'[u] = req[u] /\ resp'[u] = resp[u]
                BY <2>1, <3>3 DEF TypeOK, Answer, Goto
            <4>. QED
                BY <3>1, <4>1, <4>2, StaysSettled DEF Settled
        <3>. QED
            BY <2>2, <3>2, <3>3 DEF GuestSession
    <2>3. ASSUME NEW t \in Tabs, NEW s \in Servers, IssuanceHandler(t, s)
          PROVE  jar' = jar /\ Settled(b)'
        <3>1. jar' = jar /\ doing' = doing
            BY <2>3 DEF IssuanceHandler
        <3>2. CASE \E st, k : Answer(t, st, NoCookie, k)
            BY <2>1, <3>1, <3>2, AnswerSettled
        <3>3. CASE Goto(t, "verifying") /\ UNCHANGED <<req, resp>>
            <4>1. \A u \in Tabs : pc'[u] \in {pc[u], "verifying"}
                BY <2>1, <3>3 DEF Goto, TypeOK
            <4>. QED
                BY <3>1, <3>3, <4>1, StaysSettled DEF Settled
        <3>. QED
            BY <2>3, <3>2, <3>3 DEF IssuanceHandler
    <2>4. ASSUME NEW t \in Tabs, (\E s \in Servers : Protect(t, s)) \/ Judge(t)
          PROVE  jar' = jar /\ Settled(b)'
        <3>1. jar' = jar /\ doing' = doing
            BY <2>4 DEF Protect, Judge
        <3>2. \E st, k : Answer(t, st, NoCookie, k)
            BY <2>4 DEF Protect, Judge
        <3>. QED
            BY <2>1, <3>1, <3>2, AnswerSettled
    <2>5. ASSUME NEW t \in Tabs, Send(t) PROVE jar' = jar /\ Settled(b)'
        <3>1. /\ req'[t].cookie = jar[BrowserOf[t]]
              /\ \A u \in Tabs \ {t} : req'[u] = req[u]
            BY <2>1, <2>5, SentRequest
        <3>2. /\ pc'[t] = "sent"
              /\ \A u \in Tabs \ {t} : pc'[u] = pc[u]
            BY <2>1, <2>5 DEF Send, Goto, TypeOK
        <3>3. jar' = jar /\ doing' = doing /\ resp' = resp
            BY <2>5 DEF Send
        <3>. QED
            BY <3>1, <3>2, <3>3, StaysSettled DEF Settled
    <2>6. ASSUME NEW t \in Tabs, Receive(t) PROVE jar'[b] = jar[b] /\ Settled(b)'
        <3>1. jar'[b] = jar[b]
            BY <2>1, <2>6 DEF Receive, Settled, TypeOK
        <3>2. /\ pc'[t] = "idle"
              /\ \A u \in Tabs \ {t} : pc'[u] = pc[u] /\ resp'[u] = resp[u] /\ doing'[u] = doing[u]
              /\ req' = req
            BY <2>1, <2>6 DEF Receive, Goto, TypeOK
        <3>. QED
            BY <3>1, <3>2, StaysSettled DEF Settled
    <2>7. ASSUME NEW t \in Tabs, Lose(t) PROVE jar' = jar /\ Settled(b)'
        <3>1. /\ pc'[t] = "idle"
              /\ \A u \in Tabs \ {t} : pc'[u] = pc[u] /\ req'[u] = req[u] /\ resp'[u] = resp[u]
              /\ jar' = jar /\ doing' = doing
            BY <2>1, <2>7 DEF Lose, Goto, TypeOK
        <3>. QED
            BY <3>1, StaysSettled DEF Settled
    <2>8. ASSUME NEW t \in Tabs, Reload(t) PROVE jar' = jar /\ Settled(b)'
        <3>1. /\ pc[t] = "idle"
              /\ \A u \in Tabs \ {t} : doing'[u] = doing[u]
              /\ jar' = jar /\ pc' = pc /\ req' = req /\ resp' = resp
            BY <2>1, <2>8 DEF Reload, TypeOK
        <3>. QED
            BY <3>1, StaysSettled DEF Settled
    <2>9. ASSUME NEW a \in Browsers, Close(a)
          PROVE  jar'[b] = NoCookie \/ (jar'[b] = jar[b] /\ Settled(b)')
        <3>1. CASE a = b
            BY <2>1, <2>9, <3>1 DEF Close, TypeOK
        <3>2. CASE a # b
            <4>1. /\ jar'[b] = jar[b]
                  /\ \A u \in Tabs : BrowserOf[u] = b => doing'[u] = doing[u]
                  /\ pc' = pc /\ req' = req /\ resp' = resp
                BY <2>1, <2>9, <3>2 DEF Close, TypeOK
            <4>. QED
                BY <4>1, StaysSettled DEF Settled
        <3>. QED
            BY <3>1, <3>2
    <2>10. ASSUME (\E a \in Browsers : Move(a)) \/ (\E s \in Servers : Deploy(s))
           PROVE  jar' = jar /\ Settled(b)'
        <3>1. UNCHANGED <<jar, pc, doing, req, resp>>
            BY <2>10 DEF Move, Deploy
        <3>. QED
            BY <3>1, StaysSettled DEF Settled
    <2>11. ASSUME Tick PROVE jar' = jar /\ Settled(b)'
        <3>1. \A t \in Tabs : req'[t].cookie = req[t].cookie /\ resp'[t].cookie = resp[t].cookie
            BY <2>1, <2>11, OlderRequest, OlderResponse DEF Tick, TypeOK
        <3>2. UNCHANGED <<jar, pc, doing>>
            BY <2>11 DEF Tick
        <3>. QED
            BY <3>1, <3>2, StaysSettled DEF Settled
    <2>. QED
        BY <2>2, <2>3, <2>4, <2>5, <2>6, <2>7, <2>8, <2>9, <2>10, <2>11 DEF Next, Handle
<1>2. IInv /\ [Next]_vars => [\A b \in Browsers : Kept(b)]_vars
    BY <1>1
<1>. QED
    BY <1>2, InvariantHolds, PTL DEF Spec, SessionKept
=============================================================================
