CONSTANTS
    b1 = b1
    t1 = t1
    t2 = t2
    i1 = i1
    i2 = i2
    u1 = u1
    u2 = u2
    p1 = p1
    s1 = s1
    s2 = s2
    Servers = {s1, s2}
    Browsers = {b1}
    Tabs = {t1, t2}
    BrowserOf <- OneBrowser
    Scripted = {t1}
    Places <- TwoPlaces
    ProxyOf <- Proxied
    Direct = Direct
    Releases <- Rollout
    Sessions = {1, 2}
    Unit = 180
    NoCookie = NoCookie
    NoToken = NoToken
SPECIFICATION FairSpec
INVARIANTS
    TypeOK
    TokensVerified
PROPERTIES
    AdmittedVerified
    SessionKept
    TokenGivenUp
