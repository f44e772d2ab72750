----------------------------- MODULE HttpExchange ------------------------------
(***************************************************************************)
(* One request and its answer, from the client that makes it               *)
(* (src/Protocols/mdz_proto_http/httpv1_client) to the server and back:    *)
(* each side parses line, headers and content, one element after another,  *)
(* and the connection may fail between two of them.                        *)
(***************************************************************************)
EXTENDS HttpServer

CONSTANTS
    Asked,      \* what clients ask for
    Sites       \* what servers are set up with

VARIABLES
    asked, site,    \* this exchange's
    up, down,       \* what is on its way: elements, [kind, value]
    server,         \* the server's parser, [parser, bad, req, r]
    client,         \* the client's parser and what it has read
    done            \* what the content handler answered

hvars == <<asked, site, up, down, server, client, done>>

Element(kind, value) == [kind |-> kind, value |-> value]

(***************************************************************************)
(* The client writes.                                                      *)
(***************************************************************************)
\* The uri goes as it is.
RequestLine(a) ==
    <<a.method, " ">> \o a.uri \o (IF a.vars = <<>> THEN <<>> ELSE <<"?">> \o a.vars)
    \o <<" ", "HTTP", "/", a.major, ".", IF a.host # "" THEN "1" ELSE "0">>

\* The first cookie follows a separator, and the others none.
CookiesText(cookies) ==
    FlattenSeq([i \in DOMAIN cookies |->
        (IF i = 1 THEN <<";">> ELSE <<>>) \o <<cookies[i].name, "=", cookies[i].value>>])

HostText(a) == IF a.port = "80" THEN <<a.host>> ELSE <<a.host, ":", a.port>>

ClientHeaders(a) ==
    LET sized == replace(remove(a.headers, "Connection"), "Content-Length", Len(a.body))
        cookies == add(sized, "Cookie", CookiesText(a.cookies))
        authenticated == IF a.user = "" THEN cookies
                         ELSE replace(cookies, "Authentication", <<"Basic", <<a.user, ":", a.pass>>>>)
        named == replace(authenticated, "User-Agent", a.agent)
    IN IF a.host = "" THEN named ELSE replace(named, "Host", HostText(a))

FirstClient == [parser |-> "status", code |-> 0, minor |-> 0, headers |-> NoHeaders, cache |-> CacheDefaults,
                hsts |-> HSTSDefaults, xframe |-> XFrameDefaults, xss |-> XSSDefaults, noSniff |-> FALSE,
                realm |-> "", contentType |-> "", cookies |-> NoCookies, mode |-> "close", body |-> NoStreamer]

HInit ==
    /\ asked \in Asked /\ site \in Sites
    /\ up = <<>> /\ down = <<>>
    /\ server = [parser |-> "line", bad |-> FALSE, r |-> FirstResponse(site.security),
                 req |-> [method |-> "GET", uri |-> <<>>, vars |-> NoHeaders, version |-> Version(1, 1), host |-> "",
                          port |-> 80, user |-> "", pass |-> "", agent |-> "", cookies |-> NoHeaders,
                          token |-> "", length |-> 0, container |-> "bin", posted |-> NoHeaders]]
    /\ client = [FirstClient EXCEPT !.parser = "start"]
    /\ done = [code |-> 0, destroyed |-> FALSE, sid |-> ""]

\* As many elements as could be written; without all of them it does not go on.
initProtocol ==
    /\ client.parser = "start"
    /\ \E n \in 0..3 :
           /\ up' = SubSeq(<<Element("line", RequestLine(asked)), Element("headers", ClientHeaders(asked)),
                             Element("content", asked.body)>>, 1, n)
           /\ client' = [client EXCEPT !.parser = IF n = 3 THEN "status" ELSE "none"]
    /\ UNCHANGED <<asked, site, down, server, done>>

(***************************************************************************)
(* The server reads, and answers.                                          *)
(***************************************************************************)
streamServerHeaders(r) ==
    LET sized == IF KnownSize(r.streamer) THEN replace(remove(r.headers, "Connection"), "Content-Length", r.streamer)
                 ELSE LET closing == remove(add(r.headers, "Connection", "Close"), "Content-Length") IN
                      IF site.chunked THEN replace(closing, "Transfer-Encoding", "Chunked") ELSE closing
        dated == IF site.date THEN add(sized, "Date", Now) ELSE sized
        asking == IF r.realm = "" THEN dated ELSE add(dated, "WWW-Authenticate", <<"Basic", "realm", r.realm>>)
        cookies == putOnHeaders(r.cookies, remove(asking, "Set-Cookie"))
        xss == replace(cookies, "X-XSS-Protection", xssToValue(r.xss))
        cache == IF DOMAIN cacheToString(r.cache) = {} THEN xss ELSE replace(xss, "Cache-Control", cacheToString(r.cache))
        frame == IF isNotActivated(r.xframe) THEN cache ELSE replace(cache, "X-Frame-Options", xframeToValue(r.xframe))
        hsts == IF r.hsts.activated THEN replace(frame, "Strict-Transport-Security", hstsToValue(r.hsts)) ELSE frame
        typed == IF r.contentType = "" THEN hsts ELSE replace(hsts, "Content-Type", r.contentType)
    IN IF r.contentType # "" /\ r.noSniff THEN replace(typed, "X-Content-Type-Options", "nosniff") ELSE typed

Elements(r) ==
    <<Element("status", [minor |-> r.minor, code |-> r.code]), Element("headers", streamServerHeaders(r)),
      Element("content", r.streamer)>>

\* It answers once, and does not read on; the connection may fail meanwhile.
answer(s) ==
    \E gone \in BOOLEAN, n \in 0..3 : \E a \in {procHTTPClientContent(site, s.req, s.r, gone)} :
        \E r \in {IF s.bad THEN s.r ELSE [a.r EXCEPT !.code = a.code]} :
            /\ server' = [s EXCEPT !.parser = "none", !.r = r]
            /\ down' = SubSeq(Elements(r), 1, n)
            /\ done' = IF s.bad THEN done ELSE [code |-> a.code, destroyed |-> a.destroyed, sid |-> a.sid]

Reads(kind) == server.parser = kind /\ up # <<>> /\ up' = Tail(up) /\ UNCHANGED <<asked, site, client>>
Goes(s) == server' = s /\ UNCHANGED <<down, done>>

prepareServerVersionOnURI(s) ==
    IF s.req.version.major # 1 THEN [s EXCEPT !.r.minor = 0, !.r.code = 505, !.bad = TRUE]
    ELSE [s EXCEPT !.r.minor = s.req.version.minor]

parseURI(s, uri) ==
    LET asks == SplitOn(uri, "?") IN
    [s EXCEPT !.req.uri = decodeURLStr(asks[1]), !.req.vars = IF Len(asks) = 1 THEN @ ELSE VarsOf(asks[2], "&")]
parse(s, words) ==
    [parseURI(s, words[2]) EXCEPT
        !.req.method = words[1][1],
        !.req.version = parseVersion(IF Len(words) > 2 THEN words[3] ELSE <<"HTTP", "/", "1", ".", "0">>)]

OnClientRequest ==
    LET s == prepareServerVersionOnURI(parse(server, Words(up[1].value, " ")))
    IN /\ Reads("line")
       /\ \/ s.bad /\ answer(s)
          \/ ~s.bad /\ \E ok \in site.uriAnswers : Goes([s EXCEPT !.parser = IF ok THEN "headers" ELSE "none"])

parseHostOptions(s, h) ==
    LET parts == Words(getOption(h, "Host", <<>>), ":") IN
    IF parts = <<>> THEN s
    ELSE [s EXCEPT !.req.host = parts[1][1], !.req.port = IF Len(parts) = 1 THEN 80 ELSE Number[parts[2][1]] % 65536]

prepareServerVersionOnOptions(s) ==
    IF s.req.version.minor >= 1 /\ s.req.host = "" THEN [s EXCEPT !.r.code = 400, !.bad = TRUE] ELSE s

BasicAuth(s, h) ==
    LET value == getOption(h, "Authorization", <<>>) IN
    IF Len(value) # 2 \/ value[1] # "Basic" \/ ":" \notin Range(value[2]) THEN s
    ELSE [s EXCEPT !.req.user = SplitOn(value[2], ":")[1][1], !.req.pass = SplitOn(value[2], ":")[2][1]]

\* What follows the first equal sign is the value, another cookie included.
CookiesOf(h) ==
    LET pieces == SelectSeq(SplitOn(getOption(h, "Cookie", <<>>), ";"), LAMBDA f : Len(f) >= 2 /\ f[2] = "=") IN
    [name \in {pieces[i][1] : i \in DOMAIN pieces} |->
        LET f == SelectSeq(pieces, LAMBDA g : g[1] = name)[1] IN
        IF Len(f) = 3 THEN f[3] ELSE "several"]

ContentLength(s, h) ==
    LET length == getOption(h, "Content-Length", 0)
        type == getOption(h, "Content-Type", "")
    IN IF length = 0 THEN s
       ELSE IF length > MaxPostData THEN [s EXCEPT !.r.code = 413, !.bad = TRUE, !.req.length = length]
       ELSE [s EXCEPT !.req.length = length,
                      !.req.container = CASE type = "multipart/form-data" -> "mime"
                                          [] type = "application/x-www-form-urlencoded" -> "url"
                                          [] OTHER -> "bin"]

OnClientHeadersAtOnce ==
    LET h == up[1].value
        hosted == prepareServerVersionOnOptions(parseHostOptions(server, h))
        told == [BasicAuth(hosted, h) EXCEPT !.req.agent = getOption(h, "User-Agent", ""), !.req.cookies = CookiesOf(h),
                                             !.req.token = getOption(h, "CSRFToken", "")]
        s == IF told.bad THEN told ELSE ContentLength(told, h)
    IN /\ Reads("headers")
       /\ \/ s.bad /\ answer(s)
          \/ /\ ~s.bad
             /\ \/ FALSE \in site.headerAnswers /\ Goes([s EXCEPT !.parser = "none"])
                \/ TRUE \in site.headerAnswers
                   /\ answer(s)

OnClientHeaders ==
    LET h == up[1].value
        hosted == prepareServerVersionOnOptions(parseHostOptions(server, h))
        told == [BasicAuth(hosted, h) EXCEPT !.req.agent = getOption(h, "User-Agent", ""), !.req.cookies = CookiesOf(h),
                                             !.req.token = getOption(h, "CSRFToken", "")]
        s == IF told.bad THEN told ELSE ContentLength(told, h)
    IN /\ Reads("headers")
       /\ \/ s.bad /\ answer(s)
          \/ /\ ~s.bad
             /\ \/ FALSE \in site.headerAnswers /\ Goes([s EXCEPT !.parser = "none"])
                \/ TRUE \in site.headerAnswers
                   /\ IF s.req.length > 0 THEN Goes([s EXCEPT !.parser = "content"]) ELSE answer(s)

OnClientContentData ==
    /\ Reads("content")
    /\ answer([server EXCEPT !.req.posted = IF server.req.container = "url" THEN VarsOf(up[1].value, "&") ELSE @])

(***************************************************************************)
(* The client reads.                                                       *)
(***************************************************************************)
Gets(kind) == client.parser = kind /\ down # <<>> /\ down' = Tail(down)
              /\ UNCHANGED <<asked, site, up, server, done>>

OnServerStatus ==
    /\ Gets("status")
    /\ client' = [client EXCEPT !.parser = "headers", !.code = down[1].value.code, !.minor = down[1].value.minor]

\* No option has the empty name that the cookies are asked for by.
parseHeaders2ServerCookies(h) ==
    FoldLeft(parseCookie, NoCookies, IF exist(h, "") THEN h[""] ELSE <<>>)

parseHeaders2TransmitionMode(c, h) ==
    IF exist(h, "Content-Length")
    THEN [c EXCEPT !.mode = "length", !.parser = IF h["Content-Length"][1].kind = "empty" THEN "none" ELSE "content"]
    ELSE [c EXCEPT !.mode = IF getOption(h, "Transfer-Encoding", "") = "Chunked" THEN "chunks" ELSE "close",
                   !.parser = "content"]

OnServerHeaders ==
    LET h == down[1].value
        raw(name, otherwise) == getOption(h, name, otherwise)
        realm == raw("WWW-Authenticate", <<>>)
    IN /\ Gets("headers")
       /\ client' = parseHeaders2TransmitionMode(
              [client EXCEPT !.headers = h,
                             !.cache = cacheFromString(raw("Cache-Control", Flags({}))),
                             !.xframe = xframeFromValue(raw("X-Frame-Options", <<>>)),
                             !.xss = xssFromValue(raw("X-XSS-Protection", [first |-> "", rest |-> Flags({})])),
                             !.hsts = hstsFromValue(raw("Strict-Transport-Security", Flags({}))),
                             !.noSniff = raw("X-Content-Type-Options", "") = "nosniff",
                             !.realm = IF Len(realm) = 3 /\ realm[1] = "Basic" THEN realm[3] ELSE "",
                             !.contentType = raw("Content-Type", ""),
                             !.cookies = parseHeaders2ServerCookies(h)], h)

OnServerContent ==
    /\ Gets("content")
    /\ client' = [client EXCEPT !.parser = "none", !.body = down[1].value]

HNext ==
    \/ initProtocol
    \/ OnClientRequest \/ OnClientHeaders \/ OnClientContentData
    \/ OnServerStatus \/ OnServerHeaders \/ OnServerContent

(***************************************************************************)
(* Properties.                                                             *)
(***************************************************************************)
\* Whatever was mapped, filtered, made anew or redirected, in this order: an answer that
\* has a content is made for a path that the filter lets this session have and sends
\* nowhere else, and only a file or a static element as it is stored may be kept by the
\* browser.  It is the path of the resource itself that is judged: the files that a page
\* includes go into it unasked, those included that the filter denies.
SentAsAllowed ==
    LET s == server.r.streamer
        sid == getStringValue(server.req.cookies, "sessionId")
        known == IF sid \in DOMAIN site.sessions THEN site.sessions[sid] ELSE NoSession
        e == evaluateAction(site.rules, s.of, known, known.domain)
    IN /\ s.kind \in {"file", "static", "page"} /\ site.filtered => e.accept /\ e.redirectLocation = ""
       /\ s.kind \notin {"file", "static"} =>
              NoCaching \subseteq server.r.cache.flags /\ server.r.cache.maxAge = 0
              /\ ~exist(server.r.headers, "Last-Modified")

\* A request that ends its session, by leaving or by a wrong password of its own, has
\* both of the session's cookies removed, whatever was put on the answer before.
RemovesCookie(name) ==
    name \in DOMAIN server.r.cookies /\ server.r.cookies[name].expires = 1 /\ server.r.cookies[name].value = ""
EndedSessionsLeaveNoCookie == done.destroyed => RemovesCookie("sessionId") /\ RemovesCookie("jsSessionTimeout")

\* A request whose cookie names a session that is not there has that cookie removed,
\* and that one only, another session being logged in or confirmed by it included.
StaleCookieIsRemoved ==
    LET sid == getStringValue(server.req.cookies, "sessionId") IN
    done.code \notin {0, 400} /\ sid # "" /\ sid \notin DOMAIN site.sessions => RemovesCookie("sessionId")

\* What a page includes, and what that includes, and so on.
IncludedBy(path) ==
    LET included(p) == IF p \in DOMAIN site.pages
                       THEN {site.pages[p][n].path : n \in {k \in DOMAIN site.pages[p] : site.pages[p][k].tag = "include"}}
                       ELSE {}
        within[n \in 0..MaxIncludes] ==
            IF n = 0 THEN {path} ELSE within[n - 1] \cup UNION {included(p) : p \in within[n - 1]}
    IN within[MaxIncludes]

\* In a page that is made every tag is replaced, those that come with an included file
\* too, and every piece is of the page or of a file that it includes.
PagesAreMadeWhole ==
    server.r.streamer.kind = "page" =>
        \A i \in DOMAIN server.r.streamer.page :
            server.r.streamer.page[i].tag = "text" /\ server.r.streamer.page[i].of \in IncludedBy(server.r.streamer.of)

\* A session that was opened without a token is kept by its cookie, as the comments
\* of the log in say.  Refuted: an old cookie is told to be removed first, and then
\* none of that name is added.
LoginKeepsItsCookie ==
    server.parser = "none" /\ done.code = 200 /\ getStringValue(server.req.vars, "mode") = "LOGIN"
        /\ server.req.uri = <<"/", "japi_session">> /\ ~site.csrf =>
            server.r.cookies["sessionId"].value = done.sid

\* What the client reads is what the server said: its code, its flags and ages, its
\* realm and its content, an application that answers once and refuses or is refused
\* included.  Excepted is what the reading of the headers loses.
HeadersReadBack ==
    client.headers # NoHeaders =>
        LET r == server.r IN
        /\ client.code = r.code /\ client.minor = r.minor /\ client.realm = r.realm
        /\ client.cache.flags \cup {"must-revalidate", "no-store"} = r.cache.flags \cup {"must-revalidate", "no-store"}
        /\ client.cache.maxAge = r.cache.maxAge /\ client.cache.sMaxAge = r.cache.sMaxAge
        /\ r.hsts.activated /\ DOMAIN hstsToValue(r.hsts) # {} =>
               client.hsts.activated /\ client.hsts.flags = r.hsts.flags
        /\ client.xss.activated = r.xss.activated /\ (r.xss.activated => client.xss.reportURL = r.xss.reportURL)
        /\ client.contentType = r.contentType
        /\ \A name \in DOMAIN r.cookies :
               LET read == fromSetCookieString(toSetCookieString(name, r.cookies[name])) IN
               read.name = name /\ read.cookie = [r.cookies[name] EXCEPT !.expires = IF @ = 0 THEN 0 ELSE @ - ZoneOffset]
        /\ client.body # NoStreamer => client.body = r.streamer

\* The content handler is called for a request that was read to its end, with what
\* it asked for, and never for one that is refused; the pages it makes are made whole,
\* and a cookie of no session is removed.
HandledAsAsked ==
    done.code # 0 =>
        /\ server.parser = "none" /\ ~server.bad
        /\ server.req.vars = VarsOf(asked.vars, "&")
        /\ server.req.container = "url" => server.req.posted = VarsOf(asked.body, "&")
        /\ server.req.host = asked.host
        /\ PagesAreMadeWhole /\ StaleCookieIsRemoved

\* Both: an answer is made for what this session may ask for, and only a content as it
\* is stored may be kept by the browser, with no cookie of a session that has ended.
AnswersAreAllowed == SentAsAllowed /\ EndedSessionsLeaveNoCookie
===============================================================================
