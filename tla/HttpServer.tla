------------------------------ MODULE HttpServer -------------------------------
(***************************************************************************)
(* The answer to one HTTP request (src/Protocols/mdz_proto_http/           *)
(* httpv1_server, httpv1_base) as the web server gives it                  *)
(* (src/RPC/mdz_xrpc_webserver: webserver, webclienthandler's resources,   *)
(* resourcesfilter).  A text is a sequence of tokens: names, separators    *)
(* and escapes.  A site is what the server was set up with, and what there *)
(* is on its disk.                                                         *)
(***************************************************************************)
EXTENDS Headers, SequencesExt

CONSTANTS
    Escapes,        \* by token that is an escape: what it stands for
    Number,         \* by token that is a number: the number
    MimeTypes,      \* by extension: its type
    MaxPostData,    \* the longest content that is taken
    JsonObjects,    \* the texts that are a JSON object
    MaxIncludes,    \* bound of the tags that are included
    Now             \* the time of the day

ASSUME HttpServerAssumption == {MaxPostData, MaxIncludes, Now} \subseteq Nat

(***************************************************************************)
(* Texts.                                                                  *)
(***************************************************************************)
SplitOn(s, x) ==
    LET cuts == SetToSortSeq({0, Len(s) + 1} \cup {i \in DOMAIN s : s[i] = x}, <) IN
    [k \in 1..(Len(cuts) - 1) |-> SubSeq(s, cuts[k] + 1, cuts[k + 1] - 1)]
Words(s, x) == SelectSeq(SplitOn(s, x), LAMBDA w : w # <<>>)
decodeURLStr(s) == [i \in DOMAIN s |-> IF s[i] \in DOMAIN Escapes THEN Escapes[s[i]] ELSE s[i]]

\* By name, the first value; common_urlvars is modelled by itself in Fields.
VarsOf(s, separator) ==
    LET pairs == SelectSeq(SplitOn(s, separator), LAMBDA f : Len(f) >= 2 /\ f[2] = "=") IN
    [name \in {pairs[i][1] : i \in DOMAIN pairs} |->
        LET f == SelectSeq(pairs, LAMBDA g : g[1] = name)[1] IN
        IF Len(f) = 2 THEN "" ELSE f[3]]
getStringValue(vars, name) == IF name \in DOMAIN vars THEN vars[name] ELSE ""

Version(major, minor) == [major |-> major, minor |-> minor]
parseVersion(word) ==
    LET parts == Words(word, "/")
        both == Words(parts[2], ".")
        number(w) == IF w[1] \in DOMAIN Number THEN Number[w[1]] ELSE 0
    IN IF Len(parts) # 2 \/ Len(both) # 2 THEN Version(1, 0) ELSE Version(number(both[1]), number(both[2]))

(***************************************************************************)
(* The response.                                                           *)
(***************************************************************************)
NoCaching == {"no-cache", "no-store", "must-revalidate"}
NoStreamer == [kind |-> "empty", of |-> <<>>]
KnownSize(streamer) == streamer.kind # "json"

FirstResponse(security) ==
    [code |-> 0, minor |-> 0, headers |-> replace(NoHeaders, "Server", "Mantids"),
     cache |-> [CacheDefaults EXCEPT !.flags = NoCaching],
     contentType |-> "", noSniff |-> FALSE, cookies |-> NoCookies, streamer |-> NoStreamer,
     hsts |-> security.hsts, xframe |-> security.xframe, xss |-> security.xss, realm |-> security.realm]

setContentType(r, type, noSniff) == [r EXCEPT !.contentType = type, !.noSniff = noSniff]

\* The streamer, and nothing of what is said of it.
setDataStreamerOnly(r, streamer) == [r EXCEPT !.streamer = streamer]

setDataStreamer(r, streamer) ==
    IF streamer # NoStreamer THEN setDataStreamerOnly(r, streamer)
    ELSE setContentType([r EXCEPT !.streamer = NoStreamer,
                                  !.headers = remove(@, "Last-Modified"),
                                  !.cache = [CacheDefaults EXCEPT !.flags = NoCaching]], "", FALSE)

\* [code, r]
Answered(code, r) == [code |-> code, r |-> r]
setResponseRedirect(r, location) ==
    Answered(307, setDataStreamer([r EXCEPT !.headers = replace(@, "Location", location)], NoStreamer))
Json(code, r) == Answered(code, setContentType(setDataStreamer(r, [kind |-> "json", of |-> <<>>]), "application/json", TRUE))

(***************************************************************************)
(* Files.  site.files: by path, [kind, executable, readable]; "outside" is *)
(* a path that is not under the root.                                      *)
(***************************************************************************)
setResponseContentTypeByFileExtension(r, path) ==
    LET dots == SelectSeq(path, LAMBDA t : t \in DOMAIN MimeTypes \cup {".unknown"}) IN
    IF dots = <<>> THEN r
    ELSE IF Last(dots) \in DOMAIN MimeTypes THEN setContentType(r, MimeTypes[Last(dots)], TRUE)
    ELSE setContentType(r, "", FALSE)

Cacheable(r) ==
    [r EXCEPT !.cache.flags = (@ \ NoCaching) \cup {"immutable"}, !.cache.maxAge = 3600]

NoInfo == [isDir |-> FALSE, isExecutable |-> FALSE, pathExist |-> FALSE, isTransversal |-> FALSE,
           path |-> <<>>, mem |-> FALSE]
Found(ok, info, r) == [ok |-> ok, info |-> info, r |-> r]

MapFile(site, r, path, requested) ==
    LET info == [NoInfo EXCEPT !.pathExist = TRUE, !.path = path]
        mapped == setResponseContentTypeByFileExtension(setDataStreamer(r, [kind |-> "file", of |-> path]), path)
    IN IF ~site.files[path].readable THEN Found(FALSE, [NoInfo EXCEPT !.pathExist = TRUE], r)
       ELSE Found(TRUE, info,
                  Cacheable([mapped EXCEPT !.headers = IF site.date THEN add(@, "Last-Modified", requested) ELSE @]))

getLocalFilePathFromURI2(site, r, uri, append, dontMapExecutables) ==
    LET path == uri \o append
        file == site.files[path]
    IN IF path \in site.static
       THEN Found(TRUE, [NoInfo EXCEPT !.path = path, !.mem = TRUE],
                  setDataStreamer(setResponseContentTypeByFileExtension(Cacheable(r), path),
                                  [kind |-> "static", of |-> path]))
       ELSE IF path \notin DOMAIN site.files THEN Found(FALSE, NoInfo, r)
       ELSE IF file.kind = "outside" THEN Found(FALSE, [NoInfo EXCEPT !.isTransversal = TRUE], r)
       ELSE IF file.kind = "dir"
       THEN Found(append = <<>> /\ file.readable,
                  [NoInfo EXCEPT !.isDir = TRUE, !.pathExist = TRUE,
                                 !.path = IF append = <<>> THEN path ELSE @], r)
       ELSE IF file.kind = "special" THEN Found(FALSE, NoInfo, r)
       ELSE IF dontMapExecutables /\ file.executable
       THEN Found(TRUE, [NoInfo EXCEPT !.isExecutable = TRUE, !.pathExist = TRUE, !.path = path], r)
       ELSE MapFile(site, r, path, path)

\* Where a file of that name could be made, and where there is one: [ok, path].
getLocalFilePathFromURI0NE(site, uri) ==
    [ok |-> uri \notin DOMAIN site.files, path |-> IF uri \notin DOMAIN site.files THEN uri ELSE <<>>]
getLocalFilePathFromURI0E(site, uri) ==
    LET ok == uri \in DOMAIN site.files /\ site.files[uri].kind # "outside" IN
    [ok |-> ok, path |-> IF ok THEN uri ELSE <<>>]

(***************************************************************************)
(* The filter: the first rule whose attributes and uri fit.  Without a     *)
(* session, or a domain to ask, no attribute is had and none rejects.      *)
(***************************************************************************)
HasAttrib(session, attrib) == IF attrib = "loggedin" THEN session.user # "" ELSE attrib \in session.attribs
Applies(rule, path, session, authorizer) ==
    LET known == session.open /\ authorizer IN
    /\ \A a \in rule.req : known /\ HasAttrib(session, a)
    /\ \A a \in rule.rej : known => ~HasAttrib(session, a)
    /\ path \in rule.uris

evaluateAction(rules, path, session, authorizer) ==
    LET fit == {i \in DOMAIN rules : Applies(rules[i], path, session, authorizer)}
        rule == rules[Min(fit)]
    IN IF fit = {} THEN [accept |-> TRUE, redirectLocation |-> ""]
       ELSE [accept |-> rule.action # "DENY",
             redirectLocation |-> IF rule.action = "REDIRECT" THEN rule.redirectLocation ELSE ""]

(***************************************************************************)
(* The web client's handler, [w.r, w.sid, w.session, w.release, w.destroy].*)
(***************************************************************************)
NoSession == [open |-> FALSE, user |-> "", attribs |-> {}, domain |-> FALSE, vars |-> NoHeaders, confirmed |-> FALSE,
              confirmToken |-> "", csrfToken |-> "", loggedIn |-> FALSE]

sessionOpen(site, w) ==
    IF w.sid \in DOMAIN site.sessions
    THEN [w EXCEPT !.session = site.sessions[w.sid], !.release = TRUE]
    ELSE [w EXCEPT !.sid = "",
                   !.r.cookies = IF w.sid = "" THEN @ ELSE addClearSecureCookie(@, "sessionId", "/")]

sessionRelease(site, w) ==
    LET js == [CookieDefaults EXCEPT !.value = "1", !.path = "/", !.secure = TRUE, !.expires = Now + site.maxAge,
                                     !.max_age = site.maxAge, !.sameSite = "Strict"]
    IN IF ~w.release THEN w
       ELSE [w EXCEPT !.r.cookies = setSecureCookie(addCookieVal(@, "jsSessionTimeout", js),
                                                    "sessionId", w.sid, Now, site.maxAge, "/")]

sessionDestroy(w) ==
    IF ~w.destroy THEN w
    ELSE [w EXCEPT !.r.cookies = addClearSecureCookie(addClearSecureCookie(@, "jsSessionTimeout", "/"), "sessionId", "/")]

(***************************************************************************)
(* Interactive pages.  A page is a sequence of texts and tags; site.pages  *)
(* has them by path.  Once it is read a piece has the path it is of.       *)
(***************************************************************************)
PagePart(tag, name, path) == [tag |-> tag, name |-> name, path |-> path, of |-> <<>>]
Text(t) == PagePart("text", t, <<>>)
Include(path) == PagePart("include", "", path)
Tag(tag, name) == PagePart(tag, name, <<>>)
Stored(site, path) ==
    LET page == IF path \in DOMAIN site.pages THEN site.pages[path] ELSE <<Text("page")>> IN
    [n \in DOMAIN page |-> [page[n] EXCEPT !.of = path]]
NotFoundText == Text("<!-- HTMLI ENGINE ERROR (FILE NOT FOUND) -->")

\* Any file that can be opened, under the root or not, else a static element: no filter
\* is asked.  What is included is no directory, whose reading throws, and no pipe.
Includable(site, path) ==
    \/ path \in DOMAIN site.files /\ site.files[path].kind \in {"file", "outside"} /\ site.files[path].readable
    \/ path \in site.static

\* Every occurrence of the first tag at once, until none is left: pages that include
\* one another never end.
include(site, page) ==
    LET i == CHOOSE n \in DOMAIN page : page[n].tag = "include" /\ \A k \in 1..(n - 1) : page[k].tag # "include"
        path == page[i].path
        content(n) == IF Includable(site, path) THEN Stored(site, path) ELSE <<[NotFoundText EXCEPT !.of = page[n].of]>>
    IN FlattenSeq([n \in DOMAIN page |->
           IF page[n].tag = "include" /\ page[n].path = path THEN content(n) ELSE <<page[n]>>])
procResource_HTMLIEngineInclude(site, page) ==
    LET after[n \in 0..MaxIncludes] ==
            IF n = 0 THEN page
            ELSE IF \A k \in DOMAIN after[n - 1] : after[n - 1][k].tag # "include" THEN after[n - 1]
            ELSE include(site, after[n - 1])
    IN after[MaxIncludes]

\* What stands for a tag; a function is executed without its token being asked for.
JVar(w, req, name) ==
    CASE name = "user" /\ w.session.open -> w.session.user
      [] name = "maxAge" /\ w.session.open -> "maxAge"
      [] name = "userAgent" -> req.agent
      [] OTHER -> "null"
JGetVar(vars, name) == IF name \in DOMAIN vars THEN vars[name] ELSE "null"
JFunc(w, name) == IF w.session.open THEN name ELSE "null"
JSessVar(w, name) == IF w.session.open /\ name \in DOMAIN w.session.vars THEN w.session.vars[name] ELSE "null"

\* In one pass, so that what was put in is not read again.
procResource_JProcessor(w, req, page) ==
    LET said(tag, name) ==
            CASE tag = "jvar" -> JVar(w, req, name)
              [] tag = "jgetvar" -> JGetVar(req.vars, name)
              [] tag = "jpostvar" -> JGetVar(req.posted, name)
              [] tag = "jfunc" -> JFunc(w, name)
              [] tag = "jsess" -> JSessVar(w, name)
    IN [i \in DOMAIN page |->
           IF page[i].tag \in {"text", "include"} THEN page[i]
           ELSE [page[i] EXCEPT !.tag = "text", !.name = said(page[i].tag, page[i].name)]]

\* The page is made anew from what was mapped; the file may be gone by then.
procResource_HTMLIEngine(site, w, req, info, gone) ==
    LET bare == setDataStreamer(w.r, NoStreamer)
        page == procResource_JProcessor(w, req, procResource_HTMLIEngineInclude(site, Stored(site, info.path)))
    IN IF gone /\ ~info.mem THEN Answered(404, bare)
       ELSE Answered(200, setDataStreamerOnly(bare, [kind |-> "page", of |-> info.path, page |-> page]))

OrElse(first, site, uri, append) ==
    IF first.ok THEN first ELSE getLocalFilePathFromURI2(site, first.r, uri, append, FALSE)
FoundFor(site, r, uri) ==
    OrElse(OrElse(OrElse(Found(FALSE, NoInfo, r), site, uri, <<".html">>), site, uri, <<"index", ".html">>), site, uri, <<>>)

Judged(found, verdict) ==
    IF ~found.ok \/ found.info.isDir THEN Answered(404, found.r)
    ELSE IF ~verdict.accept THEN Answered(403, found.r)
    ELSE IF verdict.redirectLocation = "" THEN Answered(200, found.r)
    ELSE setResponseRedirect(found.r, verdict.redirectLocation)
WithContentIfOk(a) == IF a.code = 200 THEN a ELSE Answered(a.code, setDataStreamer(a.r, NoStreamer))
Interactive(site, w, req, info, gone, a) ==
    IF site.interactive /\ a.r.contentType = "text/html"
    THEN procResource_HTMLIEngine(site, [w EXCEPT !.r = a.r], req, info, gone) ELSE a
OrRedirected(site, a) ==
    IF a.code = 404 /\ site.redirectOn404 # "" THEN setResponseRedirect(a.r, site.redirectOn404) ELSE a
AnswerWith(site, w, req, found, gone) ==
    OrRedirected(site, Interactive(site, w, req, found.info, gone, WithContentIfOk(Judged(found,
        IF site.filtered THEN evaluateAction(site.rules, found.info.path, w.session, w.session.domain)
        ELSE [accept |-> TRUE, redirectLocation |-> ""]))))

procResource_File(site, w, req, gone) ==
    IF site.root = <<>> THEN Answered(404, w.r) ELSE AnswerWith(site, w, req, FoundFor(site, w.r, req.uri), gone)

(***************************************************************************)
(* The session's own calls, as far as the answer and its cookies go; what  *)
(* they do to the sessions is in WebSessions, and to the accounts in Auth. *)
(* site.auths: by text that is credentials, [idx, right].                  *)
(***************************************************************************)
setAuthentications(text) == text = "" \/ text \in JsonObjects
fromString(site, text) == text = "" \/ text \in DOMAIN site.auths
Credentials(site, text) == IF text = "" THEN [idx |-> 0, right |-> FALSE] ELSE site.auths[text]

Back(code, w) == [code |-> code, w |-> w]
BackWithJson(code, w) == Back(code, [w EXCEPT !.r = Json(code, @).r])
LoggedOut(code, w) == BackWithJson(code, [w EXCEPT !.destroy = TRUE])

procJAPI_Session_LOGIN(site, w, auth) ==
    LET id == IF auth.idx = 0 THEN site.login ELSE ""
        named == [w EXCEPT !.sid = id]
    IN IF id = "" THEN BackWithJson(401, named)
       ELSE IF site.csrf THEN BackWithJson(200, named)
       ELSE BackWithJson(200, [named EXCEPT !.r.cookies = setSecureCookie(@, "sessionId", id, Now, site.maxAge, "")])

\* Refused, there is no session's name left to be destroyed by.
procJAPI_Session_POSTLOGIN(w, auth) ==
    IF w.session.domain /\ auth.right THEN BackWithJson(200, w) ELSE LoggedOut(401, [w EXCEPT !.sid = ""])

WithSecret(w, right) ==
    IF ~w.session.domain THEN BackWithJson(401, w) ELSE IF right THEN BackWithJson(200, w) ELSE LoggedOut(401, w)
procJAPI_Session_CHPASSWD(site, w, auth, newAuth) ==
    IF ~fromString(site, newAuth) \/ Credentials(site, newAuth).idx # auth.idx THEN Back(400, w) ELSE WithSecret(w, auth.right)
procJAPI_Session_PASSWDLIST(w) == BackWithJson(IF w.session.domain THEN 200 ELSE 500, w)

\* The session is taken from the content when it is to be confirmed.
Reopened(site, w, req, mode) ==
    IF w.sid = "" /\ site.csrf /\ mode = "AUTHCSRF"
    THEN sessionOpen(site, [w EXCEPT !.sid = getStringValue(req.posted, "sessionId")]) ELSE w

\* The answer to the confirmation itself.
confirmAuthCSRFToken(site, w, token) ==
    IF token = w.session.confirmToken
    THEN Back(200, [w EXCEPT !.session.confirmed = TRUE,
                             !.r.cookies = setSecureCookie(@, "sessionId", w.sid, Now, site.maxAge, "")])
    ELSE Back(401, w)

csrfValidationOK(site, w, token, mode) ==
    \/ ~site.csrf
    \/ w.session.open /\ w.session.confirmed /\ (token = w.session.csrfToken \/ mode = "CSRFTOKEN")
    \/ ~w.session.open /\ mode = "LOGIN"

LoginToken == "00112233445566778899"
SessionCall(site, w, req, mode) ==
    LET auth == Credentials(site, getStringValue(req.posted, "auth"))
        known == w.session.open /\ w.session.confirmed
        full == known /\ w.session.loggedIn
    IN CASE mode = "LOGIN" /\ ~w.session.open /\ (site.csrf => req.token = LoginToken) ->
                procJAPI_Session_LOGIN(site, w, auth)
         [] mode = "POSTLOGIN" /\ known -> procJAPI_Session_POSTLOGIN(w, auth)
         [] mode = "CHPASSWD" /\ full -> procJAPI_Session_CHPASSWD(site, w, auth, getStringValue(req.posted, "newAuth"))
         [] mode = "TESTPASSWD" /\ full -> WithSecret(w, auth.right)
         [] mode = "PASSWDLIST" /\ full -> procJAPI_Session_PASSWDLIST(w)
         [] mode \in {"CSRFTOKEN", "AUTHINFO"} /\ known -> BackWithJson(200, w)
         [] mode = "LOGOUT" /\ w.session.open -> Back(200, [w EXCEPT !.destroy = TRUE])
         [] OTHER -> Back(404, w)

SessionAsked(site, w, req, mode) ==
    IF site.csrf /\ mode = "AUTHCSRF" /\ w.session.open /\ ~w.session.confirmed
    THEN confirmAuthCSRFToken(site, w, req.token)
    ELSE IF csrfValidationOK(site, w, req.token, mode) THEN SessionCall(site, w, req, mode) ELSE Back(404, w)
procJAPI_Session(site, w, req, mode) == SessionAsked(site, Reopened(site, w, req, mode), req, mode)

Left(code, w) == [code |-> code, r |-> w.r, destroyed |-> w.destroy, sid |-> w.sid]
Leave(done) == Left(done.code, sessionDestroy(sessionRelease(done.site, done.w)))
Handled(site, code, w) == [site |-> site, code |-> code, w |-> w]
HandledBy(site, w, a) == Handled(site, a.code, [w EXCEPT !.r = a.r])
HandledSession(site, a) == Handled(site, a.code, a.w)

\* Methods are run in module Methods: no request of japi_exec, nor of api with that mode, is asked here.
Dispatch(site, req, w, mode, gone) ==
    LET asks(route, m) == req.uri = <<"/", route>> \/ (req.uri = <<"/", "api">> /\ (mode = "VERSION") = m) IN
    CASE asks("japi_version", TRUE) -> HandledBy(site, w, Json(200, w.r))
      [] asks("japi_session", FALSE) ->
             HandledSession(site, procJAPI_Session(site, w, req, mode))
      [] OTHER -> HandledBy(site, w, procResource_File(site, w, req, gone))

\* [code, r, destroyed, sid].  Credentials that cannot be read are refused before the
\* session is looked for.
SessionOf(site, req, r) ==
    sessionOpen(site, [r |-> r, sid |-> getStringValue(req.cookies, "sessionId"), session |-> NoSession,
                       release |-> FALSE, destroy |-> FALSE])
procHTTPClientContent(site, req, r, gone) ==
    IF setAuthentications(getStringValue(req.posted, "extraAuth")) /\ fromString(site, getStringValue(req.posted, "auth"))
    THEN Leave(Dispatch(site, req, SessionOf(site, req, r), getStringValue(req.vars, "mode"), gone))
    ELSE [code |-> 400, r |-> r, destroyed |-> FALSE, sid |-> getStringValue(req.cookies, "sessionId")]

===============================================================================
