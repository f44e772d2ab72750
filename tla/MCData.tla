-------------------------------- MODULE MCData ---------------------------------
(* What runs inside one call or one exchange: containers, parsers, HTTP, the *)
(* methods' guard, SQL statements, the client application's configuration    *)
(* and the greeting of remote authentication.  They share no state: of one   *)
(* behaviour only one part moves, and the others stay as they are made.      *)
EXTENDS Containers, Parsers, HttpExchange, Methods, Statement, RpcClient, RemoteLogin

CONSTANT Parts   \* those that are run
VARIABLE part    \* the one of this behaviour

-------------------------------------------------------------------------------
(* Texts for the parsers. *)

MCBytes == {"a", "A", "b", "q", "LF", "CR", "=", "&", "%", "+", " ", ":", ";", "quote", "-", "B", "d", "f", "n", "x",
            "0", "1", "2", "3", "4", "5", "6", "nul"}
MCFold == [b \in MCBytes |-> IF b = "a" THEN "A" ELSE b]
MCHex == [b \in {"=", "&", "%", "+", " ", "A"} |->
    CASE b = "=" -> <<"3", "d">> [] b = "&" -> <<"2", "6">> [] b = "%" -> <<"2", "5">>
      [] b = "+" -> <<"2", "b">> [] b = " " -> <<"2", "0">> [] b = "A" -> <<"4", "1">>]
MCPlain == MCBytes \ {"=", "&", "%", "+", " "}
MCDigits == {"0", "1", "2", "3", "4", "5", "6", "d", "b", "f"}
MCHexDigits == <<"0", "1", "2", "3", "4", "5", "6">>
MCTerms == [disposition |-> <<"d">>, formData |-> <<"f">>, name |-> <<"n">>]
MCBoundary == <<"B">>
MCRefuse == <<"q">>

\* Lines of a, b and the refused one, too long ones included.
LineJobs ==
    {[proto |-> "line", text |-> s, wrote |-> <<>>] : s \in
        UNION {[1..k -> {"a", "q", "LF"}] : k \in 0..4}
        \cup {<<"a", "a", "a", "a", "a", "LF">>, <<"LF", "a", "a", "a", "a", "a">>, <<"a", "a", "a", "a", "a", "a">>}}

\* Fields as a client writes them: every name with its equal sign.
Written(fields) ==
    FlattenSeq([i \in DOMAIN fields |->
        (IF i = 1 THEN <<>> ELSE <<"&">>) \o Encode(fields[i].name) \o <<"=">> \o Encode(fields[i].value)])
Field(name, value) == [name |-> name, value |-> value]
VarJobs ==
    {[proto |-> "vars", text |-> Written(fs), wrote |-> fs] : fs \in
        {<<Field(<<"a">>, <<"b">>)>>,
         <<Field(<<"a">>, <<"=", "&">>), Field(<<"A">>, <<" ">>)>>,
         <<Field(<<"+">>, <<"%">>), Field(<<"x">>, <<"a", "%">>)>>,
         <<Field(<<"a">>, <<"b", "b", "b", "b">>)>>}}
    \cup {[proto |-> "vars", text |-> <<"a", "=", "%", "4">>, wrote |-> <<Field(<<"a">>, <<"%", "4">>)>>],
          [proto |-> "vars", text |-> <<"x", "=", "%", "4", "1", "&", "b", "=", "a", "+", "a">>,
           wrote |-> <<Field(<<"x">>, <<"A">>), Field(<<"b">>, <<"a", " ", "a">>)>>]}

\* A part as a browser writes it: a header line with the name, quoted, and one more.
PartText(name, content) ==
    <<"d", ":", " ", "f", ";", " ", "n", "=", "quote">> \o name \o <<"quote">> \o CrLf
    \o <<"x", ":", " ", "b">> \o CrLf \o CrLf \o content
MimeText(parts) ==
    DashDash \o MCBoundary
    \o FlattenSeq([i \in DOMAIN parts |-> CrLf \o PartText(parts[i].name, parts[i].content)
                                            \o CrLf \o DashDash \o MCBoundary])
    \o DashDash \o CrLf
Part(name, content) == [name |-> name, header |-> 2, content |-> content]
MimeJobs ==
    {[proto |-> "mime", text |-> MimeText(parts), wrote |-> parts] : parts \in
        {<<Part(<<"a">>, <<>>)>>,
         <<Part(<<"a", ";">>, <<"CR", "LF", "-", "b">>)>>,
         <<Part(<<"a">>, <<"CR", "CR", "LF", "-">>), Part(<<"A">>, <<"b">>)>>}}

ContentJobs ==
    {[proto |-> "chunks", text |-> ChunkedStream(pieces), wrote |-> FlattenSeq(pieces)] : pieces \in
        {<<<<"a">>>>, <<<<"CR", "LF">>, <<"0", "CR", "LF">>>>, <<<<"a", "b", "1", "2">>, <<"a">>>>}}
    \cup {[proto |-> "length", text |-> s \o <<"x">>, wrote |-> s] : s \in {<<"a">>, <<"a", "CR", "LF", "b">>}}
    \cup {[proto |-> "close", text |-> s, wrote |-> s] : s \in {<<"a">>, <<"a", "CR", "LF", "b">>}}

MCJobs == LineJobs \cup VarJobs \cup MimeJobs \cup ContentJobs

-------------------------------------------------------------------------------
(* Requests and sites. *)

MCEscapes == ("%2e" :> ".html") @@ ("+" :> " ")
MCNumber == ("0" :> 0) @@ ("1" :> 1) @@ ("2" :> 2) @@ ("8080" :> 8080)
MCMimeTypes == (".html" :> "text/html") @@ (".css" :> "text/css")

Ask == [method |-> "GET", uri |-> <<"/", "page">>, vars |-> <<>>, major |-> "1", host |-> "", port |-> "80", user |-> "",
        pass |-> "", agent |-> "agent", cookies |-> <<>>, headers |-> NoHeaders, body |-> <<>>]
Session(id) == <<[name |-> "sessionId", value |-> id]>>
AskSession(mode, cookies) ==
    [Ask EXCEPT !.uri = <<"/", "japi_session">>, !.vars = <<"mode", "=", mode>>, !.cookies = cookies]
WithBody(a, type, body) == [a EXCEPT !.method = "POST", !.headers = replace(@, "Content-Type", type), !.body = body]
Form == "application/x-www-form-urlencoded"
Posting(mode, token, body) ==
    WithBody([AskSession(mode, Session("alice")) EXCEPT !.headers = replace(@, "CSRFToken", token)], Form, body)
Giving(name, value) == <<name, "=", value>>
MCAsked ==
    {[Ask EXCEPT !.uri = uri, !.cookies = cookies] :
        uri \in {<<"/">>, <<"/", "page">>, <<"/", "page", "%2e">>, <<"/", "dir">>, <<"/", "style", ".css">>,
                 <<"/", "none">>, <<"/", "out">>, <<"/", "pipe">>, <<"/", "locked">>, <<"/", "a", " ", "b">>},
        cookies \in {<<>>, Session("alice"), Session("old")}}
    \cup {AskSession(mode, cookies) : mode \in {"LOGIN", "LOGOUT", "AUTHCSRF"},
                                      cookies \in {<<>>, Session("alice"), Session("old")}}
    \cup {WithBody(AskSession("AUTHCSRF", cookies), type, <<"sessionId", "=", "alice">>) :
              cookies \in {<<>>, Session("old")}, type \in {Form, "multipart/form-data", "text/plain"}}
    \cup {[Ask EXCEPT !.uri = <<"/", "api">>, !.vars = <<"mode", "=", "VERSION">>, !.host = "host", !.port = "8080",
                      !.user = "user", !.pass = "pass",
                      !.headers = replace(NoHeaders, "Authorization", <<"Basic", <<"user", ":", "pass">>>>)],
          [Ask EXCEPT !.major = "2"],
          [Ask EXCEPT !.vars = <<"q", "=", "include">>, !.cookies = Session("alice")],
          [Ask EXCEPT !.cookies = Session("alice") \o <<[name |-> "b", value |-> "c"]>>],
          WithBody(Ask, Form, <<"a", "=", "b", "&", "c", "=", "d", "&">>),
          WithBody(Ask, Form, <<"extraAuth", "=", "good">>), WithBody(Ask, Form, <<"extraAuth", "=", "{">>),
          WithBody(AskSession("LOGIN", Session("old")), Form, Giving("auth", "{}")),
          WithBody([AskSession("LOGIN", <<>>) EXCEPT !.headers = replace(@, "CSRFToken", LoginToken)], Form, Giving("auth", "good")),
          WithBody(AskSession("LOGIN", <<>>), Form, Giving("auth", "other"))}
    \cup {Posting(mode, "token", Giving("auth", secret)) : mode \in {"POSTLOGIN", "TESTPASSWD"}, secret \in {"good", "wrong"}}
    \cup {Posting("CHPASSWD", "token", Giving("auth", both[1]) \o <<"&">> \o Giving("newAuth", both[2])) :
              both \in {<<"good", "good">>, <<"good", "other">>, <<"wrong", "good">>}}
    \cup {Posting(mode, "token", <<"a", "=", "b">>) : mode \in {"PASSWDLIST", "AUTHINFO", "LOGOUT"}}
    \cup {Posting("CSRFTOKEN", "confirm", <<"a", "=", "b">>), Posting("AUTHCSRF", "confirm", <<"a", "=", "b">>)}

File(kind, readable) == [kind |-> kind, readable |-> readable, executable |-> FALSE]
Rule(uris, req, rej, action) ==
    [uris |-> uris, req |-> req, rej |-> rej, action |-> action,
     redirectLocation |-> IF action = "REDIRECT" THEN "/login" ELSE ""]
Page == <<"/", "page", ".html">>
Top == <<"/", "head">>
Usual == [hsts |-> HSTSDefaults, xframe |-> XFrameDefaults, xss |-> XSSDefaults, realm |-> ""]
Strict == [Usual EXCEPT !.hsts = [activated |-> TRUE, flags |-> {"preload"}, maxAge |-> 5],
                        !.xframe = [value |-> "ALLOWFROM", fromURL |-> "u"],
                        !.xss = [activated |-> TRUE, blocking |-> FALSE, reportURL |-> "u"], !.realm = "realm"]
Loose == [Usual EXCEPT !.xframe.value = "NONE", !.xss.activated = FALSE, !.hsts.activated = TRUE]

\* A session of a site without tokens is never confirmed.
Alice == [open |-> TRUE, user |-> "alice", attribs |-> {"staff"}, domain |-> TRUE, vars |-> "color" :> "red",
          confirmed |-> FALSE, confirmToken |-> "confirm", csrfToken |-> "token", loggedIn |-> TRUE]
Confirmed == [Alice EXCEPT !.confirmed = TRUE]

Site0 ==
    [root |-> <<"/">>, static |-> {<<"/", "style", ".css">>}, date |-> TRUE, filtered |-> TRUE, interactive |-> TRUE,
     files |-> (Page :> File("file", TRUE)) @@ (<<"/", "dir">> :> File("dir", TRUE))
               @@ (<<"/", "index", ".html">> :> File("file", TRUE)) @@ (<<"/", "out">> :> File("outside", TRUE))
               @@ (Top :> File("file", TRUE)) @@ (<<"/", "pipe">> :> File("special", TRUE)) @@ (<<"/", "locked">> :> File("file", FALSE)),
     rules |-> <<>>, redirectOn404 |-> "", csrf |-> FALSE, login |-> "new", maxAge |-> 5, chunked |-> FALSE,
     sessions |-> ("alice" :> Alice),
     auths |-> ("good" :> [idx |-> 0, right |-> TRUE]) @@ ("wrong" :> [idx |-> 0, right |-> FALSE])
               @@ ("other" :> [idx |-> 1, right |-> TRUE]),
     pages |-> (Page :> <<Include(Top), Text("body"), Tag("jgetvar", "q"), Tag("jsess", "color"), Include(<<"/", "gone">>)>>)
               @@ (Top :> <<Include(<<"/", "out">>), Tag("jvar", "user"), Tag("jfunc", "list"),
                             Include(<<"/", "style", ".css">>)>>)
               @@ (<<"/", "out">> :> <<Text("title"), Tag("jpostvar", "a"), Tag("jvar", "userAgent")>>),
     uriAnswers |-> {TRUE}, headerAnswers |-> {TRUE}, security |-> Usual]
MCSites ==
    {Site0,
     [Site0 EXCEPT !.rules = <<Rule({Page}, {"staff"}, {}, "ACCEPT"), Rule({Page, Top}, {}, {}, "DENY")>>,
                   !.redirectOn404 = "/home", !.security = Strict],
     [Site0 EXCEPT !.rules = <<Rule({Page, <<"/", "style", ".css">>}, {}, {"loggedin"}, "REDIRECT")>>,
                   !.security = Loose, !.chunked = TRUE, !.static = @ \cup {Page}],
     [Site0 EXCEPT !.filtered = FALSE, !.interactive = FALSE, !.csrf = TRUE, !.date = FALSE,
                   !.sessions = "alice" :> Confirmed],
     [Site0 EXCEPT !.root = <<>>, !.login = "", !.csrf = TRUE,
                   !.sessions = "alice" :> [Confirmed EXCEPT !.domain = FALSE, !.loggedIn = TRUE]],
     [Site0 EXCEPT !.root = <<>>, !.uriAnswers = BOOLEAN, !.headerAnswers = BOOLEAN, !.csrf = TRUE]}
-------------------------------------------------------------------------------
(* Methods: for an attribute, for a full session; the names of parameters. *)

MCTable == ("pay" :> [attribs |-> {"a"}, full |-> FALSE]) @@ ("rule" :> [attribs |-> {}, full |-> TRUE])
MCAttribIndexes == ("a" :> {1})
MCNames == <<<<":", "a">>, <<":", "a", "b">>, <<":", "b">>>>
MCValidTime == (0 :> 0) @@ (1 :> 1)

-------------------------------------------------------------------------------
Idle == [proto |-> "none", text |-> <<>>, wrote |-> <<>>]

NoStatement == driver = "sqlite3" /\ tokens = <<>> /\ types = [column \in Columns |-> "fixed"]

Init ==
    /\ part \in Parts
    /\ IF part = "containers" THEN CInit
       ELSE c = Container(0, 0) /\ text = <<>> /\ odd = FALSE /\ steps = MaxSteps
    /\ IF part = "parsers" THEN PInit
       ELSE job = Idle /\ p = LineRecv /\ seen = 0 /\ fragments = 0 /\ open = FALSE
    /\ HInit /\ (part = "http" \/ (asked = Ask /\ site = Site0))
    /\ MethodsInit
    /\ SInit /\ (IF part = "statement" THEN types[2] = "text" \/ tokens # <<>> ELSE NoStatement)
    /\ RcInit /\ (part = "client" \/ c2.config = CHOOSE config \in Configs : TRUE)
    /\ RlInit /\ (part = "login" \/ peers.client.key = EmptyKey)

Next ==
    \/ part = "containers" /\ CNext /\ UNCHANGED <<part, pvars, hvars, mvars, svars, rcvars, rlvars>>
    \/ part = "parsers" /\ PNext /\ UNCHANGED <<part, cvars, hvars, mvars, svars, rcvars, rlvars>>
    \/ part = "http" /\ HNext /\ UNCHANGED <<part, cvars, pvars, mvars, svars, rcvars, rlvars>>
    \/ part = "methods" /\ MethodsNext /\ UNCHANGED <<part, cvars, pvars, hvars, svars, rcvars, rlvars>>
    \/ part = "statement" /\ SNext /\ UNCHANGED <<part, cvars, pvars, hvars, mvars, rcvars, rlvars>>
    \/ part = "client" /\ RcNext /\ UNCHANGED <<part, cvars, pvars, hvars, mvars, svars, rlvars>>
    \/ part = "login" /\ RlNext /\ UNCHANGED <<part, cvars, pvars, hvars, mvars, svars, rcvars>>

Spec == Init /\ [][Next]_<<part, cvars, pvars, hvars, mvars, svars, rcvars, rlvars>>
===============================================================================
