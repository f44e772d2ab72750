-------------------------------- MODULE Headers --------------------------------
(***************************************************************************)
(* The headers of an HTTP message and the values that have a form of their *)
(* own (src/Protocols/mdz_proto_http/hdr_*, rsp_cookies): how each is      *)
(* written and how it is read back.  A list of directives is the function  *)
(* from their names to what is said of each; words, where the order        *)
(* counts, are a sequence.                                                 *)
(***************************************************************************)
EXTENDS Integers, Sequences, FiniteSetsExt, TLC

CONSTANTS
    Never,      \* the largest age there is: the cookie does not expire by age
    ZoneOffset  \* what mktime takes away: the machine's distance from GMT

ASSUME HeadersAssumption == Never \in Nat /\ ZoneOffset \in Int

(***************************************************************************)
(* Headers: by name, the values in the order they were added.              *)
(***************************************************************************)
NoHeaders == [name \in {} |-> <<>>]
exist(h, name) == name \in DOMAIN h
getOption(h, name, otherwise) == IF exist(h, name) THEN h[name][1] ELSE otherwise
remove(h, name) == [n \in DOMAIN h \ {name} |-> h[n]]
Put(f, name, value) == [n \in DOMAIN f \cup {name} |-> IF n = name THEN value ELSE f[n]]
add(h, name, value) == Put(h, name, IF exist(h, name) THEN Append(h[name], value) ELSE <<value>>)
replace(h, name, value) == add(remove(h, name), name, value)

(***************************************************************************)
(* Directives: those with nothing to say, and those said only if it holds. *)
(***************************************************************************)
Flags(names) == [n \in names |-> ""]
If(holds, name, value) == IF holds THEN name :> value ELSE Flags({})
Said(text, name, otherwise) == IF name \in DOMAIN text THEN text[name] ELSE otherwise

(***************************************************************************)
(* Cache-Control.  must-revalidate is written and never read; no-store is  *)
(* among the defaults, so it is always read.                               *)
(***************************************************************************)
CacheFlags == {"must-revalidate", "proxy-revalidate", "no-transform", "immutable", "no-store", "no-cache",
               "private", "public"}
CacheDefaults == [flags |-> {"no-store"}, maxAge |-> 0, sMaxAge |-> 0]
cacheToString(c) ==
    Flags(c.flags) @@ If(c.maxAge # 0, "max-age", c.maxAge) @@ If(c.sMaxAge # 0, "s-maxage", c.sMaxAge)
cacheFromStringOneAge(text) ==
    [flags |-> CacheDefaults.flags \cup (DOMAIN text \cap (CacheFlags \ {"must-revalidate"})),
     maxAge |-> Said(text, "s-maxage", 0), sMaxAge |-> Said(text, "s-maxage", 0)]
cacheFromString(text) ==
    [flags |-> CacheDefaults.flags \cup (DOMAIN text \cap (CacheFlags \ {"must-revalidate"})),
     maxAge |-> Said(text, "max-age", 0), sMaxAge |-> Said(text, "s-maxage", 0)]

(***************************************************************************)
(* Strict-Transport-Security.  The age is read from the whole of           *)
(* "max-age=n", which is no number.                                        *)
(***************************************************************************)
HSTSDefaults == [activated |-> FALSE, flags |-> {}, maxAge |-> 0]
hstsToValue(s) == IF s.activated THEN Flags(s.flags) @@ If(s.maxAge # 0, "max-age", s.maxAge) ELSE Flags({})
hstsFromValue(text) ==
    [activated |-> DOMAIN text # {}, maxAge |-> 0,
     flags |-> DOMAIN text \cap {"preload", "includeSubDomains"}]

(***************************************************************************)
(* X-Frame-Options: whatever is read denies.                               *)
(***************************************************************************)
XFrameDefaults == [value |-> "DENY", fromURL |-> ""]
isNotActivated(x) == x.value = "NONE"
xframeToValue(x) ==
    CASE x.value = "ALLOWFROM" -> <<"ALLOW-FROM", x.fromURL>>
      [] x.value = "NONE" -> <<>>
      [] x.value \in {"DENY", "SAMEORIGIN"} -> <<x.value>>
xframeFromValue(words) ==
    [XFrameDefaults EXCEPT !.fromURL = IF Len(words) >= 2 /\ words[1] = "ALLOW-FROM" THEN words[2] ELSE ""]

(***************************************************************************)
(* X-XSS-Protection: "0" or "1" and its directives.  Alone, "1" leaves the *)
(* blocking of the defaults.                                               *)
(***************************************************************************)
XSSDefaults == [activated |-> TRUE, blocking |-> TRUE, reportURL |-> ""]
xssToValue(x) ==
    IF ~x.activated THEN [first |-> "0", rest |-> Flags({})]
    ELSE [first |-> "1", rest |-> If(x.blocking, "mode", "block") @@ If(x.reportURL # "", "report", x.reportURL)]
xssFromValue(v) ==
    IF v.first # "1" \/ DOMAIN v.rest = {} THEN [XSSDefaults EXCEPT !.activated = v.first = "1"]
    ELSE [activated |-> TRUE, blocking |-> Said(v.rest, "mode", "") = "block",
          reportURL |-> Said(v.rest, "report", "")]

(***************************************************************************)
(* Cookies: as the server sets them, by name.                              *)
(***************************************************************************)
CookieDefaults ==
    [value |-> "", expires |-> 0, max_age |-> Never, secure |-> FALSE, httpOnly |-> FALSE,
     domain |-> "", path |-> "", sameSite |-> "Lax"]

\* The first is the cookie's own name and value.
toSetCookieString(name, c) ==
    ("cookie" :> <<name, c.value>>) @@ ("SameSite" :> c.sameSite)
    @@ If(c.expires # 0, "Expires", c.expires) @@ If(c.max_age # Never, "Max-Age", c.max_age)
    @@ If(c.secure, "Secure", "") @@ If(c.httpOnly, "HttpOnly", "")
    @@ If(c.domain # "", "Domain", c.domain) @@ If(c.path # "", "Path", c.path)

\* [name, cookie].  A date is written as GMT, and read as the machine's time.
fromSetCookieString(text) ==
    [name |-> text["cookie"][1],
     cookie |-> [value |-> text["cookie"][2], max_age |-> Said(text, "Max-Age", Never),
                 expires |-> IF "Expires" \in DOMAIN text THEN text["Expires"] - ZoneOffset ELSE 0,
                 secure |-> "Secure" \in DOMAIN text, httpOnly |-> "HttpOnly" \in DOMAIN text,
                 domain |-> Said(text, "Domain", ""), path |-> Said(text, "Path", ""),
                 sameSite |-> Said(text, "SameSite", "Lax")]]

NoCookies == [name \in {} |-> CookieDefaults]

\* A cookie that is there stays.
addCookieVal(cookies, name, c) == IF name \in DOMAIN cookies THEN cookies ELSE Put(cookies, name, c)
parseCookie(cookies, text) ==
    LET read == fromSetCookieString(text) IN
    IF read.name = "" THEN cookies ELSE addCookieVal(cookies, read.name, read.cookie)

addClearSecureCookieIfNone(cookies, name, path) ==
    addCookieVal(cookies, name, [CookieDefaults EXCEPT !.path = path, !.secure = TRUE, !.httpOnly = TRUE,
                                                       !.expires = 1, !.sameSite = "Strict"])
\* Expired long ago, in the place of what is there.
addClearSecureCookie(cookies, name, path) ==
    Put(cookies, name, [CookieDefaults EXCEPT !.path = path, !.secure = TRUE, !.httpOnly = TRUE,
                                              !.expires = 1, !.sameSite = "Strict"])

setSecureCookie(cookies, name, value, now, age, path) ==
    addCookieVal(cookies, name,
        [CookieDefaults EXCEPT !.value = value, !.path = path, !.secure = TRUE, !.httpOnly = TRUE,
                               !.expires = now + age, !.max_age = age, !.sameSite = "Strict"])

\* One header for each.
putOnHeaders(cookies, h) ==
    FoldSet(LAMBDA name, acc : add(acc, "Set-Cookie", toSetCookieString(name, cookies[name])), h, DOMAIN cookies)

===============================================================================
