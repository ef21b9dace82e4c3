--------------------------------- MODULE Url ---------------------------------
(***************************************************************************)
(* url_parse and url_parse_scheme (url.c), checked over the URLs that can  *)
(* be put together from given parts.                                       *)
(***************************************************************************)
EXTENDS CString
LOCAL INSTANCE TLC

CONSTANT UrlParts   \* the parts a URL may have: sets of texts, NULL for none

VARIABLE url        \* the parts of the URL that is parsed, NULL before that

-----------------------------------------------------------------------------
Mqtt == <<109, 113, 116, 116>>

Ws == <<119, 115>>

Scheme(name, port, encrypted) == [name |-> name, port |-> port, encrypted |-> encrypted]

Secure(name) == Append(name, 115)

\* Mutation of Schemes: the plain scheme in front of the encrypted one.
SchemesPlainFirst ==
    <<Scheme(Mqtt, 1883, FALSE), Scheme(Secure(Mqtt), 8883, TRUE),
      Scheme(Ws, 80, FALSE), Scheme(Secure(Ws), 443, TRUE)>>

\* schemes[]
Schemes ==
    <<Scheme(Secure(Mqtt), 8883, TRUE), Scheme(Mqtt, 1883, FALSE),
      Scheme(Secure(Ws), 443, TRUE), Scheme(Ws, 80, FALSE)>>

\* The entry that the loop over the table returns, if there is one: strncmp compares as many
\* bytes as the entry has.
Matching(scheme) ==
    LET fits == {i \in DOMAIN Schemes : Front(scheme, Len(Schemes[i].name)) = Schemes[i].name}
    IN  {i \in fits : \A j \in fits : i <= j}

\* url_parse_scheme, NULL for FALSE
ParseScheme(scheme) ==
    LET found == Matching(scheme)
    IN  IF found = {} THEN NULL ELSE Schemes[CHOOSE i \in found : TRUE]

From(t, p) == IF p = NULL THEN NULL ELSE Rest(t, p)

Upto(t, p, q) == SubSeq(t, p + 1, IF q = NULL THEN Len(t) ELSE q)

\* The path and the query that begin at the pointer p.
PathAndQuery(t, p) ==
    LET question == StrChr(t, p, 63)
    IN  [path |-> Upto(t, p, question), query |-> From(t, IF question = NULL THEN NULL ELSE question + 1)]

\* Mutation of HostAndPort: the host always ends at the slash.
HostToSlash(t, p) ==
    LET colon == StrChr(t, p, 58)
        slash == StrChr(t, p, 47)
    IN  [host |-> Upto(t, p, slash), port |-> IF colon = NULL THEN NULL ELSE Upto(t, colon + 1, slash)]

\* Host and port that begin at the pointer p.  They end at the first slash: where
\* a colon comes after it, port_len is the difference of the two pointers.
HostAndPort(t, p) ==
    LET colon == StrChr(t, p, 58)
        slash == StrChr(t, p, 47)
    IN  [host |-> Upto(t, p, IF colon = NULL THEN slash ELSE colon),
         port |-> IF colon = NULL THEN NULL ELSE Upto(t, colon + 1, slash)]

\* url_parse of the text t
ParseUrl(t) ==
    LET mark    == StrStr(t, 0, <<58, 47, 47>>)
        start   == IF mark = NULL THEN 0 ELSE mark + 3
        isPath  == start < Len(t) /\ t[start + 1] = 47
        at      == StrChr(t, start, 64)
        host    == IF at = NULL THEN start ELSE at + 1
        slash   == IF isPath THEN start ELSE StrChr(t, host, 47)
        none    == [host |-> NULL, port |-> NULL]
        noPath  == [path |-> NULL, query |-> NULL]
    IN  [scheme   |-> IF mark = NULL THEN NULL ELSE Front(t, mark),
         userinfo |-> IF isPath \/ at = NULL THEN NULL ELSE SubSeq(t, start + 1, at)]
        @@ (IF isPath THEN none ELSE HostAndPort(t, host))
        @@ (IF slash = NULL THEN noPath ELSE PathAndQuery(t, slash))

-----------------------------------------------------------------------------
(* URLs to parse.                                                          *)

Optional(before, part, after) == IF part = NULL THEN <<>> ELSE before \o part \o after

Composed(u) ==
    Optional(<<>>, u.scheme, <<58, 47, 47>>) \o Optional(<<>>, u.userinfo, <<64>>)
    \o Optional(<<>>, u.host, <<>>) \o Optional(<<58>>, u.port, <<>>)
    \o Optional(<<>>, u.path, <<>>) \o Optional(<<63>>, u.query, <<>>)

\* scheme://user@host:port/path?query, where everything but the host may be
\* missing, or a path alone; a query needs a path.
Urls ==
    {u \in [scheme : UrlParts.scheme, userinfo : UrlParts.userinfo, host : UrlParts.host,
            port : UrlParts.port, path : UrlParts.path, query : UrlParts.query] :
        /\ u.host = NULL => u.userinfo = NULL /\ u.port = NULL /\ u.path # NULL
        /\ u.path = NULL => u.query = NULL}

UrlInit == url = NULL

UrlNext == url = NULL /\ url' \in Urls

-----------------------------------------------------------------------------
(* Properties.                                                             *)

\* Every part of a URL is found, and none that is not there, as long as no part
\* contains what another one begins with.
UrlPartsFound == url # NULL => ParseUrl(Composed(url)) = url

\* Of two schemes of which one begins like the other, the URL gets the port and
\* the encryption of its own: an encrypted stream is never taken for a plain one.
OwnSchemeFound ==
    url # NULL =>
        \A i \in DOMAIN Schemes :
            url.scheme = Schemes[i].name => ParseScheme(Composed(url)) = Schemes[i]

\* url_parse finds the parts, and url_parse_scheme the entry of the scheme.
UrlUnderstood == UrlPartsFound /\ OwnSchemeFound

=============================================================================
