---------------------------- MODULE MCHttpParser ----------------------------
(***************************************************************************)
(* HttpParser for TLC: the streams.  Requests and responses as libarc      *)
(* writes them, chunked bodies and pipelined pairs; every short URL over a *)
(* small alphabet; and headers and bodies that are folded, repeated,       *)
(* contradictory, too long or broken.                                      *)
(***************************************************************************)
EXTENDS HttpParser

CONSTANTS UrlAlphabet, UrlLength

Req(method, path, queries, headers, body) ==
  [NoMessage EXCEPT !.method = method, !.path = path, !.queries = queries,
                     !.headers = headers, !.body = body]
Res(status, headers, body) ==
  [NoMessage EXCEPT !.status = status, !.headers = headers, !.body = body]

Written(type, wrote, text, ends) ==
  [type |-> type, text |-> text, wrote |-> wrote, ends |-> ends, malformed |-> FALSE]
Raw(type, text) == Written(type, << >>, text, {})
Malformed(type, text) == [Raw(type, text) EXCEPT !.malformed = TRUE]

Body2 == <<"b", CR>>
Plain == <<"/">>
NoHeaders == << >>
CloseHeader == CONNECTION :> CLOSE

\* One message, as the library writes it.
Requests ==
  {Req(m, Plain, << >>, NoHeaders, << >>) : m \in DOMAIN method_strings \ {"CONNECT", "MSEARCH"}}
  \cup {Req("POST", <<"/", "a">>, q, h, b) :
           q \in {<< >>, <<"a">> :> <<"z">>, (<<"a">> :> <<"&">>) @@ (<<"&", "z">> :> <<"a", "=", "1">>)},
           h \in {NoHeaders, <<"x">> :> <<"z", SP, ":">>, CloseHeader},
           b \in {<< >>, Body2}}
Responses ==
  {Res(s, h, b) : s \in {200, 204, 404}, h \in {NoHeaders, CloseHeader},
                  b \in {<< >>, Body2, <<"b", "b", "b", "b", "b", "b", "b", "b", "b", "b", "b", "b">>}}

OneMessage ==
  {LET t == GetReturnStringFromHttpRequest(m)
   IN  Written("REQUEST", <<WithLength(m)>>, t, {Len(t)}) : m \in Requests}
  \cup
  {LET t == GetReturnStringFromHttpResponse(m)
   IN  Written("RESPONSE", <<WithLength(m)>>, t, {Len(t)}) : m \in Responses}

\* A body in chunks, with a trailer; a body that ends with the connection.
ChunkHeader == TRANSFER_ENCODING :> CHUNKED
ChunkedText ==
  <<"2", ";", "z", CR, LF, "b", CR, CR, LF, "1", CR, LF, "b", CR, LF, "0", CR, LF>>
LineOf(method) == method_strings[method] \o <<SP, "/", SP, "H", "TTP/", "1.1", CR, LF>>
StatusOf(code) == <<"H", "TTP/", "1.1", SP>> \o code \o <<SP, "z", CR, LF>>
ChunkedRequest == Req("PUT", Plain, << >>, ChunkHeader, <<"b", CR, "b">>)
ChunkedStream ==
  LineOf("PUT") \o HeaderLines(ChunkHeader) \o NewLine \o ChunkedText \o NewLine
ToTheEnd == Res(200, (<<"x">> :> <<"z">>), Body2)
ToTheEndText == StatusOf(<<"2", "0", "0">>) \o HeaderLines(ToTheEnd.headers) \o NewLine \o Body2

\* Two messages on one connection.
After(m, t) ==
  {LET r == GetReturnStringFromHttpRequest(n)
   IN  Written("REQUEST", <<m, WithLength(n)>>, t \o r, {Len(t), Len(t) + Len(r)}) :
     n \in {Req("GET", Plain, << >>, NoHeaders, << >>), Req("POST", Plain, << >>, NoHeaders, Body2)}}

Streams ==
  OneMessage
  \cup {Written("REQUEST", <<ChunkedRequest>>, ChunkedStream, {Len(ChunkedStream)}),
        Written("RESPONSE", <<ToTheEnd>>, ToTheEndText, {Len(ToTheEndText) + 1})}
  \cup After(ChunkedRequest, ChunkedStream)
  \cup LET m == Req("POST", Plain, << >>, <<"x">> :> <<"z">>, Body2)
       IN  After(WithLength(m), GetReturnStringFromHttpRequest(m))

\* Every URL of at most UrlLength symbols, alone and after some beginnings.
UrlStarts == {<< >>, <<"h", ":", "/", "/">>, <<"h", ":", "/", "/", "[", "a">>,
              <<"h", ":", "/", "/", "a", ":">>}
Urls == {Raw("REQUEST", <<"G", "ET", SP>> \o s \o u \o <<SP, "H">>) :
           s \in UrlStarts, u \in UNION {[1..n -> UrlAlphabet] : n \in 1..UrlLength}}

\* Headers in unusual shapes, alone and in pairs.
Field(name, value) == name \o <<":">> \o value \o NewLine
Folded == NewLine \o <<HT>>
OddHeaders ==
  { Field(<<"x">>, << >>), Field(<<"x">>, <<SP, "z">> \o Folded \o <<"z">>),
    <<"x", ":", "z", LF>>, Field(<<"con", "n", "z">>, CLOSE), Field(<<"x">>, Folded \o <<"z">>),
    Field(CONNECTION, CLOSE \o <<",", SP>> \o KEEP_ALIVE),
    Field(CONNECTION, KEEP_ALIVE \o <<"z">>), Field(CONNECTION, <<"u", "pgrade">>),
    Field(<<"p", "roxy-connection">>, <<"z", ",">> \o CLOSE), Field(<<"u", "pgrade">>, <<"z">>),
    Field(CONTENT_LENGTH, <<"2", SP>>), Field(CONTENT_LENGTH, <<"2">> \o Folded),
    Field(TRANSFER_ENCODING, <<"z", ",", SP>> \o CHUNKED), Field(TRANSFER_ENCODING, CHUNKED \o <<SP>>),
    Field(TRANSFER_ENCODING \o <<"z">>, <<"z">>), Field(CONNECTION, Folded \o CLOSE) }
Odd ==
  {Raw("REQUEST", LineOf("GET") \o g \o h \o NewLine \o <<"b", "0">>) :
     g \in OddHeaders, h \in OddHeaders}
  \cup {Raw("RESPONSE", StatusOf(<<"2", "0", "0">>) \o g \o NewLine \o <<"b", "0">>) : g \in OddHeaders}
  \cup {Raw("REQUEST", <<"S", "O", "URCE", SP, "/", SP, "I", "CE/", "1.0", LF, LF>>),
        Raw("REQUEST", <<CR, LF, "G", "ET", SP, "/", CR, LF, LF>>),
        Raw("REQUEST", <<"C", "O", "N", "NECT", SP, "h", ":", "1", SP, "H", "TTP/", "1.1", CR, LF, CR, LF, "b">>),
        Raw("RESPONSE", StatusOf(<<"1", "0", "1">>) \o NewLine \o <<"b">>),
        Raw("RESPONSE", <<"H", "TTP/", "1.0", SP, "2", LF, LF, "b">>)}

Length(digits) == Field(CONTENT_LENGTH, digits)
ChunkedField == Field(TRANSFER_ENCODING, CHUNKED)
Long == [i \in 1..max_header_size |-> "z"]
Wrong ==
  {Malformed(t, (IF t = "REQUEST" THEN LineOf("PUT") ELSE StatusOf(<<"2", "0", "0">>)) \o h) :
     t \in {"REQUEST", "RESPONSE"},
     h \in { Length(<<"2">>) \o Length(<<"2">>) \o NewLine, Length(<<"2">>) \o ChunkedField \o NewLine,
             ChunkedField \o Length(<<"2">>) \o NewLine, Length(<<"9", "9">>) \o NewLine,
             Length(<<"8", "0", "1">>) \o NewLine, Length(<<"z">>) \o NewLine,
             Length(<< >>) \o NewLine, Length(<<"2", SP, "2">>) \o NewLine,
             Length(<<"2">> \o Folded \o <<"2">>) \o NewLine,
             ChunkedField \o NewLine \o <<"z">>, ChunkedField \o NewLine \o <<"6", "0", "0">>,
             ChunkedField \o NewLine \o <<"1", CR, LF, "b", "b">>,
             ChunkedField \o NewLine \o <<"0", CR, CR>>,
             Field(<<"x">>, Long), Field(Long, <<"z">>), Field(<<"x">>, <<"z", CTL>>),
             Field(<<"x", SP>>, <<"z">>), <<"x", ":", "z", CR, "z">> }}
  \cup {Malformed("REQUEST", LineOf("PUT") \o Field(TRANSFER_ENCODING, <<"z">>) \o NewLine),
        Malformed("RESPONSE", <<"H", "TTP/", "1.1", SP, "9", "9", "9", "9">>),
        Malformed("RESPONSE", <<"H", "z">>), Malformed("REQUEST", <<"G", "z">>)}

MCSources == Streams \cup Urls \cup Odd \cup Wrong
MCWritten == OneMessage
=============================================================================
