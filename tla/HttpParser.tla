----------------------------- MODULE HttpParser -----------------------------
(***************************************************************************)
(* http_parser_execute of src/src/http/http_parser.cc, which reads a       *)
(* stream in pieces of any length and keeps its place between them, and    *)
(* the class HttpParser, which fills an HttpRequest or an HttpResponse     *)
(* from its callbacks.                                                     *)
(*                                                                         *)
(* The record x is the parser (struct http_parser) together with what a    *)
(* call of http_parser_execute keeps in local variables: the text, the     *)
(* position p in it (from 1), the marks (0: not set) and, as "out", the    *)
(* callbacks made.  A symbol stands for one byte: lengths and limits are   *)
(* counted in symbols.  One state of the code is one value of x.state,     *)
(* except that "TTP/", a version number and the letters of a keyword up to *)
(* the next place where the code tells two keywords apart are one symbol   *)
(* each, and the states between them one state.  Built with                *)
(* HTTP_PARSER_STRICT, asserts on, and the settings of libarc: no callback *)
(* fails, and none is installed for the end of the headers.                *)
(***************************************************************************)
EXTENDS HttpUrl, FiniteSets

CONSTANTS ULLONG_MAX,          \* "no length known", and the bound of a length
          max_header_size,
          Sources,             \* the streams that may arrive (see Init)
          ReadSizes            \* how much one read may bring, when it does not reach the
                               \* end of a message or of the stream

VARIABLES
  source,     \* the stream: its type and text, and the message written into it, if any
  sent,       \* how much of it has been read; one more once its end has been
  parser,     \* struct http_parser
  called,     \* history: the callbacks, as <<name, text>>, the pieces of a string put together
  message,    \* the HttpRequest or HttpResponse that is being filled
  result,     \* of the last ParseOnce or ParseResponse: "ok", "error" or "abort"
  delivered,  \* history: the messages handed to the application
  intact      \* history: no read ended inside a URL, a header's name or its value,
              \* or went past the end of a message

vars == <<source, sent, parser, called, message, result, delivered, intact>>

Marks == {"header_field", "header_value", "url", "body", "status"}

http_parser_init(type) ==
  [type |-> type, state |-> IF type = "REQUEST" THEN "s_start_req" ELSE "s_start_res",
   header_state |-> "h_general", index |-> 0, nread |-> 0, flags |-> {},
   uses_transfer_encoding |-> FALSE, content_length |-> 0, version |-> "0.0",
   status_code |-> 0, method |-> "DELETE", upgrade |-> FALSE, errno |-> "OK",
   data |-> << >>, p |-> 1, mark |-> [f \in Marks |-> 0], out |-> << >>, again |-> FALSE,
   returned |-> FALSE]

(***************************************************************************)
(* The macros.  A step that sets errno ends the call at p; a failed        *)
(* assert ends the program.                                                *)
(***************************************************************************)
UPDATE_STATE(x, s) == [x EXCEPT !.state = s]
REEXECUTE(x, s) == [x EXCEPT !.state = s, !.again = TRUE]
SET_ERRNO(x, e) == [x EXCEPT !.errno = e]
RETURN(x) == [x EXCEPT !.returned = TRUE]
Require(cond, x, y) == IF cond THEN y ELSE SET_ERRNO(x, "ASSERT")
STRICT_CHECK(cond, x, y) == IF cond THEN SET_ERRNO(x, "STRICT") ELSE y

CALLBACK_NOTIFY(x, name) == [x EXCEPT !.out = Append(@, <<name, << >> >>)]
MARK(x, f) == [x EXCEPT !.mark[f] = IF @ = 0 THEN x.p ELSE @]

\* The text since the mark, up to but not including position "end".
CALLBACK_DATA(x, f, end) ==
  IF x.mark[f] = 0 THEN x
  ELSE [x EXCEPT !.out = Append(@, <<f, SubSeq(x.data, x.mark[f], end - 1)>>), !.mark[f] = 0]

COUNT_HEADER_SIZE(x, n) ==
  IF x.nread + n > max_header_size
  THEN [x EXCEPT !.nread = @ + n, !.errno = "HEADER_OVERFLOW"]
  ELSE [x EXCEPT !.nread = @ + n]

Ch(x) == x.data[x.p]
Left(x) == Len(x.data) - x.p + 1
\* The next character, unless this one is to be looked at again or was an error.
Advance(x) == IF x.again \/ x.errno # "OK" THEN x ELSE [x EXCEPT !.p = @ + 1]

BodyStates == {"s_chunk_data", "s_chunk_data_almost_done", "s_chunk_data_done",
               "s_body_identity", "s_body_identity_eof", "s_message_done"}
\* Mutant: the states of a chunk's size taken for body states.
PARSING_HEADER_NoChunks(x) == x.state \notin BodyStates \cup {"s_chunk_size_start"}
PARSING_HEADER(x) == x.state \notin BodyStates

http_message_needs_eof(x) ==
  /\ x.type # "REQUEST"
  /\ x.status_code \div 100 # 1 /\ x.status_code \notin {204, 304}
  /\ \/ x.uses_transfer_encoding /\ "CHUNKED" \notin x.flags
     \/ "CHUNKED" \notin x.flags /\ x.content_length = ULLONG_MAX

http_should_keep_alive(x) ==
  /\ IF x.version = "1.1" THEN "CONNECTION_CLOSE" \notin x.flags
                          ELSE "CONNECTION_KEEP_ALIVE" \in x.flags
  /\ ~http_message_needs_eof(x)

NEW_MESSAGE(x) ==
  IF ~http_should_keep_alive(x) THEN "s_dead"
  ELSE IF x.type = "REQUEST" THEN "s_start_req" ELSE "s_start_res"

(***************************************************************************)
(* The first line.  method_strings as compiled: the macro prints           *)
(* "M - SEARCH" with blanks.  A name is cut where the code may change its  *)
(* guess at the method.                                                    *)
(***************************************************************************)
method_strings ==
  [DELETE |-> <<"D", "ELETE">>, GET |-> <<"G", "ET">>, HEAD |-> <<"H", "EAD">>,
   POST |-> <<"P", "O", "ST">>, PUT |-> <<"P", "U", "T">>, PATCH |-> <<"P", "A", "TCH">>,
   PURGE |-> <<"P", "U", "R", "GE">>, PROPFIND |-> <<"P", "R", "O", "P", "F", "IND">>,
   PROPPATCH |-> <<"P", "R", "O", "P", "P", "ATCH">>, CONNECT |-> <<"C", "O", "N", "NECT">>,
   COPY |-> <<"C", "O", "P", "Y">>, CHECKOUT |-> <<"C", "H", "ECKOUT">>,
   OPTIONS |-> <<"O", "PTIONS">>, TRACE |-> <<"T", "RACE">>, ACL |-> <<"A", "CL">>,
   BIND |-> <<"B", "IND">>, NOTIFY |-> <<"N", "OTIFY">>, LOCK |-> <<"L", "O", "CK">>,
   LINK |-> <<"L", "I", "NK">>, MKCOL |-> <<"M", "K", "C", "O", "L">>,
   MOVE |-> <<"M", "O", "VE">>, MERGE |-> <<"M", "E", "RGE">>,
   MSEARCH |-> <<"M", SP, "-", SP, "SEARCH">>, MKACTIVITY |-> <<"M", "K", "A", "CTIVITY">>,
   MKCALENDAR |-> <<"M", "K", "C", "A", "LENDAR">>, REPORT |-> <<"R", "E", "P", "ORT">>,
   REBIND |-> <<"R", "E", "B", "IND">>, SUBSCRIBE |-> <<"S", "U", "BSCRIBE">>,
   SEARCH |-> <<"S", "E", "ARCH">>, SOURCE |-> <<"S", "O", "URCE">>,
   UNLOCK |-> <<"U", "N", "L", "O", "CK">>, UNSUBSCRIBE |-> <<"U", "N", "S", "UBSCRIBE">>,
   UNBIND |-> <<"U", "N", "B", "IND">>, UNLINK |-> <<"U", "N", "L", "I", "NK">>]

FirstGuess ==
  ("A" :> "ACL") @@ ("B" :> "BIND") @@ ("C" :> "CONNECT") @@ ("D" :> "DELETE")
    @@ ("G" :> "GET") @@ ("H" :> "HEAD") @@ ("L" :> "LOCK") @@ ("M" :> "MKCOL")
    @@ ("N" :> "NOTIFY") @@ ("O" :> "OPTIONS") @@ ("P" :> "POST") @@ ("R" :> "REPORT")
    @@ ("S" :> "SUBSCRIBE") @@ ("T" :> "TRACE") @@ ("U" :> "UNLOCK")

NewGuess ==
  (<<"POST", 1, "U">> :> "PUT") @@ (<<"POST", 1, "A">> :> "PATCH")
    @@ (<<"POST", 1, "R">> :> "PROPFIND") @@ (<<"PUT", 2, "R">> :> "PURGE")
    @@ (<<"CONNECT", 1, "H">> :> "CHECKOUT") @@ (<<"CONNECT", 2, "P">> :> "COPY")
    @@ (<<"MKCOL", 1, "O">> :> "MOVE") @@ (<<"MKCOL", 1, "E">> :> "MERGE")
    @@ (<<"MKCOL", 1, "-">> :> "MSEARCH") @@ (<<"MKCOL", 2, "A">> :> "MKACTIVITY")
    @@ (<<"MKCOL", 3, "A">> :> "MKCALENDAR") @@ (<<"SUBSCRIBE", 1, "E">> :> "SEARCH")
    @@ (<<"SUBSCRIBE", 1, "O">> :> "SOURCE") @@ (<<"REPORT", 2, "B">> :> "REBIND")
    @@ (<<"PROPFIND", 4, "P">> :> "PROPPATCH") @@ (<<"LOCK", 1, "I">> :> "LINK")
    @@ (<<"UNLOCK", 2, "S">> :> "UNSUBSCRIBE") @@ (<<"UNLOCK", 2, "B">> :> "UNBIND")
    @@ (<<"UNLOCK", 3, "I">> :> "UNLINK")

\* Mutant: the flags of the message before are kept.
ClearMessageKeepsFlags(x) ==
  [x EXCEPT !.uses_transfer_encoding = FALSE, !.content_length = ULLONG_MAX]
ClearMessage(x) ==
  [x EXCEPT !.flags = {}, !.uses_transfer_encoding = FALSE, !.content_length = ULLONG_MAX]

\* s_start_req and s_start_res: blank lines are skipped, then the state of the
\* message before is cleared.
StartMessage(x) ==
  LET y == ClearMessage(x)
  IN  CASE Ch(x) \in {CR, LF} -> x
        [] x.state = "s_start_res" /\ Ch(x) = "H" -> UPDATE_STATE(y, "s_res_H")
        [] x.state = "s_start_res" /\ Ch(x) \notin {"H", CR, LF} -> SET_ERRNO(y, "INVALID_CONSTANT")
        [] x.state = "s_start_req" /\ Ch(x) \in DOMAIN FirstGuess ->
             [y EXCEPT !.method = FirstGuess[Ch(x)], !.index = 1, !.state = "s_req_method"]
        [] OTHER -> SET_ERRNO(y, "INVALID_METHOD")

ReqMethod(x) ==
  LET matcher == method_strings[x.method]
      i       == x.index + 1
      guess   == <<x.method, x.index, Ch(x)>>
      y       == [x EXCEPT !.index = @ + 1]
  IN  CASE i > Len(matcher) /\ Ch(x) = SP -> UPDATE_STATE(y, "s_req_spaces_before_url")
        [] i <= Len(matcher) /\ Ch(x) = matcher[i] -> y
        [] OTHER -> IF guess \in DOMAIN NewGuess THEN [y EXCEPT !.method = NewGuess[guess]]
                    ELSE SET_ERRNO(x, "INVALID_METHOD")

UrlStates == DOMAIN UrlText \cup ServerStates
               \cup {"s_req_schema", "s_req_schema_slash", "s_req_schema_slash_slash"}

\* The states in which the URL may not end.
UrlOpen == {"s_req_schema", "s_req_schema_slash", "s_req_schema_slash_slash",
            "s_req_server_start"}

UrlChars(x, from) ==
  LET s == parse_url_char(from, Ch(x))
  IN  IF s = "s_dead" THEN SET_ERRNO(x, "INVALID_URL") ELSE UPDATE_STATE(x, s)

ReqUrl(x) ==
  CASE x.state = "s_req_spaces_before_url" ->
         IF Ch(x) = SP THEN x
         ELSE UrlChars(MARK(x, "url"),
                       IF x.method = "CONNECT" THEN "s_req_server_start" ELSE x.state)
    [] x.state \in UrlStates \ UrlOpen /\ Ch(x) = SP ->
         CALLBACK_DATA(UPDATE_STATE(x, "s_req_http_start"), "url", x.p)
    [] x.state \in UrlStates \ UrlOpen /\ Ch(x) \in {CR, LF} ->
         CALLBACK_DATA([x EXCEPT !.version = "0.9",
                                 !.state = IF Ch(x) = CR THEN "s_req_line_almost_done"
                                                         ELSE "s_header_field_start"],
                       "url", x.p)
    [] OTHER -> UrlChars(x, x.state)

Versions == {"1.0", "1.1"}

\* The rest of the request line, and the status line up to its code.
LineTable ==
  { Row({"s_req_http_start"}, {SP}, "s_req_http_start"),
    Row({"s_req_http_start"}, {"H"}, "s_req_http_H"),
    Row({"s_req_http_start"}, {"I"}, "s_req_http_I"),
    Row({"s_req_http_H"}, {"TTP/"}, "s_req_http_major"),
    Row({"s_req_http_I"}, {"CE/"}, "s_req_http_major"),
    Row({"s_req_http_major"}, Versions, "s_req_http_end"),
    Row({"s_req_http_end"}, {CR}, "s_req_line_almost_done"),
    Row({"s_req_http_end", "s_req_line_almost_done"}, {LF}, "s_header_field_start"),
    Row({"s_res_H"}, {"TTP/"}, "s_res_http_major"),
    Row({"s_res_http_major"}, Versions, "s_res_http_end"),
    Row({"s_res_http_end", "s_res_first_status_code"}, {SP}, "s_res_first_status_code"),
    Row({"s_res_line_almost_done"}, {LF}, "s_header_field_start"),
    Row({"s_header_value_discard_ws_almost_done"}, {LF}, "s_header_value_discard_lws"),
    Row({"s_header_almost_done"}, {LF}, "s_header_value_lws"),
    Row({"s_dead"}, {CR, LF}, "s_dead") }

LineError ==
  [s \in {"s_req_http_start"} |-> "INVALID_CONSTANT"]
    @@ [s \in {"s_req_http_H", "s_req_http_I", "s_res_H", "s_res_line_almost_done",
               "s_header_value_discard_ws_almost_done"} |-> "STRICT"]
    @@ [s \in {"s_req_http_major", "s_req_http_end", "s_res_http_major", "s_res_http_end"}
              |-> "INVALID_VERSION"]
    @@ [s \in {"s_req_line_almost_done", "s_header_almost_done"} |-> "LF_EXPECTED"]
    @@ [s \in {"s_res_first_status_code"} |-> "INVALID_STATUS"]
    @@ [s \in {"s_dead"} |-> "CLOSED_CONNECTION"]

\* The states whose whole code is a row of the table.
Line(x) ==
  LET s == Lookup(LineTable, x.state, Ch(x), "error")
  IN  IF s = "error" \/ (s = "s_req_http_I" /\ x.method # "SOURCE")
      THEN SET_ERRNO(x, LineError[x.state])
      ELSE [x EXCEPT !.state = s,
                     !.version = IF s \in {"s_req_http_end", "s_res_http_end"} THEN Ch(x) ELSE @]

\* The status code and the reason.
StatusLine(x) ==
  LET code == 10 * x.status_code + Digit[Ch(x)]
  IN  CASE x.state = "s_res_first_status_code" ->
             IF Ch(x) \in Num
             THEN [x EXCEPT !.status_code = Digit[Ch(x)], !.state = "s_res_status_code"]
             ELSE Line(x)
        [] x.state = "s_res_status_code" /\ Ch(x) \in Num ->
             IF code > 999 THEN SET_ERRNO(x, "INVALID_STATUS")
                           ELSE [x EXCEPT !.status_code = code]
        [] x.state = "s_res_status_code" /\ Ch(x) = SP -> UPDATE_STATE(x, "s_res_status_start")
        [] x.state = "s_res_status_code" /\ Ch(x) \in {CR, LF} -> REEXECUTE(x, "s_res_status_start")
        [] x.state = "s_res_status_start" ->
             LET y == [MARK(x, "status") EXCEPT !.index = 0]
             IN  IF Ch(x) \in {CR, LF} THEN REEXECUTE(y, "s_res_status")
                                       ELSE UPDATE_STATE(y, "s_res_status")
        [] x.state = "s_res_status" ->
             CASE Ch(x) = CR -> CALLBACK_DATA(UPDATE_STATE(x, "s_res_line_almost_done"), "status", x.p)
               [] Ch(x) = LF -> CALLBACK_DATA(UPDATE_STATE(x, "s_header_field_start"), "status", x.p)
               [] OTHER -> x
        [] OTHER -> SET_ERRNO(x, "INVALID_STATUS")

(***************************************************************************)
(* Header fields.  A keyword is matched symbol by symbol at parser->index  *)
(* (from 0); "found" and "miss" are the header_state it leads to.          *)
(***************************************************************************)
KeywordRow(word, found, miss) == [word |-> word, found |-> found, miss |-> miss]

CONNECTION == <<"con", "n", "ection">>
CONTENT_LENGTH == <<"con", "t", "ent-length">>
TRANSFER_ENCODING == <<"t", "ransfer-", "encoding">>
CHUNKED == <<"c", "hunk", "ed">>
KEEP_ALIVE == <<"k", "eep-alive">>
CLOSE == <<"c", "lose">>

Keywords ==
  [h_matching_connection       |-> KeywordRow(CONNECTION, "h_connection", "h_general"),
   h_matching_content_length   |-> KeywordRow(CONTENT_LENGTH, "h_content_length", "h_general"),
   h_matching_proxy_connection |-> KeywordRow(<<"p", "roxy-connection">>, "h_connection", "h_general"),
   h_matching_transfer_encoding |->
     KeywordRow(TRANSFER_ENCODING, "h_transfer_encoding", "h_general"),
   h_matching_upgrade          |-> KeywordRow(<<"u", "pgrade">>, "h_upgrade", "h_general"),
   h_matching_transfer_encoding_chunked |->
     KeywordRow(CHUNKED, "h_transfer_encoding_chunked", "h_matching_transfer_encoding_token"),
   h_matching_connection_keep_alive |->
     KeywordRow(KEEP_ALIVE, "h_connection_keep_alive", "h_matching_connection_token"),
   h_matching_connection_close |->
     KeywordRow(CLOSE, "h_connection_close", "h_matching_connection_token"),
   h_matching_connection_upgrade |->
     KeywordRow(<<"u", "pgrade">>, "h_connection_upgrade", "h_matching_connection_token")]

MatchKeyword(x) ==
  LET k == Keywords[x.header_state]
      i == x.index + 1
  IN  [x EXCEPT !.index = i,
                !.header_state = IF i >= Len(k.word) \/ Ch(x) # k.word[i + 1] THEN k.miss
                                 ELSE IF i = Len(k.word) - 1 THEN k.found ELSE @]

TOKEN(ch) == ch \notin {CR, LF, SP, HT, CTL, ":", ",", ";", "/", "?", "=", "@", "[", "]"}

\* The three letters of h_C, h_CO and h_CON are the symbol "con".
FieldGuess ==
  ("con" :> "h_CON") @@ ("p" :> "h_matching_proxy_connection")
    @@ ("t" :> "h_matching_transfer_encoding") @@ ("u" :> "h_matching_upgrade")

HeaderFieldStart(x) ==
  CASE Ch(x) = CR -> UPDATE_STATE(x, "s_headers_almost_done")
    [] Ch(x) = LF -> REEXECUTE(x, "s_headers_almost_done")
    [] TOKEN(Ch(x)) ->
         [MARK(x, "header_field") EXCEPT
            !.index = 0, !.state = "s_header_field",
            !.header_state = IF Ch(x) \in DOMAIN FieldGuess THEN FieldGuess[Ch(x)] ELSE "h_general"]
    [] OTHER -> SET_ERRNO(x, "INVALID_HEADER_TOKEN")

\* One character of a header's name.
FieldChar(x) ==
  LET y == MatchKeyword(x)
  IN  CASE x.header_state = "h_general" -> x
        [] x.header_state = "h_CON" ->
             [x EXCEPT !.index = @ + 1,
                       !.header_state = CASE Ch(x) = "n" -> "h_matching_connection"
                                          [] Ch(x) = "t" -> "h_matching_content_length"
                                          [] OTHER -> "h_general"]
        [] x.header_state \in DOMAIN Keywords ->
             [y EXCEPT !.uses_transfer_encoding = @ \/ y.header_state = "h_transfer_encoding"]
        [] x.header_state \in {"h_connection", "h_content_length", "h_transfer_encoding",
                               "h_upgrade"} -> [x EXCEPT !.header_state = "h_general"]
        [] OTHER -> SET_ERRNO(x, "ASSERT")

\* The loop over a name: up to the first character that is no token, or the end.
RECURSIVE ScanField(_)
ScanField(x) ==
  IF x.errno # "OK" \/ Left(x) = 0 THEN x
  ELSE IF ~TOKEN(Ch(x)) THEN x
  ELSE ScanField([FieldChar(x) EXCEPT !.p = @ + 1])

\* Where a scan stops at the end of the text, p stays on the last character.
AtEnd(y, from) == COUNT_HEADER_SIZE([y EXCEPT !.p = @ - 1], y.p - 1 - from)

\* The name ends here, unless it took the headers over their limit.
FieldEnd(z) ==
  CASE z.errno # "OK" -> z
    [] z.errno = "OK" /\ Ch(z) # ":" -> SET_ERRNO(z, "INVALID_HEADER_TOKEN")
    [] OTHER -> CALLBACK_DATA(UPDATE_STATE(z, "s_header_value_discard_ws"), "header_field", z.p)

FieldScanned(y, from) ==
  CASE y.errno # "OK" -> y
    [] y.errno = "OK" /\ Left(y) = 0 -> AtEnd(y, from)
    [] OTHER -> FieldEnd(COUNT_HEADER_SIZE(y, y.p - from))

HeaderField(x) == FieldScanned(ScanField(x), x.p)

(***************************************************************************)
(* Header values.                                                          *)
(***************************************************************************)
\* What the first letter of a connection option may begin.
ConnectionGuess ==
  ("k" :> "h_matching_connection_keep_alive") @@ ("c" :> "h_matching_connection_close")
    @@ ("u" :> "h_matching_connection_upgrade")

Guess(table, ch, other) == IF ch \in DOMAIN table THEN table[ch] ELSE other

\* s_header_value_start: the first character of a value, or the blank of a folded line.
HeaderValueStart(x) ==
  LET y == [MARK(x, "header_value") EXCEPT !.state = "s_header_value", !.index = 0]
      h == x.header_state
  IN  CASE h = "h_upgrade" ->
             [y EXCEPT !.flags = @ \cup {"UPGRADE"}, !.header_state = "h_general"]
        [] h = "h_transfer_encoding" ->
             [y EXCEPT !.header_state = IF Ch(x) = "c" THEN "h_matching_transfer_encoding_chunked"
                                        ELSE "h_matching_transfer_encoding_token"]
        [] h = "h_content_length" ->
             IF Ch(x) \notin Num THEN SET_ERRNO(y, "INVALID_CONTENT_LENGTH")
             ELSE IF "CONTENTLENGTH" \in x.flags THEN SET_ERRNO(y, "UNEXPECTED_CONTENT_LENGTH")
             ELSE [y EXCEPT !.flags = @ \cup {"CONTENTLENGTH"}, !.content_length = Digit[Ch(x)],
                            !.header_state = "h_content_length_num"]
        [] h = "h_connection" ->
             [y EXCEPT !.header_state = Guess(ConnectionGuess, Ch(x), "h_matching_connection_token")]
        [] h \in {"h_matching_transfer_encoding_token_start", "h_content_length_ws",
                  "h_matching_connection_token_start"} -> y
        [] OTHER -> [y EXCEPT !.header_state = "h_general"]

HeaderValueDiscardWs(x) ==
  CASE Ch(x) \in {SP, HT} -> x
    [] Ch(x) = CR -> UPDATE_STATE(x, "s_header_value_discard_ws_almost_done")
    [] Ch(x) = LF -> UPDATE_STATE(x, "s_header_value_discard_lws")
    [] OTHER -> HeaderValueStart(x)

\* The flag that a recognised value sets.
FlagOf == [h_connection_keep_alive |-> "CONNECTION_KEEP_ALIVE",
           h_connection_close |-> "CONNECTION_CLOSE",
           h_connection_upgrade |-> "CONNECTION_UPGRADE",
           h_transfer_encoding_chunked |-> "CHUNKED"]

SetFlag(x) ==
  IF x.header_state \in DOMAIN FlagOf
  THEN [x EXCEPT !.flags = @ \cup {FlagOf[x.header_state]}] ELSE x

\* Mutant: the overflow is not looked for.
LengthDigitUnchecked(x, base, value) == [x EXCEPT !.content_length = base * @ + value]
\* A digit of a length, unless the length would no longer fit.
LengthDigit(x, base, value) ==
  IF (ULLONG_MAX - base) \div base < x.content_length
  THEN SET_ERRNO(x, "INVALID_CONTENT_LENGTH")
  ELSE [x EXCEPT !.content_length = base * @ + value]

\* An uninteresting value is skipped in one go, at most max_header_size of it: the
\* position is left at the last character skipped, or at the limit.
SkipValue(x) ==
  LET pe   == IF Left(x) < max_header_size THEN x.p + Left(x) ELSE x.p + max_header_size
      stop == {i \in x.p..(pe - 1) : x.data[i] \in {CR, LF, CTL}}
      i    == CHOOSE j \in stop : \A k \in stop : j <= k
  IN  CASE stop # {} -> IF x.data[i] = CTL
                        THEN [x EXCEPT !.p = i, !.errno = "INVALID_HEADER_TOKEN"]
                        ELSE [x EXCEPT !.p = i - 1]
        [] OTHER -> [x EXCEPT !.p = IF pe = Len(x.data) + 1 THEN pe - 1 ELSE pe]

\* One character of a header's value, neither CR nor LF.
ValueChar(x) ==
  LET h == x.header_state
      To(s) == [x EXCEPT !.header_state = s]
      Restart(s) == [x EXCEPT !.header_state = s, !.index = 0]
  IN  IF Ch(x) = CTL THEN SET_ERRNO(x, "INVALID_HEADER_TOKEN") ELSE
      CASE h = "h_general" -> SkipValue(x)
        [] h \in {"h_connection", "h_transfer_encoding"} -> SET_ERRNO(x, "ASSERT")
        [] h \in {"h_content_length", "h_content_length_num"} ->
             IF Ch(x) = SP THEN To(IF h = "h_content_length" THEN h ELSE "h_content_length_ws")
             ELSE IF Ch(x) \notin Num THEN SET_ERRNO(x, "INVALID_CONTENT_LENGTH")
             ELSE LengthDigit(To("h_content_length_num"), 10, Digit[Ch(x)])
        [] h = "h_content_length_ws" ->
             IF Ch(x) = SP THEN x ELSE SET_ERRNO(x, "INVALID_CONTENT_LENGTH")
        [] h = "h_matching_transfer_encoding_token_start" ->
             CASE Ch(x) = "c" -> To("h_matching_transfer_encoding_chunked")
               [] Ch(x) # "c" /\ TOKEN(Ch(x)) -> To("h_matching_transfer_encoding_token")
               [] Ch(x) \in {SP, HT} -> x
               [] OTHER -> To("h_general")
        [] h = "h_matching_connection_token_start" ->
             CASE TOKEN(Ch(x)) -> To(Guess(ConnectionGuess, Ch(x), "h_matching_connection_token"))
               [] Ch(x) \in {SP, HT} -> x
               [] OTHER -> To("h_general")
        [] h \in DOMAIN Keywords -> MatchKeyword(x)
        [] h = "h_matching_transfer_encoding_token" ->
             IF Ch(x) = "," THEN Restart("h_matching_transfer_encoding_token_start") ELSE x
        [] h = "h_matching_connection_token" ->
             IF Ch(x) = "," THEN Restart("h_matching_connection_token_start") ELSE x
        [] h = "h_transfer_encoding_chunked" ->
             IF Ch(x) = SP THEN x ELSE To("h_matching_transfer_encoding_token")
        [] h \in {"h_connection_keep_alive", "h_connection_close", "h_connection_upgrade"} ->
             CASE Ch(x) = "," -> [SetFlag(x) EXCEPT !.index = 0,
                                    !.header_state = "h_matching_connection_token_start"]
               [] Ch(x) = SP -> x
               [] OTHER -> To("h_matching_connection_token")
        [] OTHER -> To("h_general")

RECURSIVE ScanValue(_)
ScanValue(x) ==
  IF x.errno # "OK" \/ Left(x) = 0 THEN x
  ELSE IF Ch(x) \in {CR, LF} THEN x
  ELSE ScanValue(Advance(ValueChar(x)))

\* The value ends here: at LF only if it did not take the headers over their limit.
ValueEnd(z) ==
  IF z.errno # "OK" THEN z
  ELSE REEXECUTE(CALLBACK_DATA(z, "header_value", z.p), "s_header_almost_done")

ValueScanned(y, from) ==
  CASE y.errno # "OK" -> y
    [] y.errno = "OK" /\ Left(y) = 0 -> AtEnd(y, from)
    [] OTHER ->
         IF Ch(y) = CR
         THEN COUNT_HEADER_SIZE(
                CALLBACK_DATA(UPDATE_STATE(y, "s_header_almost_done"), "header_value", y.p),
                y.p - from)
         ELSE ValueEnd(COUNT_HEADER_SIZE(UPDATE_STATE(y, "s_header_almost_done"), y.p - from))

HeaderValue(x) == ValueScanned(ScanValue(x), x.p)

\* After the end of a line: a blank continues the value, anything else ends the header.
HeaderValueLws(x) ==
  IF Ch(x) \in {SP, HT}
  THEN REEXECUTE([x EXCEPT !.header_state = IF @ = "h_content_length_num"
                                            THEN "h_content_length_ws" ELSE @],
                 "s_header_value_start")
  ELSE REEXECUTE(SetFlag(x), "s_header_field_start")

\* The same where the value has been blank so far.
HeaderValueDiscardLws(x) ==
  IF Ch(x) \in {SP, HT} THEN UPDATE_STATE(x, "s_header_value_discard_ws")
  ELSE IF x.header_state = "h_content_length" THEN SET_ERRNO(x, "INVALID_CONTENT_LENGTH")
  ELSE REEXECUTE(CALLBACK_DATA(MARK(SetFlag(x), "header_value"), "header_value", x.p),
                 "s_header_field_start")

(***************************************************************************)
(* The end of the headers, and the body.                                   *)
(***************************************************************************)
HeadersAlmostDone(x) ==
  LET both    == x.uses_transfer_encoding /\ "CONTENTLENGTH" \in x.flags
      upgrade == IF {"UPGRADE", "CONNECTION_UPGRADE"} \subseteq x.flags
                 THEN x.type = "REQUEST" \/ x.status_code = 101
                 ELSE x.method = "CONNECT"
  IN  STRICT_CHECK(Ch(x) # LF, x,
        CASE "TRAILING" \in x.flags -> REEXECUTE(x, "s_message_done")
          [] "TRAILING" \notin x.flags /\ both -> SET_ERRNO(x, "UNEXPECTED_CONTENT_LENGTH")
          [] OTHER -> REEXECUTE([x EXCEPT !.upgrade = upgrade], "s_headers_done"))

MessageComplete(x) == CALLBACK_NOTIFY(UPDATE_STATE(x, NEW_MESSAGE(x)), "message_complete")

HeadersDone(x) ==
  LET y       == [x EXCEPT !.nread = 0]
      chunked == "CHUNKED" \in x.flags
      hasBody == chunked \/ x.content_length \notin {0, ULLONG_MAX}
  IN  CASE x.upgrade /\ (x.method = "CONNECT" \/ ~hasBody) -> RETURN(MessageComplete(y))
        [] ~(x.upgrade /\ (x.method = "CONNECT" \/ ~hasBody)) /\ chunked ->
             UPDATE_STATE(y, "s_chunk_size_start")
        [] OTHER ->
             IF x.uses_transfer_encoding
             THEN IF x.type = "REQUEST" THEN SET_ERRNO(y, "INVALID_TRANSFER_ENCODING")
                                        ELSE UPDATE_STATE(y, "s_body_identity_eof")
             ELSE IF hasBody THEN UPDATE_STATE(y, "s_body_identity")
             ELSE IF x.content_length = ULLONG_MAX /\ http_message_needs_eof(x)
             THEN UPDATE_STATE(y, "s_body_identity_eof")
             ELSE MessageComplete(y)

\* As much of a body or of a chunk as there is; p stays on its last byte.
TakeBody(x) ==
  LET to_read == IF x.content_length < Left(x) THEN x.content_length ELSE Left(x)
  IN  [MARK(x, "body") EXCEPT !.content_length = @ - to_read, !.p = @ + to_read - 1]

LengthKnown(x) == x.content_length \notin {0, ULLONG_MAX}

Body(x) ==
  LET y == TakeBody(x)
      z == MessageComplete(x)
  IN  CASE x.state = "s_body_identity" ->
             Require(LengthKnown(x), x,
               IF y.content_length = 0
               THEN REEXECUTE(CALLBACK_DATA(y, "body", y.p + 1), "s_message_done") ELSE y)
        [] x.state = "s_body_identity_eof" -> [MARK(x, "body") EXCEPT !.p = Len(x.data)]
        [] x.state = "s_message_done" -> IF x.upgrade THEN RETURN(z) ELSE z

unhex == Digit @@ ("a" :> 10)

Chunks(x) ==
  LET size == LengthDigit(x, 16, unhex[Ch(x)])
      data == TakeBody(x)
  IN  Require("CHUNKED" \in x.flags, x,
        CASE x.state = "s_chunk_size_start" ->
               Require(x.nread = 1, x,
                 IF Ch(x) \notin DOMAIN unhex THEN SET_ERRNO(x, "INVALID_CHUNK_SIZE")
                 ELSE [x EXCEPT !.content_length = unhex[Ch(x)], !.state = "s_chunk_size"])
          [] x.state = "s_chunk_size" ->
               CASE Ch(x) = CR -> UPDATE_STATE(x, "s_chunk_size_almost_done")
                 [] Ch(x) \in {";", SP} -> UPDATE_STATE(x, "s_chunk_parameters")
                 [] Ch(x) \in DOMAIN unhex -> size
                 [] OTHER -> SET_ERRNO(x, "INVALID_CHUNK_SIZE")
          [] x.state = "s_chunk_parameters" ->
               IF Ch(x) = CR THEN UPDATE_STATE(x, "s_chunk_size_almost_done") ELSE x
          [] x.state = "s_chunk_size_almost_done" ->
               STRICT_CHECK(Ch(x) # LF, x,
                 IF x.content_length = 0
                 THEN [x EXCEPT !.nread = 0, !.flags = @ \cup {"TRAILING"},
                                !.state = "s_header_field_start"]
                 ELSE [x EXCEPT !.nread = 0, !.state = "s_chunk_data"])
          [] x.state = "s_chunk_data" ->
               Require(LengthKnown(x), x,
                 IF data.content_length = 0 THEN UPDATE_STATE(data, "s_chunk_data_almost_done")
                 ELSE data)
          [] x.state = "s_chunk_data_almost_done" ->
               Require(x.content_length = 0, x,
                 STRICT_CHECK(Ch(x) # CR, x,
                   CALLBACK_DATA(UPDATE_STATE(x, "s_chunk_data_done"), "body", x.p)))
          [] x.state = "s_chunk_data_done" ->
               STRICT_CHECK(Ch(x) # LF, x,
                 [x EXCEPT !.nread = 0, !.state = "s_chunk_size_start"]))

(***************************************************************************)
(* http_parser_execute.                                                    *)
(***************************************************************************)
StatusStates == {"s_res_first_status_code", "s_res_status_code", "s_res_status_start", "s_res_status"}

Step(x) ==
  CASE x.state \in {"s_start_req", "s_start_res"} -> StartMessage(x)
    [] x.state = "s_req_method" -> ReqMethod(x)
    [] x.state \in UrlStates \cup {"s_req_spaces_before_url"} -> ReqUrl(x)
    [] x.state \in StatusStates -> StatusLine(x)
    [] x.state \in DOMAIN LineError \ StatusStates -> Line(x)
    [] x.state = "s_header_field_start" -> HeaderFieldStart(x)
    [] x.state = "s_header_field" -> HeaderField(x)
    [] x.state = "s_header_value_discard_ws" -> HeaderValueDiscardWs(x)
    [] x.state = "s_header_value_start" -> HeaderValueStart(x)
    [] x.state = "s_header_value" -> HeaderValue(x)
    [] x.state = "s_header_value_lws" -> HeaderValueLws(x)
    [] x.state = "s_header_value_discard_lws" -> HeaderValueDiscardLws(x)
    [] x.state = "s_headers_almost_done" -> HeadersAlmostDone(x)
    [] x.state = "s_headers_done" -> HeadersDone(x)
    [] x.state \in {"s_body_identity", "s_body_identity_eof", "s_message_done"} -> Body(x)
    [] OTHER -> Chunks(x)

\* One turn of the loop, once the character is counted.
Turn(x) == IF x.errno # "OK" THEN x ELSE Advance(Step([x EXCEPT !.again = FALSE]))

\* The loop over the text; "again" is the jump to the label reexecute.
RECURSIVE Loop(_)
Loop(x) ==
  IF x.errno # "OK" \/ x.returned \/ (Left(x) = 0 /\ ~x.again) THEN x
  ELSE Loop(Turn(IF ~x.again /\ PARSING_HEADER(x) THEN COUNT_HEADER_SIZE(x, 1) ELSE x))

\* Mutant: a query or a fragment that goes on is not marked.
MarkOfPathOnly(state) ==
  [f \in Marks |-> IF \/ f = "header_field" /\ state = "s_header_field"
                      \/ f = "header_value" /\ state = "s_header_value"
                      \/ f = "url" /\ state = "s_req_path"
                      \/ f = "status" /\ state = "s_res_status" THEN 1 ELSE 0]
\* The string that was being read when the text before ended goes on.
MarkOf(state) ==
  [f \in Marks |-> IF \/ f = "header_field" /\ state = "s_header_field"
                      \/ f = "header_value" /\ state = "s_header_value"
                      \/ f = "url" /\ state \in UrlStates
                      \/ f = "status" /\ state = "s_res_status" THEN 1 ELSE 0]

\* Callbacks for what is marked when the text ends.
Leftover(x) ==
  FoldLeft(LAMBDA y, f : CALLBACK_DATA(y, f, Len(x.data) + 1),
           Require(\A f, g \in Marks : x.mark[f] # 0 /\ x.mark[g] # 0 => f = g, x, x),
           <<"header_field", "header_value", "url", "body", "status">>)

\* The local variables at the start of a call, and when it is over.
Enter(ps, data) == [ps EXCEPT !.data = data, !.mark = MarkOf(ps.state)]
Leave(x) == [x EXCEPT !.data = << >>, !.p = 1, !.mark = [f \in Marks |-> 0], !.out = << >>,
                      !.again = FALSE, !.returned = FALSE]

\* What a call leaves, calls back and returns.
Result(x, n) == [parser |-> Leave(x), out |-> x.out, nparsed |-> n]
LoopResult(x) ==
  IF x.errno # "OK" \/ x.returned THEN Result(x, x.p - 1)
                                  ELSE Result(Leftover(x), Len(x.data))

http_parser_execute(ps, data) ==
  CASE ps.errno # "OK" -> Result(ps, 0)
    [] ps.errno = "OK" /\ data # << >> -> LoopResult(Loop(Enter(ps, data)))
    [] OTHER ->
         CASE ps.state = "s_body_identity_eof" -> Result(CALLBACK_NOTIFY(ps, "message_complete"), 0)
           [] ps.state \in {"s_dead", "s_start_req", "s_start_res"} -> Result(ps, 0)
           [] OTHER -> Result(SET_ERRNO(ps, "INVALID_EOF_STATE"), 1)

(***************************************************************************)
(* The class HttpParser.                                                   *)
(***************************************************************************)
NoMessage ==
  [method |-> "GET", path |-> << >>, queries |-> << >>, headers |-> << >>, body |-> << >>,
   status |-> 200, version |-> "1.1", is_complete |-> FALSE, temporary_store |-> << >>,
   aborted |-> FALSE]

OnHeaderField(m, text) == [m EXCEPT !.temporary_store = text]

\* operator[] takes the key by move: it is left empty when the entry is new.
OnHeaderValue(m, text) ==
  IF m.temporary_store = << >> THEN [m EXCEPT !.aborted = TRUE]
  ELSE [m EXCEPT !.headers = (m.temporary_store :> text) @@ @,
                 !.temporary_store = IF @ \in DOMAIN m.headers THEN @ ELSE << >>]

OnBody(m, text) == [m EXCEPT !.body = @ \o text]
OnMessageComplete(m) == [m EXCEPT !.is_complete = TRUE]

\* The callbacks of libarc, in the order they were made.
Apply(m, cb) ==
  IF m.aborted THEN m ELSE
  CASE cb[1] = "url" -> OnUrl(m, cb[2])
    [] cb[1] = "header_field" -> OnHeaderField(m, cb[2])
    [] cb[1] = "header_value" -> OnHeaderValue(m, cb[2])
    [] cb[1] = "body" -> OnBody(m, cb[2])
    [] cb[1] = "message_complete" -> OnMessageComplete(m)
    [] cb[1] = "status" -> m

\* Adjacent callbacks with pieces of one string, put together.
Merged(out) ==
  FoldLeft(LAMBDA acc, cb :
             IF acc # << >> /\ cb[1] \in Marks /\ Last(acc)[1] = cb[1]
             THEN [acc EXCEPT ![Len(acc)] = <<cb[1], @[2] \o cb[2]>>]
             ELSE Append(acc, cb), << >>, out)

Deliver(m) == [m EXCEPT !.is_complete = FALSE, !.temporary_store = << >>]

\* Whether a read up to "end" left every string whole and did not join two messages.
Whole(end, ps) ==
  /\ \A f \in {"url", "header_field", "header_value"} : MarkOf(ps.state)[f] = 0
  /\ ~ \E e \in source.ends : sent < e /\ e < end

\* What ParseOnce and ParseResponse share: e is what http_parser_execute did with n
\* symbols, up to "end"; m the message once its callbacks have filled it.
ParseResult(m, e, n) ==
  CASE \/ m.aborted \/ e.parser.errno = "ASSERT"
       \/ source.type = "REQUEST" /\ e.parser.upgrade -> "abort"
    [] OTHER -> IF e.nparsed # n \/ e.parser.errno # "OK" THEN "error" ELSE "ok"

Filled(m, ps) ==
  IF source.type = "REQUEST" THEN [m EXCEPT !.method = ps.method, !.version = ps.version]
                             ELSE [m EXCEPT !.status = ps.status_code, !.version = ps.version]

Applied(m, e, n, end) ==
  LET r == ParseResult(m, e, n)
  IN  /\ parser' = e.parser
      /\ called' = Merged(called \o e.out)
      /\ message' = IF r = "ok" THEN Filled(m, e.parser) ELSE m
      /\ result' = r
      /\ delivered' = IF r = "ok" /\ m.is_complete
                      THEN Append(delivered, Deliver(Filled(m, e.parser))) ELSE delivered
      /\ intact' = (intact /\ Whole(end, e.parser))
      /\ sent' = end
      /\ UNCHANGED source

Executed(m, e, n, end) == Applied(FoldLeft(Apply, m, e.out), e, n, end)
Parse(m, data, end) == Executed(m, http_parser_execute(parser, data), Len(data), end)

\* The server reads the next n symbols; a new HttpRequest follows a complete one.
ParseOnce(n) ==
  /\ source.type = "REQUEST" /\ result = "ok"
  /\ n \in 1..(Len(source.text) - sent)
  /\ Parse(IF message.is_complete THEN NoMessage ELSE message,
           SubSeq(source.text, sent + 1, sent + n), sent + n)

\* The client reads until its HttpResponse is complete.
ParseResponse(n) ==
  /\ source.type = "RESPONSE" /\ result = "ok" /\ ~message.is_complete
  /\ n \in 1..(Len(source.text) - sent)
  /\ Parse(message, SubSeq(source.text, sent + 1, sent + n), sent + n)

\* It reads the end of the stream.
ParseResponseEnd ==
  /\ source.type = "RESPONSE" /\ result = "ok" /\ ~message.is_complete
  /\ sent = Len(source.text)
  /\ Parse(message, << >>, sent + 1)

Init ==
  /\ source \in Sources
  /\ sent = 0 /\ called = << >> /\ delivered = << >>
  /\ parser = http_parser_init(source.type)
  /\ message = NoMessage /\ result = "ok" /\ intact = TRUE

Next ==
  \/ \E n \in ReadSizes \cup {e - sent : e \in source.ends \cup {Len(source.text)}} : ParseOnce(n) \/ ParseResponse(n)
  \/ ParseResponseEnd

Spec == Init /\ [][Next]_vars

(***************************************************************************)
(* What libarc writes.  Content-Length is added where it is missing; the   *)
(* order of the headers is that of an unordered map.                       *)
(***************************************************************************)
Digits(n) == IF n < 10 THEN <<ToString(n)>> ELSE <<ToString(n \div 10), ToString(n % 10)>>
NewLine == <<CR, LF>>

WithLength(m) == [m EXCEPT !.headers = @ @@ (CONTENT_LENGTH :> Digits(Len(m.body)))]

HeaderLines(headers) ==
  FlattenSeq([i \in 1..Cardinality(DOMAIN headers) |->
     LET k == SetToSeq(DOMAIN headers)[i] IN k \o <<":", SP>> \o headers[k] \o NewLine])

QueryString(queries) ==
  FlattenSeq([i \in 1..Cardinality(DOMAIN queries) |->
     LET k == SetToSeq(DOMAIN queries)[i]
     IN  <<IF i = 1 THEN "?" ELSE "&">> \o EncodeCharToHex(k) \o <<"=">>
           \o EncodeCharToHex(queries[k])])

GetReturnStringFromHttpRequest(m) ==
  method_strings[m.method] \o <<SP>> \o m.path \o QueryString(m.queries)
    \o <<SP, "H", "TTP/", m.version>> \o NewLine
    \o HeaderLines(WithLength(m).headers) \o NewLine \o m.body

GetReturnStringFromHttpResponse(m) ==
  <<"H", "TTP/", m.version, SP, ToString(m.status \div 100), ToString((m.status \div 10) % 10),
    ToString(m.status % 10), SP, "z">> \o NewLine
    \o HeaderLines(WithLength(m).headers) \o NewLine \o m.body

(***************************************************************************)
(* Properties.                                                             *)
(***************************************************************************)
SameAs(w) ==
  ~w.parser.upgrade =>
    /\ parser.errno = "OK" <=> w.parser.errno = "OK"
    /\ parser.errno = "OK" => parser = w.parser /\ called = Merged(w.out)
\* However the stream is cut into reads, http_parser_execute ends in the state, with the
\* count of header bytes and with the strings that one read of all of it gives, and it
\* fails on the one if and only if it fails on the other.
SplitInvariant ==
  sent \in 1..Len(source.text) =>
    SameAs(http_parser_execute(http_parser_init(source.type), SubSeq(source.text, 1, sent)))

\* No assert of http_parser_execute fails: keyword states never survive into a value, a
\* chunk begins with one byte counted, a length is known and not zero where a body is
\* read, and at most one string is open when the text ends.
AssertsHold == parser.errno # "ASSERT"

\* Whatever was written (by GetReturnStringFromHttpRequest, by
\* GetReturnStringFromHttpResponse, or in chunks), with nothing left over from the
\* message before it on the connection, is what the application is handed: method or
\* status, path, queries, headers and body, as soon as its last byte is read and not
\* before, unless a read cut a string in two or spans two messages.
MessagesExact ==
  source.wrote # << >> /\ intact =>
    /\ result = "ok"
    /\ delivered = SubSeq(source.wrote, 1, Cardinality({e \in source.ends : e <= sent}))

\* A stream whose framing is contradictory or broken (two lengths, a length and chunks, a
\* length that does not fit, a bad chunk size, headers beyond the limit) is refused by its
\* end, and nothing of it is delivered, however it is cut.
RejectsMalformed ==
  source.malformed =>
    /\ delivered = << >>
    /\ sent >= Len(source.text) => parser.errno # "OK" \/ result = "abort"

UrlOrder == <<"SCHEMA", "USERINFO", "HOST", "PORT", "PATH", "QUERY", "FRAGMENT">>
FieldsExact(buf, u) ==
  LET set == SelectSeq(UrlOrder, LAMBDA f : f \in DOMAIN u.field)
      End(f) == u.field[f].off + u.field[f].len
      Before(f) == buf[u.field[f].off]
      Has(f, chars) == f \in DOMAIN u.field =>
                         \A j \in DOMAIN Text(buf, u.field[f]) : Text(buf, u.field[f])[j] \in chars
  IN  u.ok =>
        /\ \A j \in DOMAIN set : End(set[j]) <= Len(buf) /\ u.field[set[j]].len > 0
        /\ \A j \in 2..Len(set) : End(set[j - 1]) <= u.field[set[j]].off
        /\ \A j \in 1..Len(buf) :
             \/ \E f \in DOMAIN u.field : u.field[f].off < j /\ j <= End(f)
             \/ buf[j] \in {":", "/", "@", "[", "]", "?", "#"}
        /\ Has("SCHEMA", Alpha) /\ Has("PORT", Num) /\ Has("USERINFO", UserInfo)
        /\ "SCHEMA" \in DOMAIN u.field =>
             SubSeq(buf, End("SCHEMA") + 1, End("SCHEMA") + 3) = <<":", "/", "/">>
        /\ "USERINFO" \in DOMAIN u.field => buf[End("USERINFO") + 1] = "@"
        /\ "PORT" \in DOMAIN u.field => Before("PORT") = ":" /\ u.port <= MaxPort
        /\ "QUERY" \in DOMAIN u.field => Before("QUERY") = "?"
        /\ "FRAGMENT" \in DOMAIN u.field => Before("FRAGMENT") = "#"

\* The fields http_parser_parse_url finds in a URL it accepts stand in order, do not
\* overlap, hold only what their part may hold, and leave out nothing but delimiters.
UrlFieldsExact ==
  \A i \in DOMAIN called : called[i][1] = "url" =>
    FieldsExact(called[i][2], http_parser_parse_url(called[i][2], FALSE))

\* As MessagesExact, however the stream is cut: what the parser's documentation asks of
\* its users, who must put the pieces of a string together.
RequestSplitExact ==
  source.wrote # << >> =>
    /\ result = "ok"
    /\ \A i \in DOMAIN delivered : delivered[i] = source.wrote[i]
=============================================================================
