------------------------------- MODULE HttpUrl -------------------------------
(***************************************************************************)
(* The URL parser of src/src/http/http_parser.cc: parse_url_char and       *)
(* http_parse_host_char as tables of transitions, http_parser_parse_url    *)
(* and http_parse_host as folds over the text, and what OnUrl makes of the *)
(* fields they find (OnUrl, ParseQuery, ParseOnePair).                     *)
(*                                                                         *)
(* Text is a sequence of symbols.  A symbol is a character, standing for   *)
(* its class, or a run of characters that the code only ever tells apart   *)
(* as a whole ("%26" is the escape of "&").  Letter case is dropped.       *)
(***************************************************************************)
EXTENDS Naturals, Sequences, SequencesExt, TLC

CONSTANT MaxPort        \* 0xffff: the largest port number

CR == "CR"
LF == "LF"
SP == " "
HT == "\t"
CTL == "CTL"            \* any other control character

Digit == [d \in {"0", "1", "2", "3", "4", "5", "6", "7", "8", "9"} |->
            CHOOSE n \in 0..9 : ToString(n) = d]
Num == DOMAIN Digit
Hex == Num \cup {"a"}
Alpha == {"a", "h", "z"}
UserInfo == Alpha \cup Num \cup {".", "-", "*", "%", "%26", ";", ":", "&", "=", ","}
HostChars == Alpha \cup Num \cup {".", "-"}

\* The characters that may stand in a path, a query or a fragment: every
\* visible one but the two that separate these.
IsUrlChar(ch) == ch \notin {CR, LF, SP, HT, CTL, "?", "#"}

\* A row of a table: in one of the states "from", a character of "on" leads to "to".
Row(from, on, to) == [from |-> from, on |-> on, to |-> to]

\* The state a table leads to, or "dead" where it has no row.
Lookup(table, s, ch, dead) ==
  LET rows == {r \in table : s \in r.from /\ ch \in r.on}
  IN  IF rows = {} THEN dead ELSE (CHOOSE r \in rows : TRUE).to

ServerStates == {"s_req_server_start", "s_req_server", "s_req_server_with_at"}

UrlTable ==
  { Row({"s_req_spaces_before_url"}, {"/", "*"}, "s_req_path"),
    Row({"s_req_spaces_before_url", "s_req_schema"}, Alpha, "s_req_schema"),
    Row({"s_req_schema"}, {":"}, "s_req_schema_slash"),
    Row({"s_req_schema_slash"}, {"/"}, "s_req_schema_slash_slash"),
    Row({"s_req_schema_slash_slash"}, {"/"}, "s_req_server_start"),
    Row(ServerStates, {"/"}, "s_req_path"),
    Row(ServerStates, {"?"}, "s_req_query_string_start"),
    Row(ServerStates \ {"s_req_server_with_at"}, {"@"}, "s_req_server_with_at"),
    Row(ServerStates, UserInfo \cup {"[", "]"}, "s_req_server"),
    Row({"s_req_path"}, {"?"}, "s_req_query_string_start"),
    Row({"s_req_query_string_start", "s_req_query_string"}, {"?"}, "s_req_query_string"),
    Row({"s_req_path", "s_req_query_string_start", "s_req_query_string",
         "s_req_fragment_start"}, {"#"}, "s_req_fragment_start"),
    Row({"s_req_fragment_start", "s_req_fragment"}, {"?"}, "s_req_fragment"),
    Row({"s_req_fragment"}, {"#"}, "s_req_fragment") }

\* Where an ordinary URL character leads from the states after the server part.
UrlText ==
  [s \in {"s_req_path", "s_req_query_string", "s_req_fragment"} |-> s]
    @@ [s \in {"s_req_query_string_start"} |-> "s_req_query_string"]
    @@ [s \in {"s_req_fragment_start"} |-> "s_req_fragment"]

parse_url_char(s, ch) ==
  IF s \in DOMAIN UrlText /\ IsUrlChar(ch)
  THEN UrlText[s]
  ELSE Lookup(UrlTable, s, ch, "s_dead")

HostTable ==
  { Row({"s_http_userinfo_start", "s_http_userinfo"}, {"@"}, "s_http_host_start"),
    Row({"s_http_userinfo_start", "s_http_userinfo"}, UserInfo, "s_http_userinfo"),
    Row({"s_http_host_start"}, {"["}, "s_http_host_v6_start"),
    Row({"s_http_host_start", "s_http_host"}, HostChars, "s_http_host"),
    Row({"s_http_host", "s_http_host_v6_end"}, {":"}, "s_http_host_port_start"),
    Row({"s_http_host_v6", "s_http_host_v6_zone"}, {"]"}, "s_http_host_v6_end"),
    Row({"s_http_host_v6", "s_http_host_v6_start"}, Hex \cup {":", "."}, "s_http_host_v6"),
    Row({"s_http_host_v6"}, {"%"}, "s_http_host_v6_zone_start"),
    Row({"s_http_host_v6_zone", "s_http_host_v6_zone_start"},
        HostChars \cup {"%"}, "s_http_host_v6_zone"),
    Row({"s_http_host_port_start", "s_http_host_port"}, Num, "s_http_host_port") }

http_parse_host_char(s, ch) == Lookup(HostTable, s, ch, "s_http_host_dead")

(***************************************************************************)
(* struct http_parser_url: field_set is the domain of "field"; a field is  *)
(* its offset from the start of the text and its length.                   *)
(***************************************************************************)
\* Mutant: the first character of a field is not counted.
PutUncounted(u, uf, off, len) == [u EXCEPT !.field = (uf :> [off |-> off, len |-> len - 1]) @@ @]
Put(u, uf, off, len) == [u EXCEPT !.field = (uf :> [off |-> off, len |-> len]) @@ @]
Grow(u, uf) == [u EXCEPT !.field[uf].len = @ + 1]
Text(buf, f) == SubSeq(buf, f.off + 1, f.off + f.len)

\* The field that a state of parse_url_char belongs to.
FieldOf ==
  [s \in {"s_req_schema", "s_req_server", "s_req_server_with_at", "s_req_path",
          "s_req_query_string", "s_req_fragment"} |->
     CASE s = "s_req_schema"       -> "SCHEMA"
       [] s = "s_req_path"         -> "PATH"
       [] s = "s_req_query_string" -> "QUERY"
       [] s = "s_req_fragment"     -> "FRAGMENT"
       [] OTHER                    -> "HOST"]

\* One turn of the loop of http_parser_parse_url, at offset i, into state s.
UrlMove(u, i, s) ==
  LET uf == FieldOf[s]
      v  == [u EXCEPT !.s = s, !.at = @ \/ s = "s_req_server_with_at"]
  IN  CASE u.s = "s_dead" \/ s = "s_dead" -> [u EXCEPT !.s = "s_dead"]
        [] s \notin DOMAIN FieldOf -> v
        [] s \in DOMAIN FieldOf /\ uf = u.old -> Grow(v, uf)
        [] OTHER -> [Put(v, uf, i, 1) EXCEPT !.old = uf]

UrlChar(buf, u, i) == UrlMove(u, i, parse_url_char(u.s, buf[i + 1]))

\* One turn of the loop of http_parse_host.
HostField == [s_http_host |-> "HOST", s_http_host_v6 |-> "HOST",
              s_http_host_port |-> "PORT", s_http_userinfo |-> "USERINFO"]

HostMove(u, i, s) ==
  LET v == [u EXCEPT !.s = s]
  IN  CASE u.s = "s_http_host_dead" -> u
        [] s \in {"s_http_host_v6_zone_start", "s_http_host_v6_zone"} -> Grow(v, "HOST")
        [] s \in DOMAIN HostField /\ s = u.s -> Grow(v, HostField[s])
        [] s \in {"s_http_host", "s_http_host_v6"} /\ s # u.s ->
             Grow([v EXCEPT !.field["HOST"].off = i], "HOST")
        [] s \in {"s_http_host_port", "s_http_userinfo"} /\ s # u.s ->
             Put(v, HostField[s], i, 1)
        [] OTHER -> v

HostChar(buf, u, i) == HostMove(u, i, http_parse_host_char(u.s, buf[i + 1]))

\* Where the host part may not end.
HostEnds == {"s_http_host_dead", "s_http_host_start", "s_http_host_v6_start", "s_http_host_v6",
             "s_http_host_v6_zone_start", "s_http_host_v6_zone", "s_http_host_port_start",
             "s_http_userinfo", "s_http_userinfo_start"}

HostResult(u) == [u EXCEPT !.ok = u.s \notin HostEnds]
http_parse_host(buf, u) ==
  LET h == u.field["HOST"]
  IN  HostResult(FoldLeft(
        LAMBDA acc, i : HostChar(buf, acc, i),
        [u EXCEPT !.field["HOST"].len = 0,
                  !.s = IF u.at THEN "s_http_userinfo_start" ELSE "s_http_host_start"],
        [j \in 1..h.len |-> h.off + j - 1]))

\* The port number, or one past the largest as soon as it exceeds that.
PortNumber(text) ==
  FoldLeft(LAMBDA v, d : IF v > MaxPort THEN v ELSE 10 * v + Digit[d], 0, text)

\* The checks after the host is found, and the port.
CheckPort(u, port) == IF port > MaxPort THEN [u EXCEPT !.ok = FALSE] ELSE [u EXCEPT !.port = port]

CheckHost(buf, is_connect, u) ==
  CASE ~u.ok \/ (is_connect /\ DOMAIN u.field # {"HOST", "PORT"}) -> [u EXCEPT !.ok = FALSE]
    [] OTHER -> IF "PORT" \notin DOMAIN u.field THEN u
                ELSE CheckPort(u, PortNumber(Text(buf, u.field["PORT"])))

CheckUrl(buf, is_connect, u) ==
  LET set == DOMAIN u.field
  IN  CASE buf = << >> \/ u.s = "s_dead" \/ ("SCHEMA" \in set /\ "HOST" \notin set) ->
             [u EXCEPT !.ok = FALSE]
        [] OTHER -> CheckHost(buf, is_connect,
                              IF "HOST" \in set THEN http_parse_host(buf, u) ELSE u)

http_parser_parse_url(buf, is_connect) ==
  CheckUrl(buf, is_connect,
    FoldLeft(LAMBDA acc, i : UrlChar(buf, acc, i),
             [ok |-> TRUE, field |-> << >>, port |-> 0, at |-> FALSE, old |-> "MAX",
              s |-> IF is_connect THEN "s_req_server_start" ELSE "s_req_spaces_before_url"],
             [j \in 1..Len(buf) |-> j - 1]))

(***************************************************************************)
(* OnUrl.  The URL is parsed as that of a CONNECT and the verdict is not   *)
(* looked at: the fields found so far are used.  curl_easy_unescape is     *)
(* what it does to the symbols.                                            *)
(***************************************************************************)
DecodeHexToChar(text) == [i \in DOMAIN text |-> IF text[i] = "%26" THEN "&" ELSE text[i]]
EncodeCharToHex(text) == [i \in DOMAIN text |-> IF text[i] = "&" THEN "%26" ELSE text[i]]

ParseOnePair(queries, query) ==
  LET equal_sign_pos == SelectInSeq(query, LAMBDA ch : ch = "=")
  IN  IF equal_sign_pos > 1 /\ equal_sign_pos < Len(query) /\ Len(query) >= 3
      THEN (DecodeHexToChar(SubSeq(query, 1, equal_sign_pos - 1)) :>
              DecodeHexToChar(SubSeq(query, equal_sign_pos + 1, Len(query)))) @@ queries
      ELSE queries

\* The parts of a text between the separators "&".
Pairs(text) ==
  FoldLeft(LAMBDA acc, ch : IF ch = "&" THEN Append(acc, << >>)
                            ELSE [acc EXCEPT ![Len(acc)] = Append(@, ch)], << << >> >>, text)

ParseQuery(queries, text) == FoldLeft(ParseOnePair, queries, Pairs(text))

UseFields(request, at, field) ==
  [request EXCEPT
     !.path    = IF "PATH" \in DOMAIN field THEN Text(at, field["PATH"]) ELSE @,
     !.queries = IF "QUERY" \in DOMAIN field THEN ParseQuery(@, Text(at, field["QUERY"])) ELSE @]
OnUrl(request, at) == UseFields(request, at, http_parser_parse_url(at, TRUE).field)
=============================================================================
