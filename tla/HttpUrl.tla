------------------------------- MODULE HttpUrl -------------------------------
(***************************************************************************)
(* The character classes of src/lib/http_parser.c and its URL parser:      *)
(* parse_url_char, which http_parser_execute runs over the request line,   *)
(* and http_parser_parse_url, with which server_process_request splits the *)
(* URL again.  Text is a TLA+ string, read one character at a time.        *)
(***************************************************************************)
EXTENDS Integers, Sequences

\* the i-th character, and "" for the NUL that ends a C string
CharAt(s, i) == IF i \in 1..Len(s) THEN SubSeq(s, i, i) ELSE ""
Chars(s) == {CharAt(s, i) : i \in 1..Len(s)}

CR == "\r"
LF == "\n"
UpperCase == "ABCDEFGHIJKLMNOPQRSTUVWXYZ"
LowerCase == "abcdefghijklmnopqrstuvwxyz"

\* Every character that is compared after LOWER is a letter or a dash.
LowerMap == [c \in Chars(UpperCase) |->
                CharAt(LowerCase, CHOOSE i \in 1..26 : CharAt(UpperCase, i) = c)]
LOWER(c) == IF c \in Chars(UpperCase) THEN LowerMap[c] ELSE c

ALPHA == Chars(UpperCase) \cup Chars(LowerCase)
NUM == Chars("0123456789")
HEX == NUM \cup Chars("abcdefABCDEF")
MARKS == Chars("-_.!~*'()")
USERINFO_CHAR == ALPHA \cup NUM \cup MARKS \cup Chars("%;:&=+$,")
HOST_CHAR == ALPHA \cup NUM \cup {".", "-"}

\* The table of tokens: the characters of a header name (the backquote, which no TLA+
\* string can hold, is the one character missing here and in URL_CHAR).
TOKEN == ALPHA \cup NUM \cup Chars("!#$%&'*+-.^_|~")

\* The table normal_url_char: visible characters but the two delimiters.
URL_CHAR == (TOKEN \ {"#"}) \cup Chars("\"(),/:;<=>@[\\]{}")

\* The tables for digits, decimal and (unhex) hexadecimal.
UnhexMap == [c \in HEX |-> (CHOOSE i \in 1..16 :
                               CharAt("0123456789abcdef", i) = LOWER(c)) - 1]
Unhex(c) == UnhexMap[c]

(***************************************************************************)
(* parse_url_char: the next state, or s_dead.                              *)
(***************************************************************************)
ServerStates == {"s_req_server_start", "s_req_server", "s_req_server_with_at"}

parse_url_char(s, ch) ==
    CASE ch \in {" ", CR, LF, "\t", "\f"} -> "s_dead"
      [] s = "s_req_spaces_before_url" /\ ch \in {"/", "*"} -> "s_req_path"
      [] s \in {"s_req_spaces_before_url", "s_req_schema"} /\ ch \in ALPHA -> "s_req_schema"
      [] s = "s_req_schema" /\ ch = ":" -> "s_req_schema_slash"
      [] s = "s_req_schema_slash" /\ ch = "/" -> "s_req_schema_slash_slash"
      [] s = "s_req_schema_slash_slash" /\ ch = "/" -> "s_req_server_start"
      [] s \in ServerStates /\ ch = "/" -> "s_req_path"
      [] s \in ServerStates /\ ch = "?" -> "s_req_query_string_start"
      [] s \in ServerStates \ {"s_req_server_with_at"} /\ ch = "@" -> "s_req_server_with_at"
      [] s \in ServerStates /\ ch \in USERINFO_CHAR \cup {"[", "]"} -> "s_req_server"
      [] s = "s_req_path" /\ ch \in URL_CHAR -> s
      [] s = "s_req_path" /\ ch = "?" -> "s_req_query_string_start"
      [] s \in {"s_req_query_string_start", "s_req_query_string"}
            /\ ch \in URL_CHAR \cup {"?"} -> "s_req_query_string"
      [] s \in {"s_req_path", "s_req_query_string_start", "s_req_query_string"}
            /\ ch = "#" -> "s_req_fragment_start"
      [] s \in {"s_req_fragment_start", "s_req_fragment"}
            /\ ch \in URL_CHAR \cup {"?"} -> "s_req_fragment"
      [] s \in {"s_req_fragment_start", "s_req_fragment"} /\ ch = "#" -> s
      [] OTHER -> "s_dead"

(***************************************************************************)
(* http_parse_host: checks what lies between the schema and the path and   *)
(* narrows UF_HOST to the name.                                            *)
(***************************************************************************)
http_parse_host_char(s, ch) ==
    CASE s \in {"s_http_userinfo", "s_http_userinfo_start"} /\ ch = "@" -> "s_http_host_start"
      [] s \in {"s_http_userinfo", "s_http_userinfo_start"}
            /\ ch \in USERINFO_CHAR -> "s_http_userinfo"
      [] s = "s_http_host_start" /\ ch = "[" -> "s_http_host_v6_start"
      [] s \in {"s_http_host_start", "s_http_host"} /\ ch \in HOST_CHAR -> "s_http_host"
      [] s \in {"s_http_host", "s_http_host_v6_end"} /\ ch = ":" -> "s_http_host_port_start"
      [] s = "s_http_host_v6" /\ ch = "]" -> "s_http_host_v6_end"
      [] s \in {"s_http_host_v6", "s_http_host_v6_start"}
            /\ ch \in HEX \cup {":", "."} -> "s_http_host_v6"
      [] s \in {"s_http_host_port", "s_http_host_port_start"} /\ ch \in NUM -> "s_http_host_port"
      [] OTHER -> "s_http_host_dead"

\* A field of struct http_parser_url; len 0 stands for a bit of field_set that is not set.
NoField == [off |-> 0, len |-> 0]

\* field f goes on at position i: a new start unless the last character was in it as well
Extend(u, f, i, goesOn) ==
    [u EXCEPT ![f] = IF goesOn THEN [@ EXCEPT !.len = @ + 1] ELSE [off |-> i, len |-> 1]]

HostField == [s_http_host |-> "HOST", s_http_host_v6 |-> "HOST",
              s_http_host_port |-> "PORT", s_http_userinfo |-> "USERINFO"]

http_parse_host(buf, u0, found_at) ==
    LET first == u0["HOST"].off
        last == first + u0["HOST"].len - 1
        scan[i \in (first - 1)..last] ==
            IF i < first
            THEN [s |-> IF found_at THEN "s_http_userinfo_start" ELSE "s_http_host_start",
                  u |-> [u0 EXCEPT !["HOST"].len = 0]]
            ELSE LET old == scan[i - 1]
                     new == http_parse_host_char(old.s, CharAt(buf, i))
                 IN  IF old.s = "s_http_host_dead" THEN old
                     ELSE [s |-> new,
                           u |-> IF new \in DOMAIN HostField
                                 THEN Extend(old.u, HostField[new], i, new = old.s)
                                 ELSE old.u]
    IN  [u |-> scan[last].u,
         bad |-> scan[last].s \notin {"s_http_host", "s_http_host_v6_end", "s_http_host_port"}]

(***************************************************************************)
(* http_parser_parse_url with is_connect false.  `bad' is its result 1;    *)
(* the fields found up to then stay in u.                                  *)
(***************************************************************************)
UrlField == [s_req_schema |-> "SCHEMA", s_req_server |-> "HOST", s_req_server_with_at |-> "HOST",
             s_req_path |-> "PATH", s_req_query_string |-> "QUERY", s_req_fragment |-> "FRAGMENT"]

http_parser_parse_url(buf, maxPort) ==
    LET scan[i \in 0..Len(buf)] ==
            IF i = 0
            THEN [s |-> "s_req_spaces_before_url", uf |-> "MAX", found_at |-> FALSE,
                  u |-> [f \in {"SCHEMA", "HOST", "PORT", "PATH", "QUERY", "FRAGMENT",
                                "USERINFO"} |-> NoField]]
            ELSE LET old == scan[i - 1]
                     new == parse_url_char(old.s, CharAt(buf, i))
                 IN  IF old.s = "s_dead" THEN old
                     ELSE IF new \notin DOMAIN UrlField THEN [old EXCEPT !.s = new]
                     ELSE [s |-> new, uf |-> UrlField[new],
                           found_at |-> old.found_at \/ new = "s_req_server_with_at",
                           u |-> Extend(old.u, UrlField[new], i, UrlField[new] = old.uf)]
        end == scan[Len(buf)]
        host == http_parse_host(buf, end.u, end.found_at)
        port[i \in Nat] == IF i = 0 THEN 0
                           ELSE port[i - 1] * 10 + Unhex(CharAt(buf, host.u["PORT"].off + i - 1))
    IN  CASE end.s = "s_dead" -> [u |-> end.u, bad |-> TRUE]
          [] end.s # "s_dead" /\ end.u["SCHEMA"].len = 0 /\ end.u["HOST"].len = 0
                -> [u |-> end.u, bad |-> FALSE]
          [] OTHER -> [u |-> host.u, bad |-> host.bad \/ port[host.u["PORT"].len] > maxPort]

FieldText(buf, u, f) == SubSeq(buf, u[f].off, u[f].off + u[f].len - 1)
=============================================================================
