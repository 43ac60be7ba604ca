---------------------------- MODULE HttpGrammar ----------------------------
(***************************************************************************)
(* The request grammar of http11_parser.rl, production by production, over   *)
(* the classes of characters that it tells apart.  A class is named after a  *)
(* character of it: "Z" is any of the capitals without a class of their own, *)
(* "3" is 3 or 4, "9" is 6 to 9, "!" stands for !$&'*, "(" for (),;= and     *)
(* "_" for _~.                                                               *)
(***************************************************************************)
EXTENDS Ragel

digit == {"0", "1", "2", "3", "5", "9"}
upper == {"A", "H", "P", "T", "Z"}
lower == {"a", "v", "z"}
alpha == upper \cup lower
xdigit == digit \cup {"A", "a"}
high == {"high"}
ctl == {"NUL", "x02", "x03", "x04", "x05", "x06", "HT", "LF", "VT", "CR", "ctl"}
ascii == ctl \cup alpha \cup digit \cup
         {"SP", "DEL", "!", "_", "quote", "#", "%", "(", "+", "-", ".", "/",
          ":", "<", ">", "?", "@", "[", "]", "^", "{", "}"}
Chars == ascii \cup high

CRLF == Alt({Str(<<"CR", "LF">>), Str(<<"LF">>)})

more_delims == {"when ^", "when {", "when }"}
sub_delims == {"!", "(", "+"} \cup more_delims
unreserved == alpha \cup digit \cup {"-", ".", "_"}
pct_encoded == Str(<<"%">>) \o Chr(xdigit) \o Chr(xdigit)
OrPct(S) == Alt({Chr(S), pct_encoded})
reg_char == unreserved \cup sub_delims
path_char == high \cup reg_char \cup {":", "@"}
pchar == OrPct(path_char)
fragment == Star(Alt({pchar, Chr({"/", "?"})}))
query == Star(Alt({pchar, Chr({"/", "?"})}))

segment_nz_nc == Plus(OrPct(reg_char \cup {"@"}))
segment_nz == Plus(pchar)
segment == Star(pchar)
path_abempty == Star(Str(<<"/">>) \o segment)
path_rootless == segment_nz \o path_abempty
path_noscheme == segment_nz_nc \o path_abempty
path_absolute == Str(<<"/">>) \o Opt(segment_nz \o path_abempty)
path_empty == <<>>

reg_name == Star(OrPct(reg_char))
\* Mutant: the ranges of RFC 3986, without those that overlap them.
dec_octet_ranges == Alt({Chr(digit), Chr(digit \ {"0"}) \o Chr(digit),
                         Str(<<"1">>) \o Times(2, Chr(digit)),
                         Str(<<"2">>) \o Chr({"0", "1", "2", "3"}) \o Chr(digit),
                         Str(<<"2", "5">>) \o Chr({"0", "1", "2", "3", "5"})})
\* ("1"-"9") is a difference in Ragel, not a range: it is "1".
dec_octet == Alt({Chr(digit), Str(<<"1">>) \o Chr(digit),
                  Str(<<"1">>) \o Times(2, Chr(digit)),
                  Str(<<"2", "0">>) \o Chr(digit), Str(<<"2", "5", "0">>)})
IPv4address == dec_octet \o Times(3, Str(<<".">>) \o dec_octet)
h16 == UpTo(4, xdigit)
h16c == h16 \o Str(<<":">>)
ls32 == Alt({h16c \o h16, IPv4address})
Before(n) == Opt(Times(n, h16c) \o Star(h16c) \o h16) \o Str(<<":", ":">>)
\* 6( h16 ":" ) is the character 6 followed by one h16 ":".
IPv6address ==
    Alt({Str(<<"x06">>) \o h16c \o ls32,
         Str(<<":", ":", "x05">>) \o h16c \o ls32,
         Opt(h16) \o Str(<<":", ":", "x04">>) \o h16c \o ls32,
         Before(1) \o Str(<<"x03">>) \o h16c \o ls32,
         Before(2) \o Str(<<"x02">>) \o h16c \o ls32,
         Before(3) \o h16c \o ls32,
         Before(4) \o ls32,
         Before(5) \o h16,
         Before(6)})
IPvFuture == Str(<<"v">>) \o Plus(Chr(xdigit)) \o Str(<<".">>)
             \o Plus(Chr(reg_char \cup {":"}))
IP_literal == Str(<<"[">>) \o Alt({IPv6address, IPvFuture}) \o Str(<<"]">>)

port == Star(Chr(digit))
host == Alt({IP_literal, IPv4address, reg_name})
userinfo == Star(OrPct(reg_char \cup {":"}))
authority == Opt(userinfo \o Str(<<"@">>)) \o host \o Opt(Str(<<":">>) \o port)
scheme_char == alpha \cup digit \cup {"+", "-", "."}
scheme == Chr(alpha) \o Star(Chr(scheme_char))
relative_part == Alt({Str(<<"/", "/">>) \o authority \o path_abempty,
                      path_absolute, path_noscheme, path_empty})
hier_part == Alt({Str(<<"/", "/">>) \o authority \o path_abempty,
                  path_absolute, path_rootless, path_empty})
Tails == Opt(Str(<<"?">>) \o query) \o Opt(Str(<<"#">>) \o fragment)
relative_ref == relative_part \o Tails
URI == scheme \o Str(<<":">>) \o hier_part \o Tails
URI_reference == Alt({URI, relative_ref})

Method == UpTo(20, upper \cup digit)
HTTP_Version == Str(<<"H", "T", "T", "P", "/", "1", ".">>) \o Chr({"0", "1"})
Request_Line == Method \o Str(<<"SP">>) \o URI_reference \o Str(<<"SP">>)
                \o HTTP_Version \o CRLF

\* (0 - 31) is a difference, too: it is the character 0.
HTTP_CTL == {"NUL", "DEL"}
HTTP_separator == {"(", "<", ">", "@", ":", "quote", "/", "[", "]", "?", "{", "}",
                   "SP", "HT"}
lws == Opt(CRLF) \o Plus(Chr({"SP", "HT"}))
token == ascii \ (HTTP_CTL \cup HTTP_separator)
content == Alt({Chr(Chars \ HTTP_CTL), lws})
message_header == Guarded(Plus(Chr(token)) \o Str(<<":">>) \o Star(lws) \o Star(content),
                          CRLF)
Request == Request_Line \o Star(message_header) \o CRLF

any == Chr(Chars)
SocketJSONStart == Str(<<"@">>) \o relative_part
SocketJSONData == Guarded(Str(<<"{">>) \o Star(any) \o Str(<<"}">>), Str(<<"NUL">>))
SocketJSON == SocketJSONStart \o Str(<<"SP">>) \o SocketJSONData
SocketXML ==
    Guarded(Str(<<"<">>) \o Plus(Chr(alpha \cup digit \cup {"-", "."}))
            \o Chr({"/", ">", "SP", "HT", "LF", "VT", "CR"}) \o Star(any) \o Str(<<">">>),
            Str(<<"NUL">>))
main == Alt({Request, SocketXML, SocketJSON})
=============================================================================
