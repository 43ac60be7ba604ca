----------------------------- MODULE UriGrammar -----------------------------
(***************************************************************************)
(* The grammar of uri.rl, over the classes of characters that it tells       *)
(* apart: "3" is 3 or 4, "9" is 6 to 9, "a" a hexadecimal letter, "z" any     *)
(* other letter but v, "!" stands for !$&'()*,;= and "_" for _~.             *)
(***************************************************************************)
EXTENDS Ragel

digit == {"0", "1", "2", "3", "5", "9"}
alpha == {"a", "v", "z"}
xdigit == digit \cup {"a"}
high == {"high"}
sub_delims == {"!", "+"}
unreserved == alpha \cup digit \cup {"-", ".", "_"}
Chars == unreserved \cup sub_delims \cup high \cup
         {"x02", "#", "%", "/", ":", "?", "@", "[", "]", "other"}
pct_encoded == Str(<<"%">>) \o Chr(xdigit) \o Chr(xdigit)
OrPct(S) == Alt({Chr(S), pct_encoded})
reg_char == unreserved \cup sub_delims
scheme_char == alpha \cup digit \cup {"+", "-", "."}
scheme == Chr(alpha) \o Star(Chr(scheme_char))

userinfo == Star(OrPct(reg_char \cup {":"}))
\* The 2 of 2 [0-4] digit has no quotes: it is the character with code 2.
dec_octet == Alt({Chr(digit), Chr(digit \ {"0"}) \o Chr(digit),
                  Str(<<"1">>) \o Times(2, Chr(digit)),
                  Chr({"x02"}) \o Chr({"0", "1", "2", "3"}) \o Chr(digit),
                  Str(<<"2", "5">>) \o Chr({"0", "1", "2", "3", "5"})})
IPv4address == dec_octet \o Times(3, Str(<<".">>) \o dec_octet)
h16 == UpTo(4, xdigit)
h16c == h16 \o Str(<<":">>)
ls32 == Alt({h16c \o h16, IPv4address})
Before(n) == Opt(Times(n, h16c) \o h16) \o Str(<<":", ":">>)
IPv6address ==
    Alt({Times(6, h16c) \o ls32, Str(<<":", ":">>) \o Times(5, h16c) \o ls32,
         Before(5) \o h16, Before(6)}
        \cup {Before(n) \o Times(4 - n, h16c) \o ls32 : n \in 0..4})
IPvFuture == Str(<<"v">>) \o Plus(Chr(xdigit)) \o Str(<<".">>) \o Plus(Chr(reg_char \cup {":"}))
IP_literal == Str(<<"[">>) \o Alt({IPv6address, IPvFuture}) \o Str(<<"]">>)
reg_name == Star(OrPct(reg_char))
host == Alt({IP_literal, IPv4address, reg_name})
port == Star(Chr(digit))
authority == Opt(userinfo \o Str(<<"@">>)) \o host \o Opt(Str(<<":">>) \o port)

pchar == OrPct(high \cup reg_char \cup {":", "@"})
segment == Star(pchar)
segment_nz == Plus(pchar)
segment_nz_nc == Plus(OrPct(high \cup reg_char \cup {"@"}))
path_abempty == Star(Str(<<"/">>) \o segment)
path_absolute == Str(<<"/">>) \o Opt(segment_nz \o path_abempty)
path_noscheme == segment_nz_nc \o path_abempty
path_rootless == segment_nz \o path_abempty
path_empty == <<>>
query == Star(Alt({pchar, Chr({"/", "?"})}))
fragment == Star(Alt({pchar, Chr({"/", "?"})}))

hier_part == Alt({Str(<<"/", "/">>) \o authority \o path_abempty,
                  path_absolute, path_rootless, path_empty})
relative_part == Alt({Str(<<"/", "/">>) \o authority \o path_abempty,
                      path_absolute, path_noscheme, path_empty})
Tails == Opt(Str(<<"?">>) \o query) \o Opt(Str(<<"#">>) \o fragment)
relative_ref == relative_part \o Tails
URI == scheme \o Str(<<":">>) \o hier_part \o Tails
main == Alt({URI, relative_ref})
=============================================================================
