--------------------------- MODULE ClientGrammar ---------------------------
(***************************************************************************)
(* The grammar of responses and chunk headers in httpclient_parser.rl, over *)
(* the classes of characters that it tells apart.  "0" is any digit; the     *)
(* letters of header names are taken with both their cases, but for h and t, *)
(* of which "HTTP" wants the capitals; "!" is any other token character.     *)
(***************************************************************************)
EXTENDS Ragel

digit == {"0"}
xdigit == {"0", "A", "B", "C", "D", "E", "F"}
letters == {"A", "B", "C", "D", "E", "F", "G", "I", "K", "L", "N", "O", "R", "S", "U",
            "H", "h", "P", "T", "t"}
space == {"HT", "LF", "CR", "SP"}
token == letters \cup digit \cup {"!", "-", "."}
Chars == token \cup space \cup {"/", ":", ";", "=", "other"}

CRLF == Alt({Str(<<"CR", "LF">>), Str(<<"LF">>)})
\* /abc/i
NoCase(names) == [i \in 1..Len(names) |->
    <<"chr", CASE names[i] = "H" -> {"H", "h"} [] names[i] = "T" -> {"T", "t"}
               [] OTHER -> {names[i]}>>]

Reason_Phrase == Plus(Chr(Chars \ {"LF"}))
Status_Code == Plus(Chr(digit))
http_number == Plus(Chr(digit)) \o Str(<<".">>) \o Plus(Chr(digit))
HTTP_Version == Str(<<"H", "T", "T", "P", "/">>) \o http_number
Status_Line == Guarded(HTTP_Version \o Str(<<"SP">>) \o Status_Code \o Str(<<"SP">>)
                       \o Reason_Phrase, CRLF)

Colon == Str(<<":">>) \o Star(Chr(space))
fields == Guarded(Plus(Chr(token)) \o Colon \o Star(Chr(Chars)), CRLF)
content_length == NoCase(<<"C", "O", "N", "T", "E", "N", "T", "-", "L", "E", "N", "G", "T", "H">>)
                  \o Colon \o Plus(Chr(digit)) \o CRLF
conn_close == NoCase(<<"C", "O", "N", "N", "E", "C", "T", "I", "O", "N">>)
              \o Colon \o NoCase(<<"C", "L", "O", "S", "E">>) \o CRLF
transfer_encoding_chunked ==
    NoCase(<<"T", "R", "A", "N", "S", "F", "E", "R", "-", "E", "N", "C", "O", "D", "I", "N", "G">>)
    \o Colon \o NoCase(<<"C", "H", "U", "N", "K", "E", "D">>) \o CRLF
message_header == Alt({transfer_encoding_chunked, conn_close, content_length, fields})
Response == Status_Line \o Star(message_header) \o CRLF

chunk_extension == Star(Str(<<";">>) \o Plus(Chr(token))
                        \o Opt(Str(<<"=">>) \o Plus(Chr(token))))
Chunked_Header == Guarded(Plus(Chr(xdigit)) \o chunk_extension, CRLF)
main == Alt({Response, Chunked_Header})
=============================================================================
