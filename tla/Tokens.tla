------------------------------- MODULE Tokens -------------------------------
(***************************************************************************)
(* The reference the parsers are compared with: where the parts of a request, *)
(* of a response and of a URI begin and end, told from the delimiters alone.  *)
(* It takes for granted that the input is well formed; whether it is, the     *)
(* grammars say.  A part has the name of the callback that reports it; the    *)
(* name of a header is "write_field", its value "write_value".                *)
(*                                                                           *)
(* A rule for a set of characters in a mode says which parts end before the   *)
(* character, which begin at it and which right after it, and the next mode.  *)
(***************************************************************************)
EXTENDS Naturals, Sequences

Rule(chars, ends, begin, after, next) ==
    [chars |-> chars, ends |-> ends, begin |-> begin, after |-> after, next |-> next]
On(c, ends, after, next) == Rule(c, ends, {}, after, next)
To(c, next) == Rule(c, <<>>, {}, {}, next)

\* The first rule that names the character, or the last one, which has no set.
Step(rules, c) ==
    LET hits == {i \in DOMAIN rules : rules[i].chars = {} \/ c \in rules[i].chars}
    IN  rules[CHOOSE i \in hits : \A j \in hits : i <= j]

Else == {}
EOL == {"CR", "LF"}
White == {"SP", "HT"}

\* After the part `t', the end of a line: \n or \r\n.
LineEnd(t) == <<On({"LF"}, t, {}, "line"), On({"CR"}, t, {}, "lf")>>

\* Header lines, in requests and in responses.
Header == [
    line  |-> <<Rule({"LF"}, <<"done">>, {}, {}, "end"),
                Rule({"CR"}, <<>>, {"write_field"}, {}, "cr"),
                Rule(Else, <<>>, {"write_field"}, {}, "name")>>,
    lf    |-> <<To(Else, "line")>>,
    cr    |-> <<On({"LF"}, <<"done">>, {}, "end"),
                On({":"}, <<"write_field">>, {"write_value"}, "blank"), To(Else, "name")>>,
    name  |-> <<On({":"}, <<"write_field">>, {"write_value"}, "blank"), To(Else, "name")>>,
    blank |-> <<On(White, <<>>, {"write_value"}, "blank"),
                On({"LF"}, <<"write_value">>, {}, "line"),
                On({"CR"}, <<"write_value">>, {}, "lf"), To(Else, "value")>>,
    value |-> LineEnd(<<"write_value">>) \o <<To(Else, "value")>>]

SchemeChars == {"A", "H", "P", "T", "Z", "a", "v", "z", "0", "1", "2", "3", "5", "9",
                "+", "-", "."}
Letters == {"A", "H", "P", "T", "Z", "a", "v", "z"}

\* "?", "#" or the space after the request target, in its part `t'.
TargetEnd(t) ==
    <<On({"#"}, <<t, "request_uri">>, {"fragment"}, "fragment"),
      On({"SP"}, <<t, "request_uri">>, {"http_version"}, "version")>>
PathEnd == <<On({"?"}, <<"request_path">>, {"query_string"}, "query")>>
           \o TargetEnd("request_path")
AfterScheme == <<On({":"}, <<>>, {"request_path", "request_uri"}, "path")>>

Request == [
    start    |-> <<Rule({"<"}, <<>>, {"request_path", "body"}, {}, "xmlname"),
                   Rule({"@"}, <<>>, {"request_path"}, {}, "jsonname"),
                   Rule(Else, <<>>, {"request_method"}, {}, "method")>>,
    method   |-> <<On({"SP"}, <<"request_method">>, {"request_path", "request_uri"}, "target"),
                   To(Else, "method")>>,
    target   |-> PathEnd \o <<To(Letters, "scheme"), To(Else, "path")>>,
    scheme   |-> AfterScheme \o PathEnd \o <<To(SchemeChars, "scheme"), To(Else, "path")>>,
    path     |-> PathEnd \o <<To(Else, "path")>>,
    query    |-> TargetEnd("query_string") \o <<To(Else, "query")>>,
    fragment |-> <<On({"SP"}, <<"fragment">>, {"http_version"}, "version"),
                   To(Else, "fragment")>>,
    version  |-> LineEnd(<<"http_version">>) \o <<To(Else, "version")>>,
    xmlname  |-> <<On({"/", ">", "VT"} \cup EOL \cup White, <<"request_path">>, {}, "xml"),
                   To(Else, "xmlname")>>,
    xml      |-> <<To({">"}, "xmlend"), To(Else, "xml")>>,
    xmlend   |-> <<On({"NUL"}, <<"body">>, {}, "end"), To({">"}, "xmlend"), To(Else, "xml")>>,
    jsonname |-> <<On({"SP"}, <<"request_path">>, {"body"}, "brace"), To(Else, "jsonname")>>,
    brace    |-> <<To(Else, "json")>>,
    json     |-> <<To({"}"}, "jsonend"), To(Else, "json")>>,
    jsonend  |-> <<On({"NUL"}, <<"body">>, {}, "end"), To({"}"}, "jsonend"), To(Else, "json")>>]

\* The first character of a reason may be any but \n; a chunk's header is its
\* size and extensions, of which one without a value reports an empty one.
ExtensionEnd(t) ==
    <<On({"LF"}, t \o <<"done">>, {}, "end"), On({"CR"}, t, {}, "cr"),
      On({";"}, t, {"write_field"}, "extname")>>
\* A line may as well bring the value that the header before it had not.
NameOrValue == LineEnd(<<>>) \o <<On({":"}, <<"write_field">>, {"write_value"}, "blank"),
                                  To(Else, "name")>>
Response == [
    start    |-> <<Rule({"H"}, <<>>, {"http_version"}, {}, "version"),
                   Rule(Else, <<>>, {"chunk_size"}, {}, "chunk")>>,
    version  |-> <<On({"SP"}, <<"http_version">>, {"status_code"}, "status"),
                   To(Else, "version")>>,
    status   |-> <<On({"SP"}, <<"status_code">>, {"reason_phrase"}, "first"),
                   To(Else, "status")>>,
    first    |-> <<To(Else, "reason")>>,
    reason   |-> LineEnd(<<"reason_phrase">>) \o <<To(Else, "reason")>>,
    name     |-> NameOrValue, lf |-> NameOrValue, end |-> NameOrValue,
    chunk    |-> ExtensionEnd(<<"chunk_size">>) \o <<To(Else, "chunk")>>,
    extname  |-> <<On({"="}, <<"write_field">>, {"write_value"}, "extval"),
                   Rule({"LF"}, <<"write_field", "write_value", "done">>, {"write_value"}, {}, "end"),
                   Rule({"CR"}, <<"write_field", "write_value">>, {"write_value"}, {}, "cr"),
                   Rule({";"}, <<"write_field", "write_value">>, {"write_value"},
                        {"write_field"}, "extname"),
                   To(Else, "extname")>>,
    extval   |-> ExtensionEnd(<<"write_value">>) \o <<To(Else, "extval")>>]

-----------------------------------------------------------------------------
\* A URI; "EOF" stands for its end.  What is before "@" is the user, and could
\* until then have been a host with its port; one with a ":" in it is a part
\* of another name, user_and_more, that Uri::Create does not save as it is.
UriEnd(t) == <<On({"?"}, t, {"save_query"}, "query"),
               On({"#"}, t, {"save_fragment"}, "fragment"), On({"EOF"}, t, {}, "end")>>
HostEnd(t) ==
    <<Rule({"/"}, t, {"save_path"}, {}, "path"),
      Rule({"?"}, t \o <<"save_path">>, {"save_path"}, {"save_query"}, "query"),
      Rule({"#"}, t \o <<"save_path">>, {"save_path"}, {"save_fragment"}, "fragment"),
      Rule({"EOF"}, t \o <<"save_path">>, {"save_path"}, {}, "end")>>
Unsaved == UriEnd(<<>>) \o <<To(Else, "unsaved")>>

Uri == [
    start    |-> <<Rule(Letters, <<>>, {"save_scheme"}, {}, "scheme"), To({"/"}, "slash")>>
                 \o Unsaved,
    scheme   |-> <<On({":"}, <<"save_scheme">>, {}, "hier"), To(SchemeChars, "scheme")>>
                 \o Unsaved,
    hier     |-> <<To({"/"}, "slash")>> \o Unsaved,
    slash    |-> <<On({"/"}, <<>>, {"save_userinfo", "save_host"}, "user")>> \o Unsaved,
    unsaved  |-> Unsaved,
    user     |-> <<On({"@"}, <<"save_userinfo">>, {"save_host"}, "host"),
                   On({":"}, <<"save_host">>, {"save_port"}, "userport"),
                   To({"["}, "literal")>> \o HostEnd(<<"save_host">>) \o <<To(Else, "user")>>,
    userport |-> <<On({"@"}, <<"user_and_more">>, {"save_host"}, "host")>>
                 \o HostEnd(<<"save_port">>) \o <<To(Else, "userport")>>,
    literal  |-> <<To({"]"}, "host"), To(Else, "literal")>>,
    host     |-> <<On({":"}, <<"save_host">>, {"save_port"}, "port"), To({"["}, "literal")>>
                 \o HostEnd(<<"save_host">>) \o <<To(Else, "host")>>,
    port     |-> HostEnd(<<"save_port">>) \o <<To(Else, "port")>>,
    path     |-> UriEnd(<<"save_path">>) \o <<To(Else, "path")>>,
    query    |-> <<On({"#"}, <<"save_query">>, {"save_fragment"}, "fragment"),
                   On({"EOF"}, <<"save_query">>, {}, "end"), To(Else, "query")>>,
    fragment |-> <<On({"EOF"}, <<"save_fragment">>, {}, "end"), To(Else, "fragment")>>]

Rules == [http |-> Request, client |-> Response, uri |-> Uri]
RulesOf(kind, mode) ==
    IF mode \in DOMAIN Rules[kind] THEN Rules[kind][mode] ELSE Header[mode]
=============================================================================
