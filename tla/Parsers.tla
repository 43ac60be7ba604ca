------------------------------ MODULE Parsers ------------------------------
(***************************************************************************)
(* The three parsers at work: http_parser_execute on a request that arrives   *)
(* in one or more reads, httpclient_parser_execute on a response or a chunk's *)
(* header, and Uri::Create on a string.  The input is any sequence of          *)
(* characters, of any length, chosen one at a time.                            *)
(*                                                                           *)
(* A position in the input is represented by the parts (module Tokens) that    *)
(* begin there, "here" if it is the position of the current character and      *)
(* "next" if it is that of the one to come.  So mark, field_start and          *)
(* query_start say what a callback would be given as the start of its part.    *)
(***************************************************************************)
EXTENDS Ragel, SequencesExt, FiniteSetsExt, Tokens

H == INSTANCE HttpMachine
C == INSTANCE ClientMachine
U == INSTANCE UriMachine

Kinds == {"http", "client", "uri"}
Machine == [http |-> H!Machine, client |-> C!Machine, uri |-> U!Machine]
Grammar == [http |-> H!main, client |-> C!main, uri |-> U!main]
Chars == [http |-> H!Chars, client |-> C!Chars, uri |-> U!Chars]
start == [http |-> 1, client |-> 1, uri |-> 451]
first_final == [http |-> 348, client |-> 120, uri |-> 451]
error == 0

\* http_parser_is_finished, httpclient_parser_is_finished and the test at the
\* end of Uri::Create.
is_finished(k, n) == IF k = "client" THEN n = first_final[k] ELSE n >= first_final[k]

\* The lines of a response that the client parser keeps for itself.
Kept == [content_len |-> C!content_length, close |-> C!conn_close,
         chunked |-> C!transfer_encoding_chunked]

VARIABLES
    kind,       \* which of the parsers
    relaxed,    \* parser->uri_relaxed, which nothing initializes
    cs,         \* the state of the machine
    regs,       \* mark, field_start, field_len, query_start: positions
    kept,       \* parser->content_len, close, chunked: those that are set
    saved,      \* Uri: the members that hold their part of the string
    wrong,      \* Uri: the members that hold something else
    status,     \* "reading", "done" (fbreak, or the end of a string), "threw"
    \* The reference.
    rest,       \* what the grammar lets follow
    mode,       \* the mode of the tokens
    upcoming,   \* the parts that begin at the next character
    whole,      \* the parts that began in the current read
    ended,      \* Uri: the parts that have ended
    lines,      \* what may follow in each kind of line in Kept, if the line is one
    found,      \* the kinds of lines that there were
    folded,     \* the last header had no value
    last        \* what the last character made the parser report, and should have
code == <<kind, relaxed, cs, regs, kept, saved, wrong, status>>
reference == <<rest, mode, upcoming, whole, ended, lines, found, folded, last>>
vars == <<code, reference>>

-----------------------------------------------------------------------------
\* The actions of the machines.  A step in progress is p = [regs, kept, saved,
\* wrong, out, threw]; `now' is the position of the character, `ends' the parts
\* that end before it.
\* Mutant: a mark is set behind the character.
MARK_late(p, r, now) == [p EXCEPT !.regs[r] = {"next"}]
MARK(p, r, now) == [p EXCEPT !.regs[r] = now]

\* PTR_TO(r), LEN(r, fpc): exactly the part t?
Spans(p, r, t, ends) == t \in p.regs[r] /\ t \in ends

Report(p, t, ok) == [p EXCEPT !.out = Append(@, [token |-> t, exact |-> ok])]

\* uri->set...(std::string(mark, fpc - mark)); a string of a null mark throws.
save(p, t, ends) ==
    IF "null" \in p.regs.mark THEN [p EXCEPT !.threw = TRUE]
    ELSE IF Spans(p, "mark", t, ends)
         THEN [p EXCEPT !.saved = @ \cup {t}, !.wrong = @ \ {t}]
         ELSE [p EXCEPT !.saved = @ \ {t}, !.wrong = @ \cup {t}]
clear(p) == [p EXCEPT !.regs.mark = {"null"}]
\* Mutant: an empty port is saved, too.
save_port_always(p, ends) == clear(save(p, "save_port", ends))
save_port(p, ends) == clear(IF "here" \in p.regs.mark THEN p ELSE save(p, "save_port", ends))

Marks == {"mark", "start_value", "marku", "markh"}
Callbacks == {"request_method", "request_uri", "fragment", "http_version", "request_path",
              "reason_phrase", "status_code"}
\* Mutant: two flags are mixed up.
Flags_swapped == [write_content_len |-> "content_len", write_connection_close |-> "chunked",
                  trans_chunked |-> "close"]
Flags == [write_content_len |-> "content_len", write_connection_close |-> "close",
          trans_chunked |-> "chunked"]

Perform(p, a, now, ends) ==
    CASE a \in Marks -> MARK(p, "mark", now)
      [] a = "start_field" -> MARK(p, "field_start", now)
      [] a = "start_query" -> MARK(p, "query_start", now)
      [] a = "write_field" -> MARK(p, "field_len",
                                   IF Spans(p, "field_start", a, ends) THEN {a} ELSE {})
      [] a = "chunk_size" -> Report([p EXCEPT !.kept = {"chunked", "content_len"}], a,
                                    Spans(p, "mark", a, ends))
      [] a \in Callbacks -> Report(p, a, Spans(p, "mark", a, ends))
      [] a = "query_string" -> Report(p, a, Spans(p, "query_start", a, ends))
      [] a = "write_value" -> Report(p, a, /\ "write_field" \in p.regs.field_start
                                           /\ "write_field" \in p.regs.field_len
                                           /\ Spans(p, "mark", a, ends))
      [] a \in DOMAIN Flags -> [p EXCEPT !.kept = @ \cup {Flags[a]}]
      [] a \in {"xml", "json"} -> [p EXCEPT !.sent = TRUE]
      [] a = "done" -> IF p.sent THEN Report(p, "body", Spans(p, "mark", "body", ends))
                       ELSE Report(p, "done", TRUE)
      [] a = "save_port" -> save_port(p, ends)
      [] a = "save_userinfo" -> clear(IF "null" \in p.regs.mark THEN p ELSE save(p, a, ends))
      [] a = "save_host" -> IF "null" \in p.regs.mark THEN p ELSE save(p, a, ends)
      [] a \in {"save_scheme", "save_path", "save_query", "save_fragment"} ->
            clear(save(p, a, ends))

-----------------------------------------------------------------------------
Start(k) ==
    [mark |-> IF k = "uri" THEN {"null"} ELSE {"next"},
     field_start |-> {"next"}, field_len |-> {}, query_start |-> {}]

Init ==
    /\ kind \in Kinds
    /\ relaxed \in IF kind = "http" THEN BOOLEAN ELSE {FALSE}
    /\ cs = start[kind]
    /\ regs = Start(kind)
    /\ kept = {} /\ saved = {} /\ wrong = {}
    /\ status = "reading"
    /\ rest = {Grammar[kind]}
    /\ mode = "start"
    /\ upcoming = {} /\ whole = {} /\ ended = {} /\ found = {}
    /\ lines = [k \in DOMAIN Kept |-> {}]
    /\ folded = FALSE
    /\ last = [out |-> <<>>, due |-> <<>>]

\* The actions `acts' performed at a position where the parts `begun' begin and
\* those of `ends' end.  An exception leaves the rest undone.
Run(acts, begun, ends) ==
    LET now == begun \cup {"here"}
        before == [regs |-> [r \in DOMAIN regs |->
                                IF "next" \in regs[r] THEN now ELSE regs[r] \ now],
                   kept |-> kept, saved |-> saved \ begun,
                   wrong |-> wrong \cup (saved \cap begun),
                   out |-> <<>>, sent |-> FALSE, threw |-> FALSE]
    IN  FoldLeft(LAMBDA p, a : IF p.threw THEN p ELSE Perform(p, a, now, ends), before, acts)

\* What the reference makes of the same character.
Follow(c, rule, begun) ==
    LET ends == Range(rule.ends)
        empty == IF "save_port" \in ends \cap begun THEN {"save_port"} ELSE {}
    IN  /\ mode' = rule.next
        /\ upcoming' = rule.after
        /\ whole' = whole \cup begun
        /\ ended' = IF kind = "uri"
                    THEN ((ended \ begun) \cup ends \cup {"empty_port" : t \in empty}) \ empty
                    ELSE {}
        /\ folded' = IF "write_field" \in ends THEN FALSE
                     ELSE folded \/ (mode = "blank" /\ "write_value" \in ends \cap begun)

\* One character: `case cs: switch(*p)', the actions of the transition taken,
\* and the next state.
Consume(c) ==
    LET names == {c} \cup IF relaxed /\ c \in {"^", "{", "}"} THEN {"when " \o c} ELSE {}
        t == Goto(Machine[kind], cs, names)
        rule == Step(RulesOf(kind, mode), c)
        begun == upcoming \cup rule.begin
        p == Run(t.acts, begun, Range(rule.ends))
    IN  /\ status = "reading"
        /\ cs' = t.next
        /\ regs' = p.regs
        /\ kept' = p.kept
        /\ saved' = p.saved
        /\ wrong' = p.wrong
        /\ status' = IF p.threw THEN "threw" ELSE IF t.next = error THEN "failed"
                     ELSE IF Contains(t.acts, "done") THEN "done" ELSE "reading"
        /\ rest' = Advance(rest, names)
        /\ Follow(c, rule, begun)
        /\ lines' = IF kind = "client"
                    THEN [k \in DOMAIN Kept |->
                            Advance(lines[k] \cup (IF mode = "line" THEN {Kept[k]} ELSE {}), names)]
                    ELSE lines
        /\ found' = found \cup {k \in DOMAIN Kept : Accepts(lines'[k])}
                          \cup IF Contains(t.acts, "chunk_size") THEN {"chunked", "content_len"} ELSE {}
        /\ last' = IF folded \/ t.next = error \/ kind = "uri" THEN [out |-> <<>>, due |-> <<>>]
                   ELSE [out |-> p.out, due |-> SelectSeq(rule.ends, LAMBDA e : e # "write_field")]
        /\ UNCHANGED <<kind, relaxed>>

\* The buffer is used up; execute is called again on the next read.  Only
\* query_start is not reset, and is an offset into a buffer that is gone.
execute ==
    /\ kind # "uri" /\ status = "reading"
    /\ mode \notin {"chunk", "extname", "extval"}
    /\ regs' = Start(kind)
    /\ whole' = {}
    /\ UNCHANGED <<kind, relaxed, cs, kept, saved, wrong, status, rest, mode, upcoming, ended,
                   lines, found, folded, last>>

\* Uri::Create: p == eof.
Create_eof ==
    LET acts == IF cs \in DOMAIN U!EndOfInput THEN U!EndOfInput[cs] ELSE <<>>
        rule == Step(RulesOf(kind, mode), "EOF")
        begun == upcoming \cup rule.begin
        p == Run(acts, begun, Range(rule.ends))
    IN  /\ kind = "uri" /\ status = "reading"
        /\ regs' = p.regs
        /\ saved' = p.saved
        /\ wrong' = p.wrong
        /\ status' = IF p.threw THEN "threw" ELSE IF is_finished(kind, cs) THEN "done"
                     ELSE "failed"
        /\ Follow("EOF", rule, begun)
        /\ UNCHANGED <<kind, relaxed, cs, kept, rest, lines, found, last>>

Next == (\E c \in Chars[kind] : Consume(c)) \/ execute \/ Create_eof
Spec == Init /\ [][Next]_vars

-----------------------------------------------------------------------------
\* http11_parser.rl.cc, httpclient_parser.rl.cc and uri.rl.cc are the machines
\* of the grammars beside them: on every input a machine fails where the
\* grammar lets nothing follow, and is in a final state where it is complete.
MachineMatchesGrammar ==
    /\ (cs = error) = (rest = {})
    /\ (cs >= first_final[kind]) = Accepts(rest)

\* A request or a response cut into reads anywhere: at every character the
\* callbacks made are those of the parts that end there, and each is given
\* exactly its part, unless that began in an earlier read (execute has reset
\* the marks; of a header, the name counts too).  Nothing is asked of the line
\* after a header without a value, which may be taken for the value.
Needs(t) == CASE t = "write_value" -> {"write_field", "write_value"}
              [] t = "done" -> {} [] OTHER -> {t}
ReportsExact ==
    /\ [i \in DOMAIN last.out |-> last.out[i].token] = last.due
    /\ \A i \in DOMAIN last.out : Needs(last.out[i].token) \subseteq whole => last.out[i].exact

\* When a response is done, content_len, close and chunked are set exactly if
\* it had a Content-Length with a number, "Connection: close" and
\* "Transfer-Encoding: chunked", in any case of the letters.
KeptExact == kind = "client" /\ status = "done" => kept = found

\* Uri::Create saves exactly the parts that the string has, a path only after
\* a scheme and an authority, and of a user with a ":" something else.  It
\* throws only if the port is empty and the path, too.
UriExact ==
    LET want == ended \ ({"empty_port", "user_and_more"}
                         \cup IF "save_scheme" \in ended THEN {} ELSE {"save_path"})
    IN  kind = "uri" =>
        /\ status = "done" =>
            /\ saved = want
            /\ wrong = IF "user_and_more" \in ended THEN {"save_userinfo"} ELSE {}
        /\ status = "threw" => {"empty_port", "save_path"} \subseteq ended
=============================================================================
