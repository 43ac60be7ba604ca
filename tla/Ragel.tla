------------------------------- MODULE Ragel -------------------------------
(***************************************************************************)
(* The Ragel language as far as the three grammars of this repository use  *)
(* it, and the notation for the machines generated from them.              *)
(*                                                                         *)
(* A grammar is a sequence of factors: a character of a set, a choice, a    *)
(* repetition, or a part guarded by what follows it (":>" and ":>>").  What *)
(* may still follow after some input is a set of such sequences, the        *)
(* partial derivatives of the grammar, so that a machine can be compared    *)
(* with its grammar one character at a time, on input of any length.  A     *)
(* character of the input is the set of the names it goes by: its class     *)
(* and, where a "when" condition holds, the conditional name of the class.  *)
(***************************************************************************)
EXTENDS Naturals, Sequences, TLC

Chr(S) == << <<"chr", S>> >>
Alt(alternatives) == << <<"alt", alternatives>> >>
Star(r) == << <<"star", r>> >>
Opt(r) == Alt({r, <<>>})
Plus(r) == r \o Star(r)

\* "abc": characters in a row, by the names of their classes.
Str(names) == [i \in 1..Len(names) |-> <<"chr", {names[i]}>>]

\* r{n}; r{1,n} with the characters of S for r.
RECURSIVE Times(_, _)
Times(n, r) == IF n = 0 THEN <<>> ELSE r \o Times(n - 1, r)
RECURSIVE UpTo(_, _)
UpTo(n, S) == IF n = 1 THEN Chr(S) ELSE Chr(S) \o Opt(UpTo(n - 1, S))

\* left :> right.  Entering right takes precedence over going on in left, so
\* the positions in left are kept together.
Guarded(left, right) == << <<"guarded", {left}, right>> >>

RECURSIVE Nullable(_)
Nullable(r) ==
    \A i \in DOMAIN r :
        CASE r[i][1] = "chr" -> FALSE
          [] r[i][1] = "alt" -> \E s \in r[i][2] : Nullable(s)
          [] r[i][1] = "star" -> TRUE
          [] r[i][1] = "guarded" -> Nullable(r[i][3]) /\ \E s \in r[i][2] : Nullable(s)

\* What may follow r's first character, when that is the character c.
RECURSIVE After(_, _)
After(r, c) ==
    IF r = <<>> THEN {}
    ELSE LET f == r[1]
             rest == Tail(r)
         IN  CASE f[1] = "chr" -> IF c \cap f[2] # {} THEN {rest} ELSE {}
               [] f[1] = "alt" -> UNION {After(s \o rest, c) : s \in f[2]}
               [] f[1] = "star" -> {s \o r : s \in After(f[2], c)} \cup After(rest, c)
               [] f[1] = "guarded" ->
                    LET enter == IF \E s \in f[2] : Nullable(s)
                                 THEN After(f[3] \o rest, c) ELSE {}
                        stay == UNION {After(s, c) : s \in f[2]}
                    IN  IF enter # {} THEN enter
                        ELSE IF stay = {} THEN {}
                        ELSE {<< <<"guarded", stay, f[3]>> >> \o rest}

Advance(rs, c) == UNION {After(r, c) : r \in rs}
Accepts(rs) == \E r \in rs : Nullable(r)

-----------------------------------------------------------------------------
\* A generated machine: `goto stN' and `goto trN' for sets of characters in the
\* rows of the states, the actions and the next state for each trN.
st(n) == <<"st", n>>
tr(n) == <<"tr", n>>
Do(acts, next) == [acts |-> acts, next |-> next]

None == <<>>
Stuck == {} :> st(0)

\* The rows of all blocks of a machine in one table.
Merge(blocks, field) ==
    [n \in UNION {DOMAIN blocks[i][field] : i \in DOMAIN blocks} |->
        LET i == CHOOSE i \in DOMAIN blocks : n \in DOMAIN blocks[i][field]
        IN  blocks[i][field][n]]

\* The transition of a machine [st, tr] in state n on the character c.
Goto(machine, n, c) ==
    LET hits == {S \in DOMAIN machine.st[n] : S \cap c # {}}
        to == IF hits = {} THEN st(0) ELSE machine.st[n][CHOOSE S \in hits : TRUE]
    IN  IF to[1] = "st" THEN Do(<<>>, to[2]) ELSE machine.tr[to[2]]

=============================================================================
