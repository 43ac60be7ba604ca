---------------------------- MODULE MCHttpClient ----------------------------
(* An instance of HttpClient for TLC: a response with a body of one byte and *)
(* one of a chunk and the last chunk, read into a buffer of four bytes.      *)
EXTENDS HttpClient, TLC

B(is, n) == [is |-> is, n |-> n]
MCForms == {<<B("h1", 0), B("h2", 1), B("d", 0)>>,
            <<B("h1", 0), B("h2", Chunked), B("s1", 0), B("s2", 1), B("d", 0), B("e", 0),
              B("s1", 0), B("s2", 0), B("e", 0)>>}

MCMaxRequests == {2}

Symmetry == Permutations(Fibers)

=============================================================================
