------------------------------ MODULE MCServer ------------------------------
(* An instance of Server for TLC: bodies of none and of two bytes, which a *)
(* buffer of three cannot hold together with the head.                     *)
EXTENDS Server

MCBodies == {0, 2}

\* The table of servlets and the rest have nothing in common but the bound on
\* calls: a behaviour has calls of one kind or of the other.  No fair action is
\* a call, so that the constraint cuts no behaviour short of what it must do.
OneKindOfCalls == Len(log) \in {0, calls}

=============================================================================
