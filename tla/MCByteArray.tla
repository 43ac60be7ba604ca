----------------------------- MODULE MCByteArray -----------------------------
(* An instance of ByteArray for TLC: blocks of one to three bytes. *)
EXTENDS ByteArray

MCBases == 1..3

\* One byte, two bytes with the low group empty, and all bits set.
MCUints == {More - 1, More, 2^Width - 1}

\* The smallest integer and -1.
MCInts == {-(2^(Width - 1)), -1}

\* Two different bytes.
MCShorts == {3 * More - 1}

\* Strings and files of up to MaxSize bytes, different from their neighbours.
MCBuffers == {[i \in 1..k |-> More - (i % 2)] : k \in 0..MaxSize}

MCLeftovers == {0, More}

=============================================================================
