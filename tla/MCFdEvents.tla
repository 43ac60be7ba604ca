------------------------------ MODULE MCFdEvents ------------------------------
(* An instance of FdEvents for TLC. *)
EXTENDS FdEvents

\* Every descriptor may be closed under its registrations.
MCClosable == Fds

=============================================================================
