------------------------------- MODULE TaskPool -------------------------------
(***************************************************************************)
(* What a scheduler promises its clients, without threads, fibers or        *)
(* queues: every callback handed to schedule() is begun at most once, is    *)
(* ended at most once and after it has begun, and stop() returns only when  *)
(* nothing that was submitted is left (webserve/scheduler.h, the class      *)
(* comment).                                                                *)
(***************************************************************************)
CONSTANT Tasks

VARIABLES status, stopped

vars == <<status, stopped>>

Init == /\ status = [c \in Tasks |-> "new"]
        /\ stopped = FALSE

\* schedule(): one callback, or the callbacks of one batch.
Submit(S) ==
  /\ ~ stopped
  /\ S # {}
  /\ \A c \in S : status[c] = "new"
  /\ status' = [c \in Tasks |-> IF c \in S THEN "queued" ELSE status[c]]
  /\ UNCHANGED stopped

\* A thread starts to execute the callback.
Begin(c) ==
  /\ ~ stopped
  /\ status[c] = "queued"
  /\ status' = [status EXCEPT ![c] = "running"]
  /\ UNCHANGED stopped

\* The callback returns or throws.
End(c) ==
  /\ ~ stopped
  /\ status[c] = "running"
  /\ status' = [status EXCEPT ![c] = "done"]
  /\ UNCHANGED stopped

\* stop() returns.
StopReturns ==
  /\ ~ stopped
  /\ \A c \in Tasks : status[c] \in {"new", "done"}
  /\ stopped' = TRUE
  /\ UNCHANGED status

Next == \/ \E S \in SUBSET Tasks : Submit(S)
        \/ \E c \in Tasks : Begin(c) \/ End(c)
        \/ StopReturns

Spec == Init /\ [][Next]_vars

=============================================================================
