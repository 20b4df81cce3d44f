---------------------------- MODULE CommandQueue ----------------------------
(***************************************************************************)
(* What RedisAsyncClient promises about commands and reply handlers,       *)
(* whatever the sockets, buffers and event loop do: a command joins the    *)
(* end of a queue, the handler at the head is called, with the reply to    *)
(* its own command, and disconnect() clears the queue.  A command is the   *)
(* number of the call that issued it.  The promise is void once work of    *)
(* one connection has been left to the next.                               *)
(***************************************************************************)
EXTENDS Naturals, Sequences

CONSTANT MaxCmds  \* bound: commands issued

VARIABLES
  waiting,  \* commands whose handler has not been called, oldest first
  issued,   \* number of commands issued
  answers,  \* the reply each handler was called with, or 0
  void      \* the promise binds no longer

vars == <<waiting, issued, answers, void>>

Init ==
  /\ waiting = <<>>
  /\ issued = 0
  /\ answers = [c \in 1 .. MaxCmds |-> 0]
  /\ void = FALSE

Issue ==
  /\ issued < MaxCmds
  /\ issued' = issued + 1
  /\ waiting' = Append(waiting, issued')
  /\ UNCHANGED <<answers, void>>

Answer ==
  /\ waiting # <<>>
  /\ answers' = [answers EXCEPT ![Head(waiting)] = Head(waiting)]
  /\ waiting' = Tail(waiting)
  /\ UNCHANGED <<issued, void>>

Clear ==
  /\ waiting' = <<>>
  /\ UNCHANGED <<issued, answers, void>>

\* Left-over work appears, or has appeared: anything may happen.
Void == void'

Next == Issue \/ Answer \/ Clear \/ Void
Spec == Init /\ [][Next]_vars
=============================================================================
