---------------------------- MODULE SyncExamples ----------------------------
(***************************************************************************)
(* The synchronous examples as applications of the client: SyncClient's    *)
(* application calls anything at any time ("any"), these are programs of   *)
(* one thread that look at what each call returned before the next.        *)
(***************************************************************************)
EXTENDS SyncClient

CONSTANT Programs

VARIABLES
  program,
  at,      \* the call the program has come to
  called,  \* has it been made
  exit     \* "no", or "success", "failure", "abort"

main    == <<program, at, called, exit>>
allVars == <<vars, main>>

ExampleInit ==
  /\ Init
  /\ program \in Programs
  /\ at = 1 /\ called = FALSE /\ exit = "no"

-----------------------------------------------------------------------------
(* The programs: what they call, and where the loop begins again, if there *)
(* is one.                                                                 *)

SyncTimeout   == [calls |-> <<"setConnectTimeout", "setCommandTimeout", "connect", "command">>,
                  loop  |-> 4]
SyncPipeline  == [calls |-> <<"connect", "pipeline">>, loop |-> 0]
SyncSetGet    == [calls |-> <<"connect", "command", "command">>, loop |-> 0]
SyncBenchmark == [calls |-> <<"connect", "command", "command", "command", "printOPS">>,
                  loop  |-> 2]

Main ==
  CASE program = "sync_timeout"   -> SyncTimeout
    [] program = "sync_pipeline"  -> SyncPipeline
    [] program = "sync_set_get"   -> SyncSetGet
    [] program = "sync_benchmark" -> SyncBenchmark

Running   == program # "any" /\ exit = "no" /\ pc = "idle"
Comes(to) == Running /\ ~called /\ Main.calls[at] = to
Seconds   == 3  \* of both timeouts

MakeCall ==
  /\ \/ Comes("setConnectTimeout") /\ SetTimeout /\ timeouts'.connect = Seconds
     \/ Comes("setCommandTimeout") /\ SetTimeout /\ timeouts'.command = Seconds
     \/ Comes("connect") /\ Connect("tcp")
     \/ Comes("command") /\ Call(1)
     \/ Comes("pipeline") /\ Call(MaxBatch)
     \/ Comes("printOPS") /\ Call(1)
  /\ called' = TRUE
  /\ UNCHANGED <<program, at, exit>>

\* "info" is asked for once in a second.
PrintOPSTooEarly ==
  /\ Comes("printOPS")
  /\ called' = TRUE
  /\ UNCHANGED <<vars, program, at, exit>>

\* Mutant: nobody looks at `ec` after a command.
FailedUnseen == Main.calls[at] = "connect" /\ ~reported.ok

Failed == IF Main.calls[at] = "connect" THEN ~reported.ok ELSE returned.how = "error"
Misled == returned.how = "values" /\ returned.values # returned.asked

\* An error ends the program (the errors the server reports, which end it too, are
\* not told from other replies), by a return or by an exception nothing catches.  The
\* benchmark compares what it got with what it has set.
LookAtResult ==
  /\ Running /\ called
  /\ called' = FALSE
  /\ IF Failed \/ (Misled /\ program = "sync_benchmark")
       THEN /\ exit' = IF Failed THEN "failure" ELSE "abort"
            /\ UNCHANGED at
       ELSE /\ at' = IF at < Len(Main.calls) THEN at + 1 ELSE Main.loop
            /\ exit' = IF at' = 0 THEN "success" ELSE "no"
  /\ UNCHANGED <<vars, program>>

ExampleNext ==
  \/ MakeCall \/ PrintOPSTooEarly \/ LookAtResult
  \/ program = "any" /\ App /\ UNCHANGED main
  \/ (Client \/ Network) /\ UNCHANGED main

ExampleSpec     == ExampleInit /\ [][ExampleNext]_allVars
ExampleFairSpec == ExampleSpec /\ WF_allVars(Client /\ UNCHANGED main)

-----------------------------------------------------------------------------
(* sync_benchmark.cpp:52 `if (redisClient.command(...) != "OK") abort()`:   *)
(* no example is handed another reply than the one to the command it has   *)
(* sent, wherever writes and reads are cut or fail: each ends at the first *)
(* error, and never sees what the failed call has left in the connection.  *)
NeverMisled == program # "any" => ~Misled /\ exit # "abort"
=============================================================================
