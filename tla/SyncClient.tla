----------------------------- MODULE SyncClient -----------------------------
(***************************************************************************)
(* RedisSyncClient and Pipeline, with the blocking half of RedisClientImpl: *)
(* connect() with its timeout, doSyncCommand(), socketWrite(),             *)
(* syncReadResponse() and socketReadSome().                                *)
(*                                                                         *)
(* A command is a number, counted over all calls; its reply is the same    *)
(* number.  Both cross the connection in two pieces, so that a write can   *)
(* stop in the middle of a command and a read in the middle of a reply.    *)
(* command() is a batch of one.  A signal does not end the process.        *)
(***************************************************************************)
EXTENDS Integers, Sequences

CONSTANTS
  MaxCmds,      \* bound: commands issued
  MaxBatch,     \* bound: commands of one pipeline
  MaxConnects,  \* bound: calls of connect()
  MaxCloses,    \* bound: calls of disconnect()
  MaxDrops,     \* bound: connections that are lost
  Timeouts      \* the timeouts the application may set, in units of 1024 ms

ASSUME SyncAssumption ==
  /\ MaxCmds \in Nat /\ MaxBatch \in Nat \ {0} /\ MaxConnects \in Nat
  /\ MaxCloses \in Nat /\ MaxDrops \in Nat
  /\ Timeouts \subseteq Nat

VARIABLES
  timeouts,   \* connectTimeout and commandTimeout
  state,      \* RedisClientImpl::state
  socket,     \* "closed", or the kind it was opened as: "tcp", "local"
  buf,        \* pieces in the receive buffer; bufSize is 0 if there are none
  partial,    \* the reply redisParser holds the first piece of, or None
  pc,         \* "idle", "writing" or "reading"
  batch,      \* the commands of the call in progress
  toWrite,    \* the pieces of them still to be written
  responses   \* doSyncCommand's local variable

VARIABLES     \* the connection and the server
  link,       \* "none", "opening", "up", "down"
  toServer,   \* pieces the server has not taken
  toClient    \* pieces of replies on their way

VARIABLES     \* history
  cmds, connects, closes, drops,  \* how often each has happened
  returned,   \* how the last call returned, for which commands, with what
  reported,   \* did the last connect() succeed, did it report success
  late        \* an earlier error or connection left something behind

call    == <<pc, batch, toWrite, responses>>
wire    == <<link, toServer, toClient>>
counts  == <<cmds, connects, closes, drops>>
vars    == <<timeouts, state, socket, buf, partial, call, wire, counts, returned,
             reported, late>>

Cmd     == 1 .. MaxCmds
None    == 0            \* also the reply RedisValue()
Garbage == MaxCmds + 1  \* what the parser or the server makes of two mixed up

Piece == [id : 1 .. Garbage, part : {1, 2}]
Pieces(ids) == [i \in 1 .. 2 * Len(ids) |->
                  [id |-> ids[(i + 1) \div 2], part |-> IF i % 2 = 1 THEN 1 ELSE 2]]
Nothing == [how |-> "none", asked |-> <<>>, values |-> <<>>]
Rest(s, n) == SubSeq(s, n + 1, Len(s))

\* 365 days, and a duration of milliseconds cut to the int that poll() takes.
Default  == 30796875
AsInt(d) == IF d % 4194304 < 2097152 THEN d % 4194304 ELSE (d % 4194304) - 4194304

\* A negative number makes poll() wait for ever.
CanTimeOut(d) == AsInt(d) >= 0

Init ==
  /\ timeouts = [connect |-> Default, command |-> Default]
  /\ state = "Unconnected" /\ socket = "closed"
  /\ buf = <<>> /\ partial = None
  /\ pc = "idle" /\ batch = <<>> /\ toWrite = <<>> /\ responses = <<>>
  /\ link = "none" /\ toServer = <<>> /\ toClient = <<>>
  /\ cmds = 0 /\ connects = 0 /\ closes = 0 /\ drops = 0
  /\ returned = Nothing
  /\ reported = [up |-> FALSE, ok |-> FALSE]
  /\ late = FALSE

-----------------------------------------------------------------------------
(* connect() and disconnect().  connect() blocks the only thread and is one *)
(* step; a TCP connect that times out goes on in the background.            *)

\* Mutant: a connect() is marked as begun, as in the asynchronous client.
StateAfterMarked(ok) == IF ok THEN "Connected" ELSE "Connecting"

StateAfter(ok) == IF ok THEN "Connected" ELSE state

\* Opening a socket that is open reports already_open; only the local overload
\* stops there.  The TCP overload goes on with connect(2), but whatever comes of
\* it never clears the error.
Connect(via) ==
  /\ pc = "idle"
  /\ connects < MaxConnects
  /\ connects' = connects + 1
  /\ socket' = IF socket = "closed" THEN via ELSE socket
  /\ \E up, settings, timeout \in BOOLEAN :
       LET tries == link = "none" /\ (socket = "closed" \/ (socket = via /\ via = "tcp"))
           ok    == tries /\ up /\ settings /\ socket = "closed"
       IN  /\ via = "local" => settings /\ ~timeout
           /\ up => ~timeout
           /\ timeout => CanTimeOut(timeouts.connect)
           /\ link' = IF ~tries THEN link
                      ELSE IF up THEN "up" ELSE IF timeout THEN "opening" ELSE "none"
           /\ state' = StateAfter(ok)
           /\ reported' = [up |-> tries /\ up /\ settings, ok |-> ok]
           /\ late' = IF ok THEN buf # <<>> \/ partial # None ELSE late
  /\ UNCHANGED <<timeouts, buf, partial, call, toServer, toClient, cmds, closes, drops,
                 returned>>

\* disconnect() is close(): the receive buffer and the parser are kept.
Disconnect ==
  /\ pc = "idle"
  /\ closes < MaxCloses
  /\ closes' = closes + 1
  /\ socket' = "closed" /\ state' = "Closed"
  /\ link' = "none" /\ toServer' = <<>> /\ toClient' = <<>>
  /\ UNCHANGED <<timeouts, buf, partial, call, cmds, connects, drops, returned, reported,
                 late>>

\* setConnectTimeout() and setCommandTimeout().
SetTimeout ==
  /\ pc = "idle"
  /\ \E which \in DOMAIN timeouts, d \in Timeouts : timeouts' = [timeouts EXCEPT ![which] = d]
  /\ UNCHANGED <<state, socket, buf, partial, call, wire, counts, returned,
                 reported, late>>

\* The client is destroyed, which closes it, and another one constructed.
Renew ==
  /\ pc = "idle"
  /\ closes < MaxCloses
  /\ closes' = closes + 1
  /\ timeouts' = [connect |-> Default, command |-> Default]
  /\ state' = "Unconnected" /\ socket' = "closed"
  /\ buf' = <<>> /\ partial' = None
  /\ link' = "none" /\ toServer' = <<>> /\ toClient' = <<>>
  /\ late' = FALSE
  /\ UNCHANGED <<call, cmds, connects, drops, returned, reported>>

-----------------------------------------------------------------------------
(* command() and Pipeline::finish().                                       *)

\* How a call ends: with values, or with an error, after which its commands or
\* their replies may still be somewhere.
Returns(how, values) ==
  /\ pc' = "idle"
  /\ batch' = <<>> /\ toWrite' = <<>> /\ responses' = <<>>
  /\ returned' = [how |-> how, asked |-> batch, values |-> values]

Fails ==
  /\ Returns("error", <<>>)
  /\ late' = TRUE

\* What a Pipeline has gathered when finish() is called: its commands in their order.
Gathered(n) == [i \in 1 .. n |-> cmds + i]

\* The state is checked, the commands are encoded.  (A pipeline of no commands
\* returns at once and changes nothing.)  In a wrong state, which
\* the assertion excludes, errorHandler is called and nothing is sent.
Call(n) ==
  /\ pc = "idle"
  /\ cmds + n <= MaxCmds
  /\ IF state = "Connected"
       THEN /\ cmds' = cmds + n
            /\ batch' = Gathered(n)
            /\ toWrite' = Pieces(batch')
            /\ responses' = <<>>
            /\ pc' = "writing"
            /\ returned' = Nothing
       ELSE /\ returned' = [Nothing EXCEPT !.how = "refused"]
            /\ UNCHANGED <<call, cmds>>
  /\ UNCHANGED <<timeouts, state, socket, buf, partial, wire, connects, closes, drops,
                 reported, late>>

\* socketWrite(): send() takes the next n pieces.  What is sent on a connection
\* that is gone is lost.
WriteSome(n) ==
  /\ pc = "writing"
  /\ n <= Len(toWrite)
  /\ toServer' = IF link = "up" THEN toServer \o SubSeq(toWrite, 1, n) ELSE toServer
  /\ toWrite' = Rest(toWrite, n)
  /\ pc' = IF n = Len(toWrite) THEN "reading" ELSE "writing"
  /\ UNCHANGED <<timeouts, state, socket, buf, partial, batch, responses, link, toClient,
                 counts, returned, reported, late>>

\* Nothing can be sent before the timeout, or send() fails.
WriteFails ==
  /\ pc = "writing"
  /\ link = "down" \/ CanTimeOut(timeouts.command)
  /\ Fails
  /\ UNCHANGED <<timeouts, state, socket, buf, partial, wire, counts, reported>>

\* socketReadSome() is called only when the buffer is empty.
ReadSome(n) ==
  /\ pc = "reading"
  /\ buf = <<>>
  /\ n <= Len(toClient)
  /\ buf' = SubSeq(toClient, 1, n)
  /\ toClient' = Rest(toClient, n)
  /\ UNCHANGED <<timeouts, state, socket, partial, call, link, toServer, counts, returned,
                 reported, late>>

\* Mutant: a timeout is taken for an interrupted system call.
ReadRetries ==
  /\ pc = "reading"
  /\ buf = <<>> /\ toClient = <<>>
  /\ link # "up"
  /\ Fails
  /\ UNCHANGED <<timeouts, state, socket, buf, partial, wire, counts, reported>>

\* poll() times out, which is reported like the end of the connection: eof.
ReadFails ==
  /\ pc = "reading"
  /\ buf = <<>> /\ toClient = <<>>
  /\ link = "down" \/ CanTimeOut(timeouts.command)
  /\ Fails
  /\ UNCHANGED <<timeouts, state, socket, buf, partial, wire, counts, reported>>

\* Mutant: the loop over the commands ends one too early.
RespondEarly(value) ==
  IF Len(responses) + 2 < Len(batch)
    THEN /\ responses' = Append(responses, value)
         /\ UNCHANGED <<pc, batch, toWrite, returned>>
    ELSE Returns("values", Append(responses, value))

\* One more response; after the last one the call returns.
Respond(value) ==
  IF Len(responses) + 1 < Len(batch)
    THEN /\ responses' = Append(responses, value)
         /\ UNCHANGED <<pc, batch, toWrite, returned>>
    ELSE Returns("values", Append(responses, value))

\* Mutants: what follows a reply in the buffer is thrown away; a reply is not
\* removed from the buffer.
ParseKeeping(left) ==
  /\ pc = "reading" /\ buf # <<>>
  /\ \/ /\ partial = None /\ Head(buf).part = 1
        /\ partial' = Head(buf).id /\ buf' = Tail(buf)
        /\ UNCHANGED <<call, returned>>
     \/ /\ partial = Head(buf).id /\ Head(buf).part = 2
        /\ partial' = None /\ buf' = left
        /\ Respond(partial)
  /\ UNCHANGED <<timeouts, state, socket, wire, counts, reported, late>>

ParseDropsRest == ParseKeeping(<<>>)
ParseTwice     == ParseKeeping(Pieces(<<partial>>) \o Tail(buf))

\* The parser takes the piece that follows what it holds.
ParseNext ==
  /\ pc = "reading" /\ buf # <<>>
  /\ buf' = Tail(buf)
  /\ LET piece == Head(buf)
     IN  \/ /\ partial = None /\ piece.part = 1
            /\ partial' = piece.id
            /\ UNCHANGED <<call, returned>>
         \/ /\ partial = piece.id /\ piece.part = 2
            /\ partial' = None
            /\ Respond(piece.id)
  /\ UNCHANGED <<timeouts, state, socket, wire, counts, reported, late>>

\* The piece does not belong to what the parser holds: it makes a value of the
\* two, waits for more, or finds an error.  Then errorHandler throws, or returns
\* and the response is RedisValue(), without an error code.
ParseMixed ==
  /\ pc = "reading" /\ buf # <<>>
  /\ LET piece == Head(buf)
     IN  /\ ~(partial = None /\ piece.part = 1)
         /\ ~(partial = piece.id /\ piece.part = 2)
  /\ buf' = Tail(buf)
  /\ \/ partial' = None /\ Respond(Garbage) /\ UNCHANGED late
     \/ partial' = Garbage /\ UNCHANGED <<call, returned, late>>
     \/ partial' = None /\ Fails
     \/ partial' = None /\ Respond(None) /\ UNCHANGED late
  /\ UNCHANGED <<timeouts, state, socket, wire, counts, reported>>

-----------------------------------------------------------------------------
(* The network and the server.                                             *)

\* A connect that timed out ends in the background.
LateConnect(to) ==
  /\ link = "opening"
  /\ link' = to
  /\ UNCHANGED <<timeouts, state, socket, buf, partial, call, toServer, toClient, counts,
                 returned, reported, late>>

\* The server answers a whole command.
ServerReply ==
  /\ link = "up" /\ Len(toServer) >= 2
  /\ toServer[1].id = toServer[2].id
  /\ toServer' = Rest(toServer, 2)
  /\ toClient' = toClient \o Pieces(<<toServer[1].id>>)
  /\ UNCHANGED <<timeouts, state, socket, buf, partial, call, link, counts, returned,
                 reported, late>>

\* A command that was cut off swallows the next one: the server reports a
\* protocol error and closes the connection.
ServerError ==
  /\ link = "up" /\ Len(toServer) >= 2
  /\ toServer[1].id # toServer[2].id
  /\ link' = "down" /\ toServer' = <<>>
  /\ toClient' = toClient \o Pieces(<<Garbage>>)
  /\ UNCHANGED <<timeouts, state, socket, buf, partial, call, counts, returned, reported, late>>

\* The connection is lost; what was sent before arrives up to some point.
Drop(arrives) ==
  /\ link = "up" /\ drops < MaxDrops
  /\ drops' = drops + 1
  /\ link' = "down" /\ toServer' = <<>>
  /\ toClient' = SubSeq(toClient, 1, arrives)
  /\ UNCHANGED <<timeouts, state, socket, buf, partial, call, cmds, connects, closes,
                 returned, reported, late>>

-----------------------------------------------------------------------------
Writing == \E n \in 1 .. 2 * MaxBatch : WriteSome(n)
Reading == \E n \in 1 .. 2 * MaxCmds + 2 : ReadSome(n)
Client  == Writing \/ WriteFails \/ Reading \/ ReadFails \/ ParseNext \/ ParseMixed
App     == (\E via \in {"tcp", "local"} : Connect(via)) \/ Disconnect \/ SetTimeout \/ Renew
           \/ \E n \in 1 .. MaxBatch : Call(n)
Network == \/ \E to \in {"up", "down"} : LateConnect(to)
           \/ ServerReply \/ ServerError
           \/ \E arrives \in 0 .. Len(toClient) : Drop(arrives)

Next == App \/ Client \/ Network
Spec == Init /\ [][Next]_vars

\* A blocking call goes on while it can, at the latest after its timeout.  The
\* server need not answer.
FairSpec == Spec /\ WF_vars(Client)

-----------------------------------------------------------------------------
(* Properties.                                                             *)

TypeOK ==
  /\ timeouts \in [{"connect", "command"} -> Timeouts \cup {Default}]
  /\ state \in {"Unconnected", "Connected", "Closed"} /\ socket \in {"closed", "tcp", "local"}
  /\ buf \in Seq(Piece) /\ partial \in 0 .. Garbage
  /\ pc \in {"idle", "writing", "reading"}
  /\ batch \in Seq(Cmd) /\ toWrite \in Seq(Piece) /\ responses \in Seq(0 .. Garbage)
  /\ link \in {"none", "opening", "up", "down"}
  /\ toServer \in Seq(Piece) /\ toClient \in Seq(Piece)
  /\ cmds \in 0 .. MaxCmds /\ connects \in 0 .. MaxConnects
  /\ closes \in 0 .. MaxCloses /\ drops \in 0 .. MaxDrops
  /\ returned.how \in {"none", "values", "error", "refused"}
  /\ returned.asked \in Seq(Cmd) /\ returned.values \in Seq(0 .. Garbage)
  /\ reported \in [up : BOOLEAN, ok : BOOLEAN] /\ late \in BOOLEAN

(* A call that returns without an error returns the replies to its own      *)
(* commands, however writes and reads are cut and wherever the connection   *)
(* is lost, unless an earlier call of the connection failed or the          *)
(* connection before left something in the buffer or the parser.            *)
OwnReplies ==
  [][~late /\ pc = "reading" /\ returned' # returned /\ returned'.how = "values"
       => returned'.values = batch]_vars

(* Between two calls nothing is under way that the next call could take for *)
(* its own.                                                                 *)
Quiet ==
  pc = "idle" /\ ~late =>
    toServer = <<>> /\ toClient = <<>> /\ buf = <<>> /\ partial = None

(* A call that fails while the connection is up was waiting for an answer   *)
(* the server had not given: what has been received is never waited for.    *)
NoVainWait ==
  [][pc = "reading" /\ ~late /\ link = "up" /\ returned' # returned
       /\ returned'.how = "error"
       => toServer # <<>>]_vars

(* Every call returns, whatever the server does, also when it reads what an *)
(* earlier call left: the default timeout of 365 days, though cut to an int, *)
(* is still a timeout, and so is every one of less than 2^31 milliseconds,  *)
(* 24 days.                                                                 *)
Honoured == {d \in Timeouts : d < 2097152} \cup {Default}
CallEnds == pc # "idle" /\ timeouts.command \in Honoured ~> pc = "idle"

-----------------------------------------------------------------------------
(* What the documentation says and the code does not do.                   *)

(* pipeline.h:30 "For every request command will get response value.", with *)
(* an example in which result[0] is the value the first command asked for:  *)
(* what is returned for a command is never the reply to another one.        *)
ResultsMatch ==
  returned.how = "values" =>
    \A i \in DOMAIN returned.values :
      returned.values[i] \in Cmd => returned.values[i] = returned.asked[i]

(* redissyncclient.h:34 "Connect to redis server": a connect() in which     *)
(* every system call succeeded, and the connection is up, reports success.  *)
ConnectReported == reported.up => reported.ok
=============================================================================
