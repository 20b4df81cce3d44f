---------------------------- MODULE AsyncClient ----------------------------
(***************************************************************************)
(* RedisAsyncClient and the asynchronous half of RedisClientImpl, run by   *)
(* one thread in io_service::run() as all the examples of the repository   *)
(* do: connecting, disconnecting, pipelining commands and dispatching      *)
(* replies.  (Subscriptions are not in this module.)                       *)
(*                                                                         *)
(* A command is a number, in the order command() or publish() is called;   *)
(* the reply to command c is also written c.  The control point ctl says   *)
(* where the io thread is: in the event loop, parsing a block of received  *)
(* bytes, or in a callback of the application.  Application code (Connect, *)
(* Disconnect, Command) runs in callbacks and, as the handler of a timer   *)
(* of its own, from the event loop.                                        *)
(*                                                                         *)
(* Boost.Asio, TCP and the server are external: an operation started on    *)
(* the socket is pending until the reactor completes it, its completion    *)
(* then waits in the io_service's queue until the io thread runs it, and   *)
(* close() completes whatever is pending with operation_aborted.           *)
(***************************************************************************)
EXTENDS Naturals, Sequences, FiniteSets

CONSTANTS
  MaxCmds,          \* bound: commands the application issues
  MaxConnects,      \* bound: calls of connect()
  MaxDisconnects,   \* bound: calls of disconnect()
  MaxDrops,         \* bound: connections the server or the network drops
  Transports,       \* overloads of connect() in use: "tcp", "local"
  DisconnectPoints  \* control points the application disconnects from

States == {"Unconnected", "Connecting", "Connected", "Subscribed", "Closed"}

(* The callbacks of the application the io thread can be in.               *)
Upcalls == {"connectOk", "connectErr", "reply", "unexpected",
            "readErr", "parseErr", "writeErr"}

(* After handlers.pop() on an empty queue nothing is defined any more.     *)
Ctl == {"loop", "parse", "undefined"} \cup Upcalls

ASSUME AsyncAssumption ==
  /\ MaxCmds \in Nat /\ MaxConnects \in Nat
  /\ MaxDisconnects \in Nat /\ MaxDrops \in Nat
  /\ Transports \subseteq {"tcp", "local"}
  /\ DisconnectPoints \subseteq {"loop"} \cup Upcalls

VARIABLES
  state,        \* RedisClientImpl::state
  handlers,     \* reply handlers, each named by its command
  dataQueued,   \* encoded commands waiting for the write in progress
  dataWrited,   \* encoded commands of the write in progress
  partial,      \* redisParser holds the first part of a reply
  strandq,      \* doAsyncCommand calls posted to the strand
  ctl,          \* where the io thread is
  chunk         \* what asyncRead has not parsed yet: replies, and whether
                \* the block ends in the first part of one more

VARIABLES       \* the socket, the reactor and the other end
  sock,         \* "closed", "opening", "up", "down"
  pendConnect,  \* an async_connect is pending
  pendReads,    \* number of pending async_read_some
  pendWrites,   \* pending async_writes: the commands each has yet to send
  doneq,        \* completed operations whose handlers are still to run
  atServer,     \* commands the server has received and not answered
  toClient,     \* replies sent by the server and not yet read in full
  headCut       \* the first part of Head(toClient) has been read

VARIABLES       \* history
  cmds, connects, disconnects, drops, \* how often each has happened
  answers,      \* the reply each command's handler was called with, or 0
  lastOld,      \* commands up to this one were issued before a disconnect()
  dirty,        \* a disconnect() left work behind that close() forgets
  unreported    \* the connection was lost and errorHandler not called since

client  == <<state, handlers, dataQueued, dataWrited, partial, strandq>>
io      == <<ctl, chunk>>
ops     == <<pendConnect, pendReads, pendWrites, doneq>>
wire    == <<sock, atServer, toClient, headCut>>
history == <<cmds, connects, disconnects, drops, answers, lastOld, dirty,
             unreported>>
vars    == <<client, io, ops, wire, history>>

Cmd     == 1 .. MaxCmds
Garbage == MaxCmds + 1     \* a value the parser makes up from two streams

Kinds   == {"connect", "read", "write"}
Results == {"ok", "failed", "aborted"}

(* A completed operation.  The block a read received: the replies it ends,  *)
(* whether it starts inside a reply and whether it ends inside one.         *)
Completion == [op : Kinds, st : Results, ids : Seq(1 .. Garbage),
               cont : BOOLEAN, more : BOOLEAN]
Done(op, st) == [op |-> op, st |-> st, ids |-> <<>>, cont |-> FALSE, more |-> FALSE]

NoBlock == [ids |-> <<>>, more |-> FALSE]
Copies(n, x) == [i \in 1 .. n |-> x]

Init ==
  /\ state = "Unconnected"
  /\ handlers = <<>> /\ dataQueued = <<>> /\ dataWrited = <<>>
  /\ partial = FALSE /\ strandq = <<>>
  /\ ctl = "loop" /\ chunk = NoBlock
  /\ sock = "closed"
  /\ pendConnect = FALSE /\ pendReads = 0 /\ pendWrites = <<>>
  /\ doneq = <<>>
  /\ atServer = <<>> /\ toClient = <<>> /\ headCut = FALSE
  /\ cmds = 0 /\ connects = 0 /\ disconnects = 0 /\ drops = 0
  /\ answers = [c \in Cmd |-> 0]
  /\ lastOld = 0 /\ dirty = FALSE
  /\ unreported = FALSE

-----------------------------------------------------------------------------
(* Mutants: the code with one plausible mistake.  They are not part of the *)
(* model; each shows that some property below notices the mistake.         *)

\* The Incompleted path of asyncRead() forgets to read on.
StartReadOnce ==
  IF chunk.more THEN UNCHANGED <<pendReads, doneq>>
                ELSE pendReads' = pendReads + 1 /\ UNCHANGED doneq

\* The buffers are copied to dataWrited, not swapped with it.
TransmitKeepsQueue(queue, completions) ==
  /\ dataWrited' = queue
  /\ dataQueued' = queue
  /\ pendWrites' = IF queue = <<>> THEN pendWrites ELSE Append(pendWrites, queue)
  /\ doneq' = completions

\* dataWrited is not set: it no longer tells that a write is in progress.
TransmitUnmarked(queue, completions) ==
  /\ dataWrited' = <<>>
  /\ dataQueued' = <<>>
  /\ pendWrites' = IF queue = <<>> THEN pendWrites ELSE Append(pendWrites, queue)
  /\ doneq' = completions

-----------------------------------------------------------------------------
(* Starting asynchronous operations.  On a closed socket they complete at  *)
(* once with bad_descriptor.                                               *)

\* processMessage(): start the next async_read_some.
StartRead ==
  IF sock = "closed"
    THEN /\ doneq' = Append(doneq, Done("read", "failed"))
         /\ UNCHANGED pendReads
    ELSE /\ pendReads' = pendReads + 1
         /\ UNCHANGED doneq

\* asyncWrite() after its error check, with the queue it finds and the
\* completions still to be handled: what is queued becomes the write in progress.
Transmit(queue, completions) ==
  /\ dataWrited' = queue
  /\ dataQueued' = <<>>
  /\ pendWrites' = IF queue = <<>> \/ sock = "closed" THEN pendWrites
                   ELSE Append(pendWrites, queue)
  /\ doneq' = IF queue # <<>> /\ sock = "closed"
                THEN Append(completions, Done("write", "failed"))
                ELSE completions

(* More mutants.                                                           *)

\* A failed connect leaves state with a value to_string() does not know.
ConnectHandledInvalid ==
  /\ ctl = "loop" /\ doneq # <<>> /\ Head(doneq).op = "connect"
  /\ doneq' = Tail(doneq)
  /\ state' = IF Head(doneq).st = "ok" THEN "Connected" ELSE "Invalid"
  /\ ctl' = IF Head(doneq).st = "ok" THEN "connectOk" ELSE "connectErr"
  /\ UNCHANGED <<handlers, dataQueued, dataWrited, partial, strandq, chunk,
                 pendConnect, pendReads, pendWrites, wire, cmds, connects,
                 disconnects, drops, answers, lastOld, dirty, unreported>>

\* The completion of a write does not look at what was queued meanwhile.
AsyncWriteIdle ==
  /\ ctl = "loop" /\ doneq # <<>> /\ Head(doneq).op = "write"
  /\ dataWrited' = <<>> /\ doneq' = Tail(doneq)
  /\ IF Head(doneq).st = "ok" THEN UNCHANGED <<ctl, unreported>>
                              ELSE ctl' = "writeErr" /\ unreported' = FALSE
  /\ UNCHANGED <<state, handlers, dataQueued, partial, strandq, chunk, pendConnect,
                 pendReads, pendWrites, wire, cmds, connects, disconnects, drops,
                 answers, lastOld, dirty>>

\* A read that fails ends the read loop without a word.
ReadSilently ==
  /\ ctl = "loop" /\ doneq # <<>> /\ Head(doneq).op = "read"
  /\ doneq' = Tail(doneq)
  /\ IF Head(doneq).st # "ok" THEN UNCHANGED io
     ELSE /\ ctl' = "parse"
          /\ chunk' = [ids |-> Head(doneq).ids, more |-> Head(doneq).more]
  /\ UNCHANGED <<client, pendConnect, pendReads, pendWrites, wire, history>>

\* The handler pushed last is called first.
ProcessLast ==
  /\ ctl = "parse" /\ chunk.ids # <<>> /\ handlers # <<>>
  /\ chunk' = [chunk EXCEPT !.ids = Tail(@)]
  /\ answers' = [answers EXCEPT ![handlers[Len(handlers)]] = Head(chunk.ids)]
  /\ ctl' = "reply"
  /\ UNCHANGED <<client, ops, wire, cmds, connects, disconnects, drops,
                 lastOld, dirty, unreported>>

\* The handler is popped before it is called, and once more after it.
ProcessPopsFirst ==
  /\ ctl = "parse" /\ chunk.ids # <<>> /\ handlers # <<>>
  /\ chunk' = [chunk EXCEPT !.ids = Tail(@)]
  /\ handlers' = Tail(handlers)
  /\ answers' = [answers EXCEPT ![Head(handlers)] = Head(chunk.ids)]
  /\ ctl' = "reply"
  /\ UNCHANGED <<state, dataQueued, dataWrited, partial, strandq, ops, wire,
                 cmds, connects, disconnects, drops, lastOld, dirty, unreported>>

\* Each block is parsed from the start, whatever the last one ended with.
BlockForgotten ==
  /\ ctl = "parse" /\ chunk.ids = <<>>
  /\ partial' = FALSE /\ chunk' = NoBlock /\ ctl' = "loop"
  /\ StartRead
  /\ UNCHANGED <<state, handlers, dataQueued, dataWrited, strandq, pendConnect,
                 pendWrites, wire, history>>

-----------------------------------------------------------------------------
(* Calls of the application.                                               *)

InApp == ctl \in {"loop"} \cup Upcalls

\* What is under way that neither close() nor a connect() stops: commands on the
\* strand or queued, a completed connect or read whose handler is still to run.
Carried ==
  \/ strandq # <<>>
  \/ dataQueued # <<>>
  \/ \E i \in DOMAIN doneq : doneq[i].op \in {"connect", "read"} /\ doneq[i].st = "ok"

\* connect() when it starts connecting.  The TCP overload gives a closed client
\* a new parser, the local one does not.  connect(2) may fail at once, as it
\* does on a socket that is connecting or connected, or, on a local socket,
\* succeed at once.
ConnectStarts(via) ==
  /\ state \in {"Unconnected", "Closed"}
  /\ state' = "Connecting"
  /\ partial' = (partial /\ ~(state = "Closed" /\ via = "tcp"))
  /\ dirty' = \/ dirty \/ partial' \/ Carried
              \/ handlers # <<>> \/ pendReads > 0 \/ pendWrites # <<>>
  /\ \/ /\ doneq' = Append(doneq, Done("connect", "failed"))
        /\ sock' = IF sock = "closed" THEN "down" ELSE sock
        /\ UNCHANGED <<pendConnect, atServer, toClient, headCut>>
     \/ /\ via = "local" /\ sock = "closed"
        /\ doneq' = Append(doneq, Done("connect", "ok"))
        /\ sock' = "up"
        /\ UNCHANGED <<pendConnect, atServer, toClient, headCut>>
     \/ /\ sock \in {"closed", "down"}
        /\ pendConnect' = TRUE
        /\ sock' = "opening"
        /\ atServer' = <<>> /\ toClient' = <<>> /\ headCut' = FALSE
        /\ UNCHANGED doneq

\* connect() in any other state calls the handler at once, with success.
ConnectIgnored ==
  /\ state \notin {"Unconnected", "Closed"}
  /\ UNCHANGED <<state, partial, dirty, pendConnect, doneq, wire>>

Connect(via) ==
  /\ InApp
  /\ connects < MaxConnects
  /\ connects' = connects + 1
  /\ ConnectStarts(via) \/ ConnectIgnored
  /\ UNCHANGED <<handlers, dataQueued, dataWrited, strandq, io, pendReads,
                 pendWrites, cmds, disconnects, drops, answers, lastOld,
                 unreported>>

\* disconnect(), which is close().
Disconnect ==
  /\ InApp
  /\ ctl \in DisconnectPoints
  /\ disconnects < MaxDisconnects
  /\ disconnects' = disconnects + 1
  /\ handlers' = <<>>
  /\ doneq' = doneq \o Copies(pendReads, Done("read", "aborted"))
                    \o Copies(IF pendConnect THEN 1 ELSE 0, Done("connect", "aborted"))
                    \o Copies(Len(pendWrites), Done("write", "aborted"))
  /\ pendConnect' = FALSE /\ pendReads' = 0 /\ pendWrites' = <<>>
  /\ sock' = "closed"
  /\ atServer' = <<>> /\ toClient' = <<>> /\ headCut' = FALSE
  /\ state' = "Closed"
  /\ dirty' = (dirty \/ Carried \/ ctl \in {"connectOk", "reply", "unexpected"})
  /\ lastOld' = cmds
  /\ unreported' = FALSE
  /\ UNCHANGED <<dataQueued, dataWrited, partial, strandq, io, cmds,
                 connects, drops, answers>>

\* command() and publish() in the state they assert.  In any other they call
\* errorHandler and change nothing.
Command ==
  /\ InApp
  /\ state = "Connected"
  /\ cmds < MaxCmds
  /\ cmds' = cmds + 1
  /\ strandq' = Append(strandq, cmds + 1)
  /\ UNCHANGED <<state, handlers, dataQueued, dataWrited, partial, io, ops,
                 wire, connects, disconnects, drops, answers, lastOld, dirty,
                 unreported>>

-----------------------------------------------------------------------------
(* Handlers run by the io thread.                                          *)

\* doAsyncCommand(), from the strand.
DoAsyncCommand ==
  /\ ctl = "loop"
  /\ strandq # <<>>
  /\ strandq' = Tail(strandq)
  /\ handlers' = Append(handlers, Head(strandq))
  /\ IF dataWrited = <<>>
       THEN Transmit(Append(dataQueued, Head(strandq)), doneq)
       ELSE /\ dataQueued' = Append(dataQueued, Head(strandq))
            /\ UNCHANGED <<dataWrited, pendWrites, doneq>>
  /\ UNCHANGED <<state, partial, io, pendConnect, pendReads, wire, history>>

\* The io thread takes the completion at the head of the queue.
Completed(op) ==
  /\ ctl = "loop"
  /\ doneq # <<>>
  /\ Head(doneq).op = op

\* handleAsyncConnect(), up to the call of the application's handler.
HandleAsyncConnect ==
  /\ Completed("connect")
  /\ doneq' = Tail(doneq)
  /\ LET ok == Head(doneq).st = "ok"
     IN  /\ state' = IF ok THEN "Connected" ELSE "Unconnected"
         /\ ctl' = IF ok THEN "connectOk" ELSE "connectErr"
  /\ UNCHANGED <<handlers, dataQueued, dataWrited, partial, strandq, chunk,
                 pendConnect, pendReads, pendWrites, wire, cmds, connects,
                 disconnects, drops, answers, lastOld, dirty, unreported>>

\* asyncWrite() as the completion of async_write, whatever became of it.
AsyncWrite ==
  /\ Completed("write")
  /\ IF Head(doneq).st = "ok"
       THEN /\ Transmit(dataQueued, Tail(doneq))
            /\ UNCHANGED <<ctl, unreported>>
       ELSE /\ dataWrited' = <<>>
            /\ doneq' = Tail(doneq)
            /\ ctl' = "writeErr"
            /\ unreported' = FALSE
            /\ UNCHANGED <<dataQueued, pendWrites>>
  /\ UNCHANGED <<state, handlers, partial, strandq, chunk, pendConnect,
                 pendReads, wire, cmds, connects, disconnects, drops, answers,
                 lastOld, dirty>>

\* asyncRead(), up to the parsing of the first reply.  A block that does not
\* carry on where the parser stopped is an error at once, or spoils a reply.
AsyncRead ==
  /\ Completed("read")
  /\ doneq' = Tail(doneq)
  /\ LET read == Head(doneq)
     IN  \/ /\ read.st = "aborted"
            /\ UNCHANGED <<partial, io, unreported>>
         \/ /\ read.st = "failed"
            /\ ctl' = "readErr" /\ unreported' = FALSE
            /\ UNCHANGED <<partial, chunk>>
         \/ /\ read.st = "ok" /\ read.cont = partial
            /\ ctl' = "parse"
            /\ chunk' = [ids |-> read.ids, more |-> read.more]
            /\ UNCHANGED <<partial, unreported>>
         \/ /\ read.st = "ok" /\ read.cont # partial
            /\ ctl' = "parseErr" /\ partial' = FALSE
            /\ UNCHANGED <<chunk, unreported>>
         \/ /\ read.st = "ok" /\ read.cont # partial /\ read.ids # <<>>
            /\ ctl' = "parse"
            /\ chunk' = [ids |-> <<Garbage>> \o Tail(read.ids), more |-> read.more]
            /\ UNCHANGED <<partial, unreported>>
  /\ UNCHANGED <<state, handlers, dataQueued, dataWrited, strandq, pendConnect,
                 pendReads, pendWrites, wire, cmds, connects, disconnects,
                 drops, answers, lastOld, dirty>>

\* doProcessMessage() for the next reply of the block, up to the callback.
DoProcessMessage ==
  /\ ctl = "parse"
  /\ chunk.ids # <<>>
  /\ chunk' = [chunk EXCEPT !.ids = Tail(@)]
  /\ IF handlers # <<>>
       THEN /\ answers' = [answers EXCEPT ![Head(handlers)] = Head(chunk.ids)]
            /\ ctl' = "reply"
       ELSE /\ ctl' = "unexpected"
            /\ UNCHANGED answers
  /\ UNCHANGED <<client, ops, wire, cmds, connects, disconnects, drops,
                 lastOld, dirty, unreported>>

\* The end of asyncRead(): the block is used up, read the next one.
EndOfBlock ==
  /\ ctl = "parse"
  /\ chunk.ids = <<>>
  /\ partial' = chunk.more
  /\ chunk' = NoBlock
  /\ ctl' = "loop"
  /\ StartRead
  /\ UNCHANGED <<state, handlers, dataQueued, dataWrited, strandq, pendConnect,
                 pendWrites, wire, history>>

-----------------------------------------------------------------------------
(* What the handlers do once the application's callback returns.           *)

\* handleAsyncConnect() after a successful connect.
ReturnConnected ==
  /\ ctl = "connectOk"
  /\ ctl' = "loop"
  /\ StartRead
  /\ UNCHANGED <<client, chunk, pendConnect, pendWrites, wire, history>>

\* doProcessMessage() pops the handler it has called.
ReturnReply ==
  /\ ctl = "reply"
  /\ IF handlers # <<>>
       THEN handlers' = Tail(handlers) /\ ctl' = "parse"
       ELSE ctl' = "undefined" /\ UNCHANGED handlers
  /\ UNCHANGED <<state, dataQueued, dataWrited, partial, strandq, chunk, ops,
                 wire, history>>

\* The callback that was told of an error returns: to asyncRead()'s loop after
\* an unexpected message, to the event loop after any other.
ReturnError ==
  /\ ctl \in Upcalls \ {"connectOk", "reply"}
  /\ ctl' = IF ctl = "unexpected" THEN "parse" ELSE "loop"
  /\ UNCHANGED <<client, chunk, ops, wire, history>>

-----------------------------------------------------------------------------
(* The reactor, the network and the server.                                *)

\* The reactor notices the end of an async_connect.  Completions run in the
\* order they are queued: those of an earlier connection come before this one.
ConnectResolved(result) ==
  /\ pendConnect
  /\ doneq = <<>>
  /\ pendConnect' = FALSE
  /\ doneq' = <<Done("connect", result)>>
  /\ sock' = IF result = "ok" THEN "up" ELSE "down"
  /\ UNCHANGED <<client, io, pendReads, pendWrites, atServer, toClient,
                 headCut, history>>

\* One more command of the first pending write reaches the server.
SendSome ==
  /\ sock = "up"
  /\ pendWrites # <<>>
  /\ LET batch == Head(pendWrites)
     IN  /\ atServer' = Append(atServer, Head(batch))
         /\ IF Len(batch) = 1
              THEN /\ pendWrites' = Tail(pendWrites)
                   /\ doneq' = Append(doneq, Done("write", "ok"))
              ELSE /\ pendWrites' = <<Tail(batch)>> \o Tail(pendWrites)
                   /\ UNCHANGED doneq
  /\ UNCHANGED <<client, io, pendConnect, pendReads, sock, toClient, headCut,
                 history>>

\* A write to a connection that is gone fails.
FailWrite ==
  /\ sock = "down"
  /\ pendWrites # <<>>
  /\ pendWrites' = Tail(pendWrites)
  /\ doneq' = Append(doneq, Done("write", "failed"))
  /\ UNCHANGED <<client, io, pendConnect, pendReads, wire, history>>

\* The server answers the commands of a connection in order.
ServerReply ==
  /\ sock = "up"
  /\ atServer # <<>>
  /\ atServer' = Tail(atServer)
  /\ toClient' = Append(toClient, Head(atServer))
  /\ UNCHANGED <<client, io, ops, sock, headCut, history>>

\* The server or the network drops the connection: only a first part of what
\* the server had sent still arrives.
PeerDrop(arrives) ==
  /\ sock = "up"
  /\ drops < MaxDrops
  /\ drops' = drops + 1
  /\ sock' = "down"
  /\ atServer' = <<>>
  /\ toClient' = SubSeq(toClient, 1, arrives)
  /\ headCut' = (headCut /\ arrives > 0)
  /\ unreported' = TRUE
  /\ UNCHANGED <<client, io, ops, cmds, connects, disconnects, answers,
                 lastOld, dirty>>

\* There is one receive buffer: what a read puts there destroys a block whose
\* handler has not run yet.
Overwritten(completions) ==
  [i \in DOMAIN completions |->
     [completions[i] EXCEPT !.ids = Copies(Len(@), Garbage)]]

\* The oldest pending read completes with n whole replies (the first without
\* the part read before) and perhaps the first part of the next one.
ReadSome(n, more) ==
  /\ sock \in {"up", "down"}
  /\ pendReads > 0
  /\ n <= Len(toClient)
  /\ more => n < Len(toClient)
  /\ n = 0 => more /\ ~headCut
  /\ pendReads' = pendReads - 1
  /\ doneq' = Append(Overwritten(doneq),
                     [op |-> "read", st |-> "ok", ids |-> SubSeq(toClient, 1, n),
                      cont |-> headCut, more |-> more])
  /\ toClient' = SubSeq(toClient, n + 1, Len(toClient))
  /\ headCut' = more
  /\ UNCHANGED <<client, io, pendConnect, pendWrites, sock, atServer, history>>

\* A read from a connection that is gone, and read to its end, fails.
ReadEof ==
  /\ sock = "down"
  /\ pendReads > 0
  /\ toClient = <<>>
  /\ pendReads' = pendReads - 1
  /\ doneq' = Append(doneq, Done("read", "failed"))
  /\ UNCHANGED <<client, io, pendConnect, pendWrites, wire, history>>

-----------------------------------------------------------------------------
App      == (\E via \in Transports : Connect(via)) \/ Disconnect \/ Command
Handlers == DoAsyncCommand \/ HandleAsyncConnect \/ AsyncWrite \/ AsyncRead
Running  == DoProcessMessage \/ EndOfBlock \/ ReturnConnected \/ ReturnReply
            \/ ReturnError
Reading  == \E n \in 0 .. MaxCmds, more \in BOOLEAN : ReadSome(n, more)
Network  == \/ \E result \in {"ok", "failed"} : ConnectResolved(result)
            \/ SendSome \/ FailWrite \/ ServerReply \/ Reading \/ ReadEof
            \/ \E arrives \in 0 .. Len(toClient) : PeerDrop(arrives)

Next == App \/ Handlers \/ Running \/ Network
Spec == Init /\ [][Next]_vars

\* io_service::run() runs every queued handler to its end, the kernel moves
\* bytes and reports what becomes of a connection, and the server answers.
Fairness ==
  /\ WF_vars(DoAsyncCommand) /\ WF_vars(HandleAsyncConnect)
  /\ WF_vars(AsyncWrite) /\ WF_vars(AsyncRead) /\ WF_vars(Running)
  /\ WF_vars(\E result \in {"ok", "failed"} : ConnectResolved(result))
  /\ WF_vars(SendSome) /\ WF_vars(FailWrite) /\ WF_vars(ServerReply)
  /\ WF_vars(Reading) /\ WF_vars(ReadEof)

FairSpec == Spec /\ Fairness

-----------------------------------------------------------------------------
(* Properties.                                                             *)

Suffix(s, t) ==
  Len(s) <= Len(t) /\ \A i \in 1 .. Len(s) : s[i] = t[Len(t) - Len(s) + i]
Prefix(s, t) == Len(s) <= Len(t) /\ \A i \in 1 .. Len(s) : s[i] = t[i]

ClientOK ==
  /\ state \in States
  /\ handlers \in Seq(Cmd) /\ dataQueued \in Seq(Cmd) /\ dataWrited \in Seq(Cmd)
  /\ strandq \in Seq(Cmd)

IoOK ==
  /\ ctl \in Ctl
  /\ chunk \in [ids : Seq(1 .. Garbage), more : BOOLEAN]

OpsOK ==
  /\ pendReads \in Nat
  /\ pendWrites \in Seq(Seq(Cmd))
  /\ doneq \in Seq(Completion)

WireOK ==
  /\ sock \in {"closed", "opening", "up", "down"}
  /\ atServer \in Seq(Cmd) /\ toClient \in Seq(Cmd)

HistoryOK ==
  /\ cmds \in 0 .. MaxCmds /\ connects \in 0 .. MaxConnects
  /\ disconnects \in 0 .. MaxDisconnects /\ drops \in 0 .. MaxDrops
  /\ answers \in [Cmd -> 0 .. Garbage]
  /\ lastOld \in 0 .. MaxCmds

FlagsOK ==
  /\ partial \in BOOLEAN /\ pendConnect \in BOOLEAN /\ headCut \in BOOLEAN
  /\ dirty \in BOOLEAN /\ unreported \in BOOLEAN

TypeOK == ClientOK /\ IoOK /\ OpsOK /\ WireOK /\ HistoryOK /\ FlagsOK

(* At most one async_write is pending or waits for its handler, dataWrited   *)
(* holds the buffers exactly as long as one does, and what it has yet to    *)
(* send is the end of them: asyncWrite() never clears or swaps the buffers  *)
(* of a write that is still running.                                        *)
WriteDone == {i \in DOMAIN doneq : doneq[i].op = "write"}

WriteDiscipline ==
  /\ \A i, j \in WriteDone : i = j
  /\ Len(pendWrites) <= (IF WriteDone = {} THEN 1 ELSE 0)
  /\ dataWrited = <<>> <=> pendWrites = <<>> /\ WriteDone = {}
  /\ \A i \in DOMAIN pendWrites :
       pendWrites[i] # <<>> /\ Suffix(pendWrites[i], dataWrited)

(* The handlers that are still to be called, oldest first.                 *)
Awaiting == IF ctl = "reply" THEN Tail(handlers) ELSE handlers

Blocks   == {i \in DOMAIN doneq : doneq[i].op = "read" /\ doneq[i].st = "ok"}
BlockIds == IF Blocks = {} THEN <<>> ELSE doneq[CHOOSE i \in Blocks : TRUE].ids
Received == chunk.ids \o BlockIds \o toClient
Unsent   == (IF pendWrites = <<>> THEN <<>> ELSE Head(pendWrites)) \o dataQueued

(* The handlers in `handlers` match, one for one and in order, the replies  *)
(* already received, the commands at the server and the commands on their   *)
(* way there.  After a drop the replies that did arrive match the first of  *)
(* them; without a connection there are neither, nor does the client say    *)
(* that it is connected (redisasyncclient.h:50).                            *)
Conveyor ==
  ~dirty => CASE sock = "up"   -> Awaiting = Received \o atServer \o Unsent
              [] sock = "down" -> Prefix(Received, Awaiting)
              [] OTHER         -> handlers = <<>> /\ Received = <<>> /\ state # "Connected"

(* Every reply of a live connection finds a handler and is well formed.    *)
NoStray == ~dirty => ctl \notin {"unexpected", "parseErr"}

(* handlers.pop() is never called on an empty queue, as long as no reply   *)
(* handler calls disconnect().                                             *)
PopDefined == "reply" \notin DisconnectPoints => ctl # "undefined"

(* The read loops: reads that are pending or will be parsed, and the       *)
(* handler on the stack that will start the next read.                     *)
Readers ==
  pendReads
  + Cardinality(Blocks)
  + (IF ctl \in {"connectOk", "parse", "reply", "unexpected"} THEN 1 ELSE 0)

Connecting == \E i \in DOMAIN doneq : doneq[i].op = "connect"

(* There is one receive buffer and one parser, so at most one read loop;   *)
(* and while the connection is up there is one, or replies would never be  *)
(* noticed.                                                                *)
OneReader ==
  ~dirty => Readers <= 1 /\ (sock = "up" /\ ~Connecting => Readers = 1)

(* What command() promises: its handlers are called first in, first out,   *)
(* each with its own reply, and disconnect() clears the queue, until it     *)
(* leaves work behind.                                                      *)
Promise == INSTANCE CommandQueue WITH waiting <- Awaiting \o strandq,
                                      issued  <- cmds,
                                      void    <- dirty
PromiseSpec == Promise!Spec

(* Unless the connection is lost or closed, every command is answered.     *)
Answered ==
  \A c \in Cmd : cmds >= c ~> \/ answers[c] # 0
                              \/ c <= lastOld \/ sock # "up" \/ dirty

(* The application learns of every lost connection through errorHandler,   *)
(* or closes the connection itself.                                        *)
DropReported == unreported ~> ~unreported \/ dirty

-----------------------------------------------------------------------------
(* What the documentation says and the code does not do.                   *)

(* redisasyncclient.h:56 "disconnect from redis and clear command queue":  *)
(* no command issued before disconnect() reaches the server after it.      *)
QueueCleared == \A i \in DOMAIN atServer : atServer[i] > lastOld
=============================================================================
