----------------------------- MODULE Connection -----------------------------
(***************************************************************************)
(* Connection: one blocking connection to the server, made from its        *)
(* options, used by one caller after another, and made anew when it is     *)
(* broken or has been idle for too long.  A caller sends commands and      *)
(* receives their replies; when an operation on the socket throws, when a  *)
(* reply is an error, and after invalidate(), it may give the connection   *)
(* back as it is, with replies on it that it has not received.             *)
(*                                                                         *)
(* A context is hiredis's: an error, the output buffer, what the server    *)
(* has still to answer, what came back, and the session the server keeps   *)
(* for it.  A command is a number; they are used again in a circle, which  *)
(* is longer than all that can be under way at once.                       *)
(***************************************************************************)
EXTENDS ConnectionOptions

CONSTANTS
  Uris,      \* the URIs the application may use
  Commands,  \* bound: the length of the circle of commands
  Depth,     \* bound: commands sent before their replies are received
  MaxLeft    \* bound: replies that callers leave on a connection

\* A URI is a string, whatever it means.
ASSUME UriAssumption == Uris \subseteq Seq(Tokens)

ASSUME ConnectionAssumption ==
  Depth \in Nat \ {0} /\ MaxLeft \in Nat /\ Commands \in Nat /\ Commands >= 2 * Depth + MaxLeft

\* The types of the members, which are those of the defaults and of what the
\* constructor makes of a URI.
Options ==
  [valid : BOOLEAN, type : {"tcp", "unix"}, host : Seq(Tokens), port : Int, path : Seq(Tokens),
   user : Seq(Tokens), password : Seq(Tokens), db : Int, keepAlive : BOOLEAN,
   connectTimeout : Int, socketTimeout : Int, readonly : BOOLEAN]

Errors == {"none", "timeout", "closed", "invalid"}  \* redisContext::err

VARIABLES
  uri,     \* the URI given to the constructor
  opts,    \* _opts
  ctx,     \* *_ctx, a sequence of at most one context
  new,     \* the context of a connection under construction, likewise
  setup,   \* the commands of _set_options() still to be done on it
  stage,   \* what the caller is doing
  threw,   \* what the caller gives up for: an error reply, or the socket
  owed,    \* the commands the caller has to receive the replies of
  left,    \* history: what comes before that of the replies callers left
  nextCmd  \* the next command in the circle

vars == <<uri, opts, ctx, new, setup, stage, threw, owed, left, nextCmd>>
caller == <<threw, owed, left, nextCmd>>

Stages == {"start", "failed", "free", "connect", "setup", "using", "receiving"}

Init ==
  /\ uri \in Uris /\ opts = Invalid
  /\ ctx = <<>> /\ new = <<>> /\ setup = <<>>
  /\ stage = "start"
  /\ threw = "nothing" /\ owed = <<>> /\ left = <<>> /\ nextCmd = 0

-----------------------------------------------------------------------------
(* Construction.                                                           *)

\* The constructor of the options throws, or the connection can be made;
\* `readonly` is set by a friend class and by no URI.
MakeOptions ==
  /\ stage = "start"
  /\ LET o == ParseUri(uri)
     IN  IF o.valid
         THEN /\ \E ro \in BOOLEAN : opts' = [o EXCEPT !.readonly = ro]
              /\ stage' = "free"
         ELSE stage' = "failed" /\ UNCHANGED opts
  /\ UNCHANGED <<uri, ctx, new, setup, caller>>

Broken == ctx = <<>> \/ ctx[1].err # "none"

\* Connection(opts), or reconnect() of a broken or an idle connection.
Reconnect ==
  /\ stage = "free"
  /\ stage' = "connect"
  /\ UNCHANGED <<uri, opts, ctx, new, setup, caller>>

\* _to_timeval().
ToTimeval(ms) == [sec |-> ms \div 1000, usec |-> (ms % 1000) * 1000]

Session == [user |-> "nobody", db |-> 0, readonly |-> FALSE]

\* _set_socket_timeout(): a timeout of 0 or less is none.
SocketTimeout(o) == IF o.socketTimeout > 0 THEN o.socketTimeout ELSE 0

\* Connector::connect(): the socket has its timeouts and its keep-alive option.
Connected(o) ==
  [err |-> "none", out |-> <<>>, server |-> <<>>, in |-> <<>>, open |-> TRUE,
   session |-> Session, timeout |-> ToTimeval(SocketTimeout(o)), keepAlive |-> o.keepAlive]

\* Mutant: the database is not selected.
SetOptionsNoSelect(o) ==
  (IF o.user = <<"default">> /\ o.password = <<>> THEN <<>> ELSE <<"AUTH">>)
  \o (IF o.readonly THEN <<"READONLY">> ELSE <<>>)

\* _set_options().
SetOptions(o) ==
  (IF o.user = <<"default">> /\ o.password = <<>> THEN <<>> ELSE <<"AUTH">>)
  \o (IF o.db = 0 THEN <<>> ELSE <<"SELECT">>)
  \o (IF o.readonly THEN <<"READONLY">> ELSE <<>>)

Connect ==
  /\ stage = "connect"
  /\ new' = <<Connected(opts)>>
  /\ setup' = SetOptions(opts)
  /\ stage' = "setup"
  /\ UNCHANGED <<uri, opts, ctx, caller>>

\* Mutant: the new context is not freed.
ConstructionLeaks ==
  /\ stage = "connect" \/ (stage = "setup" /\ setup # <<>>)
  /\ setup' = <<>>
  /\ stage' = "free"
  /\ UNCHANGED <<uri, opts, ctx, new, caller>>

\* Any step of the construction may throw: the new context is freed and the
\* connection is left as it was.
ConstructionThrows ==
  /\ stage = "connect" \/ (stage = "setup" /\ setup # <<>>)
  /\ new' = <<>> /\ setup' = <<>>
  /\ stage' = "free"
  /\ UNCHANGED <<uri, opts, ctx, caller>>

\* AUTH, SELECT and READONLY: each is sent and its reply received, which is
\* an error for a database less than 0.
SetupStep ==
  /\ stage = "setup" /\ setup # <<>>
  /\ Head(setup) = "SELECT" => opts.db >= 0
  /\ setup' = Tail(setup)
  /\ new' = [new EXCEPT ![1].session =
       CASE Head(setup) = "AUTH"     -> [@ EXCEPT !.user = "somebody"]
         [] Head(setup) = "SELECT"   -> [@ EXCEPT !.db = opts.db]
         [] Head(setup) = "READONLY" -> [@ EXCEPT !.readonly = TRUE]]
  /\ UNCHANGED <<uri, opts, ctx, stage, caller>>

\* swap(): the old context goes away with the temporary connection.
Swap ==
  /\ stage = "setup" /\ setup = <<>>
  /\ ctx' = new /\ new' = <<>>
  /\ stage' = "using"
  /\ left' = <<>>
  /\ UNCHANGED <<uri, opts, setup, threw, owed, nextCmd>>

-----------------------------------------------------------------------------
(* Use.                                                                    *)

\* A caller gets a connection that is not broken, as from the pool.
Use ==
  /\ stage = "free" /\ ~Broken
  /\ stage' = "using"
  /\ UNCHANGED <<uri, opts, ctx, new, setup, caller>>

\* send() appends the command to the output buffer.
Send ==
  /\ stage = "using" /\ threw = "nothing" /\ Len(owed) < Depth
  /\ ctx' = [ctx EXCEPT ![1].out = Append(@, nextCmd)]
  /\ owed' = Append(owed, nextCmd)
  /\ nextCmd' = (nextCmd + 1) % Commands
  /\ UNCHANGED <<uri, opts, new, setup, stage, threw, left>>

\* recv() finds a reply in the reader, or sends what is in the output buffer
\* and waits.
Recv ==
  /\ stage = "using" /\ threw = "nothing" /\ owed # <<>> /\ ctx[1].in = <<>>
  /\ ctx' = [ctx EXCEPT ![1].out = <<>>, ![1].server = IF ctx[1].open THEN @ \o ctx[1].out ELSE @]
  /\ stage' = "receiving"
  /\ UNCHANGED <<uri, opts, new, setup, caller>>

\* recv() takes the first reply.  If it is an error recv() throws it, and the
\* caller may give up: the replies after it stay where they are.
GetReply ==
  /\ stage = "receiving" \/ (stage = "using" /\ threw = "nothing" /\ owed # <<>>)
  /\ ctx[1].in # <<>>
  /\ ctx' = [ctx EXCEPT ![1].in = Tail(@)]
  /\ owed' = Tail(owed)
  /\ left' = SubSeq(Tail(left \o owed), 1, Len(left))
  /\ threw' \in {"nothing", "reply"}
  /\ stage' = "using"
  /\ UNCHANGED <<uri, opts, new, setup, nextCmd>>

\* Mutant: a timeout does not break the connection.
RecvFailsSoftly ==
  /\ stage = "receiving" /\ ctx[1].in = <<>>
  /\ \/ opts.socketTimeout > 0 /\ UNCHANGED ctx
     \/ ~ctx[1].open /\ ctx' = [ctx EXCEPT ![1].err = "closed"]
  /\ threw' = "socket"
  /\ stage' = "using"
  /\ UNCHANGED <<uri, opts, new, setup, owed, left, nextCmd>>

\* recv() throws: the socket timeout is over or the connection is closed.
RecvFails ==
  /\ stage = "receiving" /\ ctx[1].in = <<>>
  /\ \/ opts.socketTimeout > 0 /\ ctx' = [ctx EXCEPT ![1].err = "timeout"]
     \/ ~ctx[1].open /\ ctx' = [ctx EXCEPT ![1].err = "closed"]
  /\ threw' = "socket"
  /\ stage' = "using"
  /\ UNCHANGED <<uri, opts, new, setup, owed, left, nextCmd>>

\* reset() after a timeout: the caller goes on waiting for its replies.
Reset ==
  /\ stage = "using" /\ threw = "socket" /\ ctx[1].err = "timeout"
  /\ ctx' = [ctx EXCEPT ![1].err = "none"]
  /\ threw' = "nothing"
  /\ UNCHANGED <<uri, opts, new, setup, stage, owed, left, nextCmd>>

\* invalidate(): the caller leaves replies that it does not want to receive.
Invalidate ==
  /\ stage = "using" /\ threw # "socket" /\ owed # <<>>
  /\ ctx' = [ctx EXCEPT ![1].err = "invalid"]
  /\ threw' = "socket"
  /\ UNCHANGED <<uri, opts, new, setup, stage, owed, left, nextCmd>>

\* The caller has its replies, or has given up: what it is owed is left on a
\* connection that is not broken.
Release ==
  /\ stage = "using" /\ (owed = <<>> \/ threw # "nothing")
  /\ threw # "socket" => Len(left \o owed) <= MaxLeft
  /\ left' = IF threw = "socket" THEN left ELSE left \o owed
  /\ stage' = "free"
  /\ threw' = "nothing" /\ owed' = <<>>
  /\ UNCHANGED <<uri, opts, ctx, new, setup, nextCmd>>

-----------------------------------------------------------------------------
(* The server.                                                             *)

Reply ==
  /\ ctx # <<>> /\ ctx[1].open /\ ctx[1].server # <<>>
  /\ ctx' = [ctx EXCEPT ![1].in = Append(@, Head(ctx[1].server)), ![1].server = Tail(@)]
  /\ UNCHANGED <<uri, opts, new, setup, stage, caller>>

\* The connection is lost; what has arrived can still be read.
Drop ==
  /\ ctx # <<>> /\ ctx[1].open
  /\ ctx' = [ctx EXCEPT ![1].open = FALSE, ![1].server = <<>>]
  /\ UNCHANGED <<uri, opts, new, setup, stage, caller>>

\* The constructor of the options has thrown.
Failed == stage = "failed" /\ UNCHANGED vars

Next ==
  \/ MakeOptions \/ Reconnect \/ Connect \/ ConstructionThrows \/ SetupStep \/ Swap
  \/ Use \/ Send \/ Recv \/ GetReply \/ RecvFails \/ Reset \/ Invalidate \/ Release
  \/ Reply \/ Drop \/ Failed

Spec == Init /\ [][Next]_vars

-----------------------------------------------------------------------------
(* Properties.                                                             *)

Circle == 0 .. Commands - 1

TypeOK ==
  /\ stage \in Stages /\ threw \in {"nothing", "reply", "socket"}
  /\ owed \in Seq(Circle) /\ Len(owed) <= Depth /\ nextCmd \in Circle
  /\ left \in Seq(Circle) /\ Len(left) <= MaxLeft
  /\ Len(ctx) <= 1 /\ Len(new) <= 1
  /\ stage \in {"using", "receiving"} => ctx # <<>>
  /\ stage = "receiving" => ctx[1].err = "none" /\ owed # <<>>
  /\ \A i \in DOMAIN ctx : ctx[i].err \in Errors /\ ctx[i].out \in Seq(Circle)
  /\ (stage = "setup") <=> (new # <<>>)

(* connection.cpp:391-431: on a connection that is not broken the replies    *)
(* that came, the commands the server has and those not yet sent are, in     *)
(* order, what callers left that gave up for an error reply and what the     *)
(* caller is owed; there is nothing of timeouts, of connections invalidated  *)
(* and of contexts before, and nothing is missing.                           *)
OwnReplies ==
  ~Broken =>
    IF ctx[1].open THEN ctx[1].in \o ctx[1].server \o ctx[1].out = left \o owed
                   ELSE IsPrefix(ctx[1].in, left \o owed)

(* connection.h:122 "Client needs to do this check before sending some       *)
(* command to the connection. If it's broken, client needs to reconnect it": *)
(* a connection that passes the check has nothing on it but what its caller  *)
(* is owed.                                                                  *)
NothingLeft ==
  ~Broken /\ ctx[1].open => ctx[1].in \o ctx[1].server \o ctx[1].out = owed

(* connection.cpp:373, 376: whatever happened to the connections before, the *)
(* one in use has the session and the socket options its options ask for.    *)
Configured ==
  \A i \in DOMAIN ctx :
    /\ ctx[i].session =
         [user     |-> IF opts.user = <<"default">> /\ opts.password = <<>> THEN "nobody"
                       ELSE "somebody",
          db       |-> opts.db, readonly |-> opts.readonly]
    /\ ctx[i].timeout.sec * 1000000 + ctx[i].timeout.usec =
         (IF opts.socketTimeout > 0 THEN opts.socketTimeout ELSE 0) * 1000
    /\ ctx[i].timeout.usec < 1000000 /\ ctx[i].keepAlive = opts.keepAlive
=============================================================================
