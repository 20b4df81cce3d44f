------------------------------ MODULE Examples ------------------------------
(***************************************************************************)
(* The asynchronous examples as applications of the client: AsyncClient    *)
(* calls anything anywhere, these call what their handlers call.  Each is  *)
(* a role of the one client of this module:                                *)
(*   publisher, subscriber   the two clients of async_pubsub               *)
(*   worker                  async_timeout, with a timer for every command *)
(*   announcer, listener     the two clients of async_pubsub2              *)
(*   chain                   async_set_get and async_set_get2              *)
(*   benchmark               benchmark, with two workers on one client     *)
(*   soloWorker, fetcher     benchmark, with a client for each             *)
(*                                                                         *)
(* What a handler has still to call is a stack: connect() in the wrong     *)
(* state calls its handler, and command() errorHandler, before they        *)
(* return.  SUBSCRIBE is a command here; a message changes no state.       *)
(***************************************************************************)
EXTENDS AsyncClient

CONSTANT Roles

ASSUME ExamplesAssumption ==
  /\ Roles \subseteq {"publisher", "subscriber", "worker", "announcer", "listener", "chain",
                      "benchmark", "soloWorker", "fetcher"}
  /\ "tcp" \in Transports

VARIABLES
  role,
  armed,   \* the timers with a wait pending
  fired,   \* those whose wait is over and the handler still to run
  todo,    \* the calls the application is about to make
  ended    \* "no", or "returned", "stopped", "exception", "recursion"

app     == <<role, armed, fired, todo, ended>>
allVars == <<vars, app>>

\* "confirmed" is the confirmation the listener gets, and the announcer waits for.
Timers == {"publish", "reconnect", "watch", "ops", "confirmed"}

ExampleInit ==
  /\ Init
  /\ role \in Roles
  /\ armed = IF role = "worker" THEN {"watch"} ELSE {}
  /\ fired = {} /\ todo = <<"connect">> /\ ended = "no"

Reconnecting == role \in {"publisher", "subscriber"}

-----------------------------------------------------------------------------
(* What the handlers of the examples call, before the calls left to their  *)
(* caller, and the timers they leave armed.  cancel() and a new            *)
(* expires_from_now() do not stop a handler that is queued already.        *)

Handler(calls, rest, timers) ==
  /\ todo' = calls \o rest
  /\ armed' = timers
  /\ UNCHANGED <<role, ended>>

Finish(how) ==
  /\ ended' = how
  /\ todo' = <<>> /\ armed' = {}
  /\ UNCHANGED role

\* async_pubsub.
ConnectPublisher(rest) ==
  IF state = "Connected" THEN Handler(<<"disconnect", "connect">>, rest, armed \ {"publish"})
                         ELSE Handler(<<"connect">>, rest, armed)

ConnectSubscriber(rest) ==
  Handler(IF state \in {"Connected", "Subscribed"} THEN <<"disconnect", "connect">> ELSE <<"connect">>,
          rest, armed)

CallLater(timer, calls, rest) == Handler(calls, rest, armed \cup {timer})

OnPublisherConnected(rest)  == CallLater("publish", <<>>, rest)
OnSubscriberConnected(rest) == Handler(<<"subscribe", "subscribe">>, rest, armed)

\* Mutant: the wrong handler is called later.
RetryPublishes == CallLater("publish", <<>>, <<>>)
Retry          == CallLater("reconnect", <<>>, <<>>)

\* (The publisher has only MaxCmds messages.)
OnPublishTimeout ==
  CallLater("publish", IF state = "Connected" /\ cmds < MaxCmds THEN <<"command">> ELSE <<>>, <<>>)

\* async_timeout.
Run(calls)           == CallLater("watch", calls \o <<"connect">>, <<>>)
Get(rest)            == CallLater("watch", <<"command">>, rest)
OnGetUnwatched       == Handler(<<"command">>, <<>>, armed \ {"watch"})  \* mutant: no new timer
OnGet                == Get(<<>>)
OnTimeout            == Run(<<"disconnect">>)
OnNoConnect(aborted) == Handler(<<>>, <<>>, IF aborted THEN armed ELSE armed \ {"watch"})

\* async_pubsub2: when the listener has subscribed the announcer publishes three
\* messages, one after the reply to the other; the last one stops the listener.
OnAnnouncerConnected(rest) == CallLater("confirmed", <<>>, rest)
OnListenerConnected(rest)  == Handler(<<"subscribe">>, rest, armed)
PublishHandler             == Handler(<<"command">>, <<>>, armed)
OnPublished                == IF cmds = 3 THEN Handler(<<>>, <<>>, armed) ELSE PublishHandler

\* async_set_get and async_set_get2: SET, then GET, then DEL, then stop; the first
\* one waits for nothing more if the reply to SET is not OK.
OnConnect(rest) == Handler(<<"command">>, rest, armed)
OnSetOrGet ==
  \/ cmds < 3 /\ Handler(<<"command">>, <<>>, armed)
  \/ cmds = 1 /\ Handler(<<>>, <<>>, armed)
  \/ cmds = 3 /\ Finish("stopped")

\* benchmark: the workers go on for ever, the replies to "info" are printed.
RunWorkers(rest)    == CallLater("ops", <<"command", "command">>, rest)
RunWorker(rest)     == Handler(<<"command">>, rest, armed)
RunRpcFetcher(rest) == CallLater("ops", <<>>, rest)
Work                == Handler(<<"command">>, <<>>, armed)
PrintOPS            == Handler(<<>>, <<>>, armed)
OnOpsTimeout        == CallLater("ops", <<"command">>, <<>>)

-----------------------------------------------------------------------------
(* The handlers each role installs.                                        *)

\* The error handler of async_pubsub, and the default one, which throws.
ErrorHandler(rest) ==
  CASE role = "publisher"  -> ConnectPublisher(rest)
    [] role = "subscriber" -> ConnectSubscriber(rest)
    [] OTHER               -> Finish("exception")

OnConnected(rest) ==
  CASE role = "publisher"  -> OnPublisherConnected(rest)
    [] role = "subscriber" -> OnSubscriberConnected(rest)
    [] role = "announcer"  -> OnAnnouncerConnected(rest)
    [] role = "listener"   -> OnListenerConnected(rest)
    [] role = "worker"     -> Get(rest)
    [] role = "chain"      -> OnConnect(rest)
    [] role = "benchmark"  -> RunWorkers(rest)
    [] role = "soloWorker" -> RunWorker(rest)
    [] role = "fetcher"    -> RunRpcFetcher(rest)

OnConnectError(aborted) ==
  CASE Reconnecting    -> Retry
    [] role = "worker" -> OnNoConnect(aborted)
    [] role \in {"chain", "announcer", "listener"}      -> Handler(<<>>, <<>>, armed)
    [] role \in {"benchmark", "soloWorker", "fetcher"} -> Finish("stopped")

OnReply ==
  CASE Reconnecting \/ role = "listener"     -> Handler(<<>>, <<>>, armed)
    [] role = "announcer"                    -> OnPublished
    [] role = "worker"                       -> OnGet
    [] role = "chain"                        -> OnSetOrGet
    [] role = "soloWorker"                   -> Work
    [] role = "fetcher"                      -> PrintOPS
    [] role = "benchmark"                    -> Work \/ PrintOPS

OnTimer(timer) ==
  CASE timer = "publish"   -> OnPublishTimeout
    [] timer = "reconnect" -> ErrorHandler(<<>>)
    [] timer = "watch"     -> OnTimeout
    [] timer = "ops"       -> OnOpsTimeout
    [] timer = "confirmed" -> PublishHandler

-----------------------------------------------------------------------------
(* The calls.                                                              *)

Pending(call) == ended = "no" /\ todo # <<>> /\ Head(todo) = call
Return        == todo' = Tail(todo) /\ UNCHANGED <<role, armed, fired, ended>>

\* In the wrong state the handler is called, without an error, at once.
CallConnect ==
  /\ Pending("connect")
  /\ Connect("tcp")
  /\ IF state \in {"Unconnected", "Closed"} THEN Return
     ELSE OnConnected(Tail(todo)) /\ UNCHANGED fired

CallDisconnect ==
  /\ Pending("disconnect")
  /\ Disconnect
  /\ Return

CallCommand ==
  /\ Pending("command")
  /\ IF state = "Connected" THEN Command /\ Return
     ELSE ErrorHandler(Tail(todo)) /\ UNCHANGED <<vars, fired>>

\* subscribe() and psubscribe(), as command() but for the state they set.
Subscribe ==
  /\ InApp
  /\ cmds < MaxCmds
  /\ cmds' = cmds + 1
  /\ strandq' = Append(strandq, cmds + 1)
  /\ state' = "Subscribed"
  /\ UNCHANGED <<handlers, dataQueued, dataWrited, partial, io, ops, wire, connects,
                 disconnects, drops, answers, lastOld, dirty, unreported>>

\* While connecting, errorHandler calls connect(), which calls the handler of a
\* connection, which calls subscribe() again: they never return.
CallSubscribe ==
  /\ Pending("subscribe")
  /\ IF state \in {"Connected", "Subscribed"} THEN Subscribe /\ Return
     ELSE Finish("recursion") /\ UNCHANGED <<vars, fired>>

-----------------------------------------------------------------------------
(* The io thread and the rest of the world.                                *)

\* The client's own steps go on when the application's handler has returned;
\* a step that enters a callback of the application calls it.
ClientStep(step) ==
  /\ ended = "no" /\ todo = <<>>
  /\ step
  /\ UNCHANGED fired
  /\ CASE ctl' = "connectOk" /\ ctl # ctl'  -> OnConnected(<<>>)
       [] ctl' = "connectErr" /\ ctl # ctl' -> OnConnectError(Head(doneq).st = "aborted")
       [] ctl' = "reply" /\ ctl # ctl'      -> OnReply
       [] ctl' \in {"unexpected", "readErr", "parseErr", "writeErr"} /\ ctl # ctl' -> ErrorHandler(<<>>)
       [] OTHER -> UNCHANGED <<role, armed, todo, ended>>

NetworkStep(step) == ended = "no" /\ step /\ UNCHANGED app

TimerFires(timer) ==
  /\ ended = "no" /\ timer \in armed /\ timer \notin fired
  /\ armed' = armed \ {timer} /\ fired' = fired \cup {timer}
  /\ UNCHANGED <<vars, role, todo, ended>>

RunTimer(timer) ==
  /\ ended = "no" /\ ctl = "loop" /\ todo = <<>> /\ timer \in fired
  /\ fired' = fired \ {timer}
  /\ OnTimer(timer)
  /\ UNCHANGED vars

\* The announcer's last message.
OnStopMessage ==
  /\ ended = "no" /\ ctl = "loop" /\ todo = <<>>
  /\ role = "listener" /\ state = "Subscribed" /\ handlers = <<>> /\ pendReads > 0
  /\ Finish("stopped")
  /\ UNCHANGED <<vars, fired>>

NothingToDo ==
  /\ strandq = <<>> /\ doneq = <<>> /\ ~pendConnect /\ pendReads = 0 /\ pendWrites = <<>>
  /\ armed = {} /\ fired = {}

\* io_service::run() returns when nothing is left to wait for.
RunReturns ==
  /\ ended = "no" /\ ctl = "loop" /\ todo = <<>> /\ NothingToDo
  /\ Finish("returned")
  /\ UNCHANGED <<vars, fired>>

AppCalls == CallConnect \/ CallDisconnect \/ CallCommand \/ CallSubscribe

ExampleNext ==
  \/ AppCalls \/ ClientStep(Handlers) \/ ClientStep(Running) \/ NetworkStep(Network)
  \/ \E timer \in Timers : TimerFires(timer) \/ RunTimer(timer)
  \/ OnStopMessage \/ RunReturns

ExampleSpec == ExampleInit /\ [][ExampleNext]_allVars

\* As in AsyncClient; a timer fires when its time has come, and the io thread
\* runs its handler.
ExampleFairSpec ==
  /\ ExampleSpec
  /\ WF_allVars(AppCalls) /\ WF_allVars(ClientStep(Running))
  /\ WF_allVars(ClientStep(DoAsyncCommand))
  /\ WF_allVars(ClientStep(HandleAsyncConnect \/ AsyncWrite \/ AsyncRead))
  /\ \A timer \in Timers : WF_allVars(TimerFires(timer)) /\ WF_allVars(RunTimer(timer))
  /\ WF_allVars(NetworkStep(\E result \in {"ok", "failed"} : ConnectResolved(result)))
  /\ WF_allVars(NetworkStep(SendSome \/ FailWrite)) /\ WF_allVars(NetworkStep(ServerReply))
  /\ WF_allVars(NetworkStep(Reading \/ ReadEof))

-----------------------------------------------------------------------------
(* Properties.                                                             *)

(* No example stops silently: run() returns only to those that give up when *)
(* they cannot connect.  The others always wait for something, a read, a    *)
(* timer or a connect, whatever errors they were told of in which order.    *)
GivesUp == {"worker", "chain", "announcer", "listener"}
RunsOn == ended = "returned" => role \in GivesUp /\ state = "Unconnected"

(* async_timeout.cpp:79: as long as the worker is connected a timer watches *)
(* over its command, also when an old timer went off too late to be         *)
(* cancelled.                                                               *)
Watched ==
  role = "worker" /\ ctl = "loop" /\ todo = <<>> /\ ended = "no" /\ state = "Connected"
    => "watch" \in armed \cup fired

(* The default error handler throws, and ends the program: it is not called *)
(* before a connection was lost or the application has disconnected.        *)
ThrowsOnLoss == ended = "exception" => drops > 0 \/ disconnects > 0

(* The clients of async_pubsub do what they are there for again and again,  *)
(* however connections fail, as long as the bounds leave them connects.     *)
Recovers ==
  Reconnecting => []<>(\/ state = IF role = "publisher" THEN "Connected" ELSE "Subscribed"
                       \/ connects = MaxConnects \/ disconnects = MaxDisconnects \/ ended = "recursion")

(* redisclientimpl.cpp:561 assert(state == State::Connected ||              *)
(* state == State::Subscribed): subscribe() is called in these states only. *)
SubscribeValid == Pending("subscribe") => state \in {"Connected", "Subscribed"}
=============================================================================
