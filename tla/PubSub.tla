------------------------------- MODULE PubSub -------------------------------
(***************************************************************************)
(* The subscriptions of RedisAsyncClient: subscribe(), psubscribe(), their *)
(* single-shot forms, unsubscribe(), the state Subscribed, and the         *)
(* dispatch of messages to callbacks posted to the strand.                 *)
(*                                                                         *)
(* How commands are written and replies read is the subject of AsyncClient *)
(* and is left out here: what the strand sends reaches the server, and     *)
(* frames reach doProcessMessage(), in order.  A command is the number of  *)
(* the call that issued it, and names its callbacks; a message is a number *)
(* too.  All patterns match all channels.  The server keeps channels and   *)
(* patterns apart; the client finds callbacks by the text alone, which a   *)
(* channel and a pattern may share.                                        *)
(***************************************************************************)
EXTENDS Naturals, Sequences, SequencesExt

CONSTANTS
  Channels, Patterns,  \* the texts of what is subscribed to
  MaxCmds,             \* bound: commands, of all kinds
  MaxMsgs,             \* bound: messages published
  MaxCloses            \* bound: calls of disconnect()

ASSUME PubSubAssumption ==
  /\ Channels \cup Patterns # {}
  /\ MaxCmds \in Nat /\ MaxMsgs \in Nat /\ MaxCloses \in Nat

Names   == Channels \cup Patterns
Shared  == Channels \cap Patterns
Topics  == [kind : {"channel"}, name : Channels] \cup [kind : {"pattern"}, name : Patterns]
Cmd     == 1 .. MaxCmds
Msg     == 1 .. MaxMsgs
Foreign == MaxCmds + 1   \* the answer of a handler that was given a message

VARIABLES
  state,         \* RedisClientImpl::state; connecting is one step here
  handlers,      \* reply handlers, each named by its command
  msgHandlers,   \* message handlers: id, name and callback
  singleShots,   \* singleShotMsgHandlers: name and callback
  subscribeSeq,  \* the next id
  strandq        \* calls posted to the strand

VARIABLES        \* the connection and the server
  toServer,      \* commands on their way
  subs,          \* topics the server has this client subscribed to
  toClient       \* frames on their way

VARIABLES        \* history
  cmds, msgs, closes,  \* how often each has happened
  given,         \* handles returned by subscribe()
  answers,       \* the reply each command's handler was called with, or 0
  seen,          \* the messages each callback was called with
  sent,          \* the messages the server has sent for each name
  asked,         \* topics for which the last command issued is to subscribe
  mixed,         \* subscribed with a plain command still unanswered
  dirty          \* a disconnect() left commands on the strand

client  == <<state, handlers, msgHandlers, singleShots, subscribeSeq, strandq>>
wire    == <<toServer, subs, toClient>>
counts  == <<cmds, msgs, closes>>
history == <<given, answers, seen, sent, asked, mixed, dirty>>
vars    == <<client, wire, counts, history>>

Init ==
  /\ state = "Connected"
  /\ handlers = <<>> /\ msgHandlers = <<>> /\ singleShots = {}
  /\ subscribeSeq = 0 /\ strandq = <<>>
  /\ toServer = <<>> /\ subs = {} /\ toClient = <<>>
  /\ cmds = 0 /\ msgs = 0 /\ closes = 0
  /\ given = {} /\ asked = {}
  /\ answers = [c \in Cmd |-> 0]
  /\ seen = [c \in Cmd |-> <<>>]
  /\ sent = [n \in Names |-> <<>>]
  /\ mixed = FALSE /\ dirty = FALSE

-----------------------------------------------------------------------------
(* Sequences.                                                              *)

\* The items of s that are in T, in the order of s.
Only(s, T) ==
  LET kept[n \in 0 .. Len(s)] ==
        IF n = 0 THEN <<>>
        ELSE IF s[n] \in T THEN Append(kept[n - 1], s[n]) ELSE kept[n - 1]
  IN  kept[Len(s)]

\* The messages of those.
MsgsOf(s, T) == LET of == Only(s, T) IN [i \in DOMAIN of |-> of[i].msg]

\* The frames with the messages of a name.
FramesOf(n) == [op : {"message"}, topic : {t \in Topics : t.name = n}, msg : Msg]

-----------------------------------------------------------------------------
(* Calls of the application.                                               *)

\* What is posted to the strand: doAsyncCommand() with a command, or a message
\* handler with a message.
Command(op, topic, cmd) == [op |-> op, topic |-> topic, cmd |-> cmd]
Message(cb, msg)        == [op |-> "message", cb |-> cb, msg |-> msg]

Sends == {"command", "subscribe", "unsubscribe"}

Issue(op, topic) ==
  /\ cmds < MaxCmds
  /\ cmds' = cmds + 1
  /\ strandq' = Append(strandq, Command(op, topic, cmds'))

\* A plain command is under way.
Pipelined ==
  \/ \E i \in DOMAIN strandq : strandq[i].op = "command"
  \/ \E i \in DOMAIN toServer : toServer[i].op = "command"
  \/ \E i \in DOMAIN toClient : toClient[i].op = "command"

\* Mutant: the ids of handles are not counted up.
InstallSameId(n) ==
  /\ msgHandlers' = Append(msgHandlers, [id |-> subscribeSeq, name |-> n, cb |-> cmds'])
  /\ given' = given \cup {[id |-> subscribeSeq, name |-> n]}
  /\ UNCHANGED <<subscribeSeq, singleShots>>

Install(n) ==
  /\ msgHandlers' = Append(msgHandlers, [id |-> subscribeSeq, name |-> n, cb |-> cmds'])
  /\ given' = given \cup {[id |-> subscribeSeq, name |-> n]}
  /\ subscribeSeq' = subscribeSeq + 1
  /\ UNCHANGED singleShots

InstallShot(n) ==
  /\ singleShots' = singleShots \cup {[name |-> n, cb |-> cmds']}
  /\ UNCHANGED <<msgHandlers, subscribeSeq, given>>

\* subscribe(), psubscribe() and their single-shot forms: the state changes at
\* once, long before the server has seen the command.
Subscribe(t) ==
  /\ state \in {"Connected", "Subscribed"}
  /\ Issue("subscribe", t)
  /\ Install(t.name) \/ InstallShot(t.name)
  /\ state' = "Subscribed"
  /\ asked' = asked \cup {t}
  /\ mixed' = (mixed \/ Pipelined)
  /\ UNCHANGED <<handlers, wire, msgs, closes, answers, seen, sent, dirty>>

\* In another state subscribe() calls errorHandler and returns 0, which is the id
\* of the first handle.
SubscribeRefused(t) ==
  /\ state = "Closed"
  /\ given' = given \cup {[id |-> 0, name |-> t.name]}
  /\ UNCHANGED <<client, wire, counts, answers, seen, sent, asked, mixed, dirty>>

\* unsubscribe() and punsubscribe(), which take any handle, remove one handler,
\* and tell the server to send no more messages for any.
Unsubscribe(handle, t) ==
  /\ state \in {"Connected", "Subscribed"}
  /\ handle \in given /\ t.name = handle.name
  /\ Issue("unsubscribe", t)
  /\ msgHandlers' = Only(msgHandlers, {h \in ToSet(msgHandlers) :
                      h.name # handle.name \/ h.id # handle.id})
  /\ asked' = asked \ {t}
  /\ UNCHANGED <<state, handlers, singleShots, subscribeSeq, wire, msgs, closes,
                 given, answers, seen, sent, mixed, dirty>>

\* command() and publish(), which a subscribed client refuses.
PlainCommand ==
  /\ state = "Connected"
  /\ Issue("command", CHOOSE t \in Topics : TRUE)
  /\ UNCHANGED <<state, handlers, msgHandlers, singleShots, subscribeSeq, wire,
                 msgs, closes, history>>

\* disconnect(): close() keeps the single-shot handlers and the strand.
Disconnect ==
  /\ closes < MaxCloses
  /\ closes' = closes + 1
  /\ state' = "Closed"
  /\ handlers' = <<>> /\ msgHandlers' = <<>>
  /\ toServer' = <<>> /\ subs' = {} /\ toClient' = <<>>
  /\ asked' = {}
  /\ dirty' = (dirty \/ \E i \in DOMAIN strandq : strandq[i].op \in Sends)
  /\ UNCHANGED <<singleShots, subscribeSeq, strandq, cmds, msgs, given, answers,
                 seen, sent, mixed>>

\* connect(), until it has succeeded.
Connect ==
  /\ state = "Closed"
  /\ state' = "Connected"
  /\ UNCHANGED <<handlers, msgHandlers, singleShots, subscribeSeq, strandq, wire,
                 counts, history>>

-----------------------------------------------------------------------------
(* The io thread.                                                          *)

\* doAsyncCommand(), whose write fails when the client is closed, or a call of a
\* message handler.
Run(item) ==
  IF item.op = "message"
    THEN /\ seen' = [seen EXCEPT ![item.cb] = Append(@, item.msg)]
         /\ UNCHANGED <<handlers, toServer>>
    ELSE /\ handlers' = Append(handlers, item.cmd)
         /\ toServer' = IF state = "Closed" THEN toServer ELSE Append(toServer, item)
         /\ UNCHANGED seen

\* Mutant: calls are posted to the io_service, and the last may run first.
RunStrandLast ==
  /\ strandq # <<>>
  /\ strandq' = Front(strandq)
  /\ Run(Last(strandq))
  /\ UNCHANGED <<state, msgHandlers, singleShots, subscribeSeq, subs, toClient,
                 counts, given, answers, sent, asked, mixed, dirty>>

RunStrand ==
  /\ strandq # <<>>
  /\ strandq' = Tail(strandq)
  /\ Run(Head(strandq))
  /\ UNCHANGED <<state, msgHandlers, singleShots, subscribeSeq, subs, toClient,
                 counts, given, answers, sent, asked, mixed, dirty>>

\* The callbacks for a message, as calls on the strand.
Calls(n, msg) ==
  LET mine == Only(msgHandlers, {h \in ToSet(msgHandlers) : h.name = n})
  IN  [i \in DOMAIN mine |-> Message(mine[i].cb, msg)]

ShotsFor(n) == {s \in singleShots : s.name = n}

\* Mutants: the single-shot handler is not removed; it is called instead of the
\* others.
DispatchKeepsShot(n, msg) ==
  \/ /\ ShotsFor(n) = {}
     /\ strandq' = strandq \o Calls(n, msg)
     /\ UNCHANGED singleShots
  \/ \E shot \in ShotsFor(n) :
       /\ strandq' = Append(strandq, Message(shot.cb, msg)) \o Calls(n, msg)
       /\ UNCHANGED singleShots

DispatchOnlyShot(n, msg) ==
  \/ /\ ShotsFor(n) = {}
     /\ strandq' = strandq \o Calls(n, msg)
     /\ UNCHANGED singleShots
  \/ \E shot \in ShotsFor(n) :
       /\ singleShots' = singleShots \ {shot}
       /\ strandq' = Append(strandq, Message(shot.cb, msg))

\* One single-shot handler of the name is posted and forgotten, then all handlers
\* of the name are posted: by a message for the channel and by one for the pattern.
Dispatch(n, msg) ==
  \/ /\ ShotsFor(n) = {}
     /\ strandq' = strandq \o Calls(n, msg)
     /\ UNCHANGED singleShots
  \/ \E shot \in ShotsFor(n) :
       /\ singleShots' = singleShots \ {shot}
       /\ strandq' = Append(strandq, Message(shot.cb, msg)) \o Calls(n, msg)

\* The handler at the head of the queue is called with the frame and popped.
CallHandler(frame) ==
  /\ handlers # <<>>
  /\ answers' = [answers EXCEPT ![Head(handlers)] =
                   IF frame.op = "message" THEN Foreign ELSE frame.cmd]
  /\ handlers' = Tail(handlers)
  /\ UNCHANGED <<singleShots, strandq>>

Complain == UNCHANGED <<handlers, singleShots, strandq, answers>>

\* Mutant: every frame of a subscribed client is for the handler at the head.
DispatchSubscribedAny(frame) ==
  IF handlers # <<>> THEN CallHandler(frame)
  ELSE IF frame.op = "message"
    THEN Dispatch(frame.topic.name, frame.msg) /\ UNCHANGED <<handlers, answers>>
    ELSE Complain

\* In the state Subscribed only messages and confirmations are understood: the
\* reply to a plain command is a protocol error, and its handler stays.
DispatchSubscribed(frame) ==
  CASE frame.op = "message" ->
         Dispatch(frame.topic.name, frame.msg) /\ UNCHANGED <<handlers, answers>>
    [] frame.op \in {"subscribe", "unsubscribe"} /\ handlers # <<>> ->
         CallHandler(frame)
    [] OTHER -> Complain

\* doProcessMessage() for the next frame.
DoProcessMessage ==
  /\ toClient # <<>>
  /\ toClient' = Tail(toClient)
  /\ LET frame == Head(toClient)
     IN  IF state = "Subscribed" THEN DispatchSubscribed(frame)
         ELSE IF handlers # <<>> THEN CallHandler(frame)
         ELSE Complain
  /\ UNCHANGED <<state, msgHandlers, subscribeSeq, toServer, subs, counts, given,
                 seen, sent, asked, mixed, dirty>>

-----------------------------------------------------------------------------
(* The server.                                                             *)

\* It handles the commands of a connection in order, and answers each.
Serve ==
  /\ toServer # <<>>
  /\ toServer' = Tail(toServer)
  /\ LET command == Head(toServer)
     IN  /\ toClient' = Append(toClient, command)
         /\ subs' = CASE command.op = "subscribe"   -> subs \cup {command.topic}
                      [] command.op = "unsubscribe" -> subs \ {command.topic}
                      [] OTHER                      -> subs
  /\ UNCHANGED <<client, counts, history>>

\* Somebody publishes a message on a channel: it is sent for the channel, and for
\* each pattern.
Publish(channel) ==
  /\ msgs < MaxMsgs
  /\ msgs' = msgs + 1
  /\ LET matching == {t \in subs : t.kind = "pattern" \/ t.name = channel}
         frames == SetToSeq({[op |-> "message", topic |-> t, msg |-> msgs'] :
                             t \in matching})
     IN  /\ matching # {}
         /\ toClient' = toClient \o frames
         /\ sent' = [n \in Names |-> sent[n] \o MsgsOf(frames, FramesOf(n))]
  /\ UNCHANGED <<client, toServer, subs, cmds, closes, given, answers, seen, asked,
                 mixed, dirty>>

-----------------------------------------------------------------------------
App == \/ \E t \in Topics : Subscribe(t) \/ SubscribeRefused(t)
       \/ \E handle \in given, t \in Topics : Unsubscribe(handle, t)
       \/ PlainCommand \/ Disconnect \/ Connect

Next ==
  \/ App
  \/ RunStrand \/ DoProcessMessage
  \/ Serve
  \/ \E channel \in Channels : Publish(channel)

Spec == Init /\ [][Next]_vars

\* The io thread runs what is posted and reads what arrives; the server answers.
FairSpec == Spec /\ WF_vars(RunStrand) /\ WF_vars(DoProcessMessage) /\ WF_vars(Serve)

-----------------------------------------------------------------------------
(* Properties.                                                             *)

SendItem  == [op : Sends, topic : Topics, cmd : Cmd]
CallItem  == [op : {"message"}, cb : Cmd, msg : Msg]
FrameItem == [op : {"message"}, topic : Topics, msg : Msg]

\* No two subscriptions have the same id.
HandlesOK ==
  /\ msgHandlers \in Seq([id : 0 .. MaxCmds, name : Names, cb : Cmd])
  /\ \A i \in DOMAIN msgHandlers : msgHandlers[i].id < subscribeSeq
  /\ \A i, j \in DOMAIN msgHandlers : msgHandlers[i].id = msgHandlers[j].id => i = j

TypeOK ==
  /\ state \in {"Connected", "Subscribed", "Closed"}
  /\ handlers \in Seq(Cmd) /\ HandlesOK
  /\ singleShots \subseteq [name : Names, cb : Cmd]
  /\ subscribeSeq \in 0 .. MaxCmds
  /\ strandq \in Seq(SendItem \cup CallItem)
  /\ toServer \in Seq(SendItem) /\ toClient \in Seq(SendItem \cup FrameItem)
  /\ subs \subseteq Topics /\ asked \subseteq Topics
  /\ cmds \in 0 .. MaxCmds /\ msgs \in 0 .. MaxMsgs /\ closes \in 0 .. MaxCloses
  /\ given \subseteq [id : 0 .. MaxCmds, name : Names]
  /\ answers \in [Cmd -> 0 .. Foreign]
  /\ seen \in [Cmd -> Seq(Msg)] /\ sent \in [Names -> Seq(Msg)]
  /\ mixed \in BOOLEAN /\ dirty \in BOOLEAN

\* The messages a callback has been called with or will be, from the strand.
PostedTo(cb) == [op : {"message"}, cb : {cb}, msg : Msg]
Handed(cb)   == seen[cb] \o MsgsOf(strandq, PostedTo(cb))

\* The messages of a name that are on their way.
InFlight(n) == MsgsOf(toClient, FramesOf(n))

Increases(s) == \A i, j \in DOMAIN s : i < j => s[i] < s[j]

(* What a message handler is called with is a stretch of what the server    *)
(* sent for one name, in that order and without a gap, also when the name   *)
(* is subscribed again: each message once, or, when a channel and a pattern *)
(* share the name, as often as the server sent it.  A single-shot handler   *)
(* that waits has not been called, so it is called once.                    *)
MessagesInOrder ==
  /\ \A cb \in Cmd : \E n \in Names :
       /\ Handed(cb) \in SubSeqs(sent[n])
       /\ n \notin Shared => Increases(Handed(cb))
  /\ \A shot \in singleShots : Handed(shot.cb) = <<>>

(* From the moment it is installed a handler gets every message the server  *)
(* sends for its name, whatever else is subscribed, unsubscribed or         *)
(* answered in between.                                                     *)
NoMessageLost ==
  \A h \in ToSet(msgHandlers) :
    IsSuffix(Handed(h.cb) \o InFlight(h.name), sent[h.name])

(* The handler of a subscribe() or unsubscribe() is called with the         *)
(* confirmation of its own command, unless a plain command was unanswered   *)
(* when the client subscribed, or a disconnect() left commands behind.      *)
OwnConfirmation == ~mixed /\ ~dirty => \A c \in Cmd : answers[c] \in {0, c}

\* All commands have arrived.
Arrived ==
  ~dirty /\ toServer = <<>> /\ (\A i \in DOMAIN strandq : strandq[i].op \notin Sends)

(* The commands arrive in the order they were issued in: then the server    *)
(* has exactly those topics subscribed for which the last command was to    *)
(* subscribe.  A single-shot handler's is among them after its call, too:   *)
(* the client sends no UNSUBSCRIBE for it (see ShotUnsubscribed).           *)
ServerAgrees == Arrived => subs = asked

(* A message on its way reaches every handler that stays installed.         *)
Arrives ==
  \A cb \in Cmd, msg \in Msg :
    (\E h \in ToSet(msgHandlers) : h.cb = cb /\ msg \in ToSet(InFlight(h.name)))
      ~> \/ msg \in ToSet(seen[cb])
         \/ \A h \in ToSet(msgHandlers) : h.cb # cb

-----------------------------------------------------------------------------
(* What the documentation says and the code does not do.                   *)

(* redisasyncclient.h:68 "Handler msgHandler will be called when someone    *)
(* publish message on channel.  Call unsubscribe to stop the subscription.": *)
(* a handler that has not been unsubscribed keeps the server's subscription. *)
KeepsSubscription ==
  Arrived => \A h \in ToSet(msgHandlers) : \E t \in subs : t.name = h.name

(* redisasyncclient.h:84 "Handler msgHandler will be called when someone     *)
(* publish message on channel; it will be unsubscribed after call.": with    *)
(* nothing on its way, what the server has subscribed has a handler here.    *)
ShotUnsubscribed ==
  Arrived /\ strandq = <<>> /\ toClient = <<>>
    => \A t \in subs : \/ ShotsFor(t.name) # {}
                       \/ \E h \in ToSet(msgHandlers) : h.name = t.name
=============================================================================
