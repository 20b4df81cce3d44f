# A verification project for redisclient

TLA+ modules, TLC model checking and TLAPS proofs for the C++ Redis client of
this repository (`src/src/redisclient`), the connection and the connection pool
beside it (`src/src/connection.h`, `connectionpool.h`) and the examples
(`src/examples`). The modules are written from the source; where a comment or a
header says something else than the code does, the model follows the code and a
run shows the difference.

## 1. Inventory

| part | state it keeps | operations | interacts with |
|------|----------------|------------|----------------|
| `RedisAsyncClient` / `RedisClientImpl`, commands | `state`, `handlers`, `dataQueued`, `dataWrited`, the strand's queue, `redisParser`, `buf`, `socket` | `connect` (TCP, local), `disconnect`, `command`, `publish`; completion handlers `handleAsyncConnect`, `asyncWrite`, `asyncRead`, `doAsyncCommand` | application callbacks, Boost.Asio, the server, `RedisParser` |
| `RedisAsyncClient`, subscriptions | `msgHandlers`, `singleShotMsgHandlers`, `subscribeSeq`, the state `Subscribed` | `subscribe`, `psubscribe`, `singleShot...`, `unsubscribe`, `punsubscribe`, the Subscribed branch of `doProcessMessage`, posted message callbacks | as the first row |
| `RedisParser` | `states`, `buf`, `bulkSize`, `arraySizes`, `arrayValues`, `redisValue` | `parse` (one block of bytes), `result` | the loops of `asyncRead` and `syncReadResponse` |
| `makeCommand`, `RedisBuffer`, `RedisValue` | values only | encoding, casts, `inspect` | everything |
| `RedisSyncClient`, `Pipeline` | `state`, `bufSize`, `buf`, `redisParser`, `socket`, timeouts | `connect`, `command`, `pipelined`, `disconnect`, the timeouts | blocking sockets, `RedisParser` |
| `Connection` | a hiredis context, its options | construction, `send`, `recv`, `reset`, `invalidate`, `reconnect`, `swap` | hiredis, one caller after another |
| `ConnectionOptions` | the options | parsing a URI | `Connection`, the pool |
| `ConnectionPool`, `SafeConnection` | `_pool`, `_used_connections`, `_mutex`, `_cv`, `_sentinel`, `_opts` | `fetch`, `release`, `create`, `clone`, moves | threads, `Connection`, a sentinel |
| examples, asynchronous | timers, what a handler calls next | nine clients in six programs | the client, `io_service::run()` |
| examples, synchronous | how far `main()` has come | four programs | the blocking client |

What is hard about each, and the properties that make it correct:

* **Commands.** Replies carry no name. A reply is matched with a handler only by
  its position, through four buffers (strand, `dataQueued`, the write in
  progress, the server) and back through a shared receive buffer, across
  disconnects and reconnects that race with completions already queued.
  Correct means: each handler gets its own reply, once, in order; one read loop;
  the buffers of a running write stay untouched; commands are not forgotten in
  the write queue; a lost connection is reported.
* **Subscriptions.** One client serves commands and messages in one reply
  stream, and `state` changes before the server knows. Callbacks are posted and
  run later; handlers are kept by the text of their topic, which a channel and a
  pattern may share. Correct means: a handler gets every message the server
  sends for its text, as often as it sends it and in order; confirmations meet
  their own handlers; client and server agree in the end on what is subscribed.
* **Parser and encoding.** A reply can be cut at any byte and at any depth of
  nested arrays; a command carries sizes in bytes and any bytes at all. Correct
  means: the values delivered do not depend on where the cuts are, nothing is
  skipped, nothing of one value remains for the next, and what the client
  writes is read back as what it was given.
* **Synchronous client.** A timeout leaves the reply on the connection; a
  partial write leaves half a command there; a reconnect keeps parser and
  buffer. Correct means: a call returns its own replies or an error, always
  returns, does not wait for what it has already received, and leaves nothing
  for the next call.
* **Connection.** A timeout, an error reply in a pipeline or an `invalidate()`
  leaves replies behind; reconnecting takes several steps that may each throw,
  while the old context is still there. Correct means: a connection that does
  not call itself broken carries the replies of its present caller only (after
  an error reply the code breaks this, see the findings), and has the session its
  options ask for.
* **Pool.** A counter, a condition variable whose `notify_one()` comes after the
  mutex is released, reconnects outside of the mutex, timeouts, a master that
  changes, moves. Correct means: never more than `size` connections, none lost,
  no wake-up lost, nobody waits for ever, no broken connection is handed out.
* **Examples.** An error is reported more than once, `cancel()` does not stop a
  handler that is queued, `connect()` in the wrong state calls its handler at
  once. Correct means: an example goes on, watches over its commands, and ends
  only for a reason.

There are no tests in the repository; the examples tell how the library is used.

`PROJECT.json` lists every component, also those left out, every hazard with its
line, and for every definition that models code the lines it stands for.

## 2. Modules

| module | what it is |
|--------|------------|
| `AsyncClient` | the asynchronous client with the reactor, the network and the server around it |
| `CommandQueue` | what the client promises: the abstract specification `AsyncClient` is shown to implement |
| `Examples` | the asynchronous examples, composed with `AsyncClient` |
| `PubSub` | subscriptions, messages and confirmations on one connection |
| `RedisValue`, `RedisInspect`, `Command` | the values; `inspect()`; `makeCommand` and what `command()` and `publish()` give it |
| `RedisParser` | `parseChunk` turn by turn, and the loop that calls it |
| `Resp` | the protocol itself: which bytes stand for which values, independently of the parser |
| `SyncClient` | the blocking client and pipelines with the connection and the server |
| `SyncExamples` | the synchronous examples, composed with `SyncClient` |
| `ConnectionOptions` | the constructor of the options from a URI |
| `ConnectionUris` | what a URI is put together from, and what the options then have to be |
| `Connection` | one connection: construction, use by one caller after another, reconnects |
| `ConnectionPool` | threads sharing a pool, and a second one moved or cloned from it |
| `MCAsyncClient`, `MCRedisParser`, `MCConnection` | sets and inputs for TLC |
| `AsyncClientProofs`, `AsyncConveyorProofs`, `PubSubProofs`, `RedisParserProofs`, `SyncClientProofs`, `ConnectionProofs`, `ConnectionPoolProofs`, `ExamplesProofs` | inductive invariants and proofs |

`Examples` EXTENDS `AsyncClient` and `SyncExamples` EXTENDS `SyncClient`: a step
of the composition is a step of the client together with one of the application.
`AsyncClient` alone has an application that calls anything anywhere; these call
what their handlers call. `Connection` EXTENDS `ConnectionOptions`, and
`ConnectionUris` adds to it what its URI was meant to say; the parser is
run on what `Command` writes.

A definition whose comment begins with "Mutant" (or ends in "mutant: ..."), or
that stands under the heading "Mutants", is not part of a model. It is an action
or an operator with one plausible mistake in it; replacing the right one by it
makes a property fail, which shows that the property depends on the code being
right.

### AsyncClient

A command is a number, in the order `command()` is called, and so is its reply:
what a command says and what the server answers play no part in the properties.
The variables of the first group are the members of `RedisClientImpl` with their
names. `handlers` holds the commands whose handlers are in the queue,
`dataQueued` and `dataWrited` the commands whose encodings are in those buffers;
`partial` is all that is kept of the parser, namely that it holds the first part
of a reply. `ctl` is the program counter of the one io thread: in the event
loop, in the loop over a received block, or in a callback of the application.

An action is a handler up to the next callback of the application, and the rest
of the handler after the callback is another action, because the callback may
call `connect`, `disconnect` and `command` in between:

| code | actions |
|------|---------|
| `RedisAsyncClient::connect` | `Connect` = `ConnectStarts` or `ConnectIgnored` |
| `disconnect` / `close` | `Disconnect` |
| `command`, `publish` | `Command` (posts to the strand) |
| `doAsyncCommand` | `DoAsyncCommand` |
| `handleAsyncConnect` | `HandleAsyncConnect`, `ReturnConnected`, `ReturnError` |
| `asyncWrite` | `AsyncWrite`, and `Transmit` when called by `doAsyncCommand` |
| `asyncRead`, `doProcessMessage` | `AsyncRead`, `DoProcessMessage`, `ReturnReply`, `ReturnError`, `EndOfBlock` |

The rest is external, modelled from how the code uses it. An operation started
on the socket is pending (`pendConnect`, `pendReads`, `pendWrites`) until the
reactor completes it. Its completion waits in `doneq`, in order, until the io
thread takes it. `close()` completes what is pending with `operation_aborted`,
but not what is in `doneq`: that is where connections overlap. A read delivers
any number of whole replies and perhaps the first part of one more; a block that
waits in `doneq` is damaged if a second read loop writes into the one receive
buffer (`Overwritten`). The server answers in order; a drop delivers any prefix
of what the server had sent.

Popping the empty handler queue is undefined behaviour. The model stops there
(`ctl = "undefined"`), and only a reply handler that calls `disconnect()` leads
to it (`PopDefined`).

`dirty` remembers that a `disconnect()`, or a `connect()`, left work of one
connection to the next: commands on the strand or in `dataQueued`, completed
connects or reads not handled yet, a partial reply a local `connect()` did not
drop. `close()` does leave it, and what follows then is what the code does: the
finding `async_stale` shows it, and a connect that completed before
`disconnect()` and makes a closed client `Connected` is another case. The
matching of replies (`Conveyor`, `NoStray`, `OneReader`, the refinement) is
stated for executions in which that has not happened; `WriteDiscipline`,
`PopDefined` and `TypeOK` hold in all.

`AsyncClient` implements `CommandQueue`, with the handlers still to be called
and the commands on the strand as its queue. Once `dirty` is set the promise is
void: `CommandQueue` then allows every step.

### Examples

The client of each example is a role. `todo` is what the handler in progress has
still to call, as a stack, because `connect()` in a wrong state calls its handler
before it returns, and `command()` its error handler. `armed` and `fired` are
the timers that wait, and those whose handler is queued and no longer stopped by
`cancel()`. A step of the client that enters a callback runs the role's handler
(`OnConnected`, `OnConnectError`, `OnReply`, `ErrorHandler`, `OnTimer`); the
client's own handlers go on when `todo` is empty. Each client is on its own: the
confirmation the announcer waits for, and the message that stops the listener,
are events. `RunReturns` is `io_service::run()` with nothing left to wait for.

### RedisParser, Command and RedisValue

One action is one turn of the loop in `parseChunk`, by the state it is in.
Stacks are sequences with their top first. The calls of `parse` and the reading
of blocks are actions too (`ReadBlock`, `Parse`, `Return`), so a value can be cut
at every byte. Bytes are the control characters the parser looks for, the
digits, a letter, a zero and a control character that is neither CR nor LF.
`BufToLong` computes with `'-' - '0'` where the code does (assertions are
compiled out: the build sets `NDEBUG`). `MakeCommand` writes the commands the
parser is given as input, which is how a server reads them; `Inspect` is
`inspect()`, compared with `Shown`, which is written from what it should show.
`Inspect` is the one recursive operator of the models and has a module of its
own (`RedisInspect`), so that the others can be proved about.

`Resp` says what the parser should find in a stream. A value stands at a place
(a piece): a line of a sign, a text and CR LF, followed by the bytes of a string
or by pieces again, one after the other (`Spelled`). A stream encodes some values
if they stand in it from end to end (`Encodes`). The definition names places and
lengths and no way of reading them, so it does not repeat the parser. TLC checks
that the streams of the run are encodings in this sense (`StreamsAssumption`).
`Carried` is what a client has written after some commands and `Meant` the values
it wrote: an array of strings for each.

### PubSub

The write queue and the read loop are those of `AsyncClient` and are left out:
commands run on the strand reach the server, and frames reach
`doProcessMessage`, in order. What is kept is what subscriptions add: `state`
set to `Subscribed` by the call itself, `msgHandlers` with its ids,
`singleShotMsgHandlers`, and the strand, which carries both commands to be sent
and message handlers to be called. A frame is a message, a confirmation or the
reply to a plain command. `Subscribe` is one action for the two functions, with
`Install` and `InstallShot` for what differs; `DoProcessMessage` branches as the
code does. The server keeps channels and patterns apart, so a topic is a kind and
a name; the client keeps handlers by name alone (`redisclientimpl.cpp:270-289`), and
`Dispatch` finds them so. Where a channel and a pattern share a name (`Shared`), a
message comes as two frames, `message` and `pmessage`, and each calls the handlers
of both. A handle does not say which of the two it is for: `Unsubscribe` may be
called with either. Handlers that call `disconnect()` before they are popped are the
subject of `AsyncClient`. `Only` keeps those items of a sequence that are in a
set: the messages for a name on the wire, the calls of one callback on the
strand.

`mixed` remembers that the application subscribed while a plain command was
unanswered, after which replies are refused and handlers get the answers of
others. `sent` and `asked` are history: the messages the server sent for each
name, and the topics whose last command was to subscribe. The topic of a
single-shot handler stays in `asked` after its call, since the code sends no
command then: `ServerAgrees` says that commands arrive, all of them and in order,
and that the header promises something else is said below (`ShotUnsubscribed`).

### SyncClient and SyncExamples

One thread, one call at a time, so `pc` is where `doSyncCommand` is. Commands and
replies are two pieces each, and a block of `n` pieces crosses at a time: this is
enough to cut a write, a read and a parse in the middle. `Call(n)` is
`command()` for `n = 1` and `Pipeline::finish()` for any `n`. A timeout
(`WriteFails`, `ReadFails`) can come whenever nothing is there to be read or
written; the code reports it as `eof` and changes nothing else. The timeout is
kept in units of 1024 ms and cut to an `int` as `poll()` takes it (`AsInt`): the
default of 365 days becomes another number, which is still one; a negative number
waits for ever. `ParseMixed` is the parser given a piece that does not follow
what it holds; what it then makes of the bytes is left open. `connect()` is one
step, but a TCP connect that times out goes on in the background (`LateConnect`).
`Renew` destroys the client and makes another.

`late` remembers that an earlier call failed, or that a connection began with
something left in the buffer or the parser; `OwnReplies`, `Quiet` and
`NoVainWait` are stated without it, `CallEnds` with it.

In `SyncExamples` a program is a list of calls and the place its loop begins; it
looks at what each call returned before it makes the next (`LookAtResult`), and
the first error ends it. The program "any" is the application of `SyncClient`.

### Connection and ConnectionOptions

A URI is a sequence of the tokens its grammar knows; `ParseUri` is the
constructor with the functions it calls, cutting from both ends as they do.
`std::stoi` and `std::stoul` take the number a text begins with, with its blanks
and its sign, whatever follows: such a number is one token, a numeral, and
`Numerals` says which integer it stands for. Out of the range of an `int` or an
`unsigned long` they throw (`IsInt`, `IsUlong`), and an `unsigned long` becomes a
`long` of milliseconds as the types do it (`Wrap`): `-5ms` is a timeout of -5, which
is none.

`ConnectionUris` goes the other way: `Place`, `Auth`, `Db` and `Parameters` say
how each part of a URI is written and what it means, `UriOf` puts them together,
and `Means` compares the options with the parts. The parts follow the code, not
good sense: `h:6380x` is a host and the port 6380, `h:6379/x` a host and the port
6379, `h/x` a host, `-1` a port, `/1socket` at the end of the name of a socket
database 1. A URI is refused (`Accepted`) exactly if its type is unknown, its port
begins with no `int`, or one of its parameters is no setting. What is not put
together from parts: a second `@`, a second `?` or one in the place, a `/` in a
parameter, a `?` with nothing behind it, a `/` that begins the database but has no
number behind it (it belongs to the place then, and is among the places). `ParseUri`
reads these too, and the type invariant and `Configured` are checked and proved for
every string.

A context has hiredis's parts: an error, the output buffer, what the server has
still to answer, the replies that came, and the session the server keeps for it.
`Reconnect` makes a new one in steps (`Connect`, `SetupStep` for each of AUTH,
SELECT and READONLY), each of which may throw (`ConstructionThrows`) and then
leaves the old one as it was; `Swap` puts it in its place. `Recv` and `GetReply`
or `RecvFails` are `recv()` before and after it waits. The reply that `GetReply` takes
may be an error, which `recv()` throws: then the caller goes on, or gives up and
gives the connection back as it is (`Release`), as the destructor of
`SafeConnection` does. `left` is what is on the connection from callers that did
so: the commands whose replies the next callers will find before their own.
Commands are numbers that
are used again in a circle longer than what can be under way at once, so the
model needs no bound on how many there are.

### ConnectionPool

A section under `_mutex` is one action. Waiting is several: a waiting thread is
woken by `Notify`, or by `WakeUp` (a timeout, or spuriously), and looks at the
pool in `Resume`. `notify_one()` runs after the mutex is released and is an
action of its own; so are the check of a connection and its replacement after
`fetch()` has left the mutex, with the master noted under the mutex again
(`UpdateOpts`). A connection is its host and whether it is good, that is neither
broken nor idle for longer than `connection_lifetime`, which is what the code
compares. With a sentinel the master is asked for at each creation, and may
change at any time (`Failover`). `Move` and `Clone` make a second pool while
threads use and wait for connections of the first; a pool moved from has lost
the name of its host.

## 3. Runs

| run | bounds | what it shows |
|-----|--------|---------------|
| `async_safety` | 3 commands, 3 connects, 2 disconnects, 1 drop, both transports, `disconnect()` from everywhere but reply handlers | types; `WriteDiscipline`; `Conveyor`: handlers match, one for one, the replies received, the commands at the server and those on their way; `NoStray`; `PopDefined`; `OneReader`; `AsyncClient` implements `CommandQueue` (`PromiseSpec`); every command is answered on a connection that lasts (`Answered`), a lost connection is reported (`DropReported`) |
| `parser_any` | pairs of simple and nested values, arrays up to three deep, commands with up to two arguments, every cut; every stream of a value and a number with one byte lost, doubled or replaced | `InOrder`, `CleanBetween`, `AllDelivered`, `Inspected` for the good streams; types for all |
| `pubsub_any` | 1 channel, 2 patterns, one with the text of the channel, 3 commands of any kind, 2 messages, 1 disconnect | types and distinct ids; `MessagesInOrder`, `NoMessageLost`, `OwnConfirmation`, `ServerAgrees` |
| `sync_calls` | 4 commands in pipelines of 2, 2 connects, 1 disconnect, 1 drop, timeouts of 3 s and 30 days; any application, and the four examples | types, `Quiet`, `OwnReplies`, `NoVainWait`, `CallEnds`; `NeverMisled`: no example gets what a failed call left |
| `connection_any` | 122 URIs: four kinds of credentials, four places, three databases and three lists of parameters in many combinations; odd places, numbers with a sign, a blank or text behind them, timeouts that wrap, an option set twice; a wrong type, ports and parameters that are refused, no "://"; an `int` of 14 bits and an `unsigned long` of 18; pipelines of 2, 1 reply left, a circle of 5 commands | types, `OptionsRight`, `Configured`, `OwnReplies`; no deadlock |
| `pool_safety` | 3 threads, 1 connection, 2 hosts, with and without a sentinel, timeouts, expiry, failover, one move or clone | types, `WithinSize`, `NoLostWakeup`, `HandsOutGood`, `WaitEnds`; no deadlock |
| `examples_all` | nine roles, 4 commands, 3 connects, 2 disconnects, 1 drop | `RunsOn`: none stops silently; `Watched`: the worker's timer; `ThrowsOnLoss`; `Recovers`: the clients of `async_pubsub` come back after every loss |

The runs `async_stale`, `examples_subscribe`, `pubsub_shared`, `connection_left` and
`sync_late` are expected to fail: see the findings. Three more configurations are
kept beside the runs of `PROJECT.json`: `PubSubShot.cfg` (module `PubSub`) and
`SyncRetry.cfg` (`SyncClient`), whose properties are violated, see below, and
`PubSubArrives.cfg` (`PubSub`: 1 channel, 1 other pattern, 3 commands, 2 messages,
1 disconnect), under which TLC finds that a message on its way reaches every handler
that stays installed (`Arrives`).

Why the bounds are enough. Two commands in the write in progress and one queued
is the smallest case in which writes and replies can interleave; a second
connection meets the work left by the first, a third the work left by a
connection that met such work. In the pool three threads on one connection allow
two to wait while one releases, and a second pool a thread in each; larger
numbers are what the proofs are for. Three subscription commands are two
handlers of one topic and the removal of one, a topic subscribed, given up and
subscribed again, or a channel and a pattern of the same text; two messages show
their order. Two pipelines of two commands
let what is left of the first meet the second. A pipeline of two on a connection
has a reply in the reader, one at the server and a command in the output buffer,
and one that gives up after its first reply leaves the second to the next caller.
A parser that handles an array in an array in an array handles the stack in
general: it looks at the top only (`ParserInOrder` proves it for any depth). In
the examples three connects are the first one, and two that follow each other
after a loss.

Deadlock is checked in `pool_safety` and `connection_any` only: a client with no
calls left, and a parser at the end of its input, rightly stop.

Fairness. `AsyncClient`: `io_service::run()` runs every queued handler, callbacks
return, the kernel moves bytes and ends connects, the server answers; nothing
makes the application act or the connection drop. `Examples`: the same, and
timers fire and have their handlers run; here the application's calls are part of
its handlers, so they happen. `RedisParser`: the loop goes on while there are
bytes. `PubSub`: the strand and the read loop run, the server answers.
`SyncClient`: a blocking call goes on, at the latest when it times out; the
server need not answer. `ConnectionPool`: each thread goes on and releases what it
uses; nobody is woken spuriously by fairness. `WaitEnds` assumes that the threads
at last call nothing new, because a condition variable is not a queue: those who
go on calling may overtake a thread that waits. `Connection` has no fairness and
no liveness property.

### Findings

* `async_stale` (`QueueCleared`): the header says `disconnect()` clears the
  command queue. Commands still on the strand or in `dataQueued` survive it and
  are sent on the next connection, in front of its commands.
* `examples_subscribe` (`SubscribeValid`): after a lost connection the subscriber
  of `async_pubsub` may be told of two errors, a failed read and a failed write.
  The second one comes while it connects: `connect()` calls its handler at once,
  with success, which calls `subscribe()` on a client that is `Connecting`. The
  assertion there excludes it; without assertions the error handler is called,
  which is the beginning of the same circle.
* `pubsub_shared` (`KeepsSubscription`): `unsubscribe()` sends `UNSUBSCRIBE` also
  when other handlers of the channel are left; they get no message any more.
* `connection_left` (`NothingLeft`): the header says that `broken()` is what a client
  has to check before it sends a command. `recv()` throws an error reply and the
  context stays good, so a caller of a pipeline that unwinds there gives back a
  connection that passes the check with the rest of its replies on it, and the next
  caller receives them for its own commands. `OwnReplies` holds all the same: it
  says that this is all that is ever found on such a connection.
* `sync_late` (`ResultsMatch`): after a timeout the client stays `Connected`, and
  the next command returns the late reply to the one that timed out.

Two more disagreements are found with configurations of their own:

* `PubSubShot.cfg` (`ShotUnsubscribed`): `redisasyncclient.h:84` says of a single-shot
  handler that it will be unsubscribed after its call. The client forgets it, but
  sends no `UNSUBSCRIBE` (`redisclientimpl.cpp:279`): the server goes on sending
  messages nobody takes.
* `SyncRetry.cfg` (`ConnectReported`): a failed `connect()` leaves the socket open;
  the next one gets `already_open`, connects, and reports failure all the same,
  until `disconnect()` is called.

The models also do what no document denies:

* A connect that has completed when `disconnect()` is called is handled after it,
  and `isConnected()` is true on a closed socket (`AsyncClient`, with `dirty`).
* A connect that failed before the worker's `disconnect()` and is handled after it
  cancels the timer of the next attempt, and a worker that times out with a write
  pending is told of the aborted write by the default error handler, which throws
  (`Examples`).
* `bufToLong` is given numbers with a `-` inside, computing with `'-' - '0'`
  (`DigitOf`).
* Single-shot handlers survive `close()`, and a message handler can run after it
  was unsubscribed (`PubSub`).
* The constructor of a pool with a sentinel accepts a size of 0, with which every
  `fetch()` waits for ever; `PoolAssumption` excludes it. A thread that created a
  connection before a failover may note the old master after another thread
  noted the new one; the next fetch notices (`UpdateOpts`). A pool moved from
  still waits for its connections but can make none, and the pool it was moved
  to counts those in use as its own for ever (`WithinSize` says so).
* The name of a unix socket that begins with a digit is taken for the number of a
  database (`SplitPath`); `h:6379/x` and `h:6380x` have the ports 6379 and 6380, `h/x`
  is the host `h/x`, and -1 is a port and a database (`connection_any`).
* When a channel and a pattern with the same text are subscribed, a message calls
  every handler of the two twice (`Dispatch`; in `MessagesInOrder` only the others
  are called once for each message).
* `setCommandTimeout()` with 30 days is cut to a negative number, and a command
  whose reply does not come then waits for ever (`Honoured` leaves it out).

## 4. Proofs

All theorems hold for every value of the constants that the named assumptions
allow: `AsyncAssumption`, `SyncAssumption`, `PubSubAssumption` and `PoolAssumption`
say that the bounds are natural numbers and the sets of the right kind
(`PoolAssumption`: finitely many threads, a size that is not 0);
channels and patterns may have texts in common; `ParserAssumption` that the inputs
are sequences of bytes; `ConnectionAssumption` that the circle of commands is at
least as long as two pipelines and what is left on a connection;
`NumeralsAssumption` that numerals stand for integers and are neither separators
nor units;
`ExamplesAssumption` that the roles are those of the examples, which connect by
TCP; `UriAssumption` that a URI is a string; `PartsAssumption` that the parts of a
URI are written as the grammar says, in particular that no separator stands
where the code would cut the URI elsewhere, and that without a database there is
no number after the last slash of a place, since it would be one. Beside
them the proofs use the library's theorems about sequences and finite sets.

| theorem | states | for any |
|---------|--------|---------|
| `TypeCorrect`, `WritesDisciplined`, `PopsDefined` (`AsyncClientProofs`) | `TypeOK`, `WriteDiscipline`, `PopDefined` | commands, connects, disconnects, drops, transports, places to disconnect from |
| `ConveyorHolds`, `NoStrayReply`, `OneReadLoop`, `ClientKeepsPromise` (`AsyncConveyorProofs`) | `Conveyor`, `NoStray`, `OneReader`, the refinement `PromiseSpec` of `CommandQueue` | the same, and any cut of the replies into blocks |
| `AsyncExamplesAreClients`, `NeverSilent`, `AlwaysWatched`, `ThrowsAfterLoss` (`ExamplesProofs`) | that an execution of `Examples` is one of `AsyncClient`; `RunsOn`, `Watched`, `ThrowsOnLoss` | the same, with each of the nine roles |
| `PubSubTypeCorrect`, `PubSubInOrder`, `PubSubNoneLost`, `PubSubOwnConfirmation`, `PubSubServerAgrees` (`PubSubProofs`) | `TypeOK`, `MessagesInOrder`, `NoMessageLost`, `OwnConfirmation`, `ServerAgrees` | channels and patterns, with texts in common or not, commands, messages, disconnects |
| `ParserTypeCorrect`, `ParserCleanBetween` (`RedisParserProofs`) | `TypeOK`, `CleanBetween` | streams of bytes, damaged ones too, and ways to cut them |
| `ParserInOrder` (`RedisParserProofs`) | `InOrder` | values, numbers of any size, strings of any bytes, arrays of any length and depth, and ways to cut their encodings |
| `CommandsArrive` (`RedisParserProofs`) | `InOrder` for what `MakeCommand` writes | commands, items, bytes, cuts |
| `SyncTypeCorrect`, `SyncQuiet`, `SyncOwnReplies`, `SyncNoVainWait` (`SyncClientProofs`) | `TypeOK`, `Quiet`, `OwnReplies`, `NoVainWait` | commands, lengths of pipelines, connects, closes, losses, timeouts |
| `ExamplesAreClients`, `ExamplesNeverMisled` (`SyncClientProofs`) | that an execution of `SyncExamples` is one of `SyncClient`; `NeverMisled` | the same, with each of the programs |
| `ConnectionTypeCorrect`, `ConnectionConfigured`, `ConnectionOwnReplies` (`ConnectionProofs`) | `TypeOK`, `Configured`, `OwnReplies` | strings as URIs, lengths of pipelines, replies left |
| `UriMeansItsParts` (`ConnectionProofs`) | `OptionsRight` | users, passwords, hosts, ports, sockets, databases, and lists of parameters of any length, right and wrong ones; numerals and widths of the numbers |
| `PoolTypeCorrect`, `PoolWithinSize`, `PoolNoLostWakeup`, `PoolHandsOutGood` (`ConnectionPoolProofs`) | `TypeOK`, `WithinSize`, `NoLostWakeup`, the action property `HandsOutGood` | threads, sizes, hosts |

The arguments:

* `AsyncClientProofs`. `IInv == TypeOK /\ WriteDiscipline`: `TypeOK` alone is not
  inductive, because sending takes the head of a pending batch, which is a
  command only if no pending batch is empty, and that is part of
  `WriteDiscipline`. `WriteDiscipline` is inductive with it: it counts the
  pending write and the completed writes in `doneq` together, so that
  `disconnect()`, which turns one into the other, keeps it. For each action a
  lemma `...Type` proves `TypeOK'`; lemmas on the completed writes in a sequence of
  completions (`AppendOther`, `AppendWrite`, `TailWrites`, `ConcatOther`) give
  `WriteDiscipline'` for the actions by what they do to `doneq`. `PopsDefined` has
  an invariant of its own, `Poppable`: a reply handler runs only while the queue
  is not empty.
* `AsyncConveyorProofs`. None of the three invariants is inductive, not even all
  together: they say nothing of a block that has been read and not parsed, of
  what a failed or aborted connect leaves behind, or of where in a reply the
  parser and the socket are. `CInv` does. While nothing is left behind, a client
  that is not `Connected` is `Idle` (every buffer is empty, and a connection that is
  up has its completion last in the queue), and one that is `Connected` is `Alive`:
  its read loop is in one of five places (`Starting`, `Waiting`, `Arrived`,
  `Parsing`, `Ended`), and with `x` the replies of the block there, the handlers
  `Fits` the replies `x`, those still to be read, the commands at the server and
  those unsent, in that order (`Flow`), and `Cut` says that the next block starts
  where the parser will be. A step of the wire moves a command from one of these
  sequences to the next, or a reply, and for each such move a lemma on sequences
  (`FitsIssue`, `FitsSend`, `FitsReply`, `FitsRead`, `FitsAnswer`, `FitsDrop`) says that
  they still fit; a step of the read loop moves it from one place to the next. For
  each action a lemma `...Clean` proves that the next state is clean, if the step
  does not set `dirty`. The refinement follows action by action: `Command` is
  `Issue`, `DoProcessMessage` is `Answer`, `Disconnect` is `Clear`, a step that leaves
  work behind is `Void`, and any other stutters. TLC checked `CInv` before the proof,
  on the instance of `async_safety` and with `disconnect()` from everywhere.
* `ExamplesProofs`. `Subscribe` and the state `Subscribed` are no part of
  `AsyncClient`, but read with `Told` in place of `state` (a client that has
  subscribed is connected) every step of an example is one of `AsyncClient`
  (`StepPlain`), so `IInv` and `CInv` hold of it with no new proof: `Plain` is
  `AsyncConveyorProofs` with that state. On top of them `Fine` says of the
  application: which calls a handler can have left in which state (`Shape`), whose
  each timer is (`TimersFit`), that a client that is connecting will be told
  (`Tries`), and `Awake`, that it waits for a connect, a read or a timer of its
  own unless it is one that gives up; `RunsOn` follows, as `run()` returns when
  nothing is left. `ThrowsOnLoss` needs that no operation fails before a
  connection is lost. That holds of the first connection only, so
  `Once` says in which phase a client is that has not disconnected (`Unused`,
  `Trying`, `Using`), and takes from `NoStray` of the client that every reply
  finds its handler. Each step of the io thread is first reduced to what it
  loses and what it tells the application (`IoFacts`: an operation under way is
  under way after it, or a handler is called), each handler to the calls and
  timers it leaves (`OnConnectedDoes`, ...), and `Fine` follows from the two.
  TLC checked `Fine` before the proof, on the instance of `examples_all`.
* `PubSubProofs`. Three invariants, one on top of the other. `TInv` is the types,
  and that there are at least as many commands as ids and topics. `DInv` is about
  messages. `NoMessageLost` speaks of message handlers by their callbacks;
  what keeps it is that no two handlers share one (`Apart`), that a new handler's
  is unused and has been given nothing (`Fresh`), that what is on the wire is the
  end of what was sent (`Published`), and that a client that does not look for
  messages has no handlers (`Listening`). `Gets` is then that what a callback has
  been given, with what is on the wire for its name, is an end of what was sent for
  that name, and `InOrder` that it stays a stretch of it once the handler is gone.
  That each message comes once follows where what is sent for a name increases,
  which is the case unless a channel and a pattern share it. A message goes from the
  wire to the strand for all handlers of its name in one step, so for each callback
  one item leaves one sequence and joins the next. `CInv` is about commands: while nothing is `mixed`, the handlers are
  those of the commands `Waiting` for an answer, in order (`InLine`), and what the
  server has subscribed, changed by the commands under way, is what was asked
  for last (`Agreed`); `WhenClosed`, `WhenConnected` and `WhenSubscribed` say
  which kinds of commands and answers can be under way in each state. All of
  this is about the items of sequences that are in some set, and the lemmas on
  `Only` (`OnlyAppend`, `OnlyConcat`, ...) are proved by induction, see below.
* `RedisParserProofs`. For any bytes, `IInv` adds to the properties that the
  items of unfinished arrays are sequences, one for each count, that `states` is
  empty while `parseChunk` runs, that a value leaves nothing over, and that a bulk
  string that is waited for has bytes to come. `InOrder` needs a statement about
  the whole stream, `OInv`: while the input is an encoding there is a place `p` up
  to which the parser has come; what is left of the block and of the input is
  what follows `p` (`Ahead`); the unfinished arrays are pieces that lie in each
  other, with so many parts complete that the counts and items in the parser's
  stacks are right (`Opened`, up to the outermost list, the values of the
  stream); and the state, `buf` and `bulkSize` are what is known of the piece at
  `p` (`Reading`). A turn of the loop moves `p` on in one piece, opens one, or
  closes it and with it all the arrays it completes, as the loop over `arraySizes`
  does (`ClosingIs`). Sizes are lines of digits, so the proof needs that
  `bufToLong` gives back the number `std::to_string` wrote (`DecimalRead`).
  That none is missing in the end follows because a value that is not complete ends before the end
  of the stream. The hypothesis of the theorem is that each input that comes
  with values is an encoding of them, which `StreamsAssumption` checks for
  the values sent in `parser_any`; the commands sent there are covered by
  `CommandsArrive`, where it is proved that what `MakeCommand` writes is one
  (`CommandsEncode`), whatever bytes the items hold.
* `SyncClientProofs`. `IInv == TypeOK /\ Placed /\ Links /\ Aligned`. `OwnReplies`
  speaks of the end of a call only. What makes it true is that at any moment the
  pieces on their way, from what the parser holds through the buffer, the
  connection and the server to what is still to be written, are those of the
  batch in order, none missing and none twice (`Aligned`): each sequence `Fits` at
  the place where the one before it ends. The server answers whole commands, so
  what the client has `Received` is an even number of pieces as long as the
  connection is up, and that is why a call that waits with nothing left to read
  has a command at the server (`NoVainWait`). When the last response is complete
  nothing can be left anywhere, which is `Quiet`. A connection that was lost keeps
  the first of the pieces; `Links` says what is on a connection that is not up.
  For the examples `Careful` is added: while a program goes on, nothing is left
  behind by an earlier call, but by the call whose result it is about to look at,
  which then has failed. It needs `Quiet` where a program connects, since a
  connect inherits what is in the buffer, and `OwnReplies` where a call returns.
* `ConnectionProofs`. `OwnReplies` is about connections that are not broken, but
  `reset()` makes a connection that timed out a good one again, so `Matched` keeps
  the replies in line after a timeout too, as long as the caller has not given up
  (`Placed` relates the caller's knowledge of an error to the context). What callers
  left that gave up for an error reply stands before what the present one is owed
  (`Line`), and each reply taken moves both along (`LineTaken`). For
  `Configured` the half-made context has to be described: `UnderConstruction` says
  which of AUTH, SELECT and READONLY are still to be done, and what the session
  is before them. For `OptionsRight` the URI is taken apart as the code does it:
  where a separator is found (`FindJoined`), what is before and behind it
  (`JoinedCut`), and that `Split` gives back the fields a text was joined from
  (`LastField`, one field more at a time). The parameters are taken one by one
  (`TakenMore`): as long as each was a setting, the options say what the last
  setting of each kind said, and nothing else has changed; after one that was
  none they stay `Invalid`. `UriTypes` shows that any string at all is parsed
  into options of the right types or refused. `Made` then says that nothing
  but the constructor touches the options of a connection.
* `ConnectionPoolProofs`. `IInv == TypeOK /\ Unborn /\ \A p \in Pools : Fits(p)`. `Fits`
  states `WithinSize` and `NoLostWakeup` as numbers of threads in each place; the
  lemma `OneMoves` says how such a number changes when one thread moves, and each
  action is then arithmetic. `TypeOK` contains that a thread holds a connection
  exactly while its place in the code says so; `Unborn` that nobody uses a pool
  that does not exist. `HandsOutGood` is proved as the action property it is,
  from an invariant of its own: a connection that waits to have its host noted
  (`UpdateOpts`) is one just made, and good.

Induction. The library's induction theorems take a predicate as a parameter,
which the provers cannot instantiate. `PubSubProofs`, `RedisParserProofs` and
`ConnectionProofs` use `WFMin` in its place, that `<` is well-founded: a set of numbers that contains 0
and the successor of each of its members is all of `Nat` (`SetInduction`), and
the set is the one of which something is to be shown. What a recursive function
computes is proved from the recursion it satisfies (`Flat`, `Written`, `Values`,
`Split`, `ParseParameters`),
once it is shown by induction that a function that satisfies it exists, as the
definitions choose one.

Only model-checked: `Inspected`, since `Inspect` is recursive over trees and the
prover loses its arithmetic in a module that declares it. Liveness stays with
TLC: the prover has neither fairness nor ENABLED.

## 5. Not modelled

* Callbacks that throw in an application that goes on after it; `run()` called by
  several threads (all examples call it in one, and the completion handlers are
  not wrapped in the strand, so a second thread is undefined behaviour at once);
  the life of the client object, and moving a client.
* SIGPIPE from `send()`, which ends the process.
* Numbers in a reply that overflow a `long`.
* The comparison and the moves of `RedisValue` (`operator==` ignores the error
  flag).
* TLS, whose sources are not in the repository (`swap()` leaves the TLS context
  out). hiredis is external, and modelled as far as `connection.cpp` uses it.
* Assigning a pool to one that is in use, and the move assignment of a
  `GuardedConnection`, which forgets a connection without releasing it. The
  sentinel itself.
* Replies that are errors of the server are not told from others in
  `SyncExamples`; they end a program as a failure does. In `Examples` a client of
  a program with several has the others as events: the `stop()` of another is the
  end of all.
* `src2`, an older copy that is not built.

## 6. Plan

Done: all components of the inventory, the refinement of `CommandQueue`, the
composition of the clients with the examples, proofs for the two clients, the
subscriptions, the parser, the connection, the pool and the examples, and of the
refinement. What could follow: the pool composed with `Connection` in place of a
flag for a good connection.
