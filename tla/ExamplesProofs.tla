--------------------------- MODULE ExamplesProofs ---------------------------
(***************************************************************************)
(* Proofs about Examples: every execution of an example is one of the      *)
(* client of AsyncClient, the worker of async_timeout never loses its      *)
(* timer, no example stops silently, and none is ended by the default      *)
(* error handler before a connection is lost.                              *)
(***************************************************************************)
EXTENDS Examples, AsyncClientProofs

-----------------------------------------------------------------------------
(* A client that has subscribed is one that is connected and has sent       *)
(* commands: read this way the examples do what AsyncClient allows.         *)
Told == IF state = "Subscribed" THEN "Connected" ELSE state

Plain == INSTANCE AsyncConveyorProofs WITH state <- Told

(* The assumption is about the constants alone.                             *)
LEMMA PlainAssumption == Plain!AsyncAssumption
PROOF BY AsyncAssumption DEF Plain!AsyncAssumption, Upcalls, Plain!Upcalls

(* An example starts as a client does.                                      *)
LEMMA InitPlain == ExampleInit => Plain!Init
PROOF BY DEF ExampleInit, Init, Plain!Init, Told, NoBlock, Plain!NoBlock, Cmd, Plain!Cmd

(* What connect() changes does not depend on how the state is read.         *)
LEMMA ConnectPlain == Connect("tcp") => Plain!App
PROOF
  <1> SUFFICES ASSUME Connect("tcp") PROVE Plain!App
    OBVIOUS
  <1>1. ConnectStarts("tcp") => Plain!ConnectStarts("tcp")
    BY DEF ConnectStarts, Plain!ConnectStarts, Told, Carried, Plain!Carried, Done, Plain!Done
  <1>2. ConnectIgnored => Plain!ConnectIgnored
    BY DEF ConnectIgnored, Plain!ConnectIgnored, Told, wire, Plain!wire
  <1>3. Plain!Connect("tcp")
    BY <1>1, <1>2 DEF Connect, Plain!Connect, InApp, Plain!InApp, Upcalls, Plain!Upcalls,
                      io, Plain!io
  <1> QED
    BY <1>3, ExamplesAssumption DEF Plain!App

(* Nor does what disconnect() changes.                                      *)
LEMMA DisconnectPlain == Disconnect => Plain!App
PROOF
  <1>1. Disconnect => Plain!Disconnect
    BY DEF Disconnect, Plain!Disconnect, InApp, Plain!InApp, Upcalls, Plain!Upcalls, Told,
           Carried, Plain!Carried, Done, Plain!Done, Copies, Plain!Copies, io, Plain!io
  <1> QED
    BY <1>1 DEF Plain!App

(* subscribe() is a command, sent by a client that may have subscribed.     *)
LEMMA CommandPlain == Command \/ (Subscribe /\ state \in {"Connected", "Subscribed"}) => Plain!App
PROOF
  <1>1. Command \/ (Subscribe /\ state \in {"Connected", "Subscribed"}) => Plain!Command
    BY DEF Command, Subscribe, Plain!Command, InApp, Plain!InApp, Upcalls, Plain!Upcalls, Told,
           io, Plain!io, ops, Plain!ops, wire, Plain!wire
  <1> QED
    BY <1>1 DEF Plain!App

(* The handlers the io_service runs ask whether a connect is under way, not *)
(* whether the client has subscribed.                                       *)
LEMMA HandlersPlain == Handlers => Plain!Handlers
PROOF
  <1>1. DoAsyncCommand => Plain!DoAsyncCommand
    BY DEF DoAsyncCommand, Plain!DoAsyncCommand, Transmit, Plain!Transmit, Done, Plain!Done,
           Told, io, Plain!io, wire, Plain!wire, history, Plain!history
  <1>2. HandleAsyncConnect => Plain!HandleAsyncConnect
    BY DEF HandleAsyncConnect, Plain!HandleAsyncConnect, Completed, Plain!Completed,
           Told, wire, Plain!wire
  <1>3. AsyncWrite => Plain!AsyncWrite
    BY DEF AsyncWrite, Plain!AsyncWrite, Completed, Plain!Completed, Transmit, Plain!Transmit,
           Done, Plain!Done, Told, wire, Plain!wire
  <1>4. AsyncRead => Plain!AsyncRead
    BY DEF AsyncRead, Plain!AsyncRead, Completed, Plain!Completed, Garbage, Plain!Garbage,
           Told, io, Plain!io, wire, Plain!wire
  <1> QED
    BY <1>1, <1>2, <1>3, <1>4 DEF Handlers, Plain!Handlers

(* So do the steps of the handler that runs.                                *)
LEMMA RunningPlain == Running => Plain!Running
PROOF
  <1>1. DoProcessMessage => Plain!DoProcessMessage
    BY DEF DoProcessMessage, Plain!DoProcessMessage, Told, client, Plain!client,
           ops, Plain!ops, wire, Plain!wire
  <1>2. EndOfBlock => Plain!EndOfBlock
    BY DEF EndOfBlock, Plain!EndOfBlock, StartRead, Plain!StartRead, Done, Plain!Done,
           NoBlock, Plain!NoBlock, Told, wire, Plain!wire, history, Plain!history
  <1>3. ReturnConnected => Plain!ReturnConnected
    BY DEF ReturnConnected, Plain!ReturnConnected, StartRead, Plain!StartRead, Done, Plain!Done,
           Told, client, Plain!client, wire, Plain!wire, history, Plain!history
  <1>4. ReturnReply => Plain!ReturnReply
    BY DEF ReturnReply, Plain!ReturnReply, Told, ops, Plain!ops, wire, Plain!wire,
           history, Plain!history
  <1>5. ReturnError => Plain!ReturnError
    BY DEF ReturnError, Plain!ReturnError, Upcalls, Plain!Upcalls, Told, client, Plain!client,
           ops, Plain!ops, wire, Plain!wire, history, Plain!history
  <1> QED
    BY <1>1, <1>2, <1>3, <1>4, <1>5 DEF Running, Plain!Running

(* The network does not read the state.                                     *)
LEMMA NetworkPlain == Network => Plain!Network
PROOF
  <1>1. ASSUME NEW result \in {"ok", "failed"}, ConnectResolved(result)
        PROVE  Plain!ConnectResolved(result)
    BY <1>1 DEF ConnectResolved, Plain!ConnectResolved, Done, Plain!Done, Told,
                client, Plain!client, io, Plain!io, history, Plain!history
  <1>2. SendSome => Plain!SendSome
    BY DEF SendSome, Plain!SendSome, Done, Plain!Done, Told, client, Plain!client, io, Plain!io,
           history, Plain!history
  <1>3. FailWrite => Plain!FailWrite
    BY DEF FailWrite, Plain!FailWrite, Done, Plain!Done, Told, client, Plain!client,
           io, Plain!io, wire, Plain!wire, history, Plain!history
  <1>4. ServerReply => Plain!ServerReply
    BY DEF ServerReply, Plain!ServerReply, Told, client, Plain!client, io, Plain!io,
           ops, Plain!ops, history, Plain!history
  <1>5. ASSUME NEW n \in 0 .. MaxCmds, NEW more \in BOOLEAN, ReadSome(n, more)
        PROVE  Plain!ReadSome(n, more)
    BY <1>5 DEF ReadSome, Plain!ReadSome, Overwritten, Plain!Overwritten, Copies, Plain!Copies,
                Garbage, Plain!Garbage, Told, client, Plain!client, io, Plain!io,
                history, Plain!history
  <1>6. ReadEof => Plain!ReadEof
    BY DEF ReadEof, Plain!ReadEof, Done, Plain!Done, Told, client, Plain!client,
           io, Plain!io, wire, Plain!wire, history, Plain!history
  <1>7. ASSUME NEW arrives \in 0 .. Len(toClient), PeerDrop(arrives)
        PROVE  Plain!PeerDrop(arrives)
    BY <1>7 DEF PeerDrop, Plain!PeerDrop, Told, client, Plain!client, io, Plain!io,
                ops, Plain!ops
  <1>8. Reading => Plain!Reading
    BY <1>5 DEF Reading, Plain!Reading
  <1> QED
    BY <1>1, <1>2, <1>3, <1>4, <1>6, <1>7, <1>8 DEF Network, Plain!Network

(* A step of the application alone is no step of the client.                *)
LEMMA SamePlain == UNCHANGED vars => UNCHANGED Plain!vars
PROOF BY DEF vars, Plain!vars, Told, client, Plain!client, io, Plain!io, ops, Plain!ops,
             wire, Plain!wire, history, Plain!history

(* Every step of an example is one of the client, or changes the            *)
(* application only.                                                        *)
LEMMA StepPlain == [ExampleNext]_allVars => [Plain!Next]_(Plain!vars)
PROOF
  <1> SUFFICES ASSUME [ExampleNext]_allVars PROVE Plain!Next \/ UNCHANGED Plain!vars
    OBVIOUS
  <1>1. CASE AppCalls
    BY <1>1, ConnectPlain, DisconnectPlain, CommandPlain, SamePlain
       DEF AppCalls, CallConnect, CallDisconnect, CallCommand, CallSubscribe, Plain!Next
  <1>2. CASE ClientStep(Handlers) \/ ClientStep(Running)
    BY <1>2, HandlersPlain, RunningPlain DEF ClientStep, Plain!Next
  <1>3. CASE NetworkStep(Network)
    BY <1>3, NetworkPlain DEF NetworkStep, Plain!Next
  <1>4. CASE \E timer \in Timers : TimerFires(timer) \/ RunTimer(timer)
    BY <1>4, SamePlain DEF TimerFires, RunTimer
  <1>5. CASE OnStopMessage \/ RunReturns
    BY <1>5, SamePlain DEF OnStopMessage, RunReturns
  <1>6. CASE UNCHANGED allVars
    BY <1>6, SamePlain DEF allVars
  <1> QED
    BY <1>1, <1>2, <1>3, <1>4, <1>5, <1>6 DEF ExampleNext

(* Every execution of an example is one of the client, if subscribe() is    *)
(* read as a command: what is proved of the client holds of the examples.   *)
THEOREM AsyncExamplesAreClients == ExampleSpec => Plain!Spec
PROOF
  BY InitPlain, StepPlain, PTL DEF ExampleSpec, Plain!Spec

-----------------------------------------------------------------------------
(* What the client's invariants say of the variables.                       *)
ClientInv == Plain!IInv /\ Plain!CInv

(* The client's invariants hold when an example starts.                     *)
LEMMA ClientInit == ExampleInit => ClientInv
PROOF BY PlainAssumption, InitPlain, Plain!InitInv, Plain!InitClean DEF ClientInv

(* Every step of an example keeps them.                                     *)
LEMMA ClientStepInv == ClientInv /\ [ExampleNext]_allVars => ClientInv'
PROOF
  <1>1. Plain!IInv /\ [Plain!Next]_(Plain!vars) => Plain!IInv'
    BY PlainAssumption, Plain!StepInv
  <1>2. Plain!IInv /\ Plain!CInv /\ [Plain!Next]_(Plain!vars) => Plain!CInv'
    BY PlainAssumption, Plain!CleanInv
  <1> QED
    BY <1>1, <1>2, StepPlain DEF ClientInv

(* The types of the variables the proofs below need.                        *)
LEMMA Types ==
  ASSUME ClientInv
  PROVE  /\ doneq \in Seq(Completion) /\ pendReads \in Nat /\ pendConnect \in BOOLEAN
         /\ state \in States /\ ctl \in Ctl
         /\ drops \in Nat /\ disconnects \in Nat /\ dirty \in BOOLEAN
         /\ pendWrites \in Seq(Seq(Cmd)) /\ handlers \in Seq(Cmd) /\ strandq \in Seq(Cmd)
PROOF
  <1>1. Plain!TypeOK
    BY DEF ClientInv, Plain!IInv
  <1>2. Completion = Plain!Completion /\ Cmd = Plain!Cmd /\ States = Plain!States
    BY DEF Completion, Plain!Completion, Kinds, Plain!Kinds, Results, Plain!Results,
           Garbage, Plain!Garbage, Cmd, Plain!Cmd, States, Plain!States
  <1>3. doneq \in Seq(Completion) /\ pendReads \in Nat /\ pendWrites \in Seq(Seq(Cmd))
    BY <1>1, <1>2 DEF Plain!TypeOK, Plain!OpsOK
  <1>4. pendConnect \in BOOLEAN /\ dirty \in BOOLEAN
    BY <1>1 DEF Plain!TypeOK, Plain!FlagsOK
  <1>5. handlers \in Seq(Cmd) /\ strandq \in Seq(Cmd)
    BY <1>1, <1>2 DEF Plain!TypeOK, Plain!ClientOK
  <1>6. state \in States
    BY <1>1 DEF Plain!TypeOK, Plain!ClientOK, Plain!States, States, Told
  <1>7. ctl \in Ctl
    BY <1>1 DEF Plain!TypeOK, Plain!IoOK, Plain!Ctl, Ctl, Plain!Upcalls, Upcalls
  <1>8. drops \in Nat /\ disconnects \in Nat
    BY <1>1, AsyncAssumption DEF Plain!TypeOK, Plain!HistoryOK
  <1> QED
    BY <1>3, <1>4, <1>5, <1>6, <1>7, <1>8

(* A step of the client, whatever the application does in it, keeps them.   *)
LEMMA ClientNext ==
  ASSUME ClientInv, Handlers \/ Running \/ Network
  PROVE  ClientInv'
PROOF
  <1>1. Plain!IInv /\ [Plain!Next]_(Plain!vars) => Plain!IInv'
    BY PlainAssumption, Plain!StepInv
  <1>2. Plain!IInv /\ Plain!CInv /\ [Plain!Next]_(Plain!vars) => Plain!CInv'
    BY PlainAssumption, Plain!CleanInv
  <1>3. Plain!Next
    BY HandlersPlain, RunningPlain, NetworkPlain DEF Plain!Next
  <1> QED
    BY <1>1, <1>2, <1>3 DEF ClientInv

(* The queue after such a step is one of completions.                       *)
LEMMA DoneqNext ==
  ASSUME ClientInv'
  PROVE  doneq' \in Seq(Completion)
PROOF
  <1>1. Plain!TypeOK'
    BY DEF ClientInv, Plain!IInv
  <1>2. Completion = Plain!Completion
    BY DEF Completion, Plain!Completion, Kinds, Plain!Kinds, Results, Plain!Results,
           Garbage, Plain!Garbage
  <1> QED
    BY <1>1, <1>2 DEF Plain!TypeOK, Plain!OpsOK

-----------------------------------------------------------------------------
(* What waits in the io_service's queue.                                    *)
ConnectIn(q) == \E i \in DOMAIN q : q[i].op = "connect"
ReadIn(q)    == \E i \in DOMAIN q : q[i].op = "read" /\ q[i].st # "aborted"
AllOk(q)     == \A i \in DOMAIN q : q[i].st = "ok"

(* A completion joins the queue.                                            *)
LEMMA Grown ==
  ASSUME NEW q \in Seq(Completion), NEW e \in Completion
  PROVE  /\ ConnectIn(q) \/ e.op = "connect" => ConnectIn(Append(q, e))
         /\ ReadIn(q) \/ (e.op = "read" /\ e.st # "aborted") => ReadIn(Append(q, e))
         /\ AllOk(q) /\ e.st = "ok" => AllOk(Append(q, e))
PROOF
  <1>1. /\ DOMAIN Append(q, e) = 1 .. Len(q) + 1 /\ DOMAIN q = 1 .. Len(q)
        /\ \A i \in 1 .. Len(q) : Append(q, e)[i] = q[i]
        /\ Append(q, e)[Len(q) + 1] = e /\ Len(q) \in Nat
    OBVIOUS
  <1> DEFINE p == Append(q, e)
  <1> HIDE DEF p
  <1>2. \A i \in DOMAIN q : i \in DOMAIN p /\ p[i] = q[i]
    BY <1>1 DEF p
  <1>3. \E i \in DOMAIN p : p[i] = e
    BY <1>1 DEF p
  <1>4. \A i \in DOMAIN p : (i \in DOMAIN q /\ p[i] = q[i]) \/ p[i] = e
    BY <1>1 DEF p
  <1>5. ConnectIn(q) \/ e.op = "connect" => ConnectIn(p)
    BY <1>2, <1>3 DEF ConnectIn
  <1>6. ReadIn(q) \/ (e.op = "read" /\ e.st # "aborted") => ReadIn(p)
    BY <1>2, <1>3 DEF ReadIn
  <1>7. AllOk(q) /\ e.st = "ok" => AllOk(p)
    BY <1>4 DEF AllOk
  <1> QED
    BY <1>5, <1>6, <1>7 DEF p

(* The io thread takes the first one.                                       *)
LEMMA Taken ==
  ASSUME NEW q \in Seq(Completion), q # <<>>
  PROVE  /\ Head(q) \in Completion /\ Tail(q) \in Seq(Completion)
         /\ ConnectIn(q) => Head(q).op = "connect" \/ ConnectIn(Tail(q))
         /\ ReadIn(q) => (Head(q).op = "read" /\ Head(q).st # "aborted") \/ ReadIn(Tail(q))
         /\ AllOk(q) => Head(q).st = "ok" /\ AllOk(Tail(q))
         /\ Head(q).op = "connect" => ConnectIn(q)
PROOF
  <1>1. /\ DOMAIN Tail(q) = 1 .. Len(q) - 1 /\ DOMAIN q = 1 .. Len(q) /\ Len(q) \in Nat \ {0}
        /\ Head(q) = q[1] /\ Head(q) \in Completion /\ Tail(q) \in Seq(Completion)
        /\ \A i \in 1 .. Len(q) - 1 : Tail(q)[i] = q[i + 1]
    OBVIOUS
  <1> DEFINE p == Tail(q)
             h == Head(q)
  <1> HIDE DEF p, h
  <1>2. \A i \in DOMAIN q : q[i] = h \/ \E j \in DOMAIN p : p[j] = q[i]
    <2> SUFFICES ASSUME NEW i \in 1 .. Len(q), i # 1
                 PROVE  i - 1 \in 1 .. Len(q) - 1 /\ Tail(q)[i - 1] = q[i]
      BY <1>1 DEF p, h
    <2>1. i - 1 \in 1 .. Len(q) - 1 /\ (i - 1) + 1 = i
      BY <1>1
    <2> QED
      BY <1>1, <2>1
  <1>3. \A j \in DOMAIN p : \E i \in DOMAIN q : p[j] = q[i]
    <2> SUFFICES ASSUME NEW j \in 1 .. Len(q) - 1
                 PROVE  j + 1 \in 1 .. Len(q)
      BY <1>1 DEF p
    <2> QED
      BY <1>1
  <1>4. \E i \in DOMAIN q : q[i] = h
    BY <1>1 DEF h
  <1>5. ConnectIn(q) => h.op = "connect" \/ ConnectIn(p)
    BY <1>2 DEF ConnectIn
  <1>6. ReadIn(q) => (h.op = "read" /\ h.st # "aborted") \/ ReadIn(p)
    BY <1>2 DEF ReadIn
  <1>7. AllOk(q) => h.st = "ok" /\ AllOk(p)
    BY <1>3, <1>4 DEF AllOk
  <1>8. h.op = "connect" => ConnectIn(q)
    BY <1>4 DEF ConnectIn
  <1> QED
    BY <1>1, <1>5, <1>6, <1>7, <1>8 DEF p, h

(* A block that is overwritten is a block still.                            *)
LEMMA Spoiled ==
  ASSUME NEW q \in Seq(Completion)
  PROVE  /\ Overwritten(q) \in Seq(Completion)
         /\ ConnectIn(q) => ConnectIn(Overwritten(q))
         /\ ReadIn(q) => ReadIn(Overwritten(q))
         /\ AllOk(q) => AllOk(Overwritten(q))
PROOF
  <1> DEFINE p == Overwritten(q)
  <1>1. p \in Seq(Completion)
    BY AsyncAssumption, OverwrittenType
  <1>2. DOMAIN p = DOMAIN q
    BY DEF Overwritten
  <1>3. ASSUME NEW i \in DOMAIN q PROVE p[i].op = q[i].op /\ p[i].st = q[i].st
    <2>1. q[i] \in Completion
      BY <1>3
    <2> DEFINE ids == Copies(Len(q[i].ids), Garbage)
    <2>2. p[i] = [q[i] EXCEPT !.ids = ids]
      BY DEF Overwritten
    <2> HIDE DEF ids, p
    <2> QED
      BY <2>1, <2>2 DEF Completion
  <1> HIDE DEF p
  <1>4. (ConnectIn(q) => ConnectIn(p)) /\ (ReadIn(q) => ReadIn(p)) /\ (AllOk(q) => AllOk(p))
    BY <1>2, <1>3 DEF ConnectIn, ReadIn, AllOk
  <1> QED
    BY <1>1, <1>4 DEF p

(* The completions the steps of the client add.                             *)
LEMMA DoneIs ==
  ASSUME NEW op \in Kinds, NEW st \in Results
  PROVE  Done(op, st) \in Completion /\ Done(op, st).op = op /\ Done(op, st).st = st
PROOF BY DoneType DEF Done

(* What waits in the next state is what waits in the next queue.            *)
LEMMA QueueNow ==
  /\ ConnectIn(doneq)' <=> ConnectIn(doneq')
  /\ ReadIn(doneq)' <=> ReadIn(doneq')
  /\ AllOk(doneq)' <=> AllOk(doneq')
PROOF BY DEF ConnectIn, ReadIn, AllOk

-----------------------------------------------------------------------------
(* What the application waits for: a connect, the end of a connect that is   *)
(* under way, or a read.                                                     *)
WillConnect     == todo \in {<<"connect">>, <<"disconnect", "connect">>}
ConnectUnderWay == pendConnect \/ ConnectIn(doneq)
ReadUnderWay ==
  \/ pendReads > 0 \/ ReadIn(doneq)
  \/ ctl \in {"connectOk", "parse", "reply", "unexpected", "undefined"}

\* A step that is none of the application's, and loses no operation.
Elsewhere ==
  /\ state' = state /\ ctl' = ctl /\ disconnects' = disconnects /\ dirty' = dirty
  /\ drops' = drops \/ drops' = drops + 1
NothingLost ==
  /\ pendConnect \/ ConnectIn(doneq) => pendConnect' \/ ConnectIn(doneq')
  /\ pendReads > 0 \/ ReadIn(doneq) => pendReads' > 0 \/ ReadIn(doneq')

(* Neither is lost in the network.                                          *)
LEMMA NetworkFacts ==
  ASSUME ClientInv, Network
  PROVE  /\ state' = state /\ ctl' = ctl /\ disconnects' = disconnects /\ dirty' = dirty
         /\ drops' \in Nat /\ (drops' = 0 => drops = 0)
         /\ ConnectUnderWay => ConnectUnderWay'
         /\ ReadUnderWay => ReadUnderWay'
PROOF
  <1>1. doneq \in Seq(Completion) /\ pendReads \in Nat /\ pendConnect \in BOOLEAN /\ drops \in Nat
    BY Types
  <1>2. ASSUME NEW result \in {"ok", "failed"}, ConnectResolved(result)
        PROVE  Elsewhere /\ NothingLost
    <2>1. /\ doneq = <<>> /\ doneq' = <<Done("connect", result)>> /\ pendReads' = pendReads
      BY <1>2 DEF ConnectResolved
    <2>2. Done("connect", result) \in Completion /\ Done("connect", result).op = "connect"
      BY DoneIs DEF Kinds, Results
    <2>3. ~ReadIn(doneq) /\ ConnectIn(doneq')
      <3>1. 1 \in DOMAIN doneq' /\ doneq'[1] = Done("connect", result)
        BY <2>1
      <3>2. ConnectIn(doneq')
        BY <2>2, <3>1 DEF ConnectIn
      <3> QED
        BY <2>1, <3>2 DEF ReadIn
    <2>4. Elsewhere
      BY <1>2 DEF ConnectResolved, client, Elsewhere, io, history
    <2> QED
      BY <2>1, <2>3, <2>4 DEF NothingLost
  <1>3. ASSUME SendSome PROVE Elsewhere /\ NothingLost
    <2>1. Done("write", "ok") \in Completion
      BY DoneIs DEF Kinds, Results
    <2>2. doneq' = doneq \/ doneq' = Append(doneq, Done("write", "ok"))
      BY <1>3 DEF SendSome
    <2>3. pendReads' = pendReads /\ pendConnect' = pendConnect /\ Elsewhere
      BY <1>3 DEF SendSome, client, Elsewhere, io, history
    <2>4. ConnectIn(doneq) => ConnectIn(doneq')
      BY <1>1, <2>1, <2>2, Grown
    <2>5. ReadIn(doneq) => ReadIn(doneq')
      BY <1>1, <2>1, <2>2, Grown
    <2> QED
      BY <2>3, <2>4, <2>5 DEF NothingLost
  <1>4. ASSUME FailWrite PROVE Elsewhere /\ NothingLost
    <2>1. Done("write", "failed") \in Completion
      BY DoneIs DEF Kinds, Results
    <2>2. doneq' = Append(doneq, Done("write", "failed"))
      BY <1>4 DEF FailWrite
    <2>3. pendReads' = pendReads /\ pendConnect' = pendConnect /\ Elsewhere
      BY <1>4 DEF FailWrite, client, Elsewhere, io, history
    <2>4. (ConnectIn(doneq) => ConnectIn(doneq')) /\ (ReadIn(doneq) => ReadIn(doneq'))
      BY <1>1, <2>1, <2>2, Grown
    <2> QED
      BY <2>3, <2>4 DEF NothingLost
  <1>5. ASSUME ServerReply PROVE Elsewhere /\ NothingLost
    BY <1>5 DEF ServerReply, client, io, ops, history, Elsewhere, NothingLost
  <1>6. ASSUME NEW n \in 0 .. MaxCmds, NEW more \in BOOLEAN, ReadSome(n, more)
        PROVE  Elsewhere /\ NothingLost
    <2> DEFINE e == [op |-> "read", st |-> "ok", ids |-> SubSeq(toClient, 1, n),
                     cont |-> headCut, more |-> more]
    <2>1. doneq' = Append(Overwritten(doneq), e)
      BY <1>6 DEF ReadSome
    <2>2. e \in Completion /\ e.op = "read" /\ e.st = "ok"
      <3>1. doneq' \in Seq(Completion)
        BY <1>6, ClientNext, DoneqNext DEF Network, Reading
      <3>2. Overwritten(doneq) \in Seq(Completion)
        BY <1>1, Spoiled
      <3>3. doneq'[Len(doneq')] = e /\ Len(doneq') \in DOMAIN doneq'
        BY <2>1, <3>2
      <3> QED
        BY <3>1, <3>3
    <2>3. pendConnect' = pendConnect /\ Elsewhere
      BY <1>6 DEF ReadSome, client, Elsewhere, io, history
    <2> HIDE DEF e
    <2>4. ConnectIn(doneq) => ConnectIn(doneq')
      BY <1>1, <2>1, <2>2, Spoiled, Grown
    <2>5. ReadIn(doneq')
      BY <1>1, <2>1, <2>2, Spoiled, Grown
    <2> QED
      BY <2>3, <2>4, <2>5 DEF NothingLost
  <1>7. ASSUME ReadEof PROVE Elsewhere /\ NothingLost
    <2>1. Done("read", "failed") \in Completion /\ Done("read", "failed").op = "read"
          /\ Done("read", "failed").st # "aborted"
      BY DoneIs DEF Kinds, Results
    <2>2. doneq' = Append(doneq, Done("read", "failed"))
      BY <1>7 DEF ReadEof
    <2>3. pendConnect' = pendConnect /\ Elsewhere
      BY <1>7 DEF ReadEof, client, Elsewhere, io, history
    <2>4. (ConnectIn(doneq) => ConnectIn(doneq')) /\ ReadIn(doneq')
      BY <1>1, <2>1, <2>2, Grown
    <2> QED
      BY <2>3, <2>4 DEF NothingLost
  <1>8. ASSUME NEW arrives \in 0 .. Len(toClient), PeerDrop(arrives)
        PROVE  Elsewhere /\ NothingLost
    BY <1>8 DEF PeerDrop, client, io, ops, Elsewhere, NothingLost
  <1>9. Elsewhere /\ NothingLost
    BY <1>2, <1>3, <1>4, <1>5, <1>6, <1>7, <1>8 DEF Network, Reading
  <1>10. drops' \in Nat /\ (drops' = 0 => drops = 0)
    BY <1>1, <1>9 DEF Elsewhere
  <1>11. (ConnectUnderWay => ConnectUnderWay') /\ (ReadUnderWay => ReadUnderWay')
    BY <1>9, QueueNow DEF Elsewhere, NothingLost, ConnectUnderWay, ReadUnderWay
  <1> QED
    BY <1>9, <1>10, <1>11 DEF Elsewhere

\* A step that enters one of these callbacks.
Enters(callbacks) == ctl' \in callbacks /\ ctl' # ctl

\* The step of the io thread loses an operation only to tell the application.
Unconcerned == disconnects' = disconnects /\ dirty' = dirty /\ drops' = drops
ConnectTold ==
  /\ ConnectUnderWay => ConnectUnderWay' \/ Enters({"connectOk", "connectErr"})
  /\ state' = state \/ Enters({"connectOk", "connectErr"})
  /\ Enters({"connectOk"}) => state' = "Connected"
  /\ Enters({"connectErr"}) => state' = "Unconnected"
ReadTold == ReadUnderWay => ReadUnderWay' \/ Enters({"readErr", "parseErr"})

(* The end of an operation is told, whichever step it is.                   *)
LEMMA IoFacts ==
  ASSUME ClientInv, Handlers \/ Running
  PROVE  Unconcerned /\ ConnectTold /\ ReadTold
PROOF
  <1>1. doneq \in Seq(Completion) /\ pendReads \in Nat /\ pendConnect \in BOOLEAN
    BY Types
  <1>2. /\ Done("write", "failed") \in Completion /\ Done("read", "failed") \in Completion
        /\ Done("read", "failed").op = "read" /\ Done("read", "failed").st # "aborted"
    BY DoneIs DEF Kinds, Results
  <1>3. ASSUME DoAsyncCommand PROVE Unconcerned /\ ConnectTold /\ ReadTold
    <2>1. doneq' = doneq \/ doneq' = Append(doneq, Done("write", "failed"))
      BY <1>3 DEF DoAsyncCommand, Transmit
    <2>2. (ConnectIn(doneq) => ConnectIn(doneq')) /\ (ReadIn(doneq) => ReadIn(doneq'))
      BY <1>1, <1>2, <2>1, Grown
    <2>3. /\ Unconcerned /\ state' = state /\ ctl' = ctl
          /\ pendConnect' = pendConnect /\ pendReads' = pendReads
      BY <1>3 DEF DoAsyncCommand, Unconcerned, io, history
    <2> QED
      BY <2>2, <2>3, QueueNow DEF ConnectTold, ReadTold, ConnectUnderWay, ReadUnderWay, Enters
  <1>4. ASSUME HandleAsyncConnect PROVE Unconcerned /\ ConnectTold /\ ReadTold
    <2>1. /\ doneq # <<>> /\ Head(doneq).op = "connect" /\ doneq' = Tail(doneq) /\ ctl = "loop"
          /\ \/ ctl' = "connectOk" /\ state' = "Connected"
             \/ ctl' = "connectErr" /\ state' = "Unconnected"
      BY <1>4 DEF HandleAsyncConnect, Completed
    <2>2. ReadIn(doneq) => ReadIn(doneq')
      BY <1>1, <2>1, Taken
    <2>3. Unconcerned /\ pendReads' = pendReads
      BY <1>4 DEF HandleAsyncConnect, Unconcerned
    <2>4. ConnectTold
      BY <2>1 DEF ConnectTold, Enters
    <2>5. ReadTold
      BY <2>1, <2>2, <2>3, QueueNow DEF ReadTold, ReadUnderWay
    <2> QED
      BY <2>3, <2>4, <2>5
  <1>5. ASSUME AsyncWrite PROVE Unconcerned /\ ConnectTold /\ ReadTold
    <2>1. /\ doneq # <<>> /\ Head(doneq).op = "write" /\ ctl = "loop" /\ ctl' \in {"loop", "writeErr"}
          /\ \/ doneq' = Tail(doneq)
             \/ doneq' = Append(Tail(doneq), Done("write", "failed"))
      BY <1>5 DEF AsyncWrite, Completed, Transmit
    <2>2. Tail(doneq) \in Seq(Completion)
      BY <1>1, <2>1, Taken
    <2>3. /\ ConnectIn(doneq) => ConnectIn(Tail(doneq))
          /\ ReadIn(doneq) => ReadIn(Tail(doneq))
      BY <1>1, <2>1, Taken
    <2>4. (ConnectIn(doneq) => ConnectIn(doneq')) /\ (ReadIn(doneq) => ReadIn(doneq'))
      BY <1>2, <2>1, <2>2, <2>3, Grown
    <2>5. /\ Unconcerned /\ state' = state
          /\ pendConnect' = pendConnect /\ pendReads' = pendReads
      BY <1>5 DEF AsyncWrite, Unconcerned
    <2> QED
      BY <2>1, <2>4, <2>5, QueueNow
         DEF ConnectTold, ReadTold, ConnectUnderWay, ReadUnderWay, Enters
  <1>6. ASSUME AsyncRead PROVE Unconcerned /\ ConnectTold /\ ReadTold
    <2>1. /\ doneq # <<>> /\ Head(doneq).op = "read" /\ doneq' = Tail(doneq) /\ ctl = "loop"
          /\ \/ Head(doneq).st = "aborted" /\ ctl' = ctl
             \/ ctl' \in {"readErr", "parse", "parseErr"}
      BY <1>6 DEF AsyncRead, Completed, io
    <2>2. /\ ConnectIn(doneq) => ConnectIn(doneq')
          /\ ReadIn(doneq) /\ ctl' = ctl => ReadIn(doneq')
      BY <1>1, <2>1, Taken
    <2>3. /\ Unconcerned /\ state' = state
          /\ pendConnect' = pendConnect /\ pendReads' = pendReads
      BY <1>6 DEF AsyncRead, Unconcerned
    <2>4. ConnectTold
      BY <2>1, <2>2, <2>3, QueueNow DEF ConnectTold, ConnectUnderWay, Enters
    <2>5. ReadTold
      BY <2>1, <2>2, <2>3, QueueNow DEF ReadTold, ReadUnderWay, Enters
    <2> QED
      BY <2>3, <2>4, <2>5
  <1>7. ASSUME DoProcessMessage PROVE Unconcerned /\ ConnectTold /\ ReadTold
    <2>1. ctl' \in {"reply", "unexpected"} /\ state' = state /\ Unconcerned
          /\ pendConnect' = pendConnect /\ doneq' = doneq
      BY <1>7 DEF DoProcessMessage, Unconcerned, client, ops
    <2> QED
      BY <2>1, QueueNow DEF ConnectTold, ReadTold, ConnectUnderWay, ReadUnderWay, Enters
  <1>8. ASSUME EndOfBlock \/ ReturnConnected PROVE Unconcerned /\ ConnectTold /\ ReadTold
    <2>1. /\ Unconcerned /\ state' = state /\ ctl' = "loop" /\ pendConnect' = pendConnect
          /\ \/ doneq' = Append(doneq, Done("read", "failed"))
             \/ doneq' = doneq /\ pendReads' = pendReads + 1
      BY <1>8 DEF EndOfBlock, ReturnConnected, StartRead, Unconcerned, client, history
    <2>2. /\ ConnectIn(doneq) => ConnectIn(doneq')
          /\ doneq' # doneq => ReadIn(doneq')
      BY <1>1, <1>2, <2>1, Grown
    <2>3. ReadUnderWay'
      BY <1>1, <2>1, <2>2, QueueNow DEF ReadUnderWay
    <2> QED
      BY <2>1, <2>2, <2>3, QueueNow DEF ConnectTold, ReadTold, ConnectUnderWay, Enters
  <1>9. ASSUME ReturnReply PROVE Unconcerned /\ ConnectTold /\ ReadTold
    <2>1. ctl' \in {"parse", "undefined"} /\ state' = state /\ Unconcerned
          /\ pendConnect' = pendConnect /\ doneq' = doneq
      BY <1>9 DEF ReturnReply, Unconcerned, ops, history
    <2> QED
      BY <2>1, QueueNow DEF ConnectTold, ReadTold, ConnectUnderWay, ReadUnderWay, Enters
  <1>10. ASSUME ReturnError PROVE Unconcerned /\ ConnectTold /\ ReadTold
    <2>1. /\ ctl' = "parse" \/ (ctl' = "loop" /\ ctl \in {"connectErr", "readErr", "parseErr", "writeErr"})
          /\ state' = state /\ Unconcerned /\ pendConnect' = pendConnect /\ doneq' = doneq
          /\ pendReads' = pendReads
      BY <1>10 DEF ReturnError, Upcalls, Unconcerned, client, ops, history
    <2> QED
      BY <2>1, QueueNow DEF ConnectTold, ReadTold, ConnectUnderWay, ReadUnderWay, Enters
  <1> QED
    BY <1>3, <1>4, <1>5, <1>6, <1>7, <1>8, <1>9, <1>10 DEF Handlers, Running

-----------------------------------------------------------------------------
(* A client that connects once and never disconnects: it has not begun or    *)
(* has failed, tries to connect, or is connected ever after.                 *)
Live == {"Connected", "Subscribed"}

Fresh ==
  /\ handlers = <<>> /\ dataQueued = <<>> /\ dataWrited = <<>> /\ strandq = <<>>
  /\ partial = FALSE /\ pendReads = 0 /\ pendWrites = <<>>
Unused ==
  /\ state = "Unconnected" /\ Fresh /\ ctl \in {"loop", "connectErr"}
  /\ doneq = <<>> /\ pendConnect = FALSE
Trying ==
  /\ state = "Connecting" /\ Fresh /\ ctl = "loop"
  /\ \/ pendConnect = TRUE /\ doneq = <<>>
     \/ pendConnect = FALSE /\ doneq = <<Done("connect", "failed")>>
     \/ pendConnect = FALSE /\ doneq = <<Done("connect", "ok")>> /\ (sock = "up" \/ drops > 0)
\* Unless the connection was dropped every operation succeeds.
Using == state \in Live /\ (drops = 0 => sock = "up" /\ AllOk(doneq))
Phase == dirty = FALSE /\ (Unused \/ Trying \/ Using)

(* Once connected, no connect is left.                                      *)
LEMMA UsingNow ==
  ASSUME ClientInv, dirty = FALSE, state \in Live
  PROVE  pendConnect = FALSE /\ sock \in {"up", "down"} /\ ~ConnectIn(doneq)
PROOF
  <1>1. Plain!Opening /\ Plain!Clean
    BY DEF ClientInv, Plain!CInv
  <1>2. Plain!Alive
    BY <1>1 DEF Plain!Clean, Told, Live
  <1>3. sock \in {"up", "down"} /\ Plain!NoConnects(doneq)
    BY <1>2 DEF Plain!Alive
  <1>4. pendConnect = FALSE
    BY <1>1, <1>3, Types DEF Plain!Opening
  <1> QED
    BY <1>3, <1>4 DEF Plain!NoConnects, ConnectIn

(* Every reply of a live connection finds its handler.                      *)
LEMMA StrayNow == ClientInv => Plain!NoStray
PROOF BY PlainAssumption, Plain!CleanReaders DEF ClientInv

(* So in the next state.                                                    *)
LEMMA StrayNext == ClientInv' => Plain!NoStray'
PROOF BY StrayNow, PTL

(* The network keeps the phase.                                             *)
LEMMA PhaseNetwork ==
  ASSUME ClientInv, Phase, Network
  PROVE  Phase'
PROOF
  <1>1. doneq \in Seq(Completion) /\ pendReads \in Nat /\ pendConnect \in BOOLEAN /\ drops \in Nat
    BY Types
  <1>2. /\ state' = state /\ ctl' = ctl /\ dirty' = dirty
        /\ drops' \in Nat /\ (drops' = 0 => drops = 0)
    BY NetworkFacts
  <1>3. /\ handlers' = handlers /\ dataQueued' = dataQueued /\ dataWrited' = dataWrited
        /\ strandq' = strandq /\ partial' = partial
    BY DEF Network, Reading, ConnectResolved, SendSome, FailWrite, ServerReply, ReadSome, ReadEof,
           PeerDrop, client
  <1>4. CASE Fresh /\ (Unused \/ Trying)
    <2>1. ASSUME NEW result \in {"ok", "failed"}, ConnectResolved(result) PROVE Phase'
      <3>1. /\ Trying /\ pendReads' = pendReads /\ pendWrites' = pendWrites /\ pendConnect' = FALSE
            /\ doneq' = <<Done("connect", result)>> /\ (result = "ok" => sock' = "up")
        BY <1>4, <2>1 DEF ConnectResolved, Unused, Trying
      <3>2. Fresh' /\ Done("connect", result)' = Done("connect", result)
        BY <1>3, <1>4, <3>1 DEF Fresh, Done
      <3>3. Trying'
        BY <1>2, <3>1, <3>2 DEF Trying, Done
      <3> QED
        BY <1>2, <3>3 DEF Phase
    <2>2. ASSUME ~ \E result \in {"ok", "failed"} : ConnectResolved(result) PROVE Phase'
      <3>1. /\ pendReads' = pendReads /\ pendWrites' = pendWrites /\ pendConnect' = pendConnect
            /\ doneq' = doneq /\ (sock' = sock \/ drops' > 0)
        BY <1>1, <1>4, <2>2 DEF Network, Reading, ServerReply, SendSome, FailWrite, ReadSome,
                                ReadEof, PeerDrop, ops, Fresh
      <3>2. Fresh'
        BY <1>3, <1>4, <3>1 DEF Fresh
      <3>3. drops > 0 => drops' > 0
        BY <1>1, <1>2
      <3>4. Unused => Unused'
        BY <1>2, <3>1, <3>2 DEF Unused
      <3>5. Trying => Trying'
        BY <1>2, <3>1, <3>2, <3>3 DEF Trying, Done
      <3> QED
        BY <1>2, <1>4, <3>4, <3>5 DEF Phase
    <2> QED
      BY <2>1, <2>2
  <1>5. CASE Using
    <2> SUFFICES ASSUME drops' = 0 PROVE sock' = "up" /\ AllOk(doneq')
      BY <1>2, <1>5, QueueNow DEF Using, Phase
    <2>1. sock = "up" /\ AllOk(doneq) /\ pendConnect = FALSE
      BY <1>2, <1>5, UsingNow DEF Using, Phase
    <2>2. CASE SendSome
      <3>1. Done("write", "ok") \in Completion /\ Done("write", "ok").st = "ok"
        BY DoneIs DEF Kinds, Results
      <3>2. sock' = sock /\ (doneq' = doneq \/ doneq' = Append(doneq, Done("write", "ok")))
        BY <2>2 DEF SendSome
      <3> QED
        BY <1>1, <2>1, <3>1, <3>2, Grown
    <2>3. CASE ServerReply
      BY <2>1, <2>3 DEF ServerReply, ops
    <2>4. ASSUME NEW n \in 0 .. MaxCmds, NEW more \in BOOLEAN, ReadSome(n, more)
          PROVE  sock' = "up" /\ AllOk(doneq')
      <3> DEFINE e == [op |-> "read", st |-> "ok", ids |-> SubSeq(toClient, 1, n),
                       cont |-> headCut, more |-> more]
      <3>1. doneq' = Append(Overwritten(doneq), e) /\ sock' = sock
        BY <2>4 DEF ReadSome
      <3>2. e.st = "ok"
        OBVIOUS
      <3>3. Overwritten(doneq) \in Seq(Completion) /\ AllOk(Overwritten(doneq))
        BY <1>1, <2>1, Spoiled
      <3>4. doneq' \in Seq(Completion)
        BY <2>4, ClientNext, DoneqNext DEF Network, Reading
      <3>5. e \in Completion
        <4>1. doneq'[Len(doneq')] = e /\ Len(doneq') \in DOMAIN doneq'
          BY <3>1, <3>3
        <4> QED
          BY <3>4, <4>1
      <3> HIDE DEF e
      <3> QED
        BY <2>1, <3>1, <3>2, <3>3, <3>5, Grown
    <2>5. ASSUME NEW arrives \in 0 .. Len(toClient), PeerDrop(arrives) PROVE FALSE
      BY <1>1, <2>5 DEF PeerDrop
    <2>6. ~(FailWrite \/ ReadEof \/ \E result \in {"ok", "failed"} : ConnectResolved(result))
      BY <2>1 DEF FailWrite, ReadEof, ConnectResolved
    <2> QED
      BY <2>2, <2>3, <2>4, <2>5, <2>6 DEF Network, Reading
  <1>6. Unused \/ Trying => Fresh
    BY DEF Unused, Trying
  <1> QED
    BY <1>4, <1>5, <1>6 DEF Phase

(* The io thread keeps it too, and reports no error before the drop.        *)
LEMMA PhaseIo ==
  ASSUME ClientInv, Phase, Handlers \/ Running
  PROVE  /\ Phase'
         /\ state \in Live => state' = state
         /\ Enters({"unexpected", "readErr", "parseErr", "writeErr"}) => drops > 0
         /\ Enters({"reply"}) => state \in Live
PROOF
  <1>1. doneq \in Seq(Completion) /\ drops \in Nat
    BY Types
  <1>2. dirty = FALSE /\ dirty' = FALSE /\ drops' = drops
    BY IoFacts DEF Unconcerned, Phase
  <1>3. ctl' \notin {"unexpected", "parseErr"}
    <2>1. Plain!NoStray'
      BY ClientNext, StrayNext
    <2> QED
      BY <1>2, <2>1 DEF Plain!NoStray
  <1>4. CASE Unused
    <2>1. ReturnError
      BY <1>4 DEF Unused, Fresh, Handlers, Running, DoAsyncCommand, HandleAsyncConnect, AsyncWrite,
                  AsyncRead, Completed, DoProcessMessage, EndOfBlock, ReturnConnected, ReturnReply
    <2>2. /\ ctl' = "loop" /\ state' = state /\ doneq' = doneq /\ pendConnect' = pendConnect
          /\ handlers' = handlers /\ dataQueued' = dataQueued /\ dataWrited' = dataWrited
          /\ strandq' = strandq /\ partial' = partial
          /\ pendReads' = pendReads /\ pendWrites' = pendWrites
      BY <1>4, <2>1 DEF Unused, ReturnError, Upcalls, client, ops
    <2>3. Unused'
      BY <1>4, <2>2 DEF Unused, Fresh
    <2> QED
      BY <1>2, <1>4, <2>2, <2>3 DEF Phase, Unused, Live, Enters
  <1>5. CASE Trying
    <2>1. /\ HandleAsyncConnect /\ pendConnect = FALSE
          /\ \/ doneq = <<Done("connect", "failed")>>
             \/ doneq = <<Done("connect", "ok")>> /\ (sock = "up" \/ drops > 0)
      <3>1. Done("connect", "failed").op = "connect" /\ Done("connect", "ok").op = "connect"
        BY DEF Done
      <3>2. doneq # <<>> => Head(doneq).op = "connect"
        BY <1>5, <3>1 DEF Trying
      <3>3. ~(AsyncWrite \/ AsyncRead \/ Running \/ DoAsyncCommand)
        BY <1>5, <3>2 DEF Trying, Fresh, AsyncWrite, AsyncRead, Completed, Running, DoProcessMessage,
                          EndOfBlock, ReturnConnected, ReturnReply, ReturnError, Upcalls,
                          DoAsyncCommand
      <3>4. HandleAsyncConnect
        BY <3>3 DEF Handlers
      <3> QED
        BY <1>5, <3>4 DEF Trying, HandleAsyncConnect, Completed
    <2>2. /\ doneq' = <<>> /\ pendConnect' = FALSE /\ sock' = sock /\ Fresh'
          /\ handlers' = handlers
      <3>1. doneq' = <<>>
        <4>1. PICK x : doneq = <<x>>
          BY <2>1
        <4> QED
          BY <2>1, <4>1 DEF HandleAsyncConnect
      <3> QED
        BY <1>5, <2>1, <3>1 DEF Trying, HandleAsyncConnect, Fresh, wire
    <2>3. \/ Head(doneq).st = "ok" /\ (sock = "up" \/ drops > 0)
          \/ Head(doneq).st # "ok"
      BY <2>1 DEF Done
    <2>4. CASE Head(doneq).st = "ok"
      <3>1. state' = "Connected" /\ ctl' = "connectOk"
        BY <2>1, <2>4 DEF HandleAsyncConnect
      <3>2. AllOk(doneq')
        BY <2>2 DEF AllOk
      <3>3. Using'
        BY <1>1, <1>2, <2>2, <2>3, <2>4, <3>1, <3>2, QueueNow DEF Using, Live
      <3> QED
        BY <1>2, <1>5, <3>1, <3>3 DEF Phase, Trying, Live, Enters
    <2>5. CASE Head(doneq).st # "ok"
      <3>1. state' = "Unconnected" /\ ctl' = "connectErr"
        BY <2>1, <2>5 DEF HandleAsyncConnect
      <3>2. Unused'
        BY <2>2, <3>1 DEF Unused
      <3> QED
        BY <1>2, <1>5, <3>1, <3>2 DEF Phase, Trying, Live, Enters
    <2> QED
      BY <2>4, <2>5
  <1>6. CASE Using
    <2>1. state \in Live /\ sock \in {"up", "down"} /\ ~ConnectIn(doneq)
      BY <1>2, <1>6, UsingNow DEF Using
    <2>2. ~HandleAsyncConnect
      BY <1>1, <2>1, Taken DEF HandleAsyncConnect, Completed
    <2>3. state' = state /\ sock' = sock
      BY <2>2 DEF Handlers, Running, DoAsyncCommand, AsyncWrite, AsyncRead, DoProcessMessage,
                  EndOfBlock, ReturnConnected, ReturnReply, ReturnError, client, wire
    <2>4. ASSUME drops = 0
          PROVE  AllOk(doneq') /\ ~Enters({"unexpected", "readErr", "parseErr", "writeErr"})
      <3>1. AllOk(doneq)
        BY <1>6, <2>4 DEF Using
      <3>2. doneq # <<>> => Head(doneq).st = "ok" /\ AllOk(Tail(doneq))
        BY <1>1, <3>1, Taken
      <3>3. CASE DoAsyncCommand
        BY <2>1, <3>1, <3>3 DEF DoAsyncCommand, Transmit, io, Enters
      <3>4. CASE AsyncWrite
        BY <2>1, <3>2, <3>4 DEF AsyncWrite, Completed, Transmit, Enters
      <3>5. CASE AsyncRead
        BY <1>3, <3>2, <3>5 DEF AsyncRead, Completed, Enters
      <3>6. CASE DoProcessMessage \/ ReturnReply \/ ReturnError
        BY <1>3, <3>1, <3>6 DEF DoProcessMessage, ReturnReply, ReturnError, ops, Enters
      <3>7. CASE EndOfBlock \/ ReturnConnected
        BY <2>1, <3>1, <3>7 DEF EndOfBlock, ReturnConnected, StartRead, Enters
      <3> QED
        BY <2>2, <3>3, <3>4, <3>5, <3>6, <3>7 DEF Handlers, Running
    <2>5. Using'
      BY <1>2, <1>6, <2>1, <2>3, <2>4, QueueNow DEF Using
    <2> QED
      BY <1>1, <1>2, <2>1, <2>3, <2>4, <2>5 DEF Phase
  <1> QED
    BY <1>4, <1>5, <1>6 DEF Phase

-----------------------------------------------------------------------------
(* What the handlers of each role leave behind.                             *)
Steady    == role \in {"announcer", "listener", "chain", "benchmark", "soloWorker", "fetcher"}
Known     == Steady \/ role \in {"publisher", "subscriber", "worker"}
Goes(calls, timers) == todo' = calls /\ armed' = timers /\ role' = role /\ ended' = ended

(* Joining the calls of a handler to what is left to its caller.            *)
LEMMA Join ==
  ASSUME NEW S, NEW x \in S, NEW y \in S
  PROVE  /\ <<>> \o <<>> = <<>> /\ <<x>> \o <<>> = <<x>> /\ <<x, y>> \o <<>> = <<x, y>>
         /\ <<x>> \o <<y>> = <<x, y>>
PROOF
  <1>1. <<>> \in Seq(S) /\ <<x>> \in Seq(S) /\ <<x, y>> \in Seq(S)
    OBVIOUS
  <1>2. Append(<<x>>, y) = <<x>> \o <<y>>
    BY <1>1, AppendIsConcat
  <1>3. Append(<<x>>, y) = <<x, y>>
    <2> DEFINE p == Append(<<x>>, y)
               q == <<x, y>>
    <2>1. Len(<<x>>) = 1 /\ <<x>>[1] = x
      OBVIOUS
    <2>2. p \in Seq(S) /\ Len(p) = 2 /\ p[1] = x /\ p[2] = y
      BY <1>1, <2>1, AppendProperties
    <2>3. q \in Seq(S) /\ Len(q) = 2 /\ q[1] = x /\ q[2] = y
      BY <1>1
    <2> HIDE DEF p, q
    <2>4. \A i \in 1 .. 2 : p[i] = q[i]
      <3>1. \A i \in 1 .. 2 : i = 1 \/ i = 2
        OBVIOUS
      <3> QED
        BY <2>2, <2>3, <3>1
    <2>5. p = q
      BY <2>2, <2>3, <2>4, SeqEqual
    <2> QED
      BY <2>5 DEF p, q
  <1> QED
    BY <1>1, <1>2, <1>3, ConcatEmptySeq

(* What is left of the calls after the first of one or two.                 *)
LEMMA Left ==
  ASSUME NEW S, NEW x \in S, NEW y \in S
  PROVE  Tail(<<x>>) = <<>> /\ Tail(<<x, y>>) = <<y>>
PROOF
  <1> DEFINE one == <<x>>
             two == <<x, y>>
             left == Tail(two)
             last == <<y>>
  <1>1. one \in Seq(S) /\ Len(one) = 1 /\ one # <<>>
    OBVIOUS
  <1>2. two \in Seq(S) /\ Len(two) = 2 /\ two[2] = y /\ two # <<>>
    OBVIOUS
  <1>3. last \in Seq(S) /\ Len(last) = 1 /\ last[1] = y
    OBVIOUS
  <1> HIDE DEF one, two, last
  <1>4. Tail(one) \in Seq(S) /\ Len(Tail(one)) = 0
    BY <1>1, HeadTailProperties
  <1>5. left \in Seq(S) /\ Len(left) = 1 /\ left[1] = y
    <2>1. /\ Tail(two) \in Seq(S) /\ Len(Tail(two)) = Len(two) - 1
          /\ \A i \in 1 .. Len(Tail(two)) : Tail(two)[i] = two[i + 1]
      BY <1>2, HeadTailProperties
    <2>2. left \in Seq(S) /\ Len(left) = 1 /\ \A i \in 1 .. 1 : left[i] = two[i + 1]
      BY <1>2, <2>1, SMTT(30)
    <2>3. left[1] = two[2]
      BY <2>2
    <2> QED
      BY <1>2, <2>2, <2>3
  <1> HIDE DEF left
  <1>6. left = last
    <2>1. \A i \in 1 .. 1 : left[i] = last[i]
      <3>1. \A i \in 1 .. 1 : i = 1
        OBVIOUS
      <3> QED
        BY <1>3, <1>5, <3>1
    <2> QED
      BY <1>3, <1>5, <2>1, SeqEqual
  <1>7. Tail(one) = <<>>
    BY <1>4, EmptySeq
  <1> QED
    BY <1>6, <1>7 DEF one, two, left, last

(* The same for the calls of the examples.                                  *)
LEMMA NoRest ==
  /\ <<>> \o <<>> = <<>> /\ <<"connect">> \o <<>> = <<"connect">>
  /\ <<"disconnect", "connect">> \o <<>> = <<"disconnect", "connect">>
  /\ <<"command">> \o <<>> = <<"command">>
  /\ <<"command", "command">> \o <<>> = <<"command", "command">>
  /\ <<"subscribe">> \o <<>> = <<"subscribe">>
  /\ <<"subscribe", "subscribe">> \o <<>> = <<"subscribe", "subscribe">>
  /\ <<"disconnect">> \o <<"connect">> = <<"disconnect", "connect">>
  /\ Tail(<<"command">>) = <<>> /\ Tail(<<"command", "command">>) = <<"command">>
  /\ Tail(<<"subscribe">>) = <<>> /\ Tail(<<"subscribe", "subscribe">>) = <<"subscribe">>
PROOF
  <1> DEFINE S == {"connect", "disconnect", "command", "subscribe"}
  <1>1. \A x, y \in S : /\ <<>> \o <<>> = <<>> /\ <<x>> \o <<>> = <<x>>
                       /\ <<x, y>> \o <<>> = <<x, y>> /\ <<x>> \o <<y>> = <<x, y>>
                       /\ Tail(<<x>>) = <<>> /\ Tail(<<x, y>>) = <<y>>
    BY Join, Left
  <1>2. "connect" \in S /\ "disconnect" \in S /\ "command" \in S /\ "subscribe" \in S
    OBVIOUS
  <1> HIDE DEF S
  <1> QED
    BY <1>1, <1>2

(* A role's handler of a connection makes its first calls.                  *)
LEMMA OnConnectedDoes ==
  ASSUME Known, OnConnected(<<>>)
  PROVE  \/ role = "publisher" /\ Goes(<<>>, armed \cup {"publish"})
         \/ role = "subscriber" /\ Goes(<<"subscribe", "subscribe">>, armed)
         \/ role = "announcer" /\ Goes(<<>>, armed \cup {"confirmed"})
         \/ role = "listener" /\ Goes(<<"subscribe">>, armed)
         \/ role = "worker" /\ Goes(<<"command">>, armed \cup {"watch"})
         \/ role \in {"chain", "soloWorker"} /\ Goes(<<"command">>, armed)
         \/ role = "benchmark" /\ Goes(<<"command", "command">>, armed \cup {"ops"})
         \/ role = "fetcher" /\ Goes(<<>>, armed \cup {"ops"})
PROOF
  <1>1. role = "publisher" => Goes(<<>>, armed \cup {"publish"})
    BY NoRest DEF OnConnected, OnPublisherConnected, CallLater, Handler, Goes
  <1>2. role = "subscriber" => Goes(<<"subscribe", "subscribe">>, armed)
    BY NoRest DEF OnConnected, OnSubscriberConnected, Handler, Goes
  <1>3. role = "announcer" => Goes(<<>>, armed \cup {"confirmed"})
    BY NoRest DEF OnConnected, OnAnnouncerConnected, CallLater, Handler, Goes
  <1>4. role = "listener" => Goes(<<"subscribe">>, armed)
    BY NoRest DEF OnConnected, OnListenerConnected, Handler, Goes
  <1>5. role = "worker" => Goes(<<"command">>, armed \cup {"watch"})
    BY NoRest DEF OnConnected, Get, CallLater, Handler, Goes
  <1>6. role \in {"chain", "soloWorker"} => Goes(<<"command">>, armed)
    BY NoRest DEF OnConnected, OnConnect, RunWorker, Handler, Goes
  <1>7. role = "benchmark" => Goes(<<"command", "command">>, armed \cup {"ops"})
    BY NoRest DEF OnConnected, RunWorkers, CallLater, Handler, Goes
  <1>8. role = "fetcher" => Goes(<<>>, armed \cup {"ops"})
    BY NoRest DEF OnConnected, RunRpcFetcher, CallLater, Handler, Goes
  <1> QED
    BY <1>1, <1>2, <1>3, <1>4, <1>5, <1>6, <1>7, <1>8 DEF Known, Steady

(* When a connect failed it tries again later, gives up, or stops.          *)
LEMMA OnConnectErrorDoes ==
  ASSUME Known, NEW aborted, OnConnectError(aborted)
  PROVE  \/ Reconnecting /\ Goes(<<>>, armed \cup {"reconnect"})
         \/ role = "worker" /\ (Goes(<<>>, armed) \/ Goes(<<>>, armed \ {"watch"}))
         \/ role \in {"chain", "announcer", "listener"} /\ Goes(<<>>, armed)
         \/ role \in {"benchmark", "soloWorker", "fetcher"} /\ Finish("stopped")
PROOF
  <1>1. Reconnecting => Goes(<<>>, armed \cup {"reconnect"})
    BY NoRest DEF OnConnectError, Retry, CallLater, Handler, Goes, Reconnecting
  <1>2. role = "worker" => Goes(<<>>, armed) \/ Goes(<<>>, armed \ {"watch"})
    BY NoRest DEF OnConnectError, OnNoConnect, Handler, Goes, Reconnecting
  <1>3. role \in {"chain", "announcer", "listener"} => Goes(<<>>, armed)
    BY NoRest DEF OnConnectError, Handler, Goes, Reconnecting
  <1>4. role \in {"benchmark", "soloWorker", "fetcher"} => Finish("stopped")
    BY DEF OnConnectError, Reconnecting
  <1> QED
    BY <1>1, <1>2, <1>3, <1>4 DEF Known, Steady, Reconnecting

(* After a reply the next command follows, or nothing, or the end.          *)
LEMMA OnReplyDoes ==
  ASSUME Known, OnReply
  PROVE  \/ Goes(<<>>, armed)
         \/ role = "worker" /\ Goes(<<"command">>, armed \cup {"watch"})
         \/ role \in {"announcer", "chain", "soloWorker", "benchmark"} /\ Goes(<<"command">>, armed)
         \/ Finish("stopped")
PROOF
  <1>1. Reconnecting \/ role = "listener" => Goes(<<>>, armed)
    BY NoRest DEF OnReply, Handler, Goes, Reconnecting
  <1>2. role = "announcer" => Goes(<<>>, armed) \/ Goes(<<"command">>, armed)
    BY NoRest DEF OnReply, OnPublished, PublishHandler, Handler, Goes, Reconnecting
  <1>3. role = "worker" => Goes(<<"command">>, armed \cup {"watch"})
    BY NoRest DEF OnReply, OnGet, Get, CallLater, Handler, Goes, Reconnecting
  <1>4. role = "chain" => Finish("stopped") \/ Goes(<<"command">>, armed) \/ Goes(<<>>, armed)
    BY NoRest DEF OnReply, OnSetOrGet, Handler, Goes, Reconnecting
  <1>5. role = "soloWorker" => Goes(<<"command">>, armed)
    BY NoRest DEF OnReply, Work, Handler, Goes, Reconnecting
  <1>6. role = "fetcher" => Goes(<<>>, armed)
    BY NoRest DEF OnReply, PrintOPS, Handler, Goes, Reconnecting
  <1>7. role = "benchmark" => Goes(<<"command">>, armed) \/ Goes(<<>>, armed)
    BY NoRest DEF OnReply, Work, PrintOPS, Handler, Goes, Reconnecting
  <1> QED
    BY <1>1, <1>2, <1>3, <1>4, <1>5, <1>6, <1>7 DEF Known, Steady, Reconnecting

(* The handler of errors connects again, or throws.                         *)
LEMMA ErrorHandlerDoes ==
  ASSUME NEW rest, ErrorHandler(rest)
  PROVE  /\ ~Reconnecting => Finish("exception")
         /\ rest = <<>> /\ role = "publisher" =>
              \/ state = "Connected" /\ Goes(<<"disconnect", "connect">>, armed \ {"publish"})
              \/ state # "Connected" /\ Goes(<<"connect">>, armed)
         /\ rest = <<>> /\ role = "subscriber" =>
              \/ state \in Live /\ Goes(<<"disconnect", "connect">>, armed)
              \/ state \notin Live /\ Goes(<<"connect">>, armed)
PROOF
  <1>1. ~Reconnecting => Finish("exception")
    BY DEF ErrorHandler, Reconnecting
  <1>2. rest = <<>> /\ role = "publisher" =>
              \/ state = "Connected" /\ Goes(<<"disconnect", "connect">>, armed \ {"publish"})
              \/ state # "Connected" /\ Goes(<<"connect">>, armed)
    BY NoRest DEF ErrorHandler, ConnectPublisher, Handler, Goes
  <1>3. rest = <<>> /\ role = "subscriber" =>
              \/ state \in Live /\ Goes(<<"disconnect", "connect">>, armed)
              \/ state \notin Live /\ Goes(<<"connect">>, armed)
    BY NoRest DEF ErrorHandler, ConnectSubscriber, Handler, Goes, Live
  <1> QED
    BY <1>1, <1>2, <1>3

(* What the handler of each timer calls, and which timer it arms.           *)
LEMMA OnTimerDoes ==
  ASSUME NEW timer \in Timers, OnTimer(timer)
  PROVE  \/ timer = "publish" /\ \/ Goes(<<>>, armed \cup {"publish"})
                                 \/ state = "Connected" /\ Goes(<<"command">>, armed \cup {"publish"})
         \/ timer = "reconnect" /\ ErrorHandler(<<>>)
         \/ timer = "watch" /\ Goes(<<"disconnect", "connect">>, armed \cup {"watch"})
         \/ timer = "ops" /\ Goes(<<"command">>, armed \cup {"ops"})
         \/ timer = "confirmed" /\ Goes(<<"command">>, armed)
PROOF
  <1>1. timer = "publish" => \/ Goes(<<>>, armed \cup {"publish"})
                             \/ state = "Connected" /\ Goes(<<"command">>, armed \cup {"publish"})
    BY NoRest DEF OnTimer, OnPublishTimeout, CallLater, Handler, Goes
  <1>2. timer = "reconnect" => ErrorHandler(<<>>)
    BY DEF OnTimer
  <1>3. timer = "watch" => Goes(<<"disconnect", "connect">>, armed \cup {"watch"})
    BY NoRest DEF OnTimer, OnTimeout, Run, CallLater, Handler, Goes
  <1>4. timer = "ops" => Goes(<<"command">>, armed \cup {"ops"})
    BY NoRest DEF OnTimer, OnOpsTimeout, CallLater, Handler, Goes
  <1>5. timer = "confirmed" => Goes(<<"command">>, armed)
    BY NoRest DEF OnTimer, PublishHandler, Handler, Goes
  <1> QED
    BY <1>1, <1>2, <1>3, <1>4, <1>5 DEF Timers

-----------------------------------------------------------------------------
(* The inductive invariant of the examples.                                 *)
Watching == armed \cup fired
Calm     == role \notin {"publisher", "subscriber"} /\ disconnects = 0

\* The calls a handler has left to make are ones the state allows.
Shape ==
  \/ todo = <<>>
  \/ todo = <<"connect">> /\ state \notin Live
  \/ todo = <<"disconnect", "connect">> /\ ~Steady
  \/ /\ todo \in {<<"command">>, <<"command", "command">>}
     /\ role \notin {"subscriber", "listener"}
     /\ state = "Connected" \/ (role = "worker" /\ disconnects > 0)
  \/ todo \in {<<"subscribe">>, <<"subscribe", "subscribe">>} /\ role \in {"subscriber", "listener"}

\* Each timer is its role's, and some are those of a connection.
TimersFit ==
  /\ armed \subseteq Timers /\ fired \subseteq Timers
  /\ "publish"   \in Watching => role = "publisher"
  /\ "reconnect" \in Watching => Reconnecting
  /\ "watch"     \in Watching => role = "worker"
  /\ "ops"       \in Watching => role \in {"benchmark", "fetcher"} /\ state = "Connected"
  /\ "confirmed" \in Watching => role = "announcer" /\ state = "Connected"

SubscribesOnly == state = "Subscribed" => role \in {"subscriber", "listener"}

\* All but the clients of async_pubsub and a worker whose time is up connect once.
Once ==
  /\ Steady => disconnects = 0
  /\ Calm => Phase /\ (todo = <<"connect">> => Unused /\ ctl = "loop")

\* A client that connects will be told, and no example is left with nothing to
\* wait for, unless it gives up.
Tries == state = "Connecting" => ConnectUnderWay
Awake ==
  \/ WillConnect \/ ConnectUnderWay
  \/ role \in GivesUp /\ state = "Unconnected"
  \/ role = "publisher" /\ "publish" \in Watching
  \/ Reconnecting /\ "reconnect" \in Watching
  \/ role = "worker" /\ "watch" \in Watching
  \/ role \notin {"publisher", "worker"} /\ ReadUnderWay

Guarded == role = "worker" /\ state = "Connected" => "watch" \in Watching

Going == Shape /\ TimersFit /\ SubscribesOnly /\ Once /\ Tries /\ Awake /\ Guarded
Fine  == Known /\ (ended = "no" => Going) /\ RunsOn /\ ThrowsOnLoss

(* An example that goes on is fine if the parts of the invariant hold.      *)
LEMMA FineGoing ==
  ASSUME Known, role' = role, ended' = "no", Going'
  PROVE  Fine'
PROOF BY DEF Fine, Known, Steady, RunsOn, ThrowsOnLoss

(* One that stops is fine if it may stop in this way.                       *)
LEMMA FineFinish ==
  ASSUME Known, NEW how, Finish(how), how # "no",
         how = "returned" => role \in GivesUp /\ state' = "Unconnected",
         how = "exception" => drops' > 0 \/ disconnects' > 0
  PROVE  Fine'
PROOF BY DEF Fine, Known, Steady, RunsOn, ThrowsOnLoss, Finish, GivesUp

(* The initial state.                                                       *)
LEMMA InitFine == ExampleInit => Fine
PROOF
  <1> SUFFICES ASSUME ExampleInit PROVE Fine
    OBVIOUS
  <1>1. Known
    BY ExamplesAssumption DEF ExampleInit, Known, Steady
  <1>2. Shape /\ SubscribesOnly /\ Tries /\ Awake /\ Guarded
    BY DEF ExampleInit, Init, Shape, Live, SubscribesOnly, Tries, Awake, WillConnect, Guarded
  <1>3. TimersFit
    BY DEF ExampleInit, Init, TimersFit, Timers, Watching
  <1>4. Once
    BY DEF ExampleInit, Init, Once, Calm, Phase, Unused, Fresh
  <1> QED
    BY <1>1, <1>2, <1>3, <1>4 DEF Fine, Going, ExampleInit, RunsOn, ThrowsOnLoss

(* The steps of the network concern the application in nothing.             *)
LEMMA NetworkFine ==
  ASSUME ClientInv, Fine, NetworkStep(Network)
  PROVE  Fine'
PROOF
  <1>1. /\ ended = "no" /\ role' = role /\ armed' = armed /\ fired' = fired /\ todo' = todo
        /\ ended' = ended /\ Network
    BY DEF NetworkStep, app
  <1>2. Going /\ Known
    BY <1>1 DEF Fine
  <1>3. /\ state' = state /\ ctl' = ctl /\ disconnects' = disconnects
        /\ ConnectUnderWay => ConnectUnderWay'
        /\ ReadUnderWay => ReadUnderWay'
    BY <1>1, NetworkFacts
  <1>4. Shape' /\ SubscribesOnly' /\ Tries' /\ Guarded'
    BY <1>1, <1>2, <1>3 DEF Going, Shape, Steady, SubscribesOnly, Tries, Guarded, Watching
  <1>5. TimersFit'
    BY <1>1, <1>2, <1>3 DEF Going, TimersFit, Watching, Reconnecting
  <1>6. Awake'
    BY <1>1, <1>2, <1>3 DEF Going, Awake, WillConnect, Watching, Reconnecting
  <1>7. Once'
    <2>1. Phase => Phase'
      BY <1>1, PhaseNetwork
    <2>2. todo # <<"connect">> \/ ~Calm \/ Unused'
      <3>1. ASSUME todo = <<"connect">>, Calm PROVE Unused'
        <4>1. Phase' /\ Unused
          BY <1>2, <2>1, <3>1 DEF Going, Once
        <4>2. state' = "Unconnected"
          BY <1>3, <4>1 DEF Unused
        <4> QED
          BY <4>1, <4>2 DEF Phase, Trying, Using, Live
      <3> QED
        BY <3>1
    <2> QED
      BY <1>1, <1>2, <1>3, <2>1, <2>2 DEF Going, Once, Steady, Calm
  <1> QED
    BY <1>1, <1>2, <1>4, <1>5, <1>6, <1>7, FineGoing DEF Going

-----------------------------------------------------------------------------
(* The steps of the io thread, by the callback they enter.                  *)

\* What every such step does to the client, whatever the application then does.
Stepped ==
  /\ Known /\ Going /\ todo = <<>> /\ fired' = fired /\ ended = "no"
  /\ disconnects \in Nat /\ disconnects' = disconnects /\ drops' = drops
  /\ ConnectTold /\ ReadTold
  /\ Calm => Phase' /\ (state \in Live => state' = state)

(* It is what the lemmas about these steps say.                             *)
LEMMA SteppedNow ==
  ASSUME ClientInv, Fine, ClientStep(Handlers) \/ ClientStep(Running)
  PROVE  Stepped
PROOF
  <1>1. (Handlers \/ Running) /\ ended = "no" /\ todo = <<>> /\ fired' = fired
    BY DEF ClientStep
  <1>2. Known /\ Going
    BY <1>1 DEF Fine
  <1>3. Unconcerned /\ ConnectTold /\ ReadTold
    BY <1>1, IoFacts
  <1>4. Calm => Phase' /\ (state \in Live => state' = state)
    BY <1>1, <1>2, PhaseIo DEF Going, Once
  <1> QED
    BY <1>1, <1>2, <1>3, <1>4, Types DEF Stepped, Unconcerned

(* Once is kept when no handler connects a client that connects once.       *)
LEMMA OnceStepped ==
  ASSUME Stepped, role' = role, Calm => todo' # <<"connect">>
  PROVE  Once'
PROOF BY DEF Stepped, Going, Once, Calm, Steady

(* The timers of a connection stop with it.                                 *)
LEMMA SteppedTimers ==
  ASSUME Stepped, "ops" \in Watching \/ "confirmed" \in Watching
  PROVE  state = "Connected" /\ state' = "Connected"
PROOF
  <1>1. state = "Connected" /\ Calm
    BY DEF Stepped, Going, TimersFit, Once, Calm, Steady
  <1> QED
    BY <1>1 DEF Stepped, Live

(* A connection is there.                                                   *)
LEMMA ConnectedFine ==
  ASSUME Stepped, Enters({"connectOk"}), OnConnected(<<>>)
  PROVE  Fine'
PROOF
  <1>1. /\ Known /\ Going /\ fired' = fired /\ ended = "no" /\ state' = "Connected"
        /\ ctl' = "connectOk"
    BY DEF Stepped, ConnectTold, Enters
  <1>2. ReadUnderWay'
    BY <1>1 DEF ReadUnderWay
  <1>3. role' = role /\ ended' = "no"
    BY <1>1, OnConnectedDoes DEF Goes
  <1>4. Shape' /\ SubscribesOnly' /\ Tries' /\ Guarded'
    <2>1. Shape'
      BY <1>1, <1>3, OnConnectedDoes DEF Goes, Shape, Live, Steady
    <2>2. Guarded'
      BY <1>1, <1>3, OnConnectedDoes DEF Goes, Guarded, Watching
    <2> QED
      BY <1>1, <2>1, <2>2 DEF SubscribesOnly, Tries
  <1>5. TimersFit'
    BY <1>1, <1>3, OnConnectedDoes DEF Goes, Going, TimersFit, Timers, Watching, Reconnecting
  <1>6. Awake'
    BY <1>1, <1>2, <1>3, OnConnectedDoes DEF Goes, Awake, Watching
  <1>7. Calm => todo' # <<"connect">>
    BY <1>1, OnConnectedDoes DEF Goes, Calm
  <1> QED
    BY <1>1, <1>3, <1>4, <1>5, <1>6, <1>7, OnceStepped, FineGoing DEF Going

(* A connect has failed.                                                    *)
LEMMA NotConnectedFine ==
  ASSUME Stepped, Enters({"connectErr"}), NEW aborted, OnConnectError(aborted)
  PROVE  Fine'
PROOF
  <1>1. /\ Known /\ Going /\ fired' = fired /\ ended = "no" /\ state' = "Unconnected" /\ todo = <<>>
        /\ ctl' = "connectErr"
    BY DEF Stepped, ConnectTold, Enters
  <1>2. CASE Finish("stopped")
    BY <1>1, <1>2, FineFinish
  <1>3. CASE ~Finish("stopped")
    <2>1. /\ role' = role /\ ended' = "no" /\ todo' = <<>>
          /\ \/ Reconnecting /\ armed' = armed \cup {"reconnect"}
             \/ role \in GivesUp /\ armed' \subseteq armed
      BY <1>1, <1>3, OnConnectErrorDoes DEF Goes, GivesUp
    <2>2. Shape' /\ SubscribesOnly' /\ Tries' /\ Guarded'
      BY <1>1, <2>1 DEF Shape, SubscribesOnly, Tries, Guarded
    <2>3. "ops" \notin Watching /\ "confirmed" \notin Watching
      BY <1>1, SteppedTimers
    <2>4. TimersFit'
      BY <1>1, <2>1, <2>3 DEF Going, TimersFit, Timers, Watching, Reconnecting
    <2>5. Awake'
      BY <1>1, <2>1 DEF Awake, Watching, Reconnecting, GivesUp
    <2>6. Calm => todo' # <<"connect">>
      BY <2>1
    <2> QED
      BY <1>1, <2>1, <2>2, <2>4, <2>5, <2>6, OnceStepped, FineGoing DEF Going
  <1> QED
    BY <1>2, <1>3

(* A reply.                                                                 *)
LEMMA ReplyFine ==
  ASSUME Stepped, Enters({"reply"}), Calm => state \in Live, OnReply
  PROVE  Fine'
PROOF
  <1>1. /\ Known /\ Going /\ fired' = fired /\ ended = "no" /\ state' = state /\ ctl' = "reply"
        /\ disconnects \in Nat /\ disconnects' = disconnects
    BY DEF Stepped, ConnectTold, Enters
  <1>2. CASE Finish("stopped")
    BY <1>1, <1>2, FineFinish
  <1>3. CASE ~Finish("stopped")
    <2>1. /\ role' = role /\ ended' = "no" /\ todo' \in {<<>>, <<"command">>}
          /\ \/ armed' = armed
             \/ role = "worker" /\ armed' = armed \cup {"watch"}
          /\ todo' # <<>> =>
               role \in {"announcer", "chain", "soloWorker", "benchmark", "worker"}
      BY <1>1, <1>3, OnReplyDoes DEF Goes
    <2>2. Shape'
      <3>1. CASE todo' = <<>>
        BY <3>1 DEF Shape
      <3>2. CASE todo' # <<>>
        <4>1. state = "Connected" \/ (role = "worker" /\ disconnects > 0)
          BY <1>1, <2>1, <3>2 DEF Going, Once, Calm, Steady, SubscribesOnly, Live
        <4> QED
          BY <1>1, <2>1, <3>2, <4>1 DEF Shape
      <3> QED
        BY <3>1, <3>2
    <2>3. SubscribesOnly' /\ Guarded'
      BY <1>1, <2>1 DEF Going, SubscribesOnly, Guarded, Watching
    <2>4. Tries'
      BY <1>1 DEF Stepped, Going, Tries, ConnectTold, Enters
    <2>5. TimersFit'
      BY <1>1, <2>1 DEF Going, TimersFit, Timers, Watching, Reconnecting
    <2>6. ReadUnderWay' /\ (ConnectUnderWay => ConnectUnderWay')
      BY <1>1 DEF ReadUnderWay, Stepped, ConnectTold, Enters
    <2>7. Awake'
      BY <1>1, <2>1, <2>6 DEF Stepped, Going, Awake, WillConnect, Watching, Reconnecting
    <2>8. Calm => todo' # <<"connect">>
      BY <2>1
    <2> QED
      BY <1>1, <2>1, <2>2, <2>3, <2>4, <2>5, <2>7, <2>8, OnceStepped, FineGoing DEF Going
  <1> QED
    BY <1>2, <1>3

(* An error.                                                                *)
LEMMA ErrorFine ==
  ASSUME Stepped, Enters({"unexpected", "readErr", "parseErr", "writeErr"}), Calm => drops > 0,
         ErrorHandler(<<>>)
  PROVE  Fine'
PROOF
  <1>1. /\ Known /\ Going /\ fired' = fired /\ ended = "no" /\ state' = state
        /\ disconnects \in Nat /\ disconnects' = disconnects /\ drops' = drops
    BY DEF Stepped, ConnectTold, Enters
  <1>2. CASE ~Reconnecting
    <2>1. Finish("exception")
      BY <1>2, ErrorHandlerDoes
    <2>2. drops' > 0 \/ disconnects' > 0
      BY <1>1, <1>2 DEF Calm, Reconnecting
    <2> QED
      BY <1>1, <2>1, <2>2, FineFinish
  <1>3. CASE Reconnecting
    <2>1. /\ role' = role /\ ended' = "no"
          /\ armed' = armed \/ armed' = armed \ {"publish"}
          /\ \/ todo' = <<"disconnect", "connect">>
             \/ todo' = <<"connect">> /\ state \notin Live
      BY <1>1, <1>3, ErrorHandlerDoes DEF Goes, Reconnecting, Going, SubscribesOnly, Live
    <2>2. Shape' /\ SubscribesOnly' /\ Guarded'
      BY <1>1, <1>3, <2>1 DEF Shape, Going, SubscribesOnly, Guarded, Reconnecting, Steady
    <2>3. Tries'
      BY <1>1 DEF Stepped, Going, Tries, ConnectTold, Enters
    <2>4. TimersFit'
      BY <1>1, <2>1 DEF Going, TimersFit, Timers, Watching, Reconnecting
    <2>5. Awake'
      BY <2>1 DEF Awake, WillConnect
    <2>6. ~Calm
      BY <1>3 DEF Calm, Reconnecting
    <2> QED
      BY <1>1, <2>1, <2>2, <2>3, <2>4, <2>5, <2>6, OnceStepped, FineGoing DEF Going
  <1> QED
    BY <1>2, <1>3

(* No callback.                                                             *)
LEMMA QuietFine ==
  ASSUME Stepped, role' = role, armed' = armed, todo' = todo, ended' = ended,
         ~Enters({"connectOk", "connectErr", "readErr", "parseErr"})
  PROVE  Fine'
PROOF
  <1>1. /\ Known /\ Going /\ fired' = fired /\ ended = "no" /\ state' = state /\ todo = <<>>
        /\ ConnectUnderWay => ConnectUnderWay'
        /\ ReadUnderWay => ReadUnderWay'
    BY DEF Stepped, ConnectTold, ReadTold, Enters
  <1>2. Shape' /\ SubscribesOnly' /\ Tries' /\ Guarded'
    BY <1>1 DEF Going, Shape, SubscribesOnly, Tries, Guarded, Watching
  <1>3. TimersFit'
    BY <1>1 DEF Going, TimersFit, Watching, Reconnecting
  <1>4. Awake'
    BY <1>1 DEF Going, Awake, WillConnect, Watching, Reconnecting
  <1>5. Calm => todo' # <<"connect">>
    BY <1>1
  <1> QED
    BY <1>1, <1>2, <1>3, <1>4, <1>5, OnceStepped, FineGoing DEF Going

(* The steps of the io thread.                                              *)
LEMMA IoFine ==
  ASSUME ClientInv, Fine, ClientStep(Handlers) \/ ClientStep(Running)
  PROVE  Fine'
PROOF
  <1>1. Stepped
    BY SteppedNow
  <1>2. Handlers \/ Running
    BY DEF ClientStep
  <1>3. Calm => /\ Enters({"reply"}) => state \in Live
                /\ Enters({"unexpected", "readErr", "parseErr", "writeErr"}) => drops > 0
    BY <1>1, <1>2, PhaseIo DEF Stepped, Going, Once
  <1>4. CASE Enters({"connectOk"})
    <2>1. OnConnected(<<>>)
      BY <1>4 DEF ClientStep, Enters
    <2> QED
      BY <1>1, <1>4, <2>1, ConnectedFine
  <1>5. CASE Enters({"connectErr"})
    <2>1. OnConnectError(Head(doneq).st = "aborted")
      BY <1>5 DEF ClientStep, Enters
    <2> QED
      BY <1>1, <1>5, <2>1, NotConnectedFine
  <1>6. CASE Enters({"reply"})
    <2>1. OnReply
      BY <1>6 DEF ClientStep, Enters
    <2> QED
      BY <1>1, <1>3, <1>6, <2>1, ReplyFine
  <1>7. CASE Enters({"unexpected", "readErr", "parseErr", "writeErr"})
    <2>1. ErrorHandler(<<>>)
      BY <1>7 DEF ClientStep, Enters
    <2> QED
      BY <1>1, <1>3, <1>7, <2>1, ErrorFine
  <1>8. CASE ~Enters({"connectOk", "connectErr", "reply", "unexpected", "readErr", "parseErr", "writeErr"})
    <2>1. role' = role /\ armed' = armed /\ todo' = todo /\ ended' = ended
      BY <1>8 DEF ClientStep, Enters
    <2>2. ~Enters({"connectOk", "connectErr", "readErr", "parseErr"})
      BY <1>8 DEF Enters
    <2> QED
      BY <1>1, <2>1, <2>2, QuietFine
  <1> QED
    BY <1>4, <1>5, <1>6, <1>7, <1>8 DEF Enters

-----------------------------------------------------------------------------
(* The calls of the application.                                            *)

(* connect() is called in a state in which it starts to connect, or while    *)
(* the client connects.                                                     *)
LEMMA ConnectFine ==
  ASSUME ClientInv, Fine, CallConnect
  PROVE  Fine'
PROOF
  <1>1. ended = "no" /\ todo # <<>> /\ Head(todo) = "connect" /\ Connect("tcp")
    BY DEF CallConnect, Pending
  <1>2. Known /\ Going
    BY <1>1 DEF Fine
  <1>3. todo = <<"connect">> /\ state \notin Live
    <2>1. /\ Head(<<"disconnect", "connect">>) # "connect"
          /\ Head(<<"command">>) # "connect" /\ Head(<<"command", "command">>) # "connect"
          /\ Head(<<"subscribe">>) # "connect" /\ Head(<<"subscribe", "subscribe">>) # "connect"
      OBVIOUS
    <2> QED
      BY <1>1, <1>2, <2>1 DEF Going, Shape
  <1>4. Tail(todo) = <<>>
    BY <1>3
  <1>5. Calm => Unused /\ ctl = "loop" /\ Phase
    BY <1>2, <1>3 DEF Going, Once
  <1>6. CASE state \in {"Unconnected", "Closed"}
    <2>1. /\ ConnectStarts("tcp") /\ todo' = <<>> /\ role' = role /\ armed' = armed /\ fired' = fired
          /\ ended' = "no" /\ state' = "Connecting"
      BY <1>1, <1>4, <1>6 DEF CallConnect, Return, Connect, ConnectIgnored, ConnectStarts
    <2>2. disconnects' = disconnects /\ drops' = drops
      BY <1>1 DEF Connect
    <2>3. ConnectUnderWay'
      <3>1. CASE pendConnect' = TRUE
        BY <3>1 DEF ConnectUnderWay
      <3>2. CASE doneq' = Append(doneq, Done("connect", "failed"))
        <4>1. Done("connect", "failed") \in Completion /\ Done("connect", "failed").op = "connect"
          BY DoneIs DEF Kinds, Results
        <4>2. ConnectIn(doneq')
          BY <3>2, <4>1, Types, Grown
        <4> QED
          BY <4>2, QueueNow DEF ConnectUnderWay
      <3> QED
        BY <2>1, <3>1, <3>2 DEF ConnectStarts
    <2>4. Shape' /\ SubscribesOnly' /\ Tries' /\ Awake' /\ Guarded'
      BY <2>1, <2>3 DEF Shape, SubscribesOnly, Tries, Awake, Guarded
    <2>5. TimersFit'
      BY <1>2, <1>6, <2>1 DEF Going, TimersFit, Watching, Reconnecting
    <2>6. ASSUME Calm PROVE Phase'
      <3>1. /\ Unused /\ ctl = "loop" /\ dirty = FALSE
        BY <1>5, <2>6 DEF Phase
      <3>2. /\ handlers' = handlers /\ dataQueued' = dataQueued /\ dataWrited' = dataWrited
            /\ strandq' = strandq /\ pendReads' = pendReads /\ pendWrites' = pendWrites
            /\ ctl' = ctl
        BY <1>1 DEF Connect, io
      <3>3. partial' = FALSE /\ dirty' = FALSE
        <4>1. partial' = FALSE
          BY <2>1, <3>1 DEF ConnectStarts, Unused, Fresh
        <4>2. DOMAIN doneq = {}
          BY <3>1 DEF Unused
        <4>3. ~Carried /\ handlers = <<>> /\ pendWrites = <<>>
          BY <3>1, <4>2 DEF Carried, Unused, Fresh
        <4>4. ~(pendReads > 0)
          BY <3>1 DEF Unused, Fresh
        <4>5. dirty' = \/ dirty \/ partial' \/ Carried
                       \/ handlers # <<>> \/ pendReads > 0 \/ pendWrites # <<>>
          BY <2>1 DEF ConnectStarts
        <4> QED
          BY <3>1, <4>1, <4>3, <4>4, <4>5
      <3>4. Fresh'
        BY <3>1, <3>2, <3>3 DEF Unused, Fresh
      <3>5. \/ doneq' = <<Done("connect", "failed")>> /\ pendConnect' = FALSE
            \/ doneq' = <<>> /\ pendConnect' = TRUE
        <4>1. \/ doneq' = Append(<<>>, Done("connect", "failed")) /\ pendConnect' = FALSE
              \/ doneq' = <<>> /\ pendConnect' = TRUE
          BY <2>1, <3>1 DEF ConnectStarts, Unused
        <4>2. \A x : Append(<<>>, x) = <<x>>
          OBVIOUS
        <4> QED
          BY <4>1, <4>2
      <3>6. Trying'
        BY <2>1, <3>1, <3>2, <3>4, <3>5 DEF Trying, Done
      <3> QED
        BY <3>3, <3>6 DEF Phase
    <2>7. Once'
      BY <1>2, <2>1, <2>2, <2>6 DEF Going, Once, Calm, Steady
    <2> QED
      BY <1>2, <2>1, <2>4, <2>5, <2>7, FineGoing DEF Going
  <1>7. CASE state \notin {"Unconnected", "Closed"}
    <2>1. state = "Connecting"
      BY <1>3, <1>7, Types DEF States, Live
    <2>2. ~Calm /\ role \in {"publisher", "subscriber", "worker"}
      BY <1>2, <1>5, <2>1 DEF Unused, Going, Once, Calm, Known, Steady
    <2>3. OnConnected(<<>>) /\ fired' = fired
      BY <1>4, <1>7 DEF CallConnect
    <2>4. /\ state' = state /\ pendConnect' = pendConnect /\ doneq' = doneq
          /\ disconnects' = disconnects
      BY <1>1, <1>7 DEF Connect, ConnectStarts, ConnectIgnored
    <2>5. /\ role' = role /\ ended' = "no"
          /\ \/ role = "publisher" /\ todo' = <<>> /\ armed' = armed \cup {"publish"}
             \/ role = "subscriber" /\ todo' = <<"subscribe", "subscribe">> /\ armed' = armed
             \/ role = "worker" /\ todo' = <<"command">> /\ armed' = armed \cup {"watch"}
      BY <1>1, <1>2, <2>2, <2>3, OnConnectedDoes DEF Goes
    <2>6. ConnectUnderWay'
      BY <1>2, <2>1, <2>4, QueueNow DEF Going, Tries, ConnectUnderWay
    <2>7. disconnects \in Nat
      BY Types
    <2>8. Shape'
      BY <2>2, <2>4, <2>5, <2>7 DEF Shape, Calm
    <2>9. SubscribesOnly' /\ Tries' /\ Awake' /\ Guarded'
      BY <2>1, <2>4, <2>6 DEF SubscribesOnly, Tries, Awake, Guarded
    <2>10. TimersFit'
      BY <1>2, <2>3, <2>4, <2>5 DEF Going, TimersFit, Timers, Watching, Reconnecting
    <2>11. Once'
      BY <2>2, <2>4, <2>5 DEF Once, Calm, Steady
    <2> QED
      BY <1>2, <2>5, <2>8, <2>9, <2>10, <2>11, FineGoing DEF Going
  <1> QED
    BY <1>6, <1>7

(* disconnect() is called to connect again.                                 *)
LEMMA DisconnectFine ==
  ASSUME ClientInv, Fine, CallDisconnect
  PROVE  Fine'
PROOF
  <1>1. ended = "no" /\ todo # <<>> /\ Head(todo) = "disconnect" /\ Disconnect
    BY DEF CallDisconnect, Pending
  <1>2. Known /\ Going
    BY <1>1 DEF Fine
  <1>3. todo = <<"disconnect", "connect">> /\ ~Steady
    <2>1. /\ Head(<<"connect">>) # "disconnect"
          /\ Head(<<"command">>) # "disconnect" /\ Head(<<"command", "command">>) # "disconnect"
          /\ Head(<<"subscribe">>) # "disconnect" /\ Head(<<"subscribe", "subscribe">>) # "disconnect"
      OBVIOUS
    <2> QED
      BY <1>1, <1>2, <2>1 DEF Going, Shape
  <1>4. Tail(todo) = <<"connect">>
    BY <1>3
  <1>5. /\ todo' = <<"connect">> /\ role' = role /\ armed' = armed /\ fired' = fired
        /\ ended' = "no" /\ state' = "Closed" /\ disconnects' = disconnects + 1
    BY <1>1, <1>4 DEF CallDisconnect, Return, Disconnect
  <1>6. disconnects' # 0
    BY <1>5, Types
  <1>7. Shape' /\ SubscribesOnly' /\ Tries' /\ Awake' /\ Guarded'
    BY <1>5 DEF Shape, Live, SubscribesOnly, Tries, Awake, WillConnect, Guarded
  <1>8. TimersFit'
    BY <1>2, <1>3, <1>5 DEF Going, TimersFit, Watching, Reconnecting, Steady
  <1>9. Once'
    BY <1>3, <1>5, <1>6 DEF Once, Calm, Steady
  <1> QED
    BY <1>2, <1>5, <1>7, <1>8, <1>9, FineGoing DEF Going

(* A command on a live connection.                                          *)
LEMMA IssueFine ==
  ASSUME ClientInv, Known, Going, ended = "no", ended' = "no", role' = role, armed' = armed,
         fired' = fired, state \in Live, state' = state \/ state' = "Subscribed",
         state' = "Subscribed" => role \in {"subscriber", "listener"},
         disconnects' = disconnects, drops' = drops, dirty' = dirty, ctl' = ctl, sock' = sock,
         doneq' = doneq, pendConnect' = pendConnect, pendReads' = pendReads,
         Shape', todo' # <<"connect">>, todo \notin {<<"connect">>, <<"disconnect", "connect">>}
  PROVE  Fine'
PROOF
  <1>1. state' \in Live
    BY DEF Live
  <1>2. SubscribesOnly' /\ Tries' /\ Guarded'
    BY <1>1 DEF Going, SubscribesOnly, Tries, Guarded, Watching, Live
  <1>3. TimersFit'
    BY DEF Going, TimersFit, Watching, Reconnecting
  <1>4. (ConnectUnderWay => ConnectUnderWay') /\ (ReadUnderWay => ReadUnderWay')
    BY QueueNow DEF ConnectUnderWay, ReadUnderWay
  <1>5. Awake'
    BY <1>4 DEF Going, Awake, WillConnect, Watching, Reconnecting, Live
  <1>6. Phase => Phase'
    BY <1>1, QueueNow DEF Phase, Unused, Trying, Using, Live
  <1>7. Once'
    BY <1>6 DEF Going, Once, Calm, Steady
  <1> QED
    BY <1>2, <1>3, <1>5, <1>7, FineGoing DEF Going

(* command() is called on a connection that is there, or by a worker whose   *)
(* connection is not the first.                                             *)
LEMMA CommandFine ==
  ASSUME ClientInv, Fine, CallCommand
  PROVE  Fine'
PROOF
  <1>1. ended = "no" /\ todo # <<>> /\ Head(todo) = "command"
    BY DEF CallCommand, Pending
  <1>2. Known /\ Going
    BY <1>1 DEF Fine
  <1>3. /\ todo \in {<<"command">>, <<"command", "command">>}
        /\ role \notin {"subscriber", "listener"}
        /\ state = "Connected" \/ (role = "worker" /\ disconnects > 0)
    <2>1. /\ Head(<<"connect">>) # "command" /\ Head(<<"disconnect", "connect">>) # "command"
          /\ Head(<<"subscribe">>) # "command" /\ Head(<<"subscribe", "subscribe">>) # "command"
      OBVIOUS
    <2> QED
      BY <1>1, <1>2, <2>1 DEF Going, Shape
  <1>4. Tail(todo) \in {<<>>, <<"command">>}
    BY <1>3, NoRest
  <1>5. CASE state = "Connected"
    <2>1. /\ todo' = Tail(todo) /\ role' = role /\ armed' = armed /\ fired' = fired /\ ended' = "no"
          /\ state' = state /\ disconnects' = disconnects /\ drops' = drops /\ dirty' = dirty
          /\ ctl' = ctl /\ sock' = sock /\ doneq' = doneq /\ pendConnect' = pendConnect
          /\ pendReads' = pendReads
      BY <1>1, <1>5 DEF CallCommand, Return, Command, io, ops, wire
    <2>2. Shape'
      BY <1>3, <1>4, <1>5, <2>1 DEF Shape
    <2>3. todo' # <<"connect">> /\ todo \notin {<<"connect">>, <<"disconnect", "connect">>}
      <3>1. /\ <<>> # <<"connect">> /\ <<"command">> # <<"connect">>
            /\ <<"command">> # <<"disconnect", "connect">>
            /\ <<"command", "command">> \notin {<<"connect">>, <<"disconnect", "connect">>}
        OBVIOUS
      <3> QED
        BY <1>3, <1>4, <2>1, <3>1
    <2>4. state \in Live /\ (state' = "Subscribed" => role \in {"subscriber", "listener"})
      BY <1>5, <2>1 DEF Live
    <2> QED
      BY <1>1, <1>2, <2>1, <2>2, <2>3, <2>4, IssueFine
  <1>6. CASE state # "Connected"
    <2>1. ErrorHandler(Tail(todo)) /\ UNCHANGED vars
      BY <1>6 DEF CallCommand
    <2>2. Finish("exception")
      BY <1>3, <1>6, <2>1, ErrorHandlerDoes DEF Reconnecting
    <2>3. disconnects' > 0
      BY <1>3, <1>6, <2>1 DEF vars, history
    <2> QED
      BY <1>2, <2>2, <2>3, FineFinish
  <1> QED
    BY <1>5, <1>6

(* subscribe() too, or it never returns.                                    *)
LEMMA SubscribeFine ==
  ASSUME ClientInv, Fine, CallSubscribe
  PROVE  Fine'
PROOF
  <1>1. ended = "no" /\ todo # <<>> /\ Head(todo) = "subscribe"
    BY DEF CallSubscribe, Pending
  <1>2. Known /\ Going
    BY <1>1 DEF Fine
  <1>3. /\ todo \in {<<"subscribe">>, <<"subscribe", "subscribe">>}
        /\ role \in {"subscriber", "listener"}
    <2>1. /\ Head(<<"connect">>) # "subscribe" /\ Head(<<"disconnect", "connect">>) # "subscribe"
          /\ Head(<<"command">>) # "subscribe" /\ Head(<<"command", "command">>) # "subscribe"
      OBVIOUS
    <2> QED
      BY <1>1, <1>2, <2>1 DEF Going, Shape
  <1>4. Tail(todo) \in {<<>>, <<"subscribe">>}
    BY <1>3, NoRest
  <1>5. CASE state \in {"Connected", "Subscribed"}
    <2>1. /\ todo' = Tail(todo) /\ role' = role /\ armed' = armed /\ fired' = fired /\ ended' = "no"
          /\ state' = "Subscribed" /\ disconnects' = disconnects /\ drops' = drops /\ dirty' = dirty
          /\ ctl' = ctl /\ sock' = sock /\ doneq' = doneq /\ pendConnect' = pendConnect
          /\ pendReads' = pendReads
      BY <1>1, <1>5 DEF CallSubscribe, Return, Subscribe, io, ops, wire
    <2>2. Shape'
      BY <1>3, <1>4, <2>1 DEF Shape
    <2>3. todo' # <<"connect">> /\ todo \notin {<<"connect">>, <<"disconnect", "connect">>}
      <3>1. /\ <<>> # <<"connect">> /\ <<"subscribe">> # <<"connect">>
            /\ <<"subscribe">> # <<"disconnect", "connect">>
            /\ <<"subscribe", "subscribe">> \notin {<<"connect">>, <<"disconnect", "connect">>}
        OBVIOUS
      <3> QED
        BY <1>3, <1>4, <2>1, <3>1
    <2>4. state \in Live
      BY <1>5 DEF Live
    <2> QED
      BY <1>1, <1>2, <1>3, <2>1, <2>2, <2>3, <2>4, IssueFine
  <1>6. CASE state \notin {"Connected", "Subscribed"}
    <2>1. Finish("recursion")
      BY <1>6 DEF CallSubscribe
    <2> QED
      BY <1>2, <2>1, FineFinish
  <1> QED
    BY <1>5, <1>6


-----------------------------------------------------------------------------
(* The timers, and the end.                                                 *)

\* What the invariant says of the client, when a step leaves it alone.
Same ==
  /\ state' = state /\ ctl' = ctl /\ disconnects' = disconnects /\ drops' = drops
  /\ ConnectUnderWay' <=> ConnectUnderWay
  /\ ReadUnderWay' <=> ReadUnderWay
  /\ Phase' <=> Phase
  /\ Unused' <=> Unused

(* It holds of every step that leaves the client alone.                     *)
LEMMA SameNow == UNCHANGED vars => Same
PROOF
  <1> SUFFICES ASSUME UNCHANGED vars PROVE Same
    OBVIOUS
  <1>1. UNCHANGED client /\ UNCHANGED io /\ UNCHANGED ops /\ UNCHANGED wire /\ UNCHANGED history
    BY DEF vars
  <1>2. /\ state' = state /\ ctl' = ctl /\ disconnects' = disconnects /\ drops' = drops
        /\ dirty' = dirty /\ sock' = sock /\ doneq' = doneq /\ pendConnect' = pendConnect
        /\ pendReads' = pendReads
    BY <1>1 DEF client, io, ops, wire, history
  <1>3. (ConnectUnderWay' <=> ConnectUnderWay) /\ (ReadUnderWay' <=> ReadUnderWay)
    BY <1>2, QueueNow DEF ConnectUnderWay, ReadUnderWay
  <1>4. Fresh' <=> Fresh
    BY <1>1 DEF client, ops, Fresh
  <1>5. Unused' <=> Unused
    BY <1>2, <1>4 DEF Unused
  <1>6. Trying' <=> Trying
    BY <1>2, <1>4 DEF Trying, Done
  <1>7. Using' <=> Using
    BY <1>2, QueueNow DEF Using
  <1> QED
    BY <1>2, <1>3, <1>5, <1>6, <1>7 DEF Same, Phase

\* What the handler of a timer does, by role.
Ran(timer) ==
  /\ role' = role /\ ended' = "no" /\ fired' = fired \ {timer}
  /\ \/ /\ role = "publisher" /\ timer = "publish" /\ armed' = armed \cup {"publish"}
        /\ todo' = <<>> \/ (todo' = <<"command">> /\ state = "Connected")
     \/ /\ Reconnecting /\ armed' \subseteq armed
        /\ \/ todo' = <<"disconnect", "connect">>
           \/ todo' = <<"connect">> /\ state \notin Live
     \/ /\ role = "worker" /\ armed' = armed \cup {"watch"}
        /\ todo' = <<"disconnect", "connect">>
     \/ /\ role \in {"benchmark", "fetcher", "announcer"} /\ state = "Connected"
        /\ armed' = armed \/ armed' = armed \cup {timer}
        /\ todo' = <<"command">>

(* None of this leaves the example with nothing to wait for.                *)
LEMMA RanFine ==
  ASSUME Known, Going, Same, NEW timer \in Timers, timer \in Watching, todo = <<>>, Ran(timer)
  PROVE  Fine'
PROOF
  <1>1. /\ role' = role /\ ended' = "no" /\ fired' = fired \ {timer}
        /\ state' = state /\ disconnects' = disconnects
    BY DEF Ran, Same
  <1>2. todo' = <<"connect">> => Reconnecting
    BY DEF Ran
  <1>3. Shape'
    BY DEF Ran, Same, Shape, Steady, Reconnecting
  <1>4. SubscribesOnly' /\ Tries'
    BY <1>1 DEF Same, Going, SubscribesOnly, Tries
  <1>5. Guarded'
    BY <1>1 DEF Ran, Guarded, Watching, Reconnecting
  <1>6. TimersFit'
    <2>1. \/ Watching' \subseteq Watching
          \/ Watching' \subseteq Watching \cup {"publish"} /\ role = "publisher"
          \/ Watching' \subseteq Watching \cup {"watch"} /\ role = "worker"
      BY <1>1 DEF Ran, Watching
    <2>2. armed' \subseteq Timers /\ fired' \subseteq Timers
      BY <1>1 DEF Ran, Going, TimersFit, Timers
    <2> QED
      BY <1>1, <2>1, <2>2 DEF Going, TimersFit, Reconnecting
  <1>7. Once'
    BY <1>1, <1>2 DEF Same, Going, Once, Calm, Steady, Reconnecting
  <1>8. Awake'
    <2>1. CASE role = "publisher" /\ armed' = armed \cup {"publish"}
      BY <1>1, <2>1 DEF Awake, Watching
    <2>2. CASE todo' \in {<<"connect">>, <<"disconnect", "connect">>}
      BY <2>2 DEF Awake, WillConnect
    <2>3. CASE role \in {"benchmark", "fetcher", "announcer"}
      BY <1>1, <2>3 DEF Same, Going, Awake, WillConnect, Reconnecting
    <2> QED
      BY <2>1, <2>2, <2>3 DEF Ran
  <1> QED
    BY <1>1, <1>3, <1>4, <1>5, <1>6, <1>7, <1>8, FineGoing DEF Going

(* A timer that fires is watching still.                                    *)
LEMMA FiresFine ==
  ASSUME ClientInv, Fine, NEW timer \in Timers, TimerFires(timer)
  PROVE  Fine'
PROOF
  <1>1. /\ ended = "no" /\ ended' = "no" /\ role' = role /\ todo' = todo /\ UNCHANGED vars
        /\ timer \in armed /\ armed' = armed \ {timer} /\ fired' = fired \cup {timer}
    BY DEF TimerFires
  <1>2. Known /\ Going
    BY <1>1 DEF Fine
  <1>3. Watching' = Watching
    BY <1>1 DEF Watching
  <1>4. Same
    BY <1>1, SameNow
  <1>5. Shape' /\ SubscribesOnly' /\ Tries' /\ Guarded' /\ Once'
    BY <1>1, <1>2, <1>3, <1>4
       DEF Same, Going, Shape, SubscribesOnly, Tries, Guarded, Once, Calm, Steady
  <1>6. TimersFit'
    BY <1>1, <1>2, <1>3, <1>4 DEF Same, Going, TimersFit, Reconnecting
  <1>7. Awake'
    BY <1>1, <1>2, <1>3, <1>4 DEF Same, Going, Awake, WillConnect, Reconnecting
  <1> QED
    BY <1>1, <1>2, <1>5, <1>6, <1>7, FineGoing DEF Going

(* The handler of a timer leaves calls and timers that fit.                 *)
LEMMA TimerFine ==
  ASSUME ClientInv, Fine, NEW timer \in Timers, RunTimer(timer)
  PROVE  Fine'
PROOF
  <1>1. /\ ended = "no" /\ todo = <<>> /\ ctl = "loop" /\ timer \in fired
        /\ fired' = fired \ {timer} /\ OnTimer(timer) /\ UNCHANGED vars
    BY DEF RunTimer
  <1>2. Known /\ Going
    BY <1>1 DEF Fine
  <1>3. Same /\ timer \in Watching
    BY <1>1, SameNow DEF Watching
  <1>4. Ran(timer)
    <2>1. CASE timer # "reconnect"
      BY <1>1, <1>2, <1>3, <2>1, OnTimerDoes DEF Ran, Goes, Going, TimersFit, Live
    <2>2. CASE timer = "reconnect"
      <3>1. ErrorHandler(<<>>)
        BY <1>1, <2>2, OnTimerDoes
      <3>2. Reconnecting /\ (state = "Subscribed" => role # "publisher")
        BY <1>2, <1>3, <2>2 DEF Going, TimersFit, SubscribesOnly
      <3>3. role = "publisher" =>
              \/ state = "Connected" /\ Goes(<<"disconnect", "connect">>, armed \ {"publish"})
              \/ state # "Connected" /\ Goes(<<"connect">>, armed)
        BY <3>1, ErrorHandlerDoes
      <3>4. role = "subscriber" =>
              \/ state \in Live /\ Goes(<<"disconnect", "connect">>, armed)
              \/ state \notin Live /\ Goes(<<"connect">>, armed)
        BY <3>1, ErrorHandlerDoes
      <3> QED
        BY <1>1, <3>2, <3>3, <3>4 DEF Ran, Goes, Reconnecting, Live
    <2> QED
      BY <2>1, <2>2
  <1> QED
    BY <1>1, <1>2, <1>3, <1>4, RanFine

(* The announcer's last message ends the listener.                          *)
LEMMA StopFine ==
  ASSUME Fine, OnStopMessage
  PROVE  Fine'
PROOF
  <1>1. ended = "no" /\ Finish("stopped")
    BY DEF OnStopMessage
  <1> QED
    BY <1>1, FineFinish DEF Fine

(* run() returns only when nothing is awaited.                              *)
LEMMA ReturnsFine ==
  ASSUME ClientInv, Fine, RunReturns
  PROVE  Fine'
PROOF
  <1>1. ended = "no" /\ ctl = "loop" /\ todo = <<>> /\ NothingToDo /\ Finish("returned")
        /\ UNCHANGED vars
    BY DEF RunReturns
  <1>2. Known /\ Going
    BY <1>1 DEF Fine
  <1>3. DOMAIN doneq = {} /\ ~pendConnect /\ pendReads = 0 /\ Watching = {}
    BY <1>1 DEF NothingToDo, Watching
  <1>4. ~ConnectUnderWay /\ ~ReadUnderWay
    BY <1>1, <1>3 DEF ConnectUnderWay, ReadUnderWay, ConnectIn, ReadIn
  <1>5. role \in GivesUp /\ state = "Unconnected"
    BY <1>1, <1>2, <1>3, <1>4 DEF Going, Awake, WillConnect
  <1>6. state' = "Unconnected"
    BY <1>1, <1>5 DEF vars, client
  <1> QED
    BY <1>1, <1>2, <1>5, <1>6, FineFinish

-----------------------------------------------------------------------------
(* The invariant, and what follows of it.                                   *)

(* Every step keeps the examples fine.                                      *)
LEMMA FineStep == ClientInv /\ Fine /\ [ExampleNext]_allVars => Fine'
PROOF
  <1> SUFFICES ASSUME ClientInv, Fine, [ExampleNext]_allVars PROVE Fine'
    OBVIOUS
  <1>1. CASE AppCalls
    BY <1>1, ConnectFine, DisconnectFine, CommandFine, SubscribeFine DEF AppCalls
  <1>2. CASE ClientStep(Handlers) \/ ClientStep(Running)
    BY <1>2, IoFine
  <1>3. CASE NetworkStep(Network)
    BY <1>3, NetworkFine
  <1>4. CASE \E timer \in Timers : TimerFires(timer) \/ RunTimer(timer)
    BY <1>4, FiresFine, TimerFine
  <1>5. CASE OnStopMessage \/ RunReturns
    BY <1>5, StopFine, ReturnsFine
  <1>6. CASE UNCHANGED allVars
    <2>1. /\ UNCHANGED vars /\ role' = role /\ armed' = armed /\ fired' = fired /\ todo' = todo
          /\ ended' = ended
      BY <1>6 DEF allVars, app
    <2>2. Same
      BY <2>1, SameNow
    <2>3. Known' /\ RunsOn' /\ ThrowsOnLoss'
      BY <2>1, <2>2 DEF Fine, Known, Steady, RunsOn, ThrowsOnLoss, Same
    <2>4. ASSUME ended = "no" PROVE Fine'
      <3>1. Known /\ Going
        BY <2>4 DEF Fine
      <3>2. Shape' /\ SubscribesOnly' /\ Tries' /\ Guarded' /\ Once'
        BY <2>1, <2>2, <3>1
           DEF Same, Going, Shape, SubscribesOnly, Tries, Guarded, Once, Calm, Steady, Watching
      <3>3. TimersFit'
        BY <2>1, <2>2, <3>1 DEF Same, Going, TimersFit, Reconnecting, Watching
      <3>4. Awake'
        BY <2>1, <2>2, <3>1 DEF Same, Going, Awake, WillConnect, Reconnecting, Watching
      <3> QED
        BY <2>1, <2>4, <3>1, <3>2, <3>3, <3>4, FineGoing DEF Going
    <2> QED
      BY <2>1, <2>3, <2>4 DEF Fine
  <1> QED
    BY <1>1, <1>2, <1>3, <1>4, <1>5, <1>6 DEF ExampleNext

(* The client's invariant and that of the examples hold together.           *)
LEMMA AlwaysFine == ExampleSpec => [](ClientInv /\ Fine)
PROOF
  BY ClientInit, InitFine, ClientStepInv, FineStep, PTL DEF ExampleSpec

(* No example stops silently: io_service::run() returns only to those that  *)
(* give up when they cannot connect, and only before they have connected.   *)
THEOREM NeverSilent == ExampleSpec => []RunsOn
PROOF
  <1>1. Fine => RunsOn
    BY DEF Fine
  <1> QED
    BY <1>1, AlwaysFine, PTL

(* async_timeout.cpp:79: a connected worker always has a timer pending or a *)
(* handler of one queued, however late an earlier timer is handled.         *)
THEOREM AlwaysWatched == ExampleSpec => []Watched
PROOF
  <1>1. Fine => Watched
    BY DEF Fine, Going, Guarded, Watched, Watching
  <1> QED
    BY <1>1, AlwaysFine, PTL

(* The default error handler of the client throws: it is not called before  *)
(* a connection was lost or the application has disconnected.               *)
THEOREM ThrowsAfterLoss == ExampleSpec => []ThrowsOnLoss
PROOF
  <1>1. Fine => ThrowsOnLoss
    BY DEF Fine
  <1> QED
    BY <1>1, AlwaysFine, PTL
=============================================================================
