-------------------------- MODULE AsyncClientProofs --------------------------
(***************************************************************************)
(* Proofs about AsyncClient: its type invariant, the discipline of its     *)
(* write buffers and of handlers.pop(), for any number of commands,        *)
(* connections and drops.                                                  *)
(***************************************************************************)
EXTENDS AsyncClient, SequenceTheorems, TLAPS

(* Completions.                                                            *)
LEMMA DoneType ==
  ASSUME NEW op \in Kinds, NEW st \in Results
  PROVE  Done(op, st) \in Completion /\ Done(op, st).op = op
PROOF
  <1>1. <<>> \in Seq(1 .. Garbage)
    OBVIOUS
  <1> QED
    BY <1>1 DEF Done, Completion

(* n copies of x are a sequence of n elements, all equal to x.             *)
LEMMA CopiesType ==
  ASSUME NEW S, NEW x \in S, NEW n \in Nat
  PROVE  /\ Copies(n, x) \in Seq(S)
         /\ Len(Copies(n, x)) = n
         /\ \A i \in 1 .. n : Copies(n, x)[i] = x
PROOF BY DEF Copies

(* What is left of a suffix without its first element is still a suffix.   *)
LEMMA SuffixTail ==
  ASSUME NEW S, NEW s \in Seq(S), NEW t \in Seq(S), s # <<>>, Suffix(s, t)
  PROVE  Suffix(Tail(s), t)
PROOF BY DEF Suffix

(* Any sequence is a suffix of itself.                                     *)
LEMMA SuffixSelf ==
  ASSUME NEW S, NEW s \in Seq(S)
  PROVE  Suffix(s, s)
PROOF BY DEF Suffix

(* The receive buffer being overwritten changes no completion's operation. *)
LEMMA OverwrittenType ==
  ASSUME NEW q \in Seq(Completion), MaxCmds \in Nat
  PROVE  /\ Overwritten(q) \in Seq(Completion)
         /\ Len(Overwritten(q)) = Len(q)
         /\ \A i \in DOMAIN q : Overwritten(q)[i].op = q[i].op
PROOF
  <1>1. ASSUME NEW i \in 1 .. Len(q)
        PROVE  /\ [q[i] EXCEPT !.ids = Copies(Len(@), Garbage)] \in Completion
               /\ [q[i] EXCEPT !.ids = Copies(Len(@), Garbage)].op = q[i].op
    <2>1. q[i] \in Completion
      OBVIOUS
    <2>2. Len(q[i].ids) \in Nat /\ Garbage \in 1 .. Garbage
      BY <2>1 DEF Completion, Garbage
    <2>3. Copies(Len(q[i].ids), Garbage) \in Seq(1 .. Garbage)
      BY <2>2, CopiesType
    <2> DEFINE ids == Copies(Len(q[i].ids), Garbage)
    <2> HIDE DEF ids
    <2>4. ids \in Seq(1 .. Garbage)
      BY <2>3 DEF ids
    <2>5. [q[i] EXCEPT !.ids = ids] \in Completion /\ [q[i] EXCEPT !.ids = ids].op = q[i].op
      BY <2>1, <2>4 DEF Completion
    <2> QED
      BY <2>5 DEF ids
  <1>2. \A i \in 1 .. Len(q) : Overwritten(q)[i] = [q[i] EXCEPT !.ids = Copies(Len(@), Garbage)]
    BY DEF Overwritten
  <1>3. DOMAIN Overwritten(q) = 1 .. Len(q) /\ Len(q) \in Nat
    BY DEF Overwritten
  <1>4. Overwritten(q) = [i \in 1 .. Len(q) |-> Overwritten(q)[i]]
    BY <1>3 DEF Overwritten
  <1>5. \A i \in 1 .. Len(q) : Overwritten(q)[i] \in Completion
    BY <1>1, <1>2
  <1>6. Overwritten(q) \in Seq(Completion)
    BY <1>3, <1>4, <1>5
  <1>7. Len(Overwritten(q)) = Len(q)
    BY <1>3, <1>6, LenProperties
  <1>8. \A i \in 1 .. Len(q) : Overwritten(q)[i].op = q[i].op
    BY <1>1, <1>2
  <1>9. DOMAIN q = 1 .. Len(q)
    OBVIOUS
  <1> QED
    BY <1>6, <1>7, <1>8, <1>9

-----------------------------------------------------------------------------
(* The type invariant needs to know that no batch being written is empty,  *)
(* which is part of WriteDiscipline: the two are proved together.          *)
IInv == TypeOK /\ WriteDiscipline

(* The initial state satisfies the inductive invariant.                    *)
LEMMA InitInv == Init => IInv
PROOF
  <1> SUFFICES ASSUME Init PROVE IInv
    OBVIOUS
  <1> USE AsyncAssumption
  <1>1. ClientOK
    BY DEF Init, ClientOK, States
  <1>7. FlagsOK
    BY DEF Init, FlagsOK
  <1>2. IoOK
    BY DEF Init, IoOK, Ctl, NoBlock
  <1>3. pendReads \in Nat /\ pendWrites \in Seq(Seq(Cmd)) /\ doneq \in Seq(Completion)
    BY SMT DEF Init
  <1>4. OpsOK /\ WireOK
    BY <1>3 DEF Init, OpsOK, WireOK
  <1>5. HistoryOK
    BY DEF Init, HistoryOK, Garbage
  <1>6. WriteDiscipline
    BY DEF Init, WriteDiscipline, WriteDone
  <1> QED
    BY <1>1, <1>2, <1>4, <1>5, <1>6, <1>7 DEF IInv, TypeOK

(* Calls of the application.                                               *)

(* connect() keeps the types, whichever way connect(2) goes.               *)
LEMMA ConnectType ==
  ASSUME TypeOK, NEW via \in Transports, Connect(via)
  PROVE  TypeOK'
PROOF
  <1> USE AsyncAssumption
  <1>1. Done("connect", "failed") \in Completion /\ Done("connect", "ok") \in Completion
    BY DoneType DEF Kinds, Results
  <1>2. ClientOK'
    BY DEF TypeOK, ClientOK, Connect, ConnectStarts, ConnectIgnored, States
  <1>3. IoOK'
    BY DEF TypeOK, IoOK, Connect, io
  <1>a. /\ pendReads' = pendReads /\ pendWrites' = pendWrites
        /\ \/ doneq' = doneq
           \/ doneq' = Append(doneq, Done("connect", "failed"))
           \/ doneq' = Append(doneq, Done("connect", "ok"))
    BY DEF Connect, ConnectStarts, ConnectIgnored
  <1>4. OpsOK'
    <2>1. pendReads \in Nat /\ pendWrites \in Seq(Seq(Cmd)) /\ doneq \in Seq(Completion)
      BY DEF TypeOK, OpsOK
    <2>2. doneq' \in Seq(Completion)
      <3>1. Append(doneq, Done("connect", "failed")) \in Seq(Completion)
        BY <1>1, <2>1
      <3>2. Append(doneq, Done("connect", "ok")) \in Seq(Completion)
        BY <1>1, <2>1
      <3> QED
        BY <1>a, <2>1, <3>1, <3>2
    <2> QED
      BY <1>a, <2>1, <2>2 DEF OpsOK
  <1>b. /\ sock' \in {sock, "down", "up", "opening"}
        /\ atServer' = atServer \/ atServer' = <<>>
        /\ toClient' = toClient \/ toClient' = <<>>
    BY DEF Connect, ConnectStarts, ConnectIgnored, wire
  <1>5. WireOK'
    <2>1. sock \in {"closed", "opening", "up", "down"}
      BY DEF TypeOK, WireOK
    <2>2. sock' \in {"closed", "opening", "up", "down"}
      BY <1>b, <2>1
    <2>3. atServer' \in Seq(Cmd) /\ toClient' \in Seq(Cmd)
      <3>1. atServer \in Seq(Cmd) /\ toClient \in Seq(Cmd)
        BY DEF TypeOK, WireOK
      <3>2. <<>> \in Seq(Cmd)
        OBVIOUS
      <3>3. (atServer' = atServer \/ atServer' = <<>>) /\ (toClient' = toClient \/ toClient' = <<>>)
        BY <1>b
      <3> QED
        BY <3>1, <3>2, <3>3
    <2> QED
      BY <2>2, <2>3 DEF WireOK
  <1>7. FlagsOK'
    BY DEF TypeOK, FlagsOK, Connect, ConnectStarts, ConnectIgnored, Carried, wire
  <1>6. HistoryOK'
    BY DEF TypeOK, HistoryOK, ClientOK, Connect, ConnectStarts, ConnectIgnored
  <1> QED
    BY <1>2, <1>3, <1>4, <1>5, <1>6, <1>7 DEF TypeOK

(* disconnect() keeps the types of all it clears and aborts.               *)
LEMMA DisconnectType ==
  ASSUME TypeOK, Disconnect
  PROVE  TypeOK'
PROOF
  <1> USE AsyncAssumption
  <1> DEFINE Reads == Copies(pendReads, Done("read", "aborted"))
             Connects == Copies(IF pendConnect THEN 1 ELSE 0, Done("connect", "aborted"))
             Writes == Copies(Len(pendWrites), Done("write", "aborted"))
  <1>1. /\ Done("read", "aborted") \in Completion
        /\ Done("connect", "aborted") \in Completion
        /\ Done("write", "aborted") \in Completion
    BY DoneType DEF Kinds, Results
  <1>2. /\ pendReads \in Nat /\ Len(pendWrites) \in Nat
        /\ (IF pendConnect THEN 1 ELSE 0) \in Nat
    BY DEF TypeOK, OpsOK
  <1>3. /\ Reads \in Seq(Completion)
        /\ Connects \in Seq(Completion)
        /\ Writes \in Seq(Completion)
    BY <1>1, <1>2, CopiesType
  <1>4. doneq' = doneq \o Reads \o Connects \o Writes
    BY DEF Disconnect
  <1> HIDE DEF Reads, Connects, Writes
  <1>5. ClientOK'
    BY DEF TypeOK, ClientOK, Disconnect, States
  <1>6. IoOK'
    BY DEF TypeOK, IoOK, Disconnect, io
  <1>a. pendReads' = 0 /\ pendWrites' = <<>>
    BY DEF Disconnect
  <1>b. doneq' \in Seq(Completion)
    BY <1>3, <1>4 DEF TypeOK, OpsOK
  <1>7. OpsOK'
    BY <1>a, <1>b DEF OpsOK
  <1>c. FlagsOK'
    BY DEF TypeOK, FlagsOK, Disconnect, Carried
  <1>8. WireOK'
    BY DEF TypeOK, WireOK, Disconnect
  <1>9. HistoryOK'
    BY DEF TypeOK, HistoryOK, Disconnect
  <1> QED
    BY <1>5, <1>6, <1>7, <1>8, <1>9, <1>c DEF TypeOK

(* command() only adds the number of a new command to the strand.          *)
LEMMA CommandType ==
  ASSUME TypeOK, Command
  PROVE  TypeOK'
PROOF
  <1> USE AsyncAssumption
  <1>1. ClientOK'
    BY DEF TypeOK, ClientOK, HistoryOK, Command, Cmd
  <1>2. HistoryOK'
    BY DEF TypeOK, HistoryOK, Command
  <1>3. IoOK' /\ OpsOK' /\ WireOK'
    BY DEF TypeOK, IoOK, OpsOK, WireOK, Command, io, ops, wire
  <1>4. FlagsOK'
    BY DEF TypeOK, FlagsOK, Command, ops, wire
  <1> QED
    BY <1>1, <1>2, <1>3, <1>4 DEF TypeOK

(* Handlers run by the io thread.                                          *)

(* What asyncWrite() makes of the buffers are again sequences of commands. *)
LEMMA TransmitType ==
  ASSUME TypeOK, NEW queue \in Seq(Cmd), NEW completions \in Seq(Completion),
         Transmit(queue, completions)
  PROVE  /\ dataWrited' \in Seq(Cmd) /\ dataQueued' \in Seq(Cmd)
         /\ pendWrites' \in Seq(Seq(Cmd)) /\ doneq' \in Seq(Completion)
PROOF
  <1>1. Done("write", "failed") \in Completion
    BY DoneType DEF Kinds, Results
  <1> QED
    BY <1>1 DEF TypeOK, OpsOK, Transmit

(* doAsyncCommand() keeps the types, writing at once or queueing.          *)
LEMMA DoAsyncCommandType ==
  ASSUME TypeOK, DoAsyncCommand
  PROVE  TypeOK'
PROOF
  <1> USE AsyncAssumption
  <1>1. /\ strandq' \in Seq(Cmd) /\ handlers' \in Seq(Cmd)
        /\ Append(dataQueued, Head(strandq)) \in Seq(Cmd)
    BY DEF TypeOK, ClientOK, DoAsyncCommand
  <1>2. /\ dataWrited' \in Seq(Cmd) /\ dataQueued' \in Seq(Cmd)
        /\ pendWrites' \in Seq(Seq(Cmd)) /\ doneq' \in Seq(Completion)
    <2>1. CASE dataWrited = <<>>
      BY <1>1, <2>1, TransmitType DEF TypeOK, OpsOK, DoAsyncCommand
    <2>2. CASE dataWrited # <<>>
      BY <1>1, <2>2 DEF TypeOK, ClientOK, OpsOK, DoAsyncCommand
    <2> QED
      BY <2>1, <2>2
  <1>3. ClientOK'
    BY <1>1, <1>2 DEF TypeOK, ClientOK, DoAsyncCommand
  <1>4. OpsOK'
    BY <1>2 DEF TypeOK, OpsOK, DoAsyncCommand
  <1>5. HistoryOK'
    BY DEF TypeOK, HistoryOK, DoAsyncCommand, history
  <1>6. IoOK' /\ WireOK'
    BY DEF TypeOK, IoOK, WireOK, DoAsyncCommand, io, wire
  <1>7. FlagsOK'
    BY DEF TypeOK, FlagsOK, DoAsyncCommand, wire, history
  <1> QED
    BY <1>3, <1>4, <1>5, <1>6, <1>7 DEF TypeOK

(* handleAsyncConnect() sets one of the five states.                       *)
LEMMA HandleAsyncConnectType ==
  ASSUME TypeOK, HandleAsyncConnect
  PROVE  TypeOK'
PROOF
  <1> USE AsyncAssumption
  <1>1. ClientOK' /\ IoOK'
    BY DEF TypeOK, ClientOK, IoOK, HandleAsyncConnect, States, Ctl, Upcalls
  <1>2. OpsOK'
    BY DEF TypeOK, OpsOK, HandleAsyncConnect, Completed
  <1>3. WireOK'
    BY DEF TypeOK, WireOK, HandleAsyncConnect, wire
  <1>4. HistoryOK'
    BY DEF TypeOK, HistoryOK, HandleAsyncConnect
  <1>5. FlagsOK'
    BY DEF TypeOK, FlagsOK, HandleAsyncConnect, wire
  <1> QED
    BY <1>1, <1>2, <1>3, <1>4, <1>5 DEF TypeOK

(* asyncWrite() keeps the types, after success and after failure.          *)
LEMMA AsyncWriteType ==
  ASSUME TypeOK, AsyncWrite
  PROVE  TypeOK'
PROOF
  <1> USE AsyncAssumption
  <1>1. dataQueued \in Seq(Cmd) /\ Tail(doneq) \in Seq(Completion)
    BY DEF TypeOK, ClientOK, OpsOK, AsyncWrite, Completed
  <1>2. /\ dataWrited' \in Seq(Cmd) /\ dataQueued' \in Seq(Cmd)
        /\ pendWrites' \in Seq(Seq(Cmd)) /\ doneq' \in Seq(Completion)
    <2>1. CASE Head(doneq).st = "ok"
      BY <1>1, <2>1, TransmitType DEF AsyncWrite
    <2>2. CASE Head(doneq).st # "ok"
      <3>1. /\ dataWrited' = <<>> /\ dataQueued' = dataQueued
            /\ pendWrites' = pendWrites /\ doneq' = Tail(doneq)
        BY <2>2 DEF AsyncWrite
      <3> QED
        BY <1>1, <3>1 DEF TypeOK, OpsOK
    <2> QED
      BY <2>1, <2>2
  <1>3. ClientOK'
    BY <1>2 DEF TypeOK, ClientOK, AsyncWrite
  <1>4. IoOK'
    BY DEF TypeOK, IoOK, AsyncWrite, Ctl, Upcalls
  <1>5. OpsOK'
    BY <1>2 DEF TypeOK, OpsOK, AsyncWrite
  <1>6. HistoryOK'
    BY DEF TypeOK, HistoryOK, AsyncWrite
  <1>7. WireOK'
    BY DEF TypeOK, WireOK, AsyncWrite, wire
  <1>8. FlagsOK'
    BY DEF TypeOK, FlagsOK, AsyncWrite, wire
  <1> QED
    BY <1>3, <1>4, <1>5, <1>6, <1>7, <1>8 DEF TypeOK

(* asyncRead() keeps the types, for whatever the read completed with.      *)
LEMMA AsyncReadType ==
  ASSUME TypeOK, AsyncRead
  PROVE  TypeOK'
PROOF
  <1> USE AsyncAssumption
  <1>1. Head(doneq) \in Completion /\ Tail(doneq) \in Seq(Completion)
    BY DEF TypeOK, OpsOK, AsyncRead, Completed
  <1>2. Head(doneq).ids \in Seq(1 .. Garbage) /\ Head(doneq).more \in BOOLEAN
    BY <1>1 DEF Completion
  <1>3. Garbage \in 1 .. Garbage
    BY DEF Garbage
  <1>a. Head(doneq).ids # <<>> => Tail(Head(doneq).ids) \in Seq(1 .. Garbage)
    BY <1>2, HeadTailProperties
  <1>b. <<Garbage>> \in Seq(1 .. Garbage)
    BY <1>3
  <1>4. Head(doneq).ids # <<>>
          => <<Garbage>> \o Tail(Head(doneq).ids) \in Seq(1 .. Garbage)
    BY <1>a, <1>b
  <1>5. ClientOK'
    BY DEF TypeOK, ClientOK, AsyncRead
  <1>6. IoOK'
    <2>1. \/ chunk' = chunk
          \/ chunk' = [ids |-> Head(doneq).ids, more |-> Head(doneq).more]
          \/ /\ Head(doneq).ids # <<>>
             /\ chunk' = [ids  |-> <<Garbage>> \o Tail(Head(doneq).ids),
                          more |-> Head(doneq).more]
      BY DEF AsyncRead, io
    <2>2. chunk' \in [ids : Seq(1 .. Garbage), more : BOOLEAN]
      <3> DEFINE head == Head(doneq)
      <3>1. CASE chunk' = chunk
        BY <3>1 DEF TypeOK, IoOK
      <3>2. CASE chunk' = [ids |-> head.ids, more |-> head.more]
        BY <1>2, <3>2
      <3>3. CASE /\ head.ids # <<>>
                 /\ chunk' = [ids |-> <<Garbage>> \o Tail(head.ids), more |-> head.more]
        BY <1>2, <1>4, <3>3
      <3> QED
        BY <2>1, <3>1, <3>2, <3>3
    <2>3. ctl' \in Ctl
      BY DEF TypeOK, IoOK, AsyncRead, Ctl, Upcalls, io
    <2> QED
      BY <2>2, <2>3 DEF IoOK
  <1>7. OpsOK'
    BY <1>1 DEF TypeOK, OpsOK, AsyncRead
  <1>8. WireOK' /\ HistoryOK'
    BY DEF TypeOK, WireOK, HistoryOK, AsyncRead, wire
  <1>9. FlagsOK'
    BY DEF TypeOK, FlagsOK, AsyncRead, wire
  <1> QED
    BY <1>5, <1>6, <1>7, <1>8, <1>9 DEF TypeOK

(* doProcessMessage() gives a handler one reply of the block.              *)
LEMMA DoProcessMessageType ==
  ASSUME TypeOK, DoProcessMessage
  PROVE  TypeOK'
PROOF
  <1> USE AsyncAssumption
  <1>1. /\ Head(chunk.ids) \in 0 .. Garbage
        /\ Tail(chunk.ids) \in Seq(1 .. Garbage)
    BY SMTT(30) DEF TypeOK, IoOK, DoProcessMessage, Garbage
  <1>2. IoOK'
    BY <1>1 DEF TypeOK, IoOK, DoProcessMessage, Ctl, Upcalls
  <1>3. HistoryOK'
    BY <1>1 DEF TypeOK, HistoryOK, DoProcessMessage
  <1>4. ClientOK' /\ OpsOK' /\ WireOK'
    BY DEF TypeOK, ClientOK, OpsOK, WireOK, DoProcessMessage, client, ops, wire
  <1>5. FlagsOK'
    BY DEF TypeOK, FlagsOK, DoProcessMessage, client, ops, wire
  <1> QED
    BY <1>2, <1>3, <1>4, <1>5 DEF TypeOK

(* Starting a read keeps the types, on an open and on a closed socket.     *)
LEMMA StartReadType ==
  ASSUME TypeOK, StartRead
  PROVE  pendReads' \in Nat /\ doneq' \in Seq(Completion)
PROOF
  <1>1. Done("read", "failed") \in Completion
    BY DoneType DEF Kinds, Results
  <1>2. pendReads \in Nat /\ doneq \in Seq(Completion)
    BY DEF TypeOK, OpsOK
  <1>3. Append(doneq, Done("read", "failed")) \in Seq(Completion)
    BY <1>1, <1>2
  <1>4. \/ pendReads' = pendReads /\ doneq' = Append(doneq, Done("read", "failed"))
        \/ pendReads' = pendReads + 1 /\ doneq' = doneq
    BY DEF StartRead
  <1>5. CASE pendReads' = pendReads /\ doneq' = Append(doneq, Done("read", "failed"))
    BY <1>2, <1>3, <1>5, Zenon
  <1>6. CASE pendReads' = pendReads + 1 /\ doneq' = doneq
    <2>1. pendReads + 1 \in Nat
      BY <1>2
    <2> QED
      BY <1>2, <1>6, <2>1, Zenon
  <1> QED
    BY <1>4, <1>5, <1>6, Zenon

(* The end of a block keeps the types.                                     *)
LEMMA EndOfBlockType ==
  ASSUME TypeOK, EndOfBlock
  PROVE  TypeOK'
PROOF
  <1>1. pendReads' \in Nat /\ doneq' \in Seq(Completion)
    BY StartReadType DEF EndOfBlock
  <1>2. OpsOK'
    BY <1>1 DEF TypeOK, OpsOK, EndOfBlock
  <1>3. ClientOK' /\ WireOK' /\ HistoryOK'
    BY DEF TypeOK, ClientOK, WireOK, HistoryOK, EndOfBlock, wire, history
  <1>4. IoOK'
    BY DEF TypeOK, IoOK, EndOfBlock, NoBlock, Ctl
  <1>5. partial' \in BOOLEAN
    BY DEF TypeOK, IoOK, EndOfBlock
  <1>6. FlagsOK'
    BY <1>5 DEF TypeOK, FlagsOK, EndOfBlock, wire, history
  <1> QED
    BY <1>2, <1>3, <1>4, <1>5, <1>6 DEF TypeOK

(* The return from the connect handler keeps the types.                    *)
LEMMA ReturnConnectedType ==
  ASSUME TypeOK, ReturnConnected
  PROVE  TypeOK'
PROOF
  <1>1. pendReads' \in Nat /\ doneq' \in Seq(Completion)
    BY StartReadType DEF ReturnConnected
  <1>2. OpsOK'
    BY <1>1 DEF TypeOK, OpsOK, ReturnConnected
  <1>3. ClientOK' /\ WireOK' /\ HistoryOK'
    BY DEF TypeOK, ClientOK, WireOK, HistoryOK, ReturnConnected, client, wire, history
  <1>4. IoOK'
    BY DEF TypeOK, IoOK, ReturnConnected, Ctl
  <1>5. FlagsOK'
    BY DEF TypeOK, FlagsOK, ReturnConnected, client, wire, history
  <1> QED
    BY <1>2, <1>3, <1>4, <1>5 DEF TypeOK

(* The return from any other callback keeps the types.                     *)
LEMMA ReturnType ==
  ASSUME TypeOK, ReturnReply \/ ReturnError
  PROVE  TypeOK'
PROOF
  <1>1. ClientOK'
    <2>1. handlers \in Seq(Cmd)
      BY DEF TypeOK, ClientOK
    <2>2. handlers # <<>> => Tail(handlers) \in Seq(Cmd)
      BY <2>1, HeadTailProperties
    <2>3. handlers' \in Seq(Cmd) /\ UNCHANGED <<state, dataQueued, dataWrited, strandq>>
      BY <2>1, <2>2 DEF ReturnReply, ReturnError, client
    <2> QED
      BY <2>3 DEF TypeOK, ClientOK
  <1>2. IoOK'
    BY DEF TypeOK, IoOK, ReturnReply, ReturnError, Ctl
  <1>3. OpsOK' /\ WireOK'
    BY DEF TypeOK, OpsOK, WireOK, ReturnReply, ReturnError, ops, wire
  <1>4. HistoryOK'
    BY DEF TypeOK, HistoryOK, ReturnReply, ReturnError, history
  <1>5. FlagsOK'
    BY DEF TypeOK, FlagsOK, ReturnReply, ReturnError, client, ops, wire, history
  <1> QED
    BY <1>1, <1>2, <1>3, <1>4, <1>5 DEF TypeOK

(* The reactor, the network and the server.                                *)

(* The end of an async_connect keeps the types.                            *)
LEMMA ConnectResolvedType ==
  ASSUME TypeOK, NEW result \in {"ok", "failed"}, ConnectResolved(result)
  PROVE  TypeOK'
PROOF
  <1>1. Done("connect", result) \in Completion
    BY DoneType DEF Kinds, Results
  <1>2. <<Done("connect", result)>> \in Seq(Completion)
    BY <1>1
  <1>3. OpsOK'
    BY <1>2 DEF TypeOK, OpsOK, ConnectResolved
  <1>4. WireOK'
    BY DEF TypeOK, WireOK, ConnectResolved
  <1>5. ClientOK' /\ IoOK' /\ HistoryOK'
    BY DEF TypeOK, ClientOK, IoOK, HistoryOK, ConnectResolved, client, io, history
  <1>6. FlagsOK'
    BY DEF TypeOK, FlagsOK, ConnectResolved, client, history
  <1> QED
    BY <1>3, <1>4, <1>5, <1>6 DEF TypeOK

(* Sending keeps the types: no pending write is without a command to send. *)
LEMMA SendSomeType ==
  ASSUME IInv, SendSome
  PROVE  TypeOK'
PROOF
  <1> DEFINE batch == Head(pendWrites)
  <1>1. pendWrites \in Seq(Seq(Cmd)) /\ pendWrites # <<>> /\ doneq \in Seq(Completion)
    BY DEF IInv, TypeOK, OpsOK, SendSome
  <1>2. batch \in Seq(Cmd) /\ Tail(pendWrites) \in Seq(Seq(Cmd))
    BY <1>1, HeadTailProperties
  <1>3. batch # <<>>
    BY <1>1 DEF IInv, WriteDiscipline
  <1>4. Head(batch) \in Cmd /\ Tail(batch) \in Seq(Cmd)
    BY <1>2, <1>3, HeadTailProperties
  <1>5. Append(doneq, Done("write", "ok")) \in Seq(Completion)
    BY <1>1, DoneType DEF Kinds, Results
  <1>6. <<Tail(batch)>> \o Tail(pendWrites) \in Seq(Seq(Cmd))
    BY <1>2, <1>4
  <1>7. OpsOK'
    <2>1. /\ pendReads' = pendReads
          /\ \/ /\ pendWrites' = Tail(pendWrites)
                /\ doneq' = Append(doneq, Done("write", "ok"))
             \/ /\ pendWrites' = <<Tail(batch)>> \o Tail(pendWrites)
                /\ doneq' = doneq
      BY DEF SendSome
    <2> HIDE DEF batch
    <2>2. pendReads' \in Nat
      BY <2>1 DEF IInv, TypeOK, OpsOK
    <2>3. pendWrites' \in Seq(Seq(Cmd)) /\ doneq' \in Seq(Completion)
      BY <1>1, <1>2, <1>5, <1>6, <2>1
    <2> QED
      BY <2>2, <2>3 DEF OpsOK
  <1>8. WireOK'
    <2>1. sock' = sock /\ atServer' = Append(atServer, Head(batch)) /\ toClient' = toClient
      BY DEF SendSome
    <2> QED
      BY <1>4, <2>1 DEF IInv, TypeOK, WireOK
  <1>9. ClientOK' /\ IoOK' /\ HistoryOK'
    BY DEF IInv, TypeOK, ClientOK, IoOK, HistoryOK, SendSome, client, io, history
  <1>10. FlagsOK'
    BY DEF IInv, TypeOK, FlagsOK, SendSome, client, history
  <1> QED
    BY <1>7, <1>8, <1>9, <1>10 DEF TypeOK

(* A failing write keeps the types.                                        *)
LEMMA FailWriteType ==
  ASSUME TypeOK, FailWrite
  PROVE  TypeOK'
PROOF
  <1>1. Append(doneq, Done("write", "failed")) \in Seq(Completion)
    BY DoneType DEF TypeOK, OpsOK, Kinds, Results
  <1>2. OpsOK'
    BY <1>1 DEF TypeOK, OpsOK, FailWrite
  <1>3. ClientOK' /\ IoOK' /\ WireOK' /\ HistoryOK'
    BY DEF TypeOK, ClientOK, IoOK, WireOK, HistoryOK, FailWrite, client, io, wire, history
  <1>4. FlagsOK'
    BY DEF TypeOK, FlagsOK, FailWrite, client, wire, history
  <1> QED
    BY <1>2, <1>3, <1>4 DEF TypeOK

(* A reply of the server keeps the types.                                  *)
LEMMA ServerReplyType ==
  ASSUME TypeOK, ServerReply
  PROVE  TypeOK'
PROOF
  <1>1. WireOK'
    BY DEF TypeOK, WireOK, ServerReply
  <1>2. ClientOK' /\ IoOK' /\ OpsOK' /\ HistoryOK'
    BY DEF TypeOK, ClientOK, IoOK, OpsOK, HistoryOK, ServerReply, client, io, ops, history
  <1>3. FlagsOK'
    BY DEF TypeOK, FlagsOK, ServerReply, client, ops, history
  <1> QED
    BY <1>1, <1>2, <1>3 DEF TypeOK

(* A dropped connection keeps the types.                                   *)
LEMMA PeerDropType ==
  ASSUME TypeOK, NEW arrives \in 0 .. Len(toClient), PeerDrop(arrives)
  PROVE  TypeOK'
PROOF
  <1> USE AsyncAssumption
  <1>1. SubSeq(toClient, 1, arrives) \in Seq(Cmd)
    BY DEF TypeOK, WireOK
  <1>2. WireOK'
    BY <1>1 DEF WireOK, PeerDrop
  <1>3. ClientOK' /\ IoOK' /\ OpsOK'
    BY DEF TypeOK, ClientOK, IoOK, OpsOK, PeerDrop, client, io, ops
  <1>4. HistoryOK'
    BY DEF TypeOK, HistoryOK, PeerDrop
  <1>5. FlagsOK'
    BY DEF TypeOK, FlagsOK, PeerDrop, client, ops
  <1> QED
    BY <1>2, <1>3, <1>4, <1>5 DEF TypeOK

(* A block that is read holds replies, though the buffers before it are damaged.*)
LEMMA ReadSomeType ==
  ASSUME TypeOK, NEW n \in 0 .. MaxCmds, NEW more \in BOOLEAN, ReadSome(n, more)
  PROVE  TypeOK'
PROOF
  <1> USE AsyncAssumption
  <1>1. toClient \in Seq(Cmd) /\ n \in 0 .. Len(toClient)
    BY DEF TypeOK, WireOK, ReadSome
  <1>2. \A i \in 1 .. Len(toClient) : toClient[i] \in 1 .. Garbage
    BY <1>1 DEF Cmd, Garbage
  <1>3. /\ SubSeq(toClient, 1, n) \in Seq(1 .. Garbage)
        /\ SubSeq(toClient, n + 1, Len(toClient)) \in Seq(Cmd)
    BY <1>1, <1>2
  <1>4. Overwritten(doneq) \in Seq(Completion)
    BY OverwrittenType DEF TypeOK, OpsOK
  <1> DEFINE read == [op |-> "read", st |-> "ok", ids |-> SubSeq(toClient, 1, n),
                      cont |-> headCut, more |-> more]
  <1>5. headCut \in BOOLEAN
    BY DEF TypeOK, FlagsOK
  <1>6. read \in Completion
    BY <1>3, <1>5 DEF Completion, Kinds, Results
  <1>7. /\ pendReads' = pendReads - 1 /\ pendReads > 0
        /\ pendWrites' = pendWrites
        /\ doneq' = Append(Overwritten(doneq), read)
    BY DEF ReadSome
  <1> HIDE DEF read
  <1>8. OpsOK'
    BY <1>4, <1>6, <1>7 DEF TypeOK, OpsOK
  <1>9. WireOK'
    BY <1>3 DEF TypeOK, WireOK, ReadSome
  <1>10. ClientOK' /\ IoOK' /\ HistoryOK'
    BY DEF TypeOK, ClientOK, IoOK, HistoryOK, ReadSome, client, io, history
  <1>11. FlagsOK'
    BY DEF TypeOK, FlagsOK, ReadSome, client, history
  <1> QED
    BY <1>8, <1>9, <1>10, <1>11 DEF TypeOK

(* A read that fails keeps the types.                                      *)
LEMMA ReadEofType ==
  ASSUME TypeOK, ReadEof
  PROVE  TypeOK'
PROOF
  <1>1. Append(doneq, Done("read", "failed")) \in Seq(Completion)
    BY DoneType DEF TypeOK, OpsOK, Kinds, Results
  <1>2. OpsOK'
    BY <1>1 DEF TypeOK, OpsOK, ReadEof
  <1>3. ClientOK' /\ IoOK' /\ WireOK' /\ HistoryOK'
    BY DEF TypeOK, ClientOK, IoOK, WireOK, HistoryOK, ReadEof, client, io, wire, history
  <1>4. FlagsOK'
    BY DEF TypeOK, FlagsOK, ReadEof, client, wire, history
  <1> QED
    BY <1>2, <1>3, <1>4 DEF TypeOK

-----------------------------------------------------------------------------
(* The discipline of the write buffers.                                    *)

\* The completed writes of a sequence of completions; there is at most one.
WritesIn(q) == {i \in DOMAIN q : q[i].op = "write"}
AtMostOne(q) == \A i, j \in WritesIn(q) : i = j

(* A completion of another kind added at the end changes nothing, a write  *)
(* added to none is the only one.                                          *)
LEMMA AppendOther ==
  ASSUME NEW q \in Seq(Completion), NEW c \in Completion, c.op # "write"
  PROVE  WritesIn(Append(q, c)) = WritesIn(q)
PROOF
  <1>1. DOMAIN Append(q, c) = 1 .. Len(q) + 1 /\ DOMAIN q = 1 .. Len(q)
    OBVIOUS
  <1>2. \A i \in 1 .. Len(q) : Append(q, c)[i] = q[i]
    OBVIOUS
  <1>3. Append(q, c)[Len(q) + 1] = c
    OBVIOUS
  <1>4. \A i : i \in WritesIn(Append(q, c)) <=> i \in WritesIn(q)
    BY <1>1, <1>2, <1>3 DEF WritesIn
  <1> QED
    BY <1>4

(* A write added to a sequence without one is the only one.                *)
LEMMA AppendWrite ==
  ASSUME NEW q \in Seq(Completion), NEW c \in Completion, c.op = "write",
         WritesIn(q) = {}
  PROVE  WritesIn(Append(q, c)) = {Len(q) + 1}
PROOF
  <1>1. DOMAIN Append(q, c) = 1 .. Len(q) + 1 /\ DOMAIN q = 1 .. Len(q)
    OBVIOUS
  <1>2. \A i \in 1 .. Len(q) : Append(q, c)[i] = q[i]
    OBVIOUS
  <1>3. Append(q, c)[Len(q) + 1] = c
    OBVIOUS
  <1>4. \A i \in 1 .. Len(q) : q[i].op # "write"
    BY <1>1 DEF WritesIn
  <1>5. \A i : i \in WritesIn(Append(q, c)) <=> i = Len(q) + 1
    BY <1>1, <1>2, <1>3, <1>4 DEF WritesIn
  <1> QED
    BY <1>5

(* Taking a completion of another kind from the front leaves as many       *)
(* writes, taking the only write leaves none.                              *)
LEMMA TailWrites ==
  ASSUME NEW q \in Seq(Completion), q # <<>>, AtMostOne(q)
  PROVE  /\ AtMostOne(Tail(q))
         /\ Head(q).op # "write" => (WritesIn(Tail(q)) = {} <=> WritesIn(q) = {})
         /\ Head(q).op = "write" => WritesIn(Tail(q)) = {} /\ WritesIn(q) # {}
PROOF
  <1>1. /\ DOMAIN Tail(q) = 1 .. Len(q) - 1 /\ DOMAIN q = 1 .. Len(q)
        /\ Len(q) \in Nat \ {0} /\ Head(q) = q[1]
    OBVIOUS
  <1>2. \A i \in 1 .. Len(q) - 1 : Tail(q)[i] = q[i + 1]
    OBVIOUS
  <1>3. \A i \in WritesIn(Tail(q)) : i \in 1 .. Len(q) - 1 /\ i + 1 \in WritesIn(q)
    BY <1>1, <1>2 DEF WritesIn
  <1>4. \A i \in WritesIn(q) : i # 1 => i - 1 \in WritesIn(Tail(q))
    BY <1>1, <1>2 DEF WritesIn
  <1>5. AtMostOne(Tail(q))
    <2> SUFFICES ASSUME NEW i \in WritesIn(Tail(q)), NEW j \in WritesIn(Tail(q))
                 PROVE  i = j
      BY DEF AtMostOne
    <2>1. i + 1 = j + 1
      BY <1>3 DEF AtMostOne
    <2>2. i \in Nat /\ j \in Nat
      BY <1>1, <1>3
    <2> QED
      BY <2>1, <2>2
  <1>6. ASSUME Head(q).op # "write" PROVE WritesIn(Tail(q)) = {} <=> WritesIn(q) = {}
    <2>1. 1 \notin WritesIn(q)
      BY <1>1, <1>6 DEF WritesIn
    <2> QED
      BY <1>3, <1>4, <2>1
  <1>7. ASSUME Head(q).op = "write" PROVE WritesIn(Tail(q)) = {} /\ WritesIn(q) # {}
    <2>1. 1 \in WritesIn(q)
      BY <1>1, <1>7 DEF WritesIn
    <2>2. ASSUME NEW i \in WritesIn(Tail(q)) PROVE FALSE
      <3>1. i + 1 = 1 /\ i \in 1 .. Len(q) - 1
        BY <1>3, <2>1 DEF AtMostOne
      <3> QED
        BY <1>1, <3>1
    <2> QED
      BY <2>1, <2>2
  <1> QED
    BY <1>5, <1>6, <1>7

(* Completions of other kinds added at the end change nothing.             *)
LEMMA ConcatOther ==
  ASSUME NEW q \in Seq(Completion), NEW t \in Seq(Completion),
         \A i \in 1 .. Len(t) : t[i].op # "write"
  PROVE  q \o t \in Seq(Completion) /\ WritesIn(q \o t) = WritesIn(q)
PROOF
  <1>1. /\ DOMAIN (q \o t) = 1 .. Len(q) + Len(t) /\ DOMAIN q = 1 .. Len(q)
        /\ Len(q) \in Nat /\ Len(t) \in Nat
    OBVIOUS
  <1>2. \A i \in 1 .. Len(q) : (q \o t)[i] = q[i]
    OBVIOUS
  <1>3. \A i \in 1 .. Len(q) + Len(t) :
          i \notin 1 .. Len(q) => (q \o t)[i] = t[i - Len(q)] /\ i - Len(q) \in 1 .. Len(t)
    OBVIOUS
  <1>4. \A i : i \in WritesIn(q \o t) <=> i \in WritesIn(q)
    BY <1>1, <1>2, <1>3 DEF WritesIn
  <1> QED
    BY <1>4

(* An action that leaves the write buffers and the pending writes alone,   *)
(* and neither adds nor takes the completion of a write.                   *)
LEMMA KeepsDiscipline ==
  ASSUME WriteDiscipline, AtMostOne(doneq'), WritesIn(doneq') = {} <=> WritesIn(doneq) = {},
         dataWrited' = dataWrited, pendWrites' = pendWrites
  PROVE  WriteDiscipline'
PROOF
  <1>1. WriteDone = WritesIn(doneq) /\ WriteDone' = WritesIn(doneq')
    BY DEF WriteDone, WritesIn
  <1>2. \A i, j \in WriteDone' : i = j
    BY <1>1 DEF AtMostOne
  <1>3. WriteDone' = {} <=> WriteDone = {}
    BY <1>1
  <1> QED
    BY <1>2, <1>3 DEF WriteDiscipline

(* What the inductive invariant says of the completions.                   *)
LEMMA Completions ==
  ASSUME IInv
  PROVE  /\ doneq \in Seq(Completion) /\ AtMostOne(doneq) /\ WriteDone = WritesIn(doneq)
         /\ pendWrites \in Seq(Seq(Cmd)) /\ pendReads \in Nat
         /\ dataWrited \in Seq(Cmd) /\ dataQueued \in Seq(Cmd)
PROOF
  <1>1. AtMostOne(doneq) /\ WriteDone = WritesIn(doneq)
    BY DEF IInv, WriteDiscipline, WriteDone, AtMostOne, WritesIn
  <1> QED
    BY <1>1 DEF IInv, TypeOK, OpsOK, ClientOK

(* The end of a write leaves nothing pending; without data there is none.  *)
LEMMA NothingPending ==
  ASSUME IInv, WriteDone # {} \/ dataWrited = <<>>
  PROVE  pendWrites = <<>>
PROOF
  <1>1. pendWrites \in Seq(Seq(Cmd))
    BY Completions
  <1>2. CASE WriteDone # {}
    <2>1. Len(pendWrites) <= 0
      BY <1>2 DEF IInv, WriteDiscipline
    <2> QED
      BY <1>1, <2>1
  <1>3. CASE dataWrited = <<>>
    BY <1>3 DEF IInv, WriteDiscipline
  <1> QED
    BY <1>2, <1>3

(* Steps that add no completion.                                           *)
LEMMA QuietDiscipline ==
  ASSUME IInv, doneq' = doneq, dataWrited' = dataWrited, pendWrites' = pendWrites
  PROVE  WriteDiscipline'
PROOF
  <1>1. AtMostOne(doneq') /\ WritesIn(doneq') = WritesIn(doneq)
    BY Completions
  <1> QED
    BY <1>1, KeepsDiscipline DEF IInv

(* Steps that add a completed connect or read.                             *)
LEMMA OtherDiscipline ==
  ASSUME IInv, NEW c \in Completion, c.op # "write", doneq' = Append(doneq, c),
         dataWrited' = dataWrited, pendWrites' = pendWrites
  PROVE  WriteDiscipline'
PROOF
  <1>1. WritesIn(doneq') = WritesIn(doneq)
    BY Completions, AppendOther
  <1>2. AtMostOne(doneq')
    BY <1>1, Completions DEF AtMostOne
  <1> QED
    BY <1>1, <1>2, KeepsDiscipline DEF IInv

(* Steps that take a completed connect or read.                            *)
LEMMA TakenDiscipline ==
  ASSUME IInv, doneq # <<>>, Head(doneq).op # "write", doneq' = Tail(doneq),
         dataWrited' = dataWrited, pendWrites' = pendWrites
  PROVE  WriteDiscipline'
PROOF
  <1>1. AtMostOne(doneq') /\ (WritesIn(doneq') = {} <=> WritesIn(doneq) = {})
    BY Completions, TailWrites
  <1> QED
    BY <1>1, KeepsDiscipline DEF IInv

(* connect() adds no write.                                                *)
LEMMA ConnectDiscipline ==
  ASSUME IInv, NEW via \in Transports, Connect(via)
  PROVE  WriteDiscipline'
PROOF
  <1>1. /\ dataWrited' = dataWrited /\ pendWrites' = pendWrites
        /\ \/ doneq' = doneq
           \/ doneq' = Append(doneq, Done("connect", "failed"))
           \/ doneq' = Append(doneq, Done("connect", "ok"))
    BY DEF Connect, ConnectStarts, ConnectIgnored
  <1>2. \A st \in Results : Done("connect", st) \in Completion /\ Done("connect", st).op = "connect"
    BY DoneType DEF Kinds
  <1>3. CASE doneq' = doneq
    BY <1>1, <1>3, QuietDiscipline
  <1>4. CASE doneq' = Append(doneq, Done("connect", "failed"))
    BY <1>1, <1>2, <1>4, OtherDiscipline DEF Results
  <1>5. CASE doneq' = Append(doneq, Done("connect", "ok"))
    BY <1>1, <1>2, <1>5, OtherDiscipline DEF Results
  <1> QED
    BY <1>1, <1>3, <1>4, <1>5

(* n copies of a completion of another kind hold no write.                 *)
LEMMA CopiesOther ==
  ASSUME NEW c \in Completion, c.op # "write", NEW n \in Nat
  PROVE  /\ Copies(n, c) \in Seq(Completion)
         /\ \A i \in 1 .. Len(Copies(n, c)) : Copies(n, c)[i].op # "write"
PROOF
  <1>1. /\ Copies(n, c) \in Seq(Completion) /\ Len(Copies(n, c)) = n
        /\ \A i \in 1 .. n : Copies(n, c)[i] = c
    BY CopiesType
  <1> QED
    BY <1>1

(* disconnect() turns the pending write, if there is one, into its completion.*)
LEMMA DisconnectDiscipline ==
  ASSUME IInv, Disconnect
  PROVE  WriteDiscipline'
PROOF
  <1> DEFINE Reads    == Copies(pendReads, Done("read", "aborted"))
             Connects == Copies(IF pendConnect THEN 1 ELSE 0, Done("connect", "aborted"))
             Aborted  == Done("write", "aborted")
             others   == doneq \o Reads \o Connects
  <1>1. /\ Done("read", "aborted") \in Completion /\ Done("read", "aborted").op = "read"
        /\ Done("connect", "aborted") \in Completion /\ Done("connect", "aborted").op = "connect"
        /\ Aborted \in Completion /\ Aborted.op = "write"
    BY DoneType DEF Kinds, Results
  <1>2. pendReads \in Nat /\ (IF pendConnect THEN 1 ELSE 0) \in Nat
    BY Completions
  <1>3. /\ Reads \in Seq(Completion)
        /\ \A i \in 1 .. Len(Reads) : Reads[i].op # "write"
    BY <1>1, <1>2, CopiesOther
  <1>4. /\ Connects \in Seq(Completion)
        /\ \A i \in 1 .. Len(Connects) : Connects[i].op # "write"
    BY <1>1, <1>2, CopiesOther
  <1> HIDE DEF Reads, Connects, Aborted
  <1>5. others \in Seq(Completion) /\ WritesIn(others) = WritesIn(doneq)
    BY <1>3, <1>4, Completions, ConcatOther
  <1>6. doneq' = others \o Copies(Len(pendWrites), Aborted) /\ pendWrites' = <<>>
        /\ dataWrited' = dataWrited
    BY DEF Disconnect, Reads, Connects, Aborted
  <1> HIDE DEF others
  <1>7. CASE pendWrites = <<>>
    <2>1. Copies(Len(pendWrites), Aborted) = <<>>
      BY <1>7 DEF Copies
    <2>2. doneq' = others
      BY <1>5, <1>6, <2>1
    <2>3. AtMostOne(doneq') /\ WritesIn(doneq') = WritesIn(doneq)
      BY <1>5, <2>2, Completions DEF AtMostOne
    <2> QED
      BY <1>6, <1>7, <2>3, KeepsDiscipline DEF IInv
  <1>8. CASE pendWrites # <<>>
    <2>1. pendWrites \in Seq(Seq(Cmd)) /\ Len(pendWrites) <= 1 /\ WriteDone = {}
      <3>1. WriteDone = {}
        BY <1>8, NothingPending
      <3> QED
        BY <3>1, Completions DEF IInv, WriteDiscipline
    <2>2. Len(pendWrites) = 1
      <3>1. Len(pendWrites) # 0 /\ Len(pendWrites) \in Nat
        BY <1>8, <2>1, EmptySeq, LenProperties
      <3>2. \A n \in Nat : n # 0 /\ n <= 1 => n = 1
        OBVIOUS
      <3> QED
        BY ONLY <2>1, <3>1, <3>2
    <2>3. Copies(Len(pendWrites), Aborted) = <<Aborted>>
      BY <2>2 DEF Copies
    <2>4. doneq' = Append(others, Aborted)
      BY <1>1, <1>5, <1>6, <2>3
    <2>5. WritesIn(others) = {}
      BY <1>5, <2>1, Completions
    <2>6. WritesIn(doneq') = {Len(others) + 1}
      BY <1>1, <1>5, <2>4, <2>5, AppendWrite
    <2>7. WriteDone' = {Len(others) + 1}
      BY <2>6 DEF WriteDone, WritesIn
    <2>8. dataWrited # <<>>
      BY <1>8 DEF IInv, WriteDiscipline
    <2> QED
      BY <1>6, <2>7, <2>8 DEF WriteDiscipline
  <1> QED
    BY <1>7, <1>8

(* Transmit() when no write is pending and none waits for its handler.     *)
LEMMA TransmitDiscipline ==
  ASSUME NEW queue \in Seq(Cmd), NEW completions \in Seq(Completion),
         WritesIn(completions) = {}, pendWrites = <<>>, Transmit(queue, completions)
  PROVE  WriteDiscipline'
PROOF
  <1>1. Done("write", "failed") \in Completion /\ Done("write", "failed").op = "write"
    BY DoneType DEF Kinds, Results
  <1>2. WriteDone' = WritesIn(doneq')
    BY DEF WriteDone, WritesIn
  <1>3. CASE queue = <<>>
    <2>1. dataWrited' = <<>> /\ pendWrites' = <<>> /\ doneq' = completions
      BY <1>3 DEF Transmit
    <2>2. WriteDone' = {}
      BY <1>2, <2>1
    <2> QED
      BY <2>1, <2>2 DEF WriteDiscipline
  <1>4. CASE queue # <<>> /\ sock = "closed"
    <2>1. /\ dataWrited' = queue /\ pendWrites' = <<>>
          /\ doneq' = Append(completions, Done("write", "failed"))
      BY <1>4 DEF Transmit
    <2>2. WriteDone' = {Len(completions) + 1}
      BY <1>1, <1>2, <2>1, AppendWrite
    <2> QED
      BY <1>4, <2>1, <2>2 DEF WriteDiscipline
  <1>5. CASE queue # <<>> /\ sock # "closed"
    <2>1. /\ dataWrited' = queue /\ pendWrites' = Append(<<>>, queue)
          /\ doneq' = completions
      BY <1>5 DEF Transmit
    <2>2. WriteDone' = {}
      BY <1>2, <2>1
    <2>3. pendWrites' = <<queue>>
      BY <2>1
    <2>4. Suffix(queue, queue)
      BY SuffixSelf
    <2>5. /\ DOMAIN <<queue>> = {1} /\ <<queue>>[1] = queue
          /\ Len(<<queue>>) = 1 /\ <<queue>> # <<>>
      OBVIOUS
    <2>6. \A i \in DOMAIN pendWrites' : pendWrites'[i] # <<>> /\ Suffix(pendWrites'[i], queue)
      BY <1>5, <2>3, <2>4, <2>5
    <2>7. \A i \in DOMAIN pendWrites' : Suffix(pendWrites[i], dataWrited)'
      BY <2>1, <2>6 DEF Suffix
    <2> QED
      BY <1>5, <2>1, <2>2, <2>3, <2>5, <2>6, <2>7 DEF WriteDiscipline
  <1> QED
    BY <1>3, <1>4, <1>5

(* doAsyncCommand() writes only if dataWrited is empty: no write is under way.*)
LEMMA DoAsyncCommandDiscipline ==
  ASSUME IInv, DoAsyncCommand
  PROVE  WriteDiscipline'
PROOF
  <1>1. CASE dataWrited = <<>>
    <2>1. pendWrites = <<>>
      BY <1>1, NothingPending
    <2>2. WritesIn(doneq) = {}
      BY <1>1, Completions DEF IInv, WriteDiscipline
    <2>3. Append(dataQueued, Head(strandq)) \in Seq(Cmd)
      BY DEF IInv, TypeOK, ClientOK, DoAsyncCommand
    <2>4. Transmit(Append(dataQueued, Head(strandq)), doneq)
      BY <1>1 DEF DoAsyncCommand
    <2>5. doneq \in Seq(Completion)
      BY Completions
    <2> QED
      BY <2>1, <2>2, <2>3, <2>4, <2>5, TransmitDiscipline
  <1>2. CASE dataWrited # <<>>
    <2>1. doneq' = doneq /\ dataWrited' = dataWrited /\ pendWrites' = pendWrites
      BY <1>2 DEF DoAsyncCommand
    <2> QED
      BY <2>1, QuietDiscipline
  <1> QED
    BY <1>1, <1>2

(* asyncWrite() runs when the write it clears the buffers of has ended.    *)
LEMMA AsyncWriteDiscipline ==
  ASSUME IInv, AsyncWrite
  PROVE  WriteDiscipline'
PROOF
  <1>1. doneq # <<>> /\ Head(doneq).op = "write" /\ doneq \in Seq(Completion)
    BY Completions DEF AsyncWrite, Completed
  <1>2. WritesIn(Tail(doneq)) = {} /\ WriteDone # {} /\ Tail(doneq) \in Seq(Completion)
    <2>1. WritesIn(Tail(doneq)) = {} /\ WritesIn(doneq) # {}
      BY <1>1, TailWrites, Completions
    <2> QED
      BY <1>1, <2>1, Completions
  <1>3. pendWrites = <<>>
    BY <1>2, NothingPending
  <1>4. CASE Head(doneq).st = "ok"
    <2>1. Transmit(dataQueued, Tail(doneq))
      BY <1>4 DEF AsyncWrite
    <2>2. dataQueued \in Seq(Cmd)
      BY Completions
    <2> QED
      BY <1>2, <1>3, <2>1, <2>2, TransmitDiscipline
  <1>5. CASE Head(doneq).st # "ok"
    <2>1. dataWrited' = <<>> /\ doneq' = Tail(doneq) /\ pendWrites' = <<>>
      BY <1>3, <1>5 DEF AsyncWrite
    <2>2. WriteDone' = {}
      BY <1>2, <2>1 DEF WriteDone, WritesIn
    <2> QED
      BY <2>1, <2>2 DEF WriteDiscipline
  <1> QED
    BY <1>4, <1>5

(* What a write has yet to send stays the end of dataWrited.               *)
LEMMA SendSomeDiscipline ==
  ASSUME IInv, SendSome
  PROVE  WriteDiscipline'
PROOF
  <1> DEFINE batch == Head(pendWrites)
  <1>1. pendWrites # <<>> /\ pendWrites \in Seq(Seq(Cmd)) /\ doneq \in Seq(Completion)
    BY Completions DEF SendSome
  <1>2. WriteDone = {} /\ dataWrited # <<>>
    BY <1>1, NothingPending DEF IInv, WriteDiscipline
  <1>3. batch \in Seq(Cmd) /\ batch = pendWrites[1] /\ 1 \in DOMAIN pendWrites
    BY <1>1, HeadTailProperties
  <1>4. batch # <<>> /\ Suffix(batch, dataWrited)
    BY <1>3 DEF IInv, WriteDiscipline
  <1>5. Tail(pendWrites) = <<>>
    <2>1. Len(pendWrites) <= 1
      BY <1>2 DEF IInv, WriteDiscipline
    <2> QED
      BY <1>1, <2>1, HeadTailProperties, EmptySeq, LenProperties
  <1>6. Done("write", "ok") \in Completion /\ Done("write", "ok").op = "write"
    BY DoneType DEF Kinds, Results
  <1>7. dataWrited' = dataWrited
    BY DEF SendSome, client
  <1>8. CASE Len(batch) = 1
    <2>1. pendWrites' = <<>> /\ doneq' = Append(doneq, Done("write", "ok"))
      BY <1>5, <1>8 DEF SendSome
    <2>2. WritesIn(doneq') = {Len(doneq) + 1}
      BY <1>1, <1>2, <1>6, <2>1, AppendWrite, Completions
    <2>3. WriteDone' = {Len(doneq) + 1}
      BY <2>2 DEF WriteDone, WritesIn
    <2> QED
      BY <1>2, <1>7, <2>1, <2>3 DEF WriteDiscipline
  <1>9. CASE Len(batch) # 1
    <2>1. pendWrites' = <<Tail(batch)>> \o Tail(pendWrites) /\ doneq' = doneq
      BY <1>9 DEF SendSome
    <2> HIDE DEF batch
    <2>2. Tail(batch) \in Seq(Cmd) /\ Tail(batch) # <<>>
      <3>1. Tail(batch) \in Seq(Cmd) /\ Len(Tail(batch)) = Len(batch) - 1
        BY <1>3, <1>4, HeadTailProperties
      <3>2. Len(batch) \in Nat
        BY <1>3
      <3>3. Len(Tail(batch)) # 0
        BY ONLY <1>9, <3>1, <3>2
      <3> QED
        BY <3>1, <3>3, EmptySeq
    <2>3. pendWrites' = <<Tail(batch)>>
      <3> DEFINE rest == Tail(batch)
      <3>1. rest \in Seq(Cmd)
        BY <2>2
      <3> HIDE DEF rest
      <3>2. <<rest>> \o <<>> = <<rest>>
        BY <3>1
      <3> QED
        BY <1>5, <2>1, <3>2 DEF rest
    <2>4. Suffix(Tail(batch), dataWrited)
      BY <1>3, <1>4, SuffixTail, Completions
    <2>5. WriteDone' = {}
      BY <1>2, <2>1 DEF WriteDone
    <2>6. /\ DOMAIN <<Tail(batch)>> = {1} /\ <<Tail(batch)>>[1] = Tail(batch)
          /\ Len(<<Tail(batch)>>) = 1 /\ <<Tail(batch)>> # <<>>
      OBVIOUS
    <2>7. \A i \in DOMAIN pendWrites' :
            pendWrites'[i] # <<>> /\ Suffix(pendWrites'[i], dataWrited)
      BY <2>2, <2>3, <2>4, <2>6
    <2>8. \A i \in DOMAIN pendWrites' : Suffix(pendWrites[i], dataWrited)'
      BY <1>7, <2>7 DEF Suffix
    <2>9. pendWrites' # <<>> /\ Len(pendWrites') = 1
      BY ONLY <2>3, <2>6
    <2> QED
      BY <1>2, <1>7, <2>5, <2>7, <2>8, <2>9 DEF WriteDiscipline
  <1> QED
    BY <1>8, <1>9

(* A failing write becomes its completion.                                 *)
LEMMA FailWriteDiscipline ==
  ASSUME IInv, FailWrite
  PROVE  WriteDiscipline'
PROOF
  <1>1. pendWrites # <<>> /\ pendWrites \in Seq(Seq(Cmd)) /\ doneq \in Seq(Completion)
    BY Completions DEF FailWrite
  <1>2. WriteDone = {} /\ dataWrited # <<>>
    BY <1>1, NothingPending DEF IInv, WriteDiscipline
  <1>3. Tail(pendWrites) = <<>>
    <2>1. Len(pendWrites) <= 1
      BY <1>2 DEF IInv, WriteDiscipline
    <2> QED
      BY <1>1, <2>1, HeadTailProperties, EmptySeq, LenProperties
  <1>4. /\ pendWrites' = <<>> /\ doneq' = Append(doneq, Done("write", "failed"))
        /\ dataWrited' = dataWrited
    BY <1>3 DEF FailWrite, client
  <1>5. Done("write", "failed") \in Completion /\ Done("write", "failed").op = "write"
    BY DoneType DEF Kinds, Results
  <1>6. WritesIn(doneq') = {Len(doneq) + 1}
    BY <1>1, <1>2, <1>4, <1>5, AppendWrite, Completions
  <1>7. WriteDone' = {Len(doneq) + 1}
    BY <1>6 DEF WriteDone, WritesIn
  <1> QED
    BY <1>2, <1>4, <1>7 DEF WriteDiscipline

(* Starting a read adds no write.                                          *)
LEMMA StartReadDiscipline ==
  ASSUME IInv, StartRead, dataWrited' = dataWrited, pendWrites' = pendWrites
  PROVE  WriteDiscipline'
PROOF
  <1>1. Done("read", "failed") \in Completion /\ Done("read", "failed").op = "read"
    BY DoneType DEF Kinds, Results
  <1>2. CASE doneq' = doneq
    BY <1>2, QuietDiscipline
  <1>3. CASE doneq' = Append(doneq, Done("read", "failed"))
    BY <1>1, <1>3, OtherDiscipline
  <1> QED
    BY <1>2, <1>3 DEF StartRead

(* A completed read damages buffers, but no write among the completions.   *)
LEMMA ReadSomeDiscipline ==
  ASSUME IInv, NEW n \in 0 .. MaxCmds, NEW more \in BOOLEAN, ReadSome(n, more)
  PROVE  WriteDiscipline'
PROOF
  <1> USE AsyncAssumption
  <1> DEFINE read == [op |-> "read", st |-> "ok", ids |-> SubSeq(toClient, 1, n),
                      cont |-> headCut, more |-> more]
             damaged == Overwritten(doneq)
  <1>1. /\ damaged \in Seq(Completion) /\ Len(damaged) = Len(doneq)
        /\ \A i \in DOMAIN doneq : damaged[i].op = doneq[i].op
    BY OverwrittenType, Completions
  <1>2. DOMAIN damaged = DOMAIN doneq
    BY DEF Overwritten
  <1>3. WritesIn(damaged) = WritesIn(doneq)
    BY <1>1, <1>2 DEF WritesIn
  <1>4. read \in Completion /\ read.op = "read"
    <2>1. toClient \in Seq(Cmd) /\ n \in 0 .. Len(toClient)
      BY DEF IInv, TypeOK, WireOK, ReadSome
    <2>2. \A i \in 1 .. Len(toClient) : toClient[i] \in 1 .. Garbage
      BY <2>1 DEF Cmd, Garbage
    <2>3. SubSeq(toClient, 1, n) \in Seq(1 .. Garbage)
      BY <2>1, <2>2
    <2>4. headCut \in BOOLEAN
      BY DEF IInv, TypeOK, FlagsOK
    <2> QED
      BY <2>3, <2>4 DEF Completion, Kinds, Results
  <1>5. doneq' = Append(damaged, read) /\ pendWrites' = pendWrites /\ dataWrited' = dataWrited
    BY DEF ReadSome, client
  <1> HIDE DEF read, damaged
  <1>6. WritesIn(doneq') = WritesIn(doneq)
    BY <1>1, <1>3, <1>4, <1>5, AppendOther
  <1>7. AtMostOne(doneq')
    BY <1>6, Completions DEF AtMostOne
  <1> QED
    BY <1>5, <1>6, <1>7, KeepsDiscipline DEF IInv

-----------------------------------------------------------------------------
(* Calls of the application keep the inductive invariant.                  *)
LEMMA AppKeeps ==
  ASSUME IInv, App
  PROVE  IInv'
PROOF
  <1>1. TypeOK
    BY DEF IInv
  <1>2. CASE \E via \in Transports : Connect(via)
    <2>1. PICK via \in Transports : Connect(via)
      BY <1>2
    <2> QED
      BY <1>1, <2>1, ConnectType, ConnectDiscipline DEF IInv
  <1>3. CASE Disconnect
    BY <1>1, <1>3, DisconnectType, DisconnectDiscipline DEF IInv
  <1>4. CASE Command
    <2>1. doneq' = doneq /\ dataWrited' = dataWrited /\ pendWrites' = pendWrites
      BY <1>4 DEF Command, ops
    <2> QED
      BY <1>1, <1>4, <2>1, CommandType, QuietDiscipline DEF IInv
  <1> QED
    BY <1>2, <1>3, <1>4 DEF App

(* The handlers run by the io thread keep the inductive invariant.         *)
LEMMA HandlersKeep ==
  ASSUME IInv, Handlers
  PROVE  IInv'
PROOF
  <1>1. TypeOK
    BY DEF IInv
  <1>2. CASE DoAsyncCommand
    BY <1>1, <1>2, DoAsyncCommandType, DoAsyncCommandDiscipline DEF IInv
  <1>3. CASE HandleAsyncConnect
    <2>1. /\ doneq # <<>> /\ Head(doneq).op = "connect" /\ doneq' = Tail(doneq)
          /\ dataWrited' = dataWrited /\ pendWrites' = pendWrites
      BY <1>3 DEF HandleAsyncConnect, Completed
    <2> QED
      BY <1>1, <1>3, <2>1, HandleAsyncConnectType, TakenDiscipline DEF IInv
  <1>4. CASE AsyncWrite
    BY <1>1, <1>4, AsyncWriteType, AsyncWriteDiscipline DEF IInv
  <1>5. CASE AsyncRead
    <2>1. /\ doneq # <<>> /\ Head(doneq).op = "read" /\ doneq' = Tail(doneq)
          /\ dataWrited' = dataWrited /\ pendWrites' = pendWrites
      BY <1>5 DEF AsyncRead, Completed
    <2> QED
      BY <1>1, <1>5, <2>1, AsyncReadType, TakenDiscipline DEF IInv
  <1> QED
    BY <1>2, <1>3, <1>4, <1>5 DEF Handlers

(* So do the rest of a block and the returns from callbacks,               *)
LEMMA RunningKeeps ==
  ASSUME IInv, Running
  PROVE  IInv'
PROOF
  <1>1. TypeOK
    BY DEF IInv
  <1>2. CASE DoProcessMessage
    <2>1. doneq' = doneq /\ dataWrited' = dataWrited /\ pendWrites' = pendWrites
      BY <1>2 DEF DoProcessMessage, client, ops
    <2> QED
      BY <1>1, <1>2, <2>1, DoProcessMessageType, QuietDiscipline DEF IInv
  <1>3. CASE EndOfBlock
    <2>1. StartRead /\ dataWrited' = dataWrited /\ pendWrites' = pendWrites
      BY <1>3 DEF EndOfBlock
    <2> QED
      BY <1>1, <1>3, <2>1, EndOfBlockType, StartReadDiscipline DEF IInv
  <1>4. CASE ReturnConnected
    <2>1. StartRead /\ dataWrited' = dataWrited /\ pendWrites' = pendWrites
      BY <1>4 DEF ReturnConnected, client
    <2> QED
      BY <1>1, <1>4, <2>1, ReturnConnectedType, StartReadDiscipline DEF IInv
  <1>5. CASE ReturnReply \/ ReturnError
    <2>1. doneq' = doneq /\ dataWrited' = dataWrited /\ pendWrites' = pendWrites
      BY <1>5 DEF ReturnReply, ReturnError, client, ops
    <2> QED
      BY <1>1, <1>5, <2>1, ReturnType, QuietDiscipline DEF IInv
  <1> QED
    BY <1>2, <1>3, <1>4, <1>5 DEF Running

(* the reactor, the network and the server,                                *)
LEMMA NetworkKeeps ==
  ASSUME IInv, Network
  PROVE  IInv'
PROOF
  <1>1. TypeOK
    BY DEF IInv
  <1>2. CASE \E result \in {"ok", "failed"} : ConnectResolved(result)
    <2>1. PICK result \in {"ok", "failed"} : ConnectResolved(result)
      BY <1>2
    <2>2. Done("connect", result) \in Completion /\ Done("connect", result).op = "connect"
      BY DoneType DEF Kinds, Results
    <2>3. /\ doneq' = Append(doneq, Done("connect", result))
          /\ dataWrited' = dataWrited /\ pendWrites' = pendWrites
      BY <2>1, <2>2 DEF ConnectResolved, client
    <2> QED
      BY <1>1, <2>1, <2>2, <2>3, ConnectResolvedType, OtherDiscipline DEF IInv
  <1>3. CASE SendSome
    BY <1>3, SendSomeType, SendSomeDiscipline DEF IInv
  <1>4. CASE FailWrite
    BY <1>1, <1>4, FailWriteType, FailWriteDiscipline DEF IInv
  <1>5. CASE ServerReply
    <2>1. doneq' = doneq /\ dataWrited' = dataWrited /\ pendWrites' = pendWrites
      BY <1>5 DEF ServerReply, client, ops
    <2> QED
      BY <1>1, <1>5, <2>1, ServerReplyType, QuietDiscipline DEF IInv
  <1>6. CASE Reading
    <2>1. PICK n \in 0 .. MaxCmds, more \in BOOLEAN : ReadSome(n, more)
      BY <1>6 DEF Reading
    <2> QED
      BY <1>1, <2>1, ReadSomeType, ReadSomeDiscipline DEF IInv
  <1>7. CASE ReadEof
    <2>1. /\ doneq' = Append(doneq, Done("read", "failed"))
          /\ dataWrited' = dataWrited /\ pendWrites' = pendWrites
      BY <1>7 DEF ReadEof, client
    <2>2. Done("read", "failed") \in Completion /\ Done("read", "failed").op = "read"
      BY DoneType DEF Kinds, Results
    <2> QED
      BY <1>1, <1>7, <2>1, <2>2, ReadEofType, OtherDiscipline DEF IInv
  <1>8. CASE \E arrives \in 0 .. Len(toClient) : PeerDrop(arrives)
    <2>1. PICK arrives \in 0 .. Len(toClient) : PeerDrop(arrives)
      BY <1>8
    <2>2. doneq' = doneq /\ dataWrited' = dataWrited /\ pendWrites' = pendWrites
      BY <2>1 DEF PeerDrop, client, ops
    <2> QED
      BY <1>1, <2>1, <2>2, PeerDropType, QuietDiscipline DEF IInv
  <1> QED
    BY <1>2, <1>3, <1>4, <1>5, <1>6, <1>7, <1>8 DEF Network

(* and a stuttering step.                                                  *)
LEMMA StutterKeeps ==
  ASSUME IInv, UNCHANGED vars
  PROVE  IInv'
PROOF
  <1>1. /\ state' = state /\ handlers' = handlers /\ dataQueued' = dataQueued
        /\ dataWrited' = dataWrited /\ partial' = partial /\ strandq' = strandq
    BY DEF vars, client
  <1>2. ctl' = ctl /\ chunk' = chunk
    BY DEF vars, io
  <1>3. /\ pendConnect' = pendConnect /\ pendReads' = pendReads
        /\ pendWrites' = pendWrites /\ doneq' = doneq
    BY DEF vars, ops
  <1>4. sock' = sock /\ atServer' = atServer /\ toClient' = toClient /\ headCut' = headCut
    BY DEF vars, wire
  <1>5. /\ cmds' = cmds /\ connects' = connects /\ disconnects' = disconnects
        /\ drops' = drops /\ answers' = answers /\ lastOld' = lastOld /\ dirty' = dirty
        /\ unreported' = unreported
    BY DEF vars, history
  <1>6. ClientOK' /\ IoOK' /\ OpsOK' /\ WireOK'
    BY <1>1, <1>2, <1>3, <1>4 DEF IInv, TypeOK, ClientOK, IoOK, OpsOK, WireOK
  <1>7. HistoryOK'
    BY <1>5 DEF IInv, TypeOK, HistoryOK
  <1>8. FlagsOK'
    BY <1>1, <1>3, <1>4, <1>5 DEF IInv, TypeOK, FlagsOK
  <1>9. WriteDiscipline'
    BY <1>1, <1>3, QuietDiscipline
  <1> QED
    BY <1>6, <1>7, <1>8, <1>9 DEF IInv, TypeOK

(* Every step, and every stutter, keeps the inductive invariant.           *)
LEMMA StepInv == IInv /\ [Next]_vars => IInv'
PROOF
  BY AppKeeps, HandlersKeep, RunningKeeps, NetworkKeeps, StutterKeeps DEF Next

(* The inductive invariant holds in every execution.                       *)
THEOREM Invariance == Spec => []IInv
PROOF
  BY InitInv, StepInv, PTL DEF Spec

(* Whatever the number of commands, connects, disconnects and drops, every *)
(* variable keeps its type: in particular state is always one of the five  *)
(* states of the client, and no completed operation is of an unknown kind. *)
THEOREM TypeCorrect == Spec => []TypeOK
PROOF
  <1>1. IInv => TypeOK
    BY DEF IInv
  <1> QED
    BY <1>1, Invariance, PTL

(* The buffers of a write are never cleared, swapped or written a second   *)
(* time while it runs: asyncWrite() and doAsyncCommand() keep at most one  *)
(* async_write under way, across disconnect() and reconnect too.           *)
THEOREM WritesDisciplined == Spec => []WriteDiscipline
PROOF
  <1>1. IInv => WriteDiscipline
    BY DEF IInv
  <1> QED
    BY <1>1, Invariance, PTL

-----------------------------------------------------------------------------
(* handlers.pop().  While a reply handler runs its entry is still in the    *)
(* queue: only disconnect() could have taken it out.                        *)
Poppable == "reply" \notin DisconnectPoints => (ctl = "reply" => handlers # <<>>) /\ ctl # "undefined"

(* Calls of the application leave the queue to a reply handler, unless it   *)
(* disconnects.                                                             *)
LEMMA AppPoppable ==
  ASSUME Poppable, App
  PROVE  Poppable'
PROOF
  <1>1. CASE \E via \in Transports : Connect(via)
    BY <1>1 DEF Poppable, Connect, io
  <1>2. CASE Disconnect
    <2>1. ctl' = ctl /\ ctl \in DisconnectPoints
      BY <1>2 DEF Disconnect, io
    <2> QED
      BY <2>1 DEF Poppable
  <1>3. CASE Command
    BY <1>3 DEF Poppable, Command, io
  <1> QED
    BY <1>1, <1>2, <1>3 DEF App

(* A handler of the event loop runs when no reply handler does, and calls   *)
(* none itself.                                                             *)
LEMMA HandlersPoppable ==
  ASSUME Poppable, Handlers
  PROVE  Poppable'
PROOF
  <1>1. CASE DoAsyncCommand
    BY <1>1 DEF Poppable, DoAsyncCommand, io
  <1>2. CASE HandleAsyncConnect
    BY <1>2 DEF Poppable, HandleAsyncConnect, Completed
  <1>3. CASE AsyncWrite
    BY <1>3 DEF Poppable, AsyncWrite, Completed
  <1>4. CASE AsyncRead
    BY <1>4 DEF Poppable, AsyncRead, Completed, io
  <1> QED
    BY <1>1, <1>2, <1>3, <1>4 DEF Handlers

(* A reply handler is called when there is one, and popped when it returns. *)
LEMMA RunningPoppable ==
  ASSUME Poppable, Running
  PROVE  Poppable'
PROOF
  <1>1. CASE DoProcessMessage
    BY <1>1 DEF Poppable, DoProcessMessage, client
  <1>2. CASE EndOfBlock
    BY <1>2 DEF Poppable, EndOfBlock
  <1>3. CASE ReturnConnected
    BY <1>3 DEF Poppable, ReturnConnected
  <1>4. CASE ReturnReply
    BY <1>4 DEF Poppable, ReturnReply
  <1>5. CASE ReturnError
    <2>1. ctl' \in {"parse", "loop"}
      BY <1>5 DEF ReturnError
    <2> QED
      BY <2>1 DEF Poppable
  <1> QED
    BY <1>1, <1>2, <1>3, <1>4, <1>5 DEF Running

(* The network and the server do not touch the queue, nor does a stutter.   *)
LEMMA RestPoppable ==
  ASSUME Poppable, Network \/ UNCHANGED vars
  PROVE  Poppable'
PROOF
  <1>1. ctl' = ctl /\ handlers' = handlers
    <2>1. CASE Network
      BY <2>1 DEF Network, ConnectResolved, SendSome, FailWrite, ServerReply, Reading,
                  ReadSome, ReadEof, PeerDrop, client, io
    <2>2. CASE UNCHANGED vars
      BY <2>2 DEF vars, client, io
    <2> QED
      BY <2>1, <2>2
  <1> QED
    BY <1>1 DEF Poppable

(* handlers.pop() finds the handler that was called, whatever the server    *)
(* sends and however often the client reconnects, as long as no reply       *)
(* handler calls disconnect(): then close() empties the queue, and pop() on *)
(* the empty queue is undefined.                                            *)
THEOREM PopsDefined == Spec => []PopDefined
PROOF
  <1>1. Init => Poppable
    BY DEF Init, Poppable
  <1>2. Poppable /\ [Next]_vars => Poppable'
    BY AppPoppable, HandlersPoppable, RunningPoppable, RestPoppable DEF Next
  <1>3. Poppable => PopDefined
    BY DEF Poppable, PopDefined
  <1> QED
    BY <1>1, <1>2, <1>3, PTL DEF Spec

=============================================================================
