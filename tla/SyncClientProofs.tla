-------------------------- MODULE SyncClientProofs --------------------------
(***************************************************************************)
(* Proofs about SyncClient, for any number of commands, any batches, any   *)
(* timeouts and any number of connects, disconnects and losses: its types, *)
(* that successful calls leave nothing, whose replies a call returns, and  *)
(* that no call waits for what was received; and about SyncExamples, that  *)
(* no program is given the reply to another command.                       *)
(***************************************************************************)
EXTENDS SyncExamples, SequenceTheorems, TLAPS

-----------------------------------------------------------------------------
(* The parts of the inductive invariant.                                   *)

\* The m-th piece that crosses the connection for a batch, in either direction.
PieceAt(ids, m) == [id |-> ids[(m + 1) \div 2], part |-> IF m % 2 = 1 THEN 1 ELSE 2]

\* s is the part of the pieces of the batch that comes after the first `after`.
Fits(s, after, ids) ==
  /\ after + Len(s) <= 2 * Len(ids)
  /\ \A k \in 1 .. Len(s) : s[k] = PieceAt(ids, after + k)

\* How many pieces the client, and the client and its side of the connection, have got.
Parsed   == 2 * Len(responses) + IF partial = None THEN 0 ELSE 1
Received == Parsed + Len(buf) + Len(toClient)

\* Where the call is, and what is then left of it.
Placed ==
  /\ pc = "idle" => batch = <<>> /\ toWrite = <<>> /\ responses = <<>>
  /\ pc # "idle" => Len(responses) < Len(batch)
  /\ pc = "reading" => toWrite = <<>>

\* What is on a connection that is not up.
Links ==
  /\ link # "up" => toServer = <<>>
  /\ link \in {"none", "opening"} => toClient = <<>> /\ pc = "idle" /\ state # "Connected"

\* The pieces on their way, from what the parser holds to what is still to be written,
\* are those of the batch in order; the server answers whole commands.  Of a connection
\* that was lost they are the first of them.
Aligned ==
  ~late =>
    /\ \A k \in 1 .. Len(responses) : responses[k] = batch[k]
    /\ partial # None => Len(responses) < Len(batch) /\ partial = batch[Len(responses) + 1]
    /\ Fits(buf, Parsed, batch) /\ Fits(toClient, Parsed + Len(buf), batch)
    /\ link = "up" =>
         /\ Received % 2 = 0
         /\ Fits(toServer, Received, batch)
         /\ Fits(toWrite, Received + Len(toServer), batch)
         /\ Received + Len(toServer) + Len(toWrite) = 2 * Len(batch)

IInv == TypeOK /\ Placed /\ Links /\ Aligned

-----------------------------------------------------------------------------
(* Sequences.                                                              *)

(* A sequence is cut in two.                                               *)
LEMMA Cut ==
  ASSUME NEW S, NEW s \in Seq(S), NEW n \in Nat, n <= Len(s)
  PROVE  /\ SubSeq(s, 1, n) \in Seq(S) /\ Len(SubSeq(s, 1, n)) = n
         /\ \A k \in 1 .. n : SubSeq(s, 1, n)[k] = s[k]
         /\ Rest(s, n) \in Seq(S) /\ Len(Rest(s, n)) = Len(s) - n
         /\ \A k \in 1 .. Len(s) - n : Rest(s, n)[k] = s[n + k]
PROOF
  <1>1. Len(s) \in Nat /\ DOMAIN s = 1 .. Len(s) /\ \A k \in 1 .. Len(s) : s[k] \in S
    BY LenProperties, ElementOfSeq
  <1>2. /\ SubSeq(s, 1, n) \in Seq(S) /\ Len(SubSeq(s, 1, n)) = n
        /\ \A k \in 1 .. n : SubSeq(s, 1, n)[k] = s[k]
    BY <1>1, SubSeqProperties
  <1>3. /\ SubSeq(s, n + 1, Len(s)) \in Seq(S) /\ Len(SubSeq(s, n + 1, Len(s))) = Len(s) - n
        /\ \A k \in 1 .. Len(s) - n : SubSeq(s, n + 1, Len(s))[k] = s[n + k]
    <2>1. n + 1 \in Int /\ Len(s) \in Int /\ \A k \in n + 1 .. Len(s) : s[k] \in S
      BY <1>1
    <2>2. /\ SubSeq(s, n + 1, Len(s)) \in Seq(S)
          /\ Len(SubSeq(s, n + 1, Len(s)))
               = IF n + 1 <= Len(s) THEN Len(s) - (n + 1) + 1 ELSE 0
          /\ \A k \in 1 .. Len(s) - (n + 1) + 1 : SubSeq(s, n + 1, Len(s))[k] = s[(n + 1) + k - 1]
      BY <2>1, SubSeqProperties
    <2>3. Len(SubSeq(s, n + 1, Len(s))) = Len(s) - n
      <3>1. CASE n + 1 <= Len(s)
        <4>1. Len(s) - (n + 1) + 1 = Len(s) - n
          BY <1>1
        <4> QED
          BY <2>2, <3>1, <4>1, Zenon
      <3>2. CASE ~(n + 1 <= Len(s))
        <4>1. \A l \in Nat : n <= l /\ ~(n + 1 <= l) => 0 = l - n
          OBVIOUS
        <4>2. Len(s) \in Nat
          BY <1>1
        <4>3. 0 = Len(s) - n
          BY <3>2, <4>1, <4>2
        <4> QED
          BY <2>2, <3>2, <4>3, Zenon
      <3> QED
        BY <3>1, <3>2
    <2>4. ASSUME NEW k \in 1 .. Len(s) - n PROVE SubSeq(s, n + 1, Len(s))[k] = s[n + k]
      <3>1. k \in 1 .. Len(s) - (n + 1) + 1 /\ (n + 1) + k - 1 = n + k
        BY <1>1
      <3> QED
        BY <2>2, <3>1
    <2> QED
      BY <2>2, <2>3, <2>4
  <1> QED
    BY <1>2, <1>3 DEF Rest

(* The pieces of a batch.                                                  *)
LEMMA PiecesFit ==
  ASSUME NEW ids \in Seq(1 .. Garbage)
  PROVE  /\ Pieces(ids) \in Seq(Piece) /\ Len(Pieces(ids)) = 2 * Len(ids)
         /\ \A k \in 1 .. 2 * Len(ids) : Pieces(ids)[k] = PieceAt(ids, k)
PROOF
  <1>1. Len(ids) \in Nat /\ \A k \in 1 .. Len(ids) : ids[k] \in 1 .. Garbage
    BY LenProperties, ElementOfSeq
  <1>2. ASSUME NEW k \in 1 .. 2 * Len(ids)
        PROVE  PieceAt(ids, k) \in Piece
    <2>1. (k + 1) \div 2 \in 1 .. Len(ids)
      BY <1>1
    <2> QED
      BY <1>1, <2>1 DEF PieceAt, Piece
  <1>3. Pieces(ids) = [k \in 1 .. 2 * Len(ids) |-> PieceAt(ids, k)]
    BY DEF Pieces, PieceAt
  <1>4. Pieces(ids) \in [1 .. 2 * Len(ids) -> Piece] /\ 2 * Len(ids) \in Nat
    BY <1>1, <1>2, <1>3
  <1>5. ASSUME NEW n \in Nat, NEW f \in [1 .. n -> Piece]
        PROVE  f \in Seq(Piece) /\ Len(f) = n
    OBVIOUS
  <1> HIDE DEF Pieces
  <1> QED
    BY <1>3, <1>4, <1>5

(* Parts of what fits.                                                     *)
LEMMA FitsEmpty ==
  ASSUME NEW after \in Nat, NEW ids \in Seq(Cmd), after <= 2 * Len(ids)
  PROVE  Fits(<<>>, after, ids)
PROOF
  <1>1. Len(<<>>) = 0
    OBVIOUS
  <1> QED
    BY <1>1, LenProperties DEF Fits

LEMMA FitsCut ==
  ASSUME NEW s \in Seq(Piece), NEW n \in Nat, n <= Len(s), NEW after \in Nat, NEW ids \in Seq(Cmd),
         Fits(s, after, ids)
  PROVE  Fits(SubSeq(s, 1, n), after, ids) /\ Fits(Rest(s, n), after + n, ids)
PROOF
  <1> DEFINE front == SubSeq(s, 1, n)
             rest  == Rest(s, n)
  <1>1. /\ Len(front) = n /\ \A k \in 1 .. n : front[k] = s[k]
        /\ Len(rest) = Len(s) - n /\ \A k \in 1 .. Len(s) - n : rest[k] = s[n + k]
    BY Cut
  <1>2. Len(s) \in Nat /\ Len(ids) \in Nat
    BY LenProperties
  <1>3. after + Len(s) <= 2 * Len(ids) /\ \A k \in 1 .. Len(s) : s[k] = PieceAt(ids, after + k)
    BY DEF Fits
  <1> HIDE DEF front, rest
  <1>4. Fits(front, after, ids)
    BY <1>1, <1>2, <1>3 DEF Fits
  <1>5. Fits(rest, after + n, ids)
    <2>1. (after + n) + Len(rest) <= 2 * Len(ids)
      BY <1>1, <1>2, <1>3
    <2>2. ASSUME NEW k \in 1 .. Len(rest) PROVE rest[k] = PieceAt(ids, (after + n) + k)
      <3>1. n + k \in 1 .. Len(s) /\ after + (n + k) = (after + n) + k
        BY <1>1, <1>2
      <3> QED
        BY <1>1, <1>3, <3>1
    <2> QED
      BY <2>1, <2>2 DEF Fits
  <1> QED
    BY <1>4, <1>5 DEF front, rest

LEMMA FitsConcat ==
  ASSUME NEW s \in Seq(Piece), NEW t \in Seq(Piece), NEW after \in Nat, NEW ids \in Seq(Cmd),
         Fits(s, after, ids), Fits(t, after + Len(s), ids)
  PROVE  Fits(s \o t, after, ids)
PROOF
  <1> DEFINE u == s \o t
  <1>1. /\ Len(u) = Len(s) + Len(t)
        /\ \A k \in 1 .. Len(s) + Len(t) : u[k] = IF k <= Len(s) THEN s[k] ELSE t[k - Len(s)]
    BY ConcatProperties
  <1>2. Len(s) \in Nat /\ Len(t) \in Nat /\ Len(ids) \in Nat
    BY LenProperties
  <1> HIDE DEF u
  <1>3. after + Len(u) <= 2 * Len(ids)
    BY <1>1, <1>2 DEF Fits
  <1>4. ASSUME NEW k \in 1 .. Len(u) PROVE u[k] = PieceAt(ids, after + k)
    <2>1. CASE k <= Len(s)
      BY <1>1, <1>2, <2>1 DEF Fits
    <2>2. CASE ~(k <= Len(s))
      <3>1. k - Len(s) \in 1 .. Len(t) /\ (after + Len(s)) + (k - Len(s)) = after + k
        BY <1>1, <1>2, <2>2
      <3>2. u[k] = t[k - Len(s)]
        BY <1>1, <1>2, <2>2
      <3> QED
        BY <3>1, <3>2 DEF Fits
    <2> QED
      BY <2>1, <2>2
  <1> QED
    BY <1>3, <1>4 DEF Fits, u

LEMMA FitsTail ==
  ASSUME NEW s \in Seq(Piece), s # <<>>, NEW after \in Nat, NEW ids \in Seq(Cmd), Fits(s, after, ids)
  PROVE  /\ Tail(s) \in Seq(Piece) /\ Len(Tail(s)) = Len(s) - 1 /\ Len(s) > 0
         /\ Head(s) = PieceAt(ids, after + 1) /\ Fits(Tail(s), after + 1, ids)
PROOF
  <1>1. /\ Tail(s) \in Seq(Piece) /\ Len(Tail(s)) = Len(s) - 1 /\ Head(s) = s[1]
        /\ \A k \in 1 .. Len(Tail(s)) : Tail(s)[k] = s[k + 1]
    BY HeadTailProperties
  <1>2. Len(s) \in Nat /\ Len(s) > 0 /\ Len(ids) \in Nat
    BY LenProperties, EmptySeq
  <1>3. after + Len(s) <= 2 * Len(ids) /\ \A k \in 1 .. Len(s) : s[k] = PieceAt(ids, after + k)
    BY DEF Fits
  <1>4. Head(s) = PieceAt(ids, after + 1)
    BY <1>1, <1>2, <1>3
  <1>5. (after + 1) + Len(Tail(s)) <= 2 * Len(ids)
    BY <1>1, <1>2, <1>3
  <1>6. ASSUME NEW k \in 1 .. Len(Tail(s)) PROVE Tail(s)[k] = PieceAt(ids, (after + 1) + k)
    <2>1. k + 1 \in 1 .. Len(s) /\ after + (k + 1) = (after + 1) + k
      BY <1>1, <1>2
    <2> QED
      BY <1>1, <1>3, <2>1
  <1> QED
    BY <1>1, <1>2, <1>4, <1>5, <1>6 DEF Fits

(* The pieces of the next command: the first one is at an even distance.   *)
LEMMA NextPieces ==
  ASSUME NEW n \in Nat, NEW ids
  PROVE  /\ PieceAt(ids, 2 * n + 1) = [id |-> ids[n + 1], part |-> 1]
         /\ PieceAt(ids, 2 * n + 2) = [id |-> ids[n + 1], part |-> 2]
PROOF
  <1>1. (2 * n + 1 + 1) \div 2 = n + 1 /\ (2 * n + 1) % 2 = 1
        /\ (2 * n + 2 + 1) \div 2 = n + 1 /\ (2 * n + 2) % 2 = 0
    OBVIOUS
  <1> QED
    BY <1>1 DEF PieceAt

-----------------------------------------------------------------------------
(* The application.                                                        *)

(* The types the other steps of this proof need.                           *)
LEMMA Types ==
  ASSUME TypeOK
  PROVE  /\ buf \in Seq(Piece) /\ toServer \in Seq(Piece) /\ toClient \in Seq(Piece)
         /\ toWrite \in Seq(Piece) /\ batch \in Seq(Cmd) /\ responses \in Seq(0 .. Garbage)
         /\ Len(buf) \in Nat /\ Len(toServer) \in Nat /\ Len(toClient) \in Nat
         /\ Len(toWrite) \in Nat /\ Len(batch) \in Nat /\ Len(responses) \in Nat
         /\ partial \in 0 .. Garbage /\ Parsed \in Nat /\ Received \in Nat
PROOF
  <1>1. /\ buf \in Seq(Piece) /\ toServer \in Seq(Piece) /\ toClient \in Seq(Piece)
        /\ toWrite \in Seq(Piece) /\ batch \in Seq(Cmd) /\ responses \in Seq(0 .. Garbage)
        /\ partial \in 0 .. Garbage
    BY DEF TypeOK
  <1>2. /\ Len(buf) \in Nat /\ Len(toServer) \in Nat /\ Len(toClient) \in Nat
        /\ Len(toWrite) \in Nat /\ Len(batch) \in Nat /\ Len(responses) \in Nat
    BY <1>1, LenProperties
  <1>3. Parsed \in Nat
    BY <1>2 DEF Parsed
  <1>4. Received \in Nat
    BY <1>2, <1>3 DEF Received
  <1> QED
    BY <1>1, <1>2, <1>3, <1>4

(* Only an empty sequence fits in an empty batch.                          *)
LEMMA NothingFits ==
  ASSUME NEW s \in Seq(Piece), NEW after \in Nat, Fits(s, after, <<>>)
  PROVE  s = <<>> /\ after = 0
PROOF
  <1>1. after + Len(s) <= 0 /\ Len(s) \in Nat
    BY LenProperties DEF Fits
  <1>2. Len(s) = 0 /\ after = 0
    BY <1>1
  <1> QED
    BY <1>2, EmptySeq

(* Between two calls nothing is on its way.                                *)
LEMMA IdleEmpty ==
  ASSUME IInv, pc = "idle", ~late
  PROVE  buf = <<>> /\ partial = None /\ toClient = <<>> /\ toServer = <<>>
         /\ toWrite = <<>> /\ batch = <<>> /\ responses = <<>>
PROOF
  <1>1. TypeOK /\ batch = <<>> /\ toWrite = <<>> /\ responses = <<>>
    BY DEF IInv, Placed
  <1>2. /\ buf \in Seq(Piece) /\ toServer \in Seq(Piece) /\ toClient \in Seq(Piece)
        /\ Len(buf) \in Nat /\ Parsed \in Nat /\ Received \in Nat
    BY <1>1, Types
  <1>3. Fits(buf, Parsed, <<>>) /\ Fits(toClient, Parsed + Len(buf), <<>>)
    BY <1>1 DEF IInv, Aligned
  <1>4. buf = <<>> /\ Parsed = 0
    BY <1>2, <1>3, NothingFits
  <1>5. toClient = <<>>
    <2>1. Parsed + Len(buf) \in Nat
      BY <1>2
    <2> QED
      BY <1>2, <1>3, <2>1, NothingFits
  <1>6. partial = None
    <2>1. Len(responses) = 0
      BY <1>1
    <2> QED
      BY <1>4, <2>1 DEF Parsed
  <1>7. toServer = <<>>
    <2>1. CASE link = "up"
      <3>1. Fits(toServer, Received, <<>>)
        BY <1>1, <2>1 DEF IInv, Aligned
      <3> QED
        BY <1>2, <3>1, NothingFits
    <2>2. CASE link # "up"
      BY <2>2 DEF IInv, Links
    <2> QED
      BY <2>1, <2>2
  <1> QED
    BY <1>1, <1>4, <1>5, <1>6, <1>7

(* Where nothing is on its way everything is in its place.                 *)
LEMMA EmptyAligned ==
  ASSUME buf' = <<>>, partial' = None, toClient' = <<>>, toServer' = <<>>,
         toWrite' = <<>>, batch' = <<>>, responses' = <<>>
  PROVE  Aligned'
PROOF
  <1>1. Len(<<>>) = 0 /\ 1 .. 0 = {}
    OBVIOUS
  <1>2. Fits(<<>>, 0, <<>>)
    BY <1>1 DEF Fits
  <1>3. Parsed' = 0
    BY <1>1 DEF Parsed
  <1>4. Received' = 0
    BY <1>1, <1>3 DEF Received
  <1> QED
    BY <1>1, <1>2, <1>3, <1>4 DEF Aligned

(* A step that leaves what is on its way alone, and the connection up or   *)
(* not as it was.                                                          *)
LEMMA SameAligned ==
  ASSUME Aligned, UNCHANGED <<buf, partial, batch, responses, toWrite, toServer, toClient>>,
         link' = "up" => link = "up", late' = late
  PROVE  Aligned'
PROOF
  <1>1. Parsed' = Parsed
    BY DEF Parsed
  <1>2. Received' = Received
    BY <1>1 DEF Received
  <1> QED
    BY <1>1, <1>2 DEF Aligned

(* connect(): on a connection that comes up nothing is on its way.         *)
LEMMA ConnectInv == ASSUME IInv, NEW via \in {"tcp", "local"}, Connect(via) PROVE IInv'
PROOF
  <1>1. PICK up \in BOOLEAN, settings \in BOOLEAN, timeout \in BOOLEAN :
          LET tries == link = "none" /\ (socket = "closed" \/ (socket = via /\ via = "tcp"))
              ok    == tries /\ up /\ settings /\ socket = "closed"
          IN  /\ link' = IF ~tries THEN link
                         ELSE IF up THEN "up" ELSE IF timeout THEN "opening" ELSE "none"
              /\ state' = StateAfter(ok)
              /\ reported' = [up |-> tries /\ up /\ settings, ok |-> ok]
              /\ late' = IF ok THEN buf # <<>> \/ partial # None ELSE late
    BY DEF Connect
  <1> DEFINE tries == link = "none" /\ (socket = "closed" \/ (socket = via /\ via = "tcp"))
             ok    == tries /\ up /\ settings /\ socket = "closed"
  <1>2. /\ link' = IF ~tries THEN link
                   ELSE IF up THEN "up" ELSE IF timeout THEN "opening" ELSE "none"
        /\ state' = IF ok THEN "Connected" ELSE state
        /\ reported' = [up |-> tries /\ up /\ settings, ok |-> ok]
        /\ late' = IF ok THEN buf # <<>> \/ partial # None ELSE late
    BY <1>1 DEF StateAfter
  <1>3. /\ pc = "idle" /\ connects < MaxConnects /\ connects' = connects + 1
        /\ socket' = IF socket = "closed" THEN via ELSE socket
        /\ timeouts' = timeouts /\ buf' = buf /\ partial' = partial /\ pc' = pc /\ batch' = batch
        /\ toWrite' = toWrite /\ responses' = responses /\ toServer' = toServer
        /\ toClient' = toClient /\ cmds' = cmds /\ closes' = closes /\ drops' = drops
        /\ returned' = returned
    BY DEF Connect, call
  <1>4. tries \in BOOLEAN /\ ok \in BOOLEAN /\ (ok => tries) /\ (tries => link = "none")
        /\ (ok => up)
    OBVIOUS
  <1> HIDE DEF tries, ok
  <1>5. TypeOK'
    <2>1. connects' \in 0 .. MaxConnects
      BY <1>3, SyncAssumption DEF IInv, TypeOK
    <2>2. /\ link' \in {"none", "opening", "up", "down"}
          /\ state' \in {"Unconnected", "Connected", "Closed"} /\ socket' \in {"closed", "tcp", "local"}
      BY <1>2, <1>3 DEF IInv, TypeOK
    <2>3. late' \in BOOLEAN
      BY <1>2 DEF IInv, TypeOK
    <2>4. reported' \in [up : BOOLEAN, ok : BOOLEAN]
      <3>1. (tries /\ up /\ settings) \in BOOLEAN
        BY <1>4
      <3> QED
        BY <1>2, <1>4, <3>1
    <2> QED
      BY <1>3, <2>1, <2>2, <2>3, <2>4 DEF IInv, TypeOK
  <1>6. Placed'
    BY <1>3 DEF IInv, Placed
  <1>7. Links'
    BY <1>2, <1>3, <1>4 DEF IInv, Links
  <1>8. Aligned'
    <2>1. CASE ~tries
      <3>1. link' = link /\ late' = late
        BY <1>2, <1>4, <2>1
      <3> QED
        BY <1>3, <3>1, SameAligned DEF IInv
    <2>2. CASE tries
      <3>1. toClient = <<>> /\ toServer = <<>> /\ batch = <<>> /\ toWrite = <<>> /\ responses = <<>>
        BY <1>3, <1>4, <2>2 DEF IInv, Links, Placed
      <3>2. ~late' => buf = <<>> /\ partial = None
        BY <1>2, <1>3, IdleEmpty
      <3>3. CASE ~late'
        BY <1>3, <3>1, <3>2, <3>3, EmptyAligned
      <3>4. CASE late'
        BY <3>4 DEF Aligned
      <3> QED
        BY <3>3, <3>4
    <2> QED
      BY <2>1, <2>2
  <1> QED
    BY <1>5, <1>6, <1>7, <1>8 DEF IInv

(* disconnect(): what is in the buffer and in the parser stays, but that is *)
(* nothing unless an earlier call failed.                                   *)
LEMMA DisconnectInv == ASSUME IInv, Disconnect PROVE IInv'
PROOF
  <1>1. /\ pc = "idle" /\ closes < MaxCloses /\ closes' = closes + 1
        /\ socket' = "closed" /\ state' = "Closed" /\ link' = "none"
        /\ toServer' = <<>> /\ toClient' = <<>>
        /\ timeouts' = timeouts /\ buf' = buf /\ partial' = partial /\ pc' = pc /\ batch' = batch
        /\ toWrite' = toWrite /\ responses' = responses /\ cmds' = cmds /\ connects' = connects
        /\ drops' = drops /\ returned' = returned /\ reported' = reported /\ late' = late
    BY DEF Disconnect, call
  <1>2. TypeOK'
    <2>1. closes' \in 0 .. MaxCloses
      BY <1>1, SyncAssumption DEF IInv, TypeOK
    <2>2. <<>> \in Seq(Piece)
      BY EmptySeq
    <2> QED
      BY <1>1, <2>1, <2>2 DEF IInv, TypeOK
  <1>3. Placed' /\ Links'
    BY <1>1 DEF IInv, Placed, Links
  <1>4. Aligned'
    <2>1. CASE late
      BY <1>1, <2>1 DEF Aligned
    <2>2. CASE ~late
      BY <1>1, <2>2, IdleEmpty, EmptyAligned
    <2> QED
      BY <2>1, <2>2
  <1> QED
    BY <1>2, <1>3, <1>4 DEF IInv

LEMMA SetTimeoutInv == ASSUME IInv, SetTimeout PROVE IInv'
PROOF
  <1>1. /\ state' = state /\ socket' = socket /\ buf' = buf /\ partial' = partial /\ pc' = pc
        /\ batch' = batch /\ toWrite' = toWrite /\ responses' = responses /\ link' = link
        /\ toServer' = toServer /\ toClient' = toClient /\ cmds' = cmds /\ connects' = connects
        /\ closes' = closes /\ drops' = drops /\ returned' = returned /\ reported' = reported
        /\ late' = late
    BY DEF SetTimeout, call, wire, counts
  <1>2. timeouts' \in [{"connect", "command"} -> Timeouts \cup {Default}]
    BY SMTT(30) DEF SetTimeout, IInv, TypeOK
  <1>3. TypeOK'
    BY <1>1, <1>2 DEF IInv, TypeOK
  <1>4. Placed' /\ Links'
    BY <1>1 DEF IInv, Placed, Links
  <1>5. Aligned'
    BY <1>1, SameAligned DEF IInv
  <1> QED
    BY <1>3, <1>4, <1>5 DEF IInv

(* A new client has nothing of the one before.                             *)
LEMMA RenewInv == ASSUME IInv, Renew PROVE IInv'
PROOF
  <1>1. /\ pc = "idle" /\ closes < MaxCloses /\ closes' = closes + 1
        /\ timeouts' = [connect |-> Default, command |-> Default]
        /\ socket' = "closed" /\ state' = "Unconnected" /\ link' = "none"
        /\ buf' = <<>> /\ partial' = None /\ toServer' = <<>> /\ toClient' = <<>> /\ late' = FALSE
        /\ pc' = pc /\ batch' = batch
        /\ toWrite' = toWrite /\ responses' = responses /\ cmds' = cmds /\ connects' = connects
        /\ drops' = drops /\ returned' = returned /\ reported' = reported
    BY DEF Renew, call
  <1>2. TypeOK'
    <2>1. closes' \in 0 .. MaxCloses
      BY <1>1, SyncAssumption DEF IInv, TypeOK
    <2>2. <<>> \in Seq(Piece)
      BY EmptySeq
    <2>3. timeouts' \in [{"connect", "command"} -> Timeouts \cup {Default}]
      BY <1>1
    <2>4. partial' \in 0 .. Garbage
      BY <1>1, SyncAssumption DEF None, Garbage
    <2> QED
      BY <1>1, <2>1, <2>2, <2>3, <2>4 DEF IInv, TypeOK
  <1>3. Placed' /\ Links'
    BY <1>1 DEF IInv, Placed, Links
  <1>4. Aligned'
    BY <1>1, EmptyAligned DEF IInv, Placed
  <1> QED
    BY <1>2, <1>3, <1>4 DEF IInv

-----------------------------------------------------------------------------
(* A call.                                                                 *)

(* A call that fails leaves the connection to its own devices: nothing is   *)
(* said of it from there on.                                               *)
LEMMA FailsInv ==
  ASSUME IInv, Fails, pc # "idle", buf' \in Seq(Piece), partial' \in 0 .. Garbage,
         UNCHANGED <<timeouts, state, socket, wire, counts, reported>>
  PROVE  IInv'
PROOF
  <1>1. /\ pc' = "idle" /\ batch' = <<>> /\ toWrite' = <<>> /\ responses' = <<>>
        /\ returned' = [how |-> "error", asked |-> batch, values |-> <<>>] /\ late' = TRUE
        /\ timeouts' = timeouts /\ state' = state /\ socket' = socket /\ link' = link
        /\ toServer' = toServer /\ toClient' = toClient /\ cmds' = cmds /\ connects' = connects
        /\ closes' = closes /\ drops' = drops /\ reported' = reported
    BY DEF Fails, Returns, wire, counts
  <1>2. TypeOK'
    <2>1. <<>> \in Seq(Piece) /\ <<>> \in Seq(Cmd) /\ <<>> \in Seq(0 .. Garbage)
      BY EmptySeq
    <2>2. /\ returned'.how \in {"none", "values", "error", "refused"}
          /\ returned'.asked \in Seq(Cmd) /\ returned'.values \in Seq(0 .. Garbage)
      BY <1>1, <2>1 DEF IInv, TypeOK
    <2> QED
      BY <1>1, <2>1, <2>2 DEF IInv, TypeOK
  <1>3. Placed' /\ Links'
    BY <1>1 DEF IInv, Placed, Links
  <1>4. Aligned'
    BY <1>1 DEF Aligned
  <1> QED
    BY <1>2, <1>3, <1>4 DEF IInv

(* The commands a pipeline has gathered.                                   *)
LEMMA GatheredType ==
  ASSUME NEW n \in 1 .. MaxBatch, cmds \in Nat, cmds + n <= MaxCmds
  PROVE  Gathered(n) \in Seq(Cmd) /\ Len(Gathered(n)) = n
PROOF
  <1>1. n \in Nat /\ \A i \in 1 .. n : cmds + i \in Cmd
    BY SyncAssumption DEF Cmd
  <1>2. Gathered(n) \in [1 .. n -> Cmd]
    BY <1>1 DEF Gathered
  <1>3. ASSUME NEW f \in [1 .. n -> Cmd] PROVE f \in Seq(Cmd) /\ Len(f) = n
    BY <1>1
  <1> QED
    BY <1>2, <1>3

(* A call begins with all of its pieces still to be written.               *)
LEMMA CallInv == ASSUME IInv, NEW n \in 1 .. MaxBatch, Call(n) PROVE IInv'
PROOF
  <1>1. /\ pc = "idle" /\ cmds + n <= MaxCmds
        /\ timeouts' = timeouts /\ state' = state /\ socket' = socket /\ buf' = buf
        /\ partial' = partial /\ link' = link /\ toServer' = toServer /\ toClient' = toClient
        /\ connects' = connects /\ closes' = closes /\ drops' = drops /\ reported' = reported
        /\ late' = late
    BY DEF Call, wire
  <1>2. <<>> \in Seq(Piece) /\ <<>> \in Seq(Cmd) /\ <<>> \in Seq(0 .. Garbage)
    BY EmptySeq
  <1>3. CASE state # "Connected"
    <2>1. /\ pc' = pc /\ batch' = batch /\ toWrite' = toWrite /\ responses' = responses
          /\ cmds' = cmds /\ returned' = [how |-> "refused", asked |-> <<>>, values |-> <<>>]
      BY <1>3 DEF Call, call, Nothing
    <2>2. TypeOK'
      BY <1>1, <1>2, <2>1 DEF IInv, TypeOK
    <2>3. Placed' /\ Links'
      BY <1>1, <2>1 DEF IInv, Placed, Links
    <2>4. Aligned'
      BY <1>1, <2>1, SameAligned DEF IInv
    <2> QED
      BY <2>2, <2>3, <2>4 DEF IInv
  <1>4. CASE state = "Connected"
    <2>1. /\ cmds' = cmds + n /\ batch' = Gathered(n) /\ toWrite' = Pieces(batch')
          /\ responses' = <<>> /\ pc' = "writing" /\ returned' = Nothing
      BY <1>4 DEF Call
    <2>2. cmds' \in 0 .. MaxCmds /\ n \in Nat
      BY <1>1, <2>1, SyncAssumption DEF IInv, TypeOK
    <2>3. batch' \in Seq(Cmd) /\ Len(batch') = n
      BY <1>1, <2>1, GatheredType DEF IInv, TypeOK
    <2>4. batch' \in Seq(1 .. Garbage)
      <3>1. \A i \in 1 .. n : batch'[i] \in 1 .. Garbage
        BY <2>2, <2>3, ElementOfSeq, SyncAssumption DEF Cmd, Garbage
      <3>2. batch' \in [1 .. n -> Cmd]
        BY <2>3, LenProperties
      <3>3. batch' \in [1 .. n -> 1 .. Garbage]
        BY <3>1, <3>2
      <3>4. ASSUME NEW T, NEW f \in [1 .. n -> T] PROVE f \in Seq(T)
        BY <2>2
      <3> QED
        BY <3>3, <3>4
    <2>5. /\ toWrite' \in Seq(Piece) /\ Len(toWrite') = 2 * n
          /\ \A k \in 1 .. 2 * n : toWrite'[k] = PieceAt(batch', k)
      BY <2>1, <2>3, <2>4, PiecesFit
    <2>6. TypeOK'
      <3>1. /\ returned'.how \in {"none", "values", "error", "refused"}
            /\ returned'.asked \in Seq(Cmd) /\ returned'.values \in Seq(0 .. Garbage)
        BY <1>2, <2>1 DEF Nothing
      <3> QED
        BY <1>1, <1>2, <2>1, <2>2, <2>3, <2>5, <3>1 DEF IInv, TypeOK
    <2>7. Placed'
      <3>1. Len(responses') = 0
        BY <2>1
      <3> QED
        BY <2>1, <2>2, <2>3, <3>1 DEF Placed
    <2>8. Links'
      BY <1>1, <1>4, <2>1 DEF IInv, Links
    <2>9. ASSUME ~late' PROVE Aligned'
      <3>1. buf' = <<>> /\ partial' = None /\ toClient' = <<>> /\ toServer' = <<>>
        BY <1>1, <2>9, IdleEmpty
      <3>2. Len(responses') = 0 /\ Len(<<>>) = 0
        BY <2>1
      <3>3. Parsed' = 0
        BY <3>1, <3>2 DEF Parsed
      <3>4. Received' = 0
        BY <3>1, <3>2, <3>3 DEF Received
      <3>5. Fits(<<>>, 0, batch')
        BY <2>2, <2>3, <3>2 DEF Fits
      <3>6. Fits(toWrite', 0, batch')
        <4>1. \A k \in 1 .. 2 * n : 0 + k = k
          BY <2>2
        <4> QED
          BY <2>2, <2>3, <2>5, <4>1 DEF Fits
      <3>7. \A k \in 1 .. Len(responses') : responses'[k] = batch'[k]
        BY <3>2
      <3>8. Received' % 2 = 0 /\ Received' + Len(toServer') + Len(toWrite') = 2 * Len(batch')
        BY <2>2, <2>3, <2>5, <3>1, <3>2, <3>4
      <3>9. Parsed' + Len(buf') = 0 /\ Received' + Len(toServer') = 0
        BY <3>1, <3>2, <3>3, <3>4
      <3>10. /\ Fits(buf', Parsed', batch') /\ Fits(toClient', Parsed' + Len(buf'), batch')
             /\ Fits(toServer', Received', batch')
             /\ Fits(toWrite', Received' + Len(toServer'), batch')
        BY <3>1, <3>3, <3>4, <3>5, <3>6, <3>9, Zenon
      <3> QED
        BY <3>1, <3>7, <3>8, <3>10, Zenon DEF Aligned
    <2>10. Aligned'
      <3>1. CASE late'
        BY <3>1 DEF Aligned
      <3> QED
        BY <2>9, <3>1
    <2> QED
      BY <2>6, <2>7, <2>8, <2>10 DEF IInv
  <1> QED
    BY <1>3, <1>4

(* send(): pieces pass from the client to the server.                      *)
LEMMA WriteSomeInv == ASSUME IInv, NEW n \in 1 .. 2 * MaxBatch, WriteSome(n) PROVE IInv'
PROOF
  <1> DEFINE front == SubSeq(toWrite, 1, n)
             rest  == Rest(toWrite, n)
  <1>1. /\ pc = "writing" /\ n <= Len(toWrite) /\ toWrite' = rest
        /\ toServer' = IF link = "up" THEN toServer \o front ELSE toServer
        /\ pc' = IF n = Len(toWrite) THEN "reading" ELSE "writing"
        /\ timeouts' = timeouts /\ state' = state /\ socket' = socket /\ buf' = buf
        /\ partial' = partial /\ batch' = batch /\ responses' = responses /\ link' = link
        /\ toClient' = toClient /\ cmds' = cmds /\ connects' = connects /\ closes' = closes
        /\ drops' = drops /\ returned' = returned /\ reported' = reported /\ late' = late
    BY DEF WriteSome, counts
  <1>2. n \in Nat
    BY SyncAssumption
  <1>3. /\ toWrite \in Seq(Piece) /\ toServer \in Seq(Piece) /\ batch \in Seq(Cmd)
        /\ Len(toWrite) \in Nat /\ Len(toServer) \in Nat /\ Received \in Nat
    BY Types DEF IInv
  <1>4. /\ front \in Seq(Piece) /\ Len(front) = n
        /\ rest \in Seq(Piece) /\ Len(rest) = Len(toWrite) - n
    BY <1>1, <1>2, <1>3, Cut, ZenonT(60)
  <1>5. toServer \o front \in Seq(Piece) /\ Len(toServer \o front) = Len(toServer) + n
    BY <1>3, <1>4, ConcatProperties
  <1>6. link = "up" /\ ~late =>
          Fits(toServer \o front, Received, batch) /\ Fits(rest, Received + Len(toServer) + n, batch)
    <2> SUFFICES ASSUME link = "up", ~late
                 PROVE  Fits(toServer \o front, Received, batch)
                        /\ Fits(rest, Received + Len(toServer) + n, batch)
      OBVIOUS
    <2>1. Fits(toServer, Received, batch) /\ Fits(toWrite, Received + Len(toServer), batch)
      BY DEF IInv, Aligned
    <2>2. Received + Len(toServer) \in Nat
      BY <1>3
    <2>3. Fits(front, Received + Len(toServer), batch)
          /\ Fits(rest, Received + Len(toServer) + n, batch)
      BY <1>1, <1>2, <1>3, <2>1, <2>2, FitsCut
    <2>4. Fits(toServer \o front, Received, batch)
      <3> HIDE DEF front
      <3> QED
        BY <1>3, <1>4, <2>1, <2>3, FitsConcat
    <2> QED
      BY <2>3, <2>4
  <1> HIDE DEF front, rest
  <1>7. TypeOK'
    BY <1>1, <1>4, <1>5 DEF IInv, TypeOK
  <1>8. Placed'
    <2>1. n = Len(toWrite) => rest = <<>>
      <3>1. n = Len(toWrite) => Len(rest) = 0
        BY <1>3, <1>4
      <3> QED
        BY <1>4, <3>1, EmptySeq
    <2> QED
      BY <1>1, <2>1 DEF IInv, Placed
  <1>9. Links'
    BY <1>1 DEF IInv, Links
  <1>10. Aligned'
    <2>1. Parsed' = Parsed
      BY <1>1 DEF Parsed
    <2>2. Received' = Received
      BY <1>1, <2>1 DEF Received
    <2>3. CASE late
      BY <1>1, <2>3 DEF Aligned
    <2>4. CASE ~late /\ link # "up"
      BY <1>1, <2>1, <2>4 DEF IInv, Aligned
    <2>5. CASE ~late /\ link = "up"
      <3>1. toServer' = toServer \o front /\ toWrite' = rest
        BY <1>1, <2>5
      <3>2. Received + Len(toServer) + Len(toWrite) = 2 * Len(batch)
        BY <2>5 DEF IInv, Aligned
      <3>3. Received + Len(toServer') + Len(toWrite') = 2 * Len(batch)
            /\ Received + Len(toServer') = Received + Len(toServer) + n
        <4>1. Len(toServer') = Len(toServer) + n /\ Len(toWrite') = Len(toWrite) - n
          BY <1>4, <1>5, <3>1
        <4>2. Len(batch) \in Nat
          BY <1>3, LenProperties
        <4> QED
          BY <1>2, <1>3, <3>2, <4>1, <4>2, SMTT(30)
      <3>4. Fits(toServer', Received, batch) /\ Fits(toWrite', Received + Len(toServer'), batch)
        BY <1>6, <2>5, <3>1, <3>3
      <3> QED
        BY <1>1, <2>1, <2>2, <2>5, <3>3, <3>4 DEF IInv, Aligned
    <2> QED
      BY <2>3, <2>4, <2>5
  <1> QED
    BY <1>7, <1>8, <1>9, <1>10 DEF IInv

(* A read: pieces pass from the connection to the buffer.                  *)
LEMMA ReadSomeInv == ASSUME IInv, NEW n \in 1 .. 2 * MaxCmds + 2, ReadSome(n) PROVE IInv'
PROOF
  <1>1. /\ pc = "reading" /\ buf = <<>> /\ n <= Len(toClient)
        /\ buf' = SubSeq(toClient, 1, n) /\ toClient' = Rest(toClient, n)
        /\ timeouts' = timeouts /\ state' = state /\ socket' = socket /\ partial' = partial
        /\ pc' = pc /\ batch' = batch /\ toWrite' = toWrite /\ responses' = responses
        /\ link' = link /\ toServer' = toServer
        /\ cmds' = cmds /\ connects' = connects /\ closes' = closes
        /\ drops' = drops /\ returned' = returned /\ reported' = reported /\ late' = late
    BY DEF ReadSome, counts, call
  <1>2. n \in Nat
    BY SyncAssumption
  <1>3. /\ toClient \in Seq(Piece) /\ batch \in Seq(Cmd) /\ Parsed \in Nat
        /\ Len(toClient) \in Nat /\ Len(buf) = 0
    BY <1>1, Types DEF IInv
  <1>4. /\ buf' \in Seq(Piece) /\ Len(buf') = n
        /\ toClient' \in Seq(Piece) /\ Len(toClient') = Len(toClient) - n
    BY <1>1, <1>2, <1>3, Cut, SMTT(30)
  <1>5. TypeOK'
    BY <1>1, <1>4 DEF IInv, TypeOK
  <1>6. Placed' /\ Links'
    BY <1>1 DEF IInv, Placed, Links
  <1>7. Parsed' = Parsed
    BY <1>1 DEF Parsed
  <1>8. Received' = Received
    BY <1>2, <1>3, <1>4, <1>7 DEF Received
  <1>9. ~late => Fits(buf', Parsed, batch) /\ Fits(toClient', Parsed + Len(buf'), batch)
    <2> SUFFICES ASSUME ~late
                 PROVE  Fits(buf', Parsed, batch) /\ Fits(toClient', Parsed + n, batch)
      BY <1>4
    <2>1. Parsed + Len(buf) = Parsed
      BY <1>3
    <2>2. Fits(toClient, Parsed, batch)
      BY <2>1 DEF IInv, Aligned
    <2> QED
      BY <1>1, <1>2, <1>3, <2>2, FitsCut
  <1>10. Aligned'
    BY <1>1, <1>7, <1>8, <1>9 DEF IInv, Aligned
  <1> QED
    BY <1>5, <1>6, <1>10 DEF IInv

(* The piece the parser is given is the one it waits for.                  *)
LEMMA HeadFits ==
  ASSUME IInv, buf # <<>>
  PROVE  /\ Tail(buf) \in Seq(Piece) /\ Len(Tail(buf)) = Len(buf) - 1 /\ Head(buf).id \in 1 .. Garbage
         /\ ~late =>
              /\ Fits(Tail(buf), Parsed + 1, batch) /\ Len(responses) < Len(batch)
              /\ partial = None => Head(buf) = [id |-> batch[Len(responses) + 1], part |-> 1]
              /\ partial # None => Head(buf) = [id |-> partial, part |-> 2]
PROOF
  <1>1. /\ buf \in Seq(Piece) /\ batch \in Seq(Cmd) /\ Parsed \in Nat /\ Len(buf) \in Nat
        /\ Len(batch) \in Nat /\ Len(responses) \in Nat
    BY Types DEF IInv
  <1>2. /\ Tail(buf) \in Seq(Piece) /\ Len(Tail(buf)) = Len(buf) - 1 /\ Head(buf) \in Piece
    BY <1>1, HeadTailProperties
  <1>3. ASSUME ~late
        PROVE  /\ Fits(Tail(buf), Parsed + 1, batch) /\ Len(responses) < Len(batch)
               /\ partial = None => Head(buf) = [id |-> batch[Len(responses) + 1], part |-> 1]
               /\ partial # None => Head(buf) = [id |-> partial, part |-> 2]
    <2>1. Fits(buf, Parsed, batch)
      BY <1>3 DEF IInv, Aligned
    <2>2. Head(buf) = PieceAt(batch, Parsed + 1) /\ Fits(Tail(buf), Parsed + 1, batch)
          /\ Len(buf) > 0
      BY <1>1, <2>1, FitsTail
    <2>3. Len(responses) < Len(batch)
      <3>1. Parsed + Len(buf) <= 2 * Len(batch)
        BY <2>1 DEF Fits
      <3>2. Parsed >= 2 * Len(responses)
        BY <1>1 DEF Parsed
      <3> QED
        BY <1>1, <2>2, <3>1, <3>2
    <2>4. ASSUME partial = None PROVE Head(buf) = [id |-> batch[Len(responses) + 1], part |-> 1]
      <3>1. Parsed + 1 = 2 * Len(responses) + 1
        BY <1>1, <2>4 DEF Parsed
      <3> QED
        BY <1>1, <2>2, <3>1, NextPieces
    <2>5. ASSUME partial # None PROVE Head(buf) = [id |-> partial, part |-> 2]
      <3>1. Parsed + 1 = 2 * Len(responses) + 2
        BY <1>1, <2>5 DEF Parsed
      <3>2. partial = batch[Len(responses) + 1]
        BY <1>3, <2>5 DEF IInv, Aligned
      <3> QED
        BY <1>1, <2>2, <3>1, <3>2, NextPieces
    <2> QED
      BY <2>2, <2>3, <2>4, <2>5
  <1> QED
    BY <1>2, <1>3 DEF Piece

(* The parser takes the first piece of a reply.                            *)
LEMMA FirstPieceInv ==
  ASSUME IInv, pc = "reading", buf # <<>>, buf' = Tail(buf), UNCHANGED <<call, returned>>,
         UNCHANGED <<timeouts, state, socket, wire, counts, reported, late>>,
         partial' \in 1 .. Garbage, ~late => partial = None /\ partial' = Head(buf).id
  PROVE  IInv'
PROOF
  <1>1. /\ pc' = pc /\ batch' = batch /\ toWrite' = toWrite /\ responses' = responses
        /\ returned' = returned /\ timeouts' = timeouts /\ state' = state /\ socket' = socket
        /\ link' = link /\ toServer' = toServer /\ toClient' = toClient /\ cmds' = cmds
        /\ connects' = connects /\ closes' = closes /\ drops' = drops /\ reported' = reported
        /\ late' = late
    BY DEF call, wire, counts
  <1>2. /\ Len(buf) \in Nat /\ Len(responses) \in Nat /\ Len(toClient) \in Nat /\ Parsed \in Nat
    BY Types DEF IInv
  <1>3. Tail(buf) \in Seq(Piece) /\ Len(Tail(buf)) = Len(buf) - 1
    BY HeadFits
  <1>4. TypeOK'
    BY <1>1, <1>3 DEF IInv, TypeOK
  <1>5. Placed' /\ Links'
    BY <1>1 DEF IInv, Placed, Links
  <1>6. CASE late
    BY <1>1, <1>4, <1>5, <1>6 DEF IInv, Aligned
  <1>7. CASE ~late
    <2>1. /\ Fits(Tail(buf), Parsed + 1, batch) /\ Len(responses) < Len(batch)
          /\ Head(buf) = [id |-> batch[Len(responses) + 1], part |-> 1]
      BY <1>7, HeadFits
    <2>2. partial = None /\ partial' = batch[Len(responses) + 1] /\ partial' # None
      BY <1>7, <2>1 DEF None
    <2>3. Parsed' = Parsed + 1
      BY <1>1, <1>2, <2>2 DEF Parsed
    <2>4. Parsed' + Len(buf') = Parsed + Len(buf)
      BY <1>2, <1>3, <2>3
    <2>5. Received' = Received
      BY <1>1, <1>2, <1>3, <2>3 DEF Received
    <2>6. Fits(buf', Parsed', batch)
      BY <2>1, <2>3
    <2>7. Aligned'
      BY <1>1, <1>7, <2>1, <2>2, <2>4, <2>5, <2>6 DEF IInv, Aligned
    <2> QED
      BY <1>4, <1>5, <2>7 DEF IInv
  <1> QED
    BY <1>6, <1>7

(* A response more, and perhaps the last one: then nothing is left.        *)
LEMMA RespondInv ==
  ASSUME IInv, pc = "reading", buf # <<>>, buf' = Tail(buf), partial' = None,
         NEW value \in 0 .. Garbage, Respond(value),
         UNCHANGED <<timeouts, state, socket, wire, counts, reported, late>>,
         ~late => partial # None /\ value = partial
  PROVE  IInv' /\ (~late /\ returned' # returned => returned'.values = batch)
PROOF
  <1>1. /\ timeouts' = timeouts /\ state' = state /\ socket' = socket
        /\ link' = link /\ toServer' = toServer /\ toClient' = toClient /\ cmds' = cmds
        /\ connects' = connects /\ closes' = closes /\ drops' = drops /\ reported' = reported
        /\ late' = late
    BY DEF wire, counts
  <1>2. /\ buf \in Seq(Piece) /\ toClient \in Seq(Piece) /\ toServer \in Seq(Piece)
        /\ batch \in Seq(Cmd) /\ responses \in Seq(0 .. Garbage)
        /\ Len(buf) \in Nat /\ Len(responses) \in Nat /\ Len(toClient) \in Nat
        /\ Len(toServer) \in Nat /\ Len(batch) \in Nat /\ Parsed \in Nat /\ Received \in Nat
    BY Types DEF IInv
  <1>3. Tail(buf) \in Seq(Piece) /\ Len(Tail(buf)) = Len(buf) - 1
    BY HeadFits
  <1>4. /\ Append(responses, value) \in Seq(0 .. Garbage)
        /\ Len(Append(responses, value)) = Len(responses) + 1
        /\ \A k \in 1 .. Len(responses) : Append(responses, value)[k] = responses[k]
        /\ Append(responses, value)[Len(responses) + 1] = value
    BY <1>2, AppendProperties
  <1>5. None \in 0 .. Garbage
    BY SyncAssumption DEF None, Garbage
  <1>6. Len(responses) < Len(batch) /\ toWrite = <<>>
    BY DEF IInv, Placed
  <1>7. ~late =>
          /\ Fits(Tail(buf), Parsed + 1, batch) /\ Parsed = 2 * Len(responses) + 1
          /\ \A k \in 1 .. Len(responses) + 1 : Append(responses, value)[k] = batch[k]
    <2> SUFFICES ASSUME ~late
                 PROVE  /\ Fits(Tail(buf), Parsed + 1, batch) /\ Parsed = 2 * Len(responses) + 1
                        /\ \A k \in 1 .. Len(responses) + 1 : Append(responses, value)[k] = batch[k]
      OBVIOUS
    <2>1. Fits(Tail(buf), Parsed + 1, batch)
      BY HeadFits
    <2>2. Parsed = 2 * Len(responses) + 1
      BY DEF Parsed
    <2>3. /\ \A k \in 1 .. Len(responses) : responses[k] = batch[k]
          /\ value = batch[Len(responses) + 1]
      BY DEF IInv, Aligned
    <2>4. ASSUME NEW k \in 1 .. Len(responses) + 1 PROVE Append(responses, value)[k] = batch[k]
      <3>1. CASE k = Len(responses) + 1
        BY <1>4, <2>3, <3>1
      <3>2. CASE k # Len(responses) + 1
        <4>0. \A l \in Nat : \A j \in 1 .. l + 1 : j # l + 1 => j \in 1 .. l
          OBVIOUS
        <4>1. k \in 1 .. Len(responses)
          BY <1>2, <3>2, <4>0
        <4> QED
          BY <1>4, <2>3, <4>1
      <3> QED
        BY <3>1, <3>2
    <2> QED
      BY <2>1, <2>2, <2>4
  <1>8. CASE Len(responses) + 1 < Len(batch)
    <2>1. /\ responses' = Append(responses, value) /\ pc' = pc /\ batch' = batch
          /\ toWrite' = toWrite /\ returned' = returned
      BY <1>8 DEF Respond
    <2>2. TypeOK'
      BY <1>1, <1>3, <1>4, <1>5, <2>1 DEF IInv, TypeOK
    <2>3. Placed'
      BY <1>4, <1>8, <2>1 DEF IInv, Placed
    <2>4. Links'
      BY <1>1, <2>1 DEF IInv, Links
    <2>5. CASE late
      BY <1>1, <2>1, <2>2, <2>3, <2>4, <2>5 DEF IInv, Aligned
    <2>6. CASE ~late
      <3>1. Parsed' = Parsed + 1
        BY <1>2, <1>4, <1>7, <2>1, <2>6 DEF Parsed
      <3>2. Parsed' + Len(buf') = Parsed + Len(buf)
        BY <1>2, <1>3, <3>1
      <3>3. Received' = Received
        BY <1>1, <1>2, <1>3, <3>1 DEF Received
      <3>4. Fits(buf', Parsed', batch)
        BY <1>7, <2>6, <3>1
      <3>5. \A k \in 1 .. Len(responses') : responses'[k] = batch[k]
        BY <1>4, <1>7, <2>1, <2>6
      <3>6. Aligned'
        BY <1>1, <2>1, <2>6, <3>2, <3>3, <3>4, <3>5 DEF IInv, Aligned
      <3> QED
        BY <2>1, <2>2, <2>3, <2>4, <3>6 DEF IInv
    <2> QED
      BY <2>5, <2>6
  <1>9. CASE ~(Len(responses) + 1 < Len(batch))
    <2>1. /\ pc' = "idle" /\ batch' = <<>> /\ toWrite' = <<>> /\ responses' = <<>>
          /\ returned' = [how |-> "values", asked |-> batch, values |-> Append(responses, value)]
      BY <1>9 DEF Respond, Returns
    <2>2. TypeOK'
      <3>1. <<>> \in Seq(Piece) /\ <<>> \in Seq(Cmd) /\ <<>> \in Seq(0 .. Garbage)
        BY EmptySeq
      <3>2. /\ returned'.how \in {"none", "values", "error", "refused"}
            /\ returned'.asked \in Seq(Cmd) /\ returned'.values \in Seq(0 .. Garbage)
        BY <1>2, <1>4, <2>1
      <3> QED
        BY <1>1, <1>3, <1>5, <2>1, <3>1, <3>2 DEF IInv, TypeOK
    <2>3. Placed' /\ Links'
      BY <1>1, <2>1 DEF IInv, Placed, Links
    <2>4. CASE late
      BY <1>1, <2>1, <2>2, <2>3, <2>4 DEF IInv, Aligned
    <2>5. CASE ~late
      <3>1. Len(batch) = Len(responses) + 1 /\ Parsed + 1 = 2 * Len(batch)
        <4>1. \A r, b, p \in Nat : r < b /\ ~(r + 1 < b) /\ p = 2 * r + 1
                                  => b = r + 1 /\ p + 1 = 2 * b
          OBVIOUS
        <4>2. Parsed = 2 * Len(responses) + 1
          BY <1>7, <2>5
        <4> HIDE DEF Parsed
        <4> QED
          BY <1>2, <1>6, <1>9, <4>1, <4>2, ZenonT(60)
      <3>2. buf' = <<>> /\ Len(buf) = 1
        <4>1. (Parsed + 1) + Len(Tail(buf)) <= 2 * Len(batch)
          BY <1>7, <2>5 DEF Fits
        <4>2. Len(Tail(buf)) \in Nat
          BY <1>3, LenProperties
        <4>3. \A p, l, b \in Nat : p = b /\ p + l <= b => l = 0
          OBVIOUS
        <4>5. Parsed + 1 \in Nat /\ 2 * Len(batch) \in Nat
          BY <1>2
        <4>6. Len(Tail(buf)) = 0
          BY <3>1, <4>1, <4>2, <4>3, <4>5
        <4>7. Tail(buf) = <<>>
          BY <1>3, <4>6, EmptySeq
        <4>8. Len(buf) = Len(Tail(buf)) + 1
          BY <1>2, <1>3
        <4> QED
          BY <1>2, <1>3, <4>6, <4>7, <4>8
      <3>3. toClient = <<>>
        <4>1. (Parsed + Len(buf)) + Len(toClient) <= 2 * Len(batch)
          BY <2>5 DEF IInv, Aligned, Fits
        <4>2. Len(toClient) = 0
          BY <1>2, <3>1, <3>2, <4>1
        <4> QED
          BY <1>2, <4>2, EmptySeq
      <3>4. toServer = <<>>
        <4>1. CASE link = "up"
          <5>1. Received + Len(toServer) <= 2 * Len(batch)
            BY <2>5, <4>1 DEF IInv, Aligned, Fits
          <5>2. Len(toServer) = 0
            BY <1>2, <3>1, <3>2, <5>1 DEF Received
          <5> QED
            BY <1>2, <5>2, EmptySeq
        <4>2. CASE link # "up"
          BY <4>2 DEF IInv, Links
        <4> QED
          BY <4>1, <4>2
      <3>5. Aligned'
        BY <1>1, <2>1, <3>2, <3>3, <3>4, EmptyAligned
      <3>6. Append(responses, value) = batch
        <4>1. \A k \in 1 .. Len(batch) : Append(responses, value)[k] = batch[k]
          BY <1>7, <2>5, <3>1
        <4>2. Append(responses, value) \in Seq(0 .. Garbage) /\ batch \in Seq(0 .. Garbage)
          <5>1. Cmd \subseteq 0 .. Garbage
            BY SyncAssumption DEF Cmd, Garbage
          <5>2. ASSUME NEW S, NEW T, S \subseteq T, NEW q \in Seq(S) PROVE q \in Seq(T)
            BY <5>2
          <5> QED
            BY <1>2, <1>4, <5>1, <5>2
        <4> QED
          BY <1>4, <3>1, <4>1, <4>2, SeqEqual
      <3> QED
        BY <2>1, <2>2, <2>3, <3>5, <3>6 DEF IInv
    <2> QED
      BY <2>4, <2>5
  <1> QED
    BY <1>8, <1>9

(* A step of the parser: at the end of a call the values are the replies to *)
(* its commands.                                                            *)
LEMMA ParseNextInv ==
  ASSUME IInv, ParseNext
  PROVE  IInv' /\ (~late /\ returned' # returned =>
                     returned'.how = "values" /\ returned'.values = batch)
PROOF
  <1>1. /\ pc = "reading" /\ buf # <<>> /\ buf' = Tail(buf)
        /\ UNCHANGED <<timeouts, state, socket, wire, counts, reported, late>>
    BY DEF ParseNext
  <1>2. Head(buf).id \in 1 .. Garbage /\ partial \in 0 .. Garbage
    BY <1>1, HeadFits, Types DEF IInv
  <1>3. CASE partial = None /\ Head(buf).part = 1 /\ partial' = Head(buf).id
             /\ UNCHANGED <<call, returned>>
    <2>1. IInv'
      BY <1>1, <1>2, <1>3, FirstPieceInv
    <2> QED
      BY <1>3, <2>1
  <1>4. CASE partial = Head(buf).id /\ Head(buf).part = 2 /\ partial' = None
             /\ Respond(Head(buf).id)
    <2>1. Head(buf).id \in 0 .. Garbage /\ partial # None
      BY <1>2, <1>4 DEF None
    <2>2. IInv' /\ (~late /\ returned' # returned => returned'.values = batch)
      BY <1>1, <1>4, <2>1, RespondInv
    <2>3. returned' # returned => returned'.how = "values"
      BY <1>4 DEF Respond, Returns
    <2> QED
      BY <2>2, <2>3
  <1> QED
    BY <1>3, <1>4 DEF ParseNext

(* A piece the parser does not expect comes only after an earlier failure. *)
LEMMA ParseMixedInv == ASSUME IInv, ParseMixed PROVE IInv' /\ late
PROOF
  <1>1. /\ pc = "reading" /\ buf # <<>> /\ buf' = Tail(buf)
        /\ ~(partial = None /\ Head(buf).part = 1)
        /\ ~(partial = Head(buf).id /\ Head(buf).part = 2)
        /\ UNCHANGED <<timeouts, state, socket, wire, counts, reported>>
    BY DEF ParseMixed
  <1>2. late
    BY <1>1, HeadFits
  <1>3. Garbage \in 0 .. Garbage /\ None \in 0 .. Garbage /\ Garbage \in 1 .. Garbage
    BY SyncAssumption DEF None, Garbage
  <1>4. CASE partial' = None /\ Respond(Garbage) /\ UNCHANGED late
    BY <1>1, <1>2, <1>3, <1>4, RespondInv
  <1>5. CASE partial' = Garbage /\ UNCHANGED <<call, returned, late>>
    <2>1. UNCHANGED <<call, returned>>
          /\ UNCHANGED <<timeouts, state, socket, wire, counts, reported, late>>
      BY <1>1, <1>5
    <2>2. partial' \in 1 .. Garbage
      BY <1>3, <1>5
    <2> QED
      BY <1>1, <1>2, <2>1, <2>2, FirstPieceInv
  <1>6. CASE partial' = None /\ Fails
    <2>1. buf' \in Seq(Piece) /\ partial' \in 0 .. Garbage /\ pc # "idle"
      BY <1>1, <1>3, <1>6, HeadFits
    <2> QED
      BY <1>1, <1>2, <1>6, <2>1, FailsInv
  <1>7. CASE partial' = None /\ Respond(None) /\ UNCHANGED late
    BY <1>1, <1>2, <1>3, <1>7, RespondInv
  <1> QED
    BY <1>4, <1>5, <1>6, <1>7 DEF ParseMixed

LEMMA WriteFailsInv == ASSUME IInv, WriteFails PROVE IInv'
PROOF
  <1>1. /\ pc # "idle" /\ Fails /\ buf' = buf /\ partial' = partial
        /\ UNCHANGED <<timeouts, state, socket, wire, counts, reported>>
    BY DEF WriteFails
  <1>2. buf \in Seq(Piece) /\ partial \in 0 .. Garbage
    BY Types DEF IInv
  <1> QED
    BY <1>1, <1>2, FailsInv

(* A read that times out on a connection that is up: a part of the batch is *)
(* still with the server, for it answers whole commands.                    *)
LEMMA ReadFailsInv ==
  ASSUME IInv, ReadFails
  PROVE  IInv' /\ returned'.how = "error" /\ (~late /\ link = "up" => toServer # <<>>)
PROOF
  <1>1. /\ pc = "reading" /\ buf = <<>> /\ toClient = <<>> /\ Fails
        /\ buf' = buf /\ partial' = partial
        /\ UNCHANGED <<timeouts, state, socket, wire, counts, reported>>
    BY DEF ReadFails
  <1>2. /\ buf \in Seq(Piece) /\ partial \in 0 .. Garbage /\ Len(responses) \in Nat
        /\ Len(batch) \in Nat
    BY Types DEF IInv
  <1>3. IInv'
    BY <1>1, <1>2, FailsInv
  <1>4. returned'.how = "error"
    BY <1>1 DEF Fails, Returns
  <1>5. ASSUME ~late, link = "up", toServer = <<>> PROVE FALSE
    <2>1. toWrite = <<>> /\ Len(responses) < Len(batch)
      BY <1>1 DEF IInv, Placed
    <2>2. Len(buf) = 0 /\ Len(toClient) = 0 /\ Len(toServer) = 0 /\ Len(toWrite) = 0
      BY <1>1, <1>5, <2>1
    <2>3. Received % 2 = 0 /\ Received + Len(toServer) + Len(toWrite) = 2 * Len(batch)
      BY <1>5 DEF IInv, Aligned
    <2>4. Received = 2 * Len(responses) + IF partial = None THEN 0 ELSE 1
      BY <1>2, <2>2 DEF Received, Parsed
    <2>5. \A r, b \in Nat : r < b => 2 * r # 2 * b /\ 2 * r + 1 # 2 * b
      OBVIOUS
    <2>6. Received = 2 * Len(batch)
      BY <1>2, <2>2, <2>3, <2>4
    <2> QED
      BY <1>2, <2>1, <2>4, <2>5, <2>6
  <1> QED
    BY <1>3, <1>4, <1>5

-----------------------------------------------------------------------------
(* The network and the server.                                             *)

(* A connect that ends in the background finds nothing on its way.         *)
LEMMA LateConnectInv == ASSUME IInv, NEW to \in {"up", "down"}, LateConnect(to) PROVE IInv'
PROOF
  <1>1. /\ link = "opening" /\ link' = to
        /\ timeouts' = timeouts /\ state' = state /\ socket' = socket /\ buf' = buf
        /\ partial' = partial /\ pc' = pc /\ batch' = batch /\ toWrite' = toWrite
        /\ responses' = responses /\ toServer' = toServer /\ toClient' = toClient /\ cmds' = cmds
        /\ connects' = connects /\ closes' = closes /\ drops' = drops /\ returned' = returned
        /\ reported' = reported /\ late' = late
    BY DEF LateConnect, call, counts
  <1>2. pc = "idle" /\ toServer = <<>>
    BY <1>1 DEF IInv, Links
  <1>3. TypeOK'
    BY <1>1 DEF IInv, TypeOK
  <1>4. Placed' /\ Links'
    BY <1>1, <1>2 DEF IInv, Placed, Links
  <1>5. Aligned'
    <2>1. CASE late
      BY <1>1, <2>1 DEF Aligned
    <2>2. CASE ~late
      BY <1>1, <1>2, <2>2, IdleEmpty, EmptyAligned
    <2> QED
      BY <2>1, <2>2
  <1> QED
    BY <1>3, <1>4, <1>5 DEF IInv

(* What the server holds begins with a whole command.                      *)
LEMMA WholeCommand ==
  ASSUME IInv, ~late, link = "up", Len(toServer) >= 2
  PROVE  \E m \in Nat : /\ Received = 2 * m /\ m + 1 \in 1 .. Len(batch)
                        /\ toServer[1] = [id |-> batch[m + 1], part |-> 1]
                        /\ toServer[2] = [id |-> batch[m + 1], part |-> 2]
PROOF
  <1>1. /\ Received \in Nat /\ batch \in Seq(Cmd) /\ Len(batch) \in Nat /\ Len(toServer) \in Nat
    BY Types DEF IInv
  <1>2. Received % 2 = 0 /\ Fits(toServer, Received, batch)
    BY DEF IInv, Aligned
  <1>3. \A r \in Nat : r % 2 = 0 => r \div 2 \in Nat /\ r = 2 * (r \div 2)
    OBVIOUS
  <1>4. PICK m \in Nat : Received = 2 * m
    <2> HIDE DEF Received
    <2> QED
      BY <1>1, <1>2, <1>3
  <1>5. /\ 2 * m + Len(toServer) <= 2 * Len(batch)
        /\ \A k \in 1 .. Len(toServer) : toServer[k] = PieceAt(batch, 2 * m + k)
    BY <1>2, <1>4 DEF Fits
  <1>6. m + 1 \in 1 .. Len(batch)
    <2>1. \A l, b \in Nat : l >= 2 /\ 2 * m + l <= 2 * b => m + 1 \in 1 .. b
      OBVIOUS
    <2> QED
      BY <1>1, <1>5, <2>1
  <1>7. 1 \in 1 .. Len(toServer) /\ 2 \in 1 .. Len(toServer)
    BY <1>1
  <1>8. toServer[1] = PieceAt(batch, 2 * m + 1) /\ toServer[2] = PieceAt(batch, 2 * m + 2)
    BY <1>5, <1>7
  <1>9. /\ toServer[1] = [id |-> batch[m + 1], part |-> 1]
        /\ toServer[2] = [id |-> batch[m + 1], part |-> 2]
    BY <1>8, NextPieces
  <1> QED
    BY <1>4, <1>6, <1>9

(* The two pieces of one reply.                                            *)
LEMMA OneReply ==
  ASSUME NEW id \in 1 .. Garbage
  PROVE  /\ Pieces(<<id>>) \in Seq(Piece) /\ Len(Pieces(<<id>>)) = 2
         /\ Pieces(<<id>>)[1] = [id |-> id, part |-> 1]
         /\ Pieces(<<id>>)[2] = [id |-> id, part |-> 2]
PROOF
  <1>1. <<id>> \in Seq(1 .. Garbage) /\ Len(<<id>>) = 1 /\ <<id>>[1] = id
    OBVIOUS
  <1> DEFINE one == <<id>>
  <1>2. one \in Seq(1 .. Garbage) /\ Len(one) = 1 /\ one[0 + 1] = id
    BY <1>1
  <1> HIDE DEF one
  <1>3. /\ Pieces(one) \in Seq(Piece) /\ Len(Pieces(one)) = 2 * 1
        /\ \A k \in 1 .. 2 * 1 : Pieces(one)[k] = PieceAt(one, k)
    BY <1>2, PiecesFit
  <1>4. PieceAt(one, 2 * 0 + 1) = [id |-> id, part |-> 1]
        /\ PieceAt(one, 2 * 0 + 2) = [id |-> id, part |-> 2]
    BY <1>2, NextPieces
  <1>5. Pieces(one)[1] = PieceAt(one, 2 * 0 + 1) /\ Pieces(one)[2] = PieceAt(one, 2 * 0 + 2)
    BY <1>3
  <1> QED
    BY <1>3, <1>4, <1>5 DEF one

(* The server answers a whole command: its reply comes after what is on     *)
(* its way.                                                                 *)
LEMMA ServerReplyInv == ASSUME IInv, ServerReply PROVE IInv'
PROOF
  <1> DEFINE id    == toServer[1].id
             reply == Pieces(<<id>>)
             left  == Rest(toServer, 2)
  <1>1. /\ link = "up" /\ Len(toServer) >= 2 /\ toServer' = left /\ toClient' = toClient \o reply
        /\ timeouts' = timeouts /\ state' = state /\ socket' = socket /\ buf' = buf
        /\ partial' = partial /\ pc' = pc /\ batch' = batch /\ toWrite' = toWrite
        /\ responses' = responses /\ link' = link /\ cmds' = cmds
        /\ connects' = connects /\ closes' = closes /\ drops' = drops /\ returned' = returned
        /\ reported' = reported /\ late' = late
    BY DEF ServerReply, call, counts
  <1>2. /\ toServer \in Seq(Piece) /\ toClient \in Seq(Piece) /\ batch \in Seq(Cmd)
        /\ Len(toServer) \in Nat /\ Len(toClient) \in Nat /\ Received \in Nat
        /\ Parsed \in Nat /\ Len(buf) \in Nat /\ Len(batch) \in Nat
    BY Types DEF IInv
  <1>3. id \in 1 .. Garbage
    <2>1. 1 \in 1 .. Len(toServer)
      BY <1>1, <1>2
    <2>2. toServer[1] \in Piece
      BY <1>2, <2>1, ElementOfSeq
    <2> QED
      BY <2>2 DEF Piece
  <1>4. /\ reply \in Seq(Piece) /\ Len(reply) = 2
        /\ reply[1] = [id |-> id, part |-> 1] /\ reply[2] = [id |-> id, part |-> 2]
    BY <1>3, OneReply
  <1>5. left \in Seq(Piece) /\ Len(left) = Len(toServer) - 2
    <2>1. PICK n \in Nat : n = 2
      OBVIOUS
    <2>2. n <= Len(toServer)
      BY <1>1, <2>1
    <2>3. Rest(toServer, n) \in Seq(Piece) /\ Len(Rest(toServer, n)) = Len(toServer) - n
      BY <1>2, <2>2, Cut
    <2> QED
      BY <2>1, <2>3, Zenon
  <1>6. toClient \o reply \in Seq(Piece) /\ Len(toClient \o reply) = Len(toClient) + 2
    <2>1. reply \in Seq(Piece) /\ Len(reply) = 2
      BY <1>4
    <2> HIDE DEF reply
    <2>2. toClient \o reply \in Seq(Piece) /\ Len(toClient \o reply) = Len(toClient) + Len(reply)
      BY <1>2, <2>1, ConcatProperties
    <2> QED
      BY <2>1, <2>2
  <1>7. ASSUME ~late
        PROVE  /\ Fits(toClient \o reply, Parsed + Len(buf), batch)
               /\ Fits(left, Received + 2, batch)
    <2>1. PICK m \in Nat : /\ Received = 2 * m /\ m + 1 \in 1 .. Len(batch)
                           /\ toServer[1] = [id |-> batch[m + 1], part |-> 1]
                           /\ toServer[2] = [id |-> batch[m + 1], part |-> 2]
      BY <1>1, <1>7, WholeCommand
    <2>2. id = batch[m + 1]
      BY <2>1
    <2>3. Fits(left, Received + 2, batch)
      <3>1. Fits(toServer, Received, batch) /\ 2 \in Nat
        BY <1>1, <1>7 DEF IInv, Aligned
      <3> QED
        BY <1>1, <1>2, <3>1, FitsCut
    <2>4. Fits(reply, Received, batch)
      <3> HIDE DEF id, reply, Received
      <3>1. PieceAt(batch, 2 * m + 1) = [id |-> id, part |-> 1]
            /\ PieceAt(batch, 2 * m + 2) = [id |-> id, part |-> 2]
        BY <2>1, <2>2, NextPieces
      <3>2. reply[1] = PieceAt(batch, Received + 1) /\ reply[2] = PieceAt(batch, Received + 2)
        BY <1>4, <2>1, <3>1
      <3>3. Received + Len(reply) <= 2 * Len(batch)
        BY <1>2, <1>4, <2>1
      <3>4. ASSUME NEW k \in 1 .. Len(reply) PROVE reply[k] = PieceAt(batch, Received + k)
        <4>1. k = 1 \/ k = 2
          BY <1>4
        <4> QED
          BY <3>2, <4>1
      <3> QED
        BY <3>3, <3>4 DEF Fits
    <2>5. Received = (Parsed + Len(buf)) + Len(toClient) /\ Parsed + Len(buf) \in Nat
      BY <1>2 DEF Received
    <2>6. Fits(toClient, Parsed + Len(buf), batch)
      BY <1>7 DEF IInv, Aligned
    <2>7. Fits(reply, (Parsed + Len(buf)) + Len(toClient), batch)
      BY <2>4, <2>5
    <2>8. Fits(toClient \o reply, Parsed + Len(buf), batch)
      <3> HIDE DEF reply
      <3> QED
        BY <1>2, <1>4, <2>5, <2>6, <2>7, FitsConcat
    <2> QED
      BY <2>3, <2>8
  <1> HIDE DEF id, reply, left
  <1>8. TypeOK'
    BY <1>1, <1>5, <1>6 DEF IInv, TypeOK
  <1>9. Placed'
    BY <1>1 DEF IInv, Placed
  <1>10. Links'
    BY <1>1 DEF IInv, Links
  <1>11. Aligned'
    <2>1. CASE late
      BY <1>1, <2>1 DEF Aligned
    <2>2. CASE ~late
      <3>1. Parsed' = Parsed
        BY <1>1 DEF Parsed
      <3>2. Received' = Received + 2
        BY <1>1, <1>2, <1>6, <3>1 DEF Received
      <3>3. Received' % 2 = 0
        <4>1. Received % 2 = 0
          BY <1>1, <2>2 DEF IInv, Aligned
        <4>2. \A r \in Nat : r % 2 = 0 => (r + 2) % 2 = 0
          OBVIOUS
        <4> HIDE DEF Received
        <4> QED
          BY <1>2, <3>2, <4>1, <4>2
      <3>4. Received' + Len(toServer') = Received + Len(toServer)
        <4> HIDE DEF Received
        <4> QED
          BY <1>1, <1>2, <1>5, <3>2
      <3>5. Fits(toClient', Parsed' + Len(buf'), batch')
        BY <1>1, <1>7, <2>2, <3>1
      <3>6. Fits(toServer', Received', batch')
        BY <1>1, <1>7, <2>2, <3>2
      <3>7. /\ Fits(toWrite', Received' + Len(toServer'), batch')
            /\ Received' + Len(toServer') + Len(toWrite') = 2 * Len(batch')
        BY <1>1, <2>2, <3>4 DEF IInv, Aligned
      <3>8. /\ \A k \in 1 .. Len(responses') : responses'[k] = batch'[k]
            /\ partial' # None => Len(responses') < Len(batch')
                                  /\ partial' = batch'[Len(responses') + 1]
            /\ Fits(buf', Parsed', batch')
        BY <1>1, <2>2, <3>1 DEF IInv, Aligned
      <3> QED
        BY <3>3, <3>5, <3>6, <3>7, <3>8 DEF Aligned
    <2> QED
      BY <2>1, <2>2
  <1> QED
    BY <1>8, <1>9, <1>10, <1>11 DEF IInv

(* The server meets no command that was cut off, unless an earlier call     *)
(* failed.                                                                  *)
LEMMA ServerErrorInv == ASSUME IInv, ServerError PROVE IInv'
PROOF
  <1>1. /\ link = "up" /\ Len(toServer) >= 2 /\ toServer[1].id # toServer[2].id
        /\ link' = "down" /\ toServer' = <<>> /\ toClient' = toClient \o Pieces(<<Garbage>>)
        /\ timeouts' = timeouts /\ state' = state /\ socket' = socket /\ buf' = buf
        /\ partial' = partial /\ pc' = pc /\ batch' = batch /\ toWrite' = toWrite
        /\ responses' = responses /\ cmds' = cmds
        /\ connects' = connects /\ closes' = closes /\ drops' = drops /\ returned' = returned
        /\ reported' = reported /\ late' = late
    BY DEF ServerError, call, counts
  <1>2. late
    <2> SUFFICES ASSUME ~late PROVE FALSE
      OBVIOUS
    <2>1. PICK m \in Nat : /\ toServer[1] = [id |-> batch[m + 1], part |-> 1]
                           /\ toServer[2] = [id |-> batch[m + 1], part |-> 2]
      BY <1>1, WholeCommand
    <2> QED
      BY <1>1, <2>1
  <1>3. toClient' \in Seq(Piece) /\ <<>> \in Seq(Piece)
    <2>1. Garbage \in 1 .. Garbage
      BY SyncAssumption DEF Garbage
    <2>2. Pieces(<<Garbage>>) \in Seq(Piece) /\ toClient \in Seq(Piece)
      BY <2>1, OneReply, Types DEF IInv
    <2> HIDE DEF Pieces
    <2> QED
      BY <1>1, <2>2, ConcatProperties, EmptySeq
  <1>4. TypeOK'
    BY <1>1, <1>3, ZenonT(60) DEF IInv, TypeOK
  <1>5. Placed' /\ Links'
    BY <1>1 DEF IInv, Placed, Links
  <1>6. Aligned'
    BY <1>1, <1>2 DEF Aligned
  <1> QED
    BY <1>4, <1>5, <1>6 DEF IInv

(* The connection is lost: a first part of what was on its way remains.    *)
LEMMA DropInv == ASSUME IInv, NEW arrives \in 0 .. Len(toClient), Drop(arrives) PROVE IInv'
PROOF
  <1>1. /\ link = "up" /\ link' = "down" /\ drops < MaxDrops /\ drops' = drops + 1
        /\ toServer' = <<>> /\ toClient' = SubSeq(toClient, 1, arrives)
        /\ timeouts' = timeouts /\ state' = state /\ socket' = socket /\ buf' = buf
        /\ partial' = partial /\ pc' = pc /\ batch' = batch /\ toWrite' = toWrite
        /\ responses' = responses /\ cmds' = cmds
        /\ connects' = connects /\ closes' = closes /\ returned' = returned
        /\ reported' = reported /\ late' = late
    BY DEF Drop, call
  <1>2. /\ toClient \in Seq(Piece) /\ batch \in Seq(Cmd) /\ Parsed + Len(buf) \in Nat
        /\ arrives \in Nat /\ arrives <= Len(toClient)
    <2>1. Len(toClient) \in Nat
      BY Types DEF IInv
    <2> QED
      BY <2>1, Types DEF IInv
  <1>3. toClient' \in Seq(Piece) /\ <<>> \in Seq(Piece)
    BY <1>1, <1>2, Cut, EmptySeq
  <1>4. TypeOK'
    <2>1. drops' \in 0 .. MaxDrops
      BY <1>1, SyncAssumption DEF IInv, TypeOK
    <2> QED
      BY <1>1, <1>3, <2>1 DEF IInv, TypeOK
  <1>5. Placed' /\ Links'
    BY <1>1 DEF IInv, Placed, Links
  <1>6. Parsed' = Parsed
    BY <1>1 DEF Parsed
  <1>7. ~late => Fits(toClient', Parsed + Len(buf), batch)
    <2>1. ~late => Fits(toClient, Parsed + Len(buf), batch)
      BY DEF IInv, Aligned
    <2> QED
      BY <1>1, <1>2, <2>1, FitsCut
  <1>8. Aligned'
    BY <1>1, <1>6, <1>7 DEF IInv, Aligned
  <1> QED
    BY <1>4, <1>5, <1>8 DEF IInv

-----------------------------------------------------------------------------
(* The theorems.                                                           *)

LEMMA InitInv == Init => IInv
PROOF
  <1> SUFFICES ASSUME Init PROVE IInv
    OBVIOUS
  <1>1. /\ timeouts = [connect |-> Default, command |-> Default]
        /\ state = "Unconnected" /\ socket = "closed" /\ buf = <<>> /\ partial = None
        /\ pc = "idle" /\ batch = <<>> /\ toWrite = <<>> /\ responses = <<>>
        /\ link = "none" /\ toServer = <<>> /\ toClient = <<>>
        /\ cmds = 0 /\ connects = 0 /\ closes = 0 /\ drops = 0
        /\ returned = [how |-> "none", asked |-> <<>>, values |-> <<>>]
        /\ reported = [up |-> FALSE, ok |-> FALSE] /\ late = FALSE
    BY DEF Init, Nothing
  <1>2. TypeOK
    <2>1. <<>> \in Seq(Piece) /\ <<>> \in Seq(Cmd) /\ <<>> \in Seq(0 .. Garbage)
      BY EmptySeq
    <2>2. /\ 0 \in 0 .. MaxCmds /\ 0 \in 0 .. MaxConnects /\ 0 \in 0 .. MaxCloses
          /\ 0 \in 0 .. MaxDrops /\ None \in 0 .. Garbage
      BY SyncAssumption DEF None, Garbage
    <2>3. timeouts \in [{"connect", "command"} -> Timeouts \cup {Default}]
      BY <1>1
    <2>4. returned.how = "none" /\ returned.asked = <<>> /\ returned.values = <<>>
      BY <1>1
    <2>5. reported \in [up : BOOLEAN, ok : BOOLEAN] /\ late \in BOOLEAN
      BY <1>1
    <2> QED
      BY <1>1, <2>1, <2>2, <2>3, <2>4, <2>5 DEF TypeOK
  <1>3. Placed /\ Links
    BY <1>1 DEF Placed, Links
  <1>4. Aligned
    <2>1. Len(<<>>) = 0 /\ 1 .. 0 = {}
      OBVIOUS
    <2>2. Fits(<<>>, 0, <<>>)
      BY <2>1 DEF Fits
    <2>3. Parsed = 0
      BY <1>1, <2>1 DEF Parsed
    <2>4. Received = 0
      BY <1>1, <2>1, <2>3 DEF Received
    <2> QED
      BY <1>1, <2>1, <2>2, <2>3, <2>4 DEF Aligned
  <1> QED
    BY <1>2, <1>3, <1>4 DEF IInv

\* What a step shows besides keeping the invariant.
Good ==
  /\ ~late /\ pc = "reading" /\ returned' # returned /\ returned'.how = "values"
       => returned'.values = batch
  /\ pc = "reading" /\ ~late /\ link = "up" /\ returned' # returned /\ returned'.how = "error"
       => toServer # <<>>

LEMMA StepInv == IInv /\ [Next]_vars => IInv' /\ Good
PROOF
  <1> SUFFICES ASSUME IInv, [Next]_vars PROVE IInv' /\ Good
    OBVIOUS
  <1>1. ASSUME NEW via \in {"tcp", "local"}, Connect(via) PROVE IInv' /\ Good
    BY <1>1, ConnectInv DEF Connect, Good
  <1>2. CASE Disconnect
    BY <1>2, DisconnectInv DEF Disconnect, Good
  <1>3. CASE SetTimeout
    BY <1>3, SetTimeoutInv DEF SetTimeout, Good
  <1>4. CASE Renew
    BY <1>4, RenewInv DEF Renew, Good
  <1>5. ASSUME NEW n \in 1 .. MaxBatch, Call(n) PROVE IInv' /\ Good
    BY <1>5, CallInv DEF Call, Good
  <1>6. ASSUME NEW n \in 1 .. 2 * MaxBatch, WriteSome(n) PROVE IInv' /\ Good
    BY <1>6, WriteSomeInv DEF WriteSome, Good
  <1>7. CASE WriteFails
    BY <1>7, WriteFailsInv DEF WriteFails, Good
  <1>8. ASSUME NEW n \in 1 .. 2 * MaxCmds + 2, ReadSome(n) PROVE IInv' /\ Good
    BY <1>8, ReadSomeInv DEF ReadSome, Good
  <1>9. CASE ReadFails
    BY <1>9, ReadFailsInv DEF Good
  <1>10. CASE ParseNext
    BY <1>10, ParseNextInv DEF Good
  <1>11. CASE ParseMixed
    BY <1>11, ParseMixedInv DEF Good
  <1>12. ASSUME NEW to \in {"up", "down"}, LateConnect(to) PROVE IInv' /\ Good
    BY <1>12, LateConnectInv DEF LateConnect, Good
  <1>13. CASE ServerReply
    BY <1>13, ServerReplyInv DEF ServerReply, Good
  <1>14. CASE ServerError
    BY <1>14, ServerErrorInv DEF ServerError, Good
  <1>15. ASSUME NEW arrives \in 0 .. Len(toClient), Drop(arrives) PROVE IInv' /\ Good
    BY <1>15, DropInv DEF Drop, Good
  <1>16. CASE UNCHANGED vars
    <2>1. /\ timeouts' = timeouts /\ state' = state /\ socket' = socket /\ buf' = buf
          /\ partial' = partial /\ pc' = pc /\ batch' = batch /\ toWrite' = toWrite
          /\ responses' = responses /\ link' = link /\ toServer' = toServer
          /\ toClient' = toClient /\ cmds' = cmds
          /\ connects' = connects /\ closes' = closes /\ drops' = drops /\ returned' = returned
          /\ reported' = reported /\ late' = late
      BY <1>16 DEF vars, call, wire, counts
    <2>2. TypeOK' /\ Placed' /\ Links'
      BY <2>1 DEF IInv, TypeOK, Placed, Links
    <2>3. Aligned'
      BY <2>1, SameAligned DEF IInv
    <2> QED
      BY <2>1, <2>2, <2>3 DEF IInv, Good
  <1>17. CASE App
    BY <1>1, <1>2, <1>3, <1>4, <1>5, <1>17 DEF App
  <1>18. CASE Client
    BY <1>6, <1>7, <1>8, <1>9, <1>10, <1>11, <1>18 DEF Client, Writing, Reading
  <1>19. CASE Network
    BY <1>12, <1>13, <1>14, <1>15, <1>19 DEF Network
  <1> QED
    BY <1>16, <1>17, <1>18, <1>19 DEF Next

LEMMA Invariance == Spec => []IInv
PROOF
  <1>1. IInv /\ [Next]_vars => IInv'
    BY StepInv
  <1> QED
    BY InitInv, <1>1, PTL DEF Spec

(* Every variable keeps its type, for any bounds and any timeouts.         *)
THEOREM SyncTypeCorrect == Spec => []TypeOK
PROOF
  <1>1. IInv => TypeOK
    BY DEF IInv
  <1> QED
    BY Invariance, <1>1, PTL

(* Between two calls nothing is under way that the next call could take    *)
(* for its own, unless an earlier call of the connection failed.           *)
THEOREM SyncQuiet == Spec => []Quiet
PROOF
  <1>1. IInv => Quiet
    BY IdleEmpty DEF Quiet
  <1> QED
    BY Invariance, <1>1, PTL

(* A call that returns values returns the replies to its own commands, in   *)
(* their order, however writes and reads are cut.                           *)
THEOREM SyncOwnReplies == Spec => OwnReplies
PROOF
  <1>1. IInv /\ [Next]_vars
          => [~late /\ pc = "reading" /\ returned' # returned /\ returned'.how = "values"
                => returned'.values = batch]_vars
    BY StepInv DEF Good
  <1> QED
    BY Invariance, <1>1, PTL DEF Spec, OwnReplies

(* A call that fails on a connection that is up has not received all the    *)
(* server answered in vain: a part of its batch is still with the server.   *)
THEOREM SyncNoVainWait == Spec => NoVainWait
PROOF
  <1>1. IInv /\ [Next]_vars
          => [pc = "reading" /\ ~late /\ link = "up" /\ returned' # returned
                /\ returned'.how = "error"
                => toServer # <<>>]_vars
    BY StepInv DEF Good
  <1> QED
    BY Invariance, <1>1, PTL DEF Spec, NoVainWait

-----------------------------------------------------------------------------
(* The examples.  A step of a program is a step of the client or none.      *)

\* The programs look at what a call returned before they make the next: while one
\* goes on nothing is left behind by an earlier call, but by the call it is about
\* to look at, which then has failed.
Careful ==
  program # "any" =>
    /\ ~Misled /\ exit # "abort"
    /\ pc # "idle" => called /\ exit = "no" /\ ~late /\ Main.calls[at] # "connect"
    /\ late /\ exit = "no" => called /\ Failed

LEMMA ExampleStep == [ExampleNext]_allVars => [Next]_vars
PROOF
  <1> SUFFICES ASSUME [ExampleNext]_allVars PROVE [Next]_vars
    OBVIOUS
  <1>1. 1 \in 1 .. MaxBatch /\ MaxBatch \in 1 .. MaxBatch
    BY SyncAssumption
  <1>2. CASE MakeCall
    <2>1. SetTimeout \/ Connect("tcp") \/ Call(1) \/ Call(MaxBatch)
      BY <1>2 DEF MakeCall
    <2> QED
      BY <1>1, <2>1 DEF Next, App
  <1>3. CASE PrintOPSTooEarly \/ LookAtResult
    BY <1>3 DEF PrintOPSTooEarly, LookAtResult
  <1>4. CASE App \/ Client \/ Network
    BY <1>4 DEF Next
  <1>5. CASE UNCHANGED allVars
    BY <1>5 DEF allVars
  <1> QED
    BY <1>2, <1>3, <1>4, <1>5 DEF ExampleNext

LEMMA InitCareful == ExampleInit => IInv /\ Careful
PROOF
  <1> SUFFICES ASSUME ExampleInit PROVE IInv /\ Careful
    OBVIOUS
  <1>1. IInv
    BY InitInv DEF ExampleInit
  <1>2. pc = "idle" /\ late = FALSE /\ returned.how = "none" /\ exit = "no"
    BY DEF ExampleInit, Init, Nothing
  <1> QED
    BY <1>1, <1>2 DEF Careful, Misled

\* A program is at the same call, and what the last one came to has not changed.
LEMMA SameFailed ==
  ASSUME UNCHANGED <<program, at, reported, returned>>
  PROVE  /\ Main' = Main /\ Main'.calls[at'] = Main.calls[at]
         /\ Failed' = Failed /\ Misled' = Misled
PROOF
  <1>1. program' = program /\ at' = at /\ reported' = reported /\ returned' = returned
    OBVIOUS
  <1>2. Main' = Main
    BY <1>1 DEF Main
  <1> QED
    BY <1>1, <1>2 DEF Failed, Misled

LEMMA MakeCallCareful ==
  ASSUME IInv, Careful, program # "any", MakeCall
  PROVE  Careful'
PROOF
  <1>1. /\ exit = "no" /\ pc = "idle" /\ ~called /\ called' = TRUE
        /\ program' = program /\ at' = at /\ exit' = exit
    BY DEF MakeCall, Comes, Running
  <1>2. ~late /\ ~Misled
    BY <1>1 DEF Careful
  <1>3. CASE SetTimeout
    <2>1. late' = late /\ pc' = pc /\ returned' = returned
      BY <1>3 DEF SetTimeout, call
    <2> QED
      BY <1>1, <1>2, <2>1 DEF Careful, Misled
  <1>4. CASE Connect("tcp")
    <2>1. buf = <<>> /\ partial = None
      BY <1>1, <1>2, IdleEmpty
    <2>2. pc' = pc /\ returned' = returned
      BY <1>4 DEF Connect, call
    <2>3. ~late'
      BY <1>2, <1>4, <2>1 DEF Connect
    <2> QED
      BY <1>1, <1>2, <2>2, <2>3 DEF Careful, Misled
  <1>5. ASSUME NEW n, Call(n), Main.calls[at] # "connect" PROVE Careful'
    <2>1. late' = late /\ returned'.how # "values"
      BY <1>5 DEF Call, Nothing
    <2>2. Main'.calls[at'] # "connect"
      BY <1>1, <1>5 DEF Main
    <2> QED
      BY <1>1, <1>2, <2>1, <2>2 DEF Careful, Misled
  <1>6. CASE Comes("command") /\ Call(1)
    BY <1>5, <1>6 DEF Comes
  <1>7. CASE Comes("pipeline") /\ Call(MaxBatch)
    BY <1>5, <1>7 DEF Comes
  <1>8. CASE Comes("printOPS") /\ Call(1)
    BY <1>5, <1>8 DEF Comes
  <1> QED
    BY <1>3, <1>4, <1>6, <1>7, <1>8 DEF MakeCall

LEMMA LookAtResultCareful ==
  ASSUME Careful, program # "any", LookAtResult
  PROVE  Careful'
PROOF
  <1>1. /\ exit = "no" /\ pc = "idle" /\ called /\ ~called'
        /\ UNCHANGED <<vars, program>>
    BY DEF LookAtResult, Running
  <1>2. pc' = pc /\ late' = late /\ returned' = returned
    BY <1>1 DEF vars, call
  <1>3. ~Misled /\ ~Misled'
    BY <1>2 DEF Careful, Misled
  <1>4. CASE Failed
    <2>1. exit' = "failure"
      BY <1>4 DEF LookAtResult
    <2> QED
      BY <1>1, <1>2, <1>3, <2>1 DEF Careful
  <1>5. CASE ~Failed
    <2>1. exit' \in {"success", "no"}
      BY <1>3, <1>5 DEF LookAtResult
    <2>2. ~late
      BY <1>1, <1>5 DEF Careful
    <2> QED
      BY <1>1, <1>2, <1>3, <2>1, <2>2 DEF Careful
  <1> QED
    BY <1>4, <1>5

\* How a step of a call comes to its end, if it does.
Ends ==
  /\ pc # "idle" /\ reported' = reported
  /\ \/ UNCHANGED <<late, returned>>
     \/ Fails
     \/ /\ late' = late /\ pc = "reading"
        /\ \E value : Returns("values", Append(responses, value))

LEMMA ClientEnds == Client => Ends
PROOF
  <1> SUFFICES ASSUME Client PROVE Ends
    OBVIOUS
  <1>1. ASSUME NEW n, WriteSome(n) PROVE Ends
    BY <1>1 DEF WriteSome, Ends
  <1>2. CASE WriteFails \/ ReadFails
    BY <1>2 DEF WriteFails, ReadFails, Ends
  <1>3. ASSUME NEW n, ReadSome(n) PROVE Ends
    BY <1>3 DEF ReadSome, Ends
  <1>4. ASSUME NEW value, Respond(value), pc = "reading", late' = late, reported' = reported
        PROVE  Ends
    BY <1>4 DEF Respond, Ends
  <1>5. CASE ParseNext
    <2>1. pc = "reading" /\ late' = late /\ reported' = reported
      BY <1>5 DEF ParseNext
    <2>2. CASE UNCHANGED <<call, returned>>
      BY <2>1, <2>2 DEF Ends
    <2>3. CASE \E value : Respond(value)
      BY <1>4, <2>1, <2>3
    <2> QED
      BY <1>5, <2>2, <2>3 DEF ParseNext
  <1>6. CASE ParseMixed
    <2>1. pc = "reading" /\ reported' = reported
      BY <1>6 DEF ParseMixed
    <2>2. CASE UNCHANGED <<call, returned, late>>
      BY <2>1, <2>2 DEF Ends
    <2>3. CASE late' = late /\ \E value : Respond(value)
      BY <1>4, <2>1, <2>3
    <2>4. CASE Fails
      BY <2>1, <2>4 DEF Ends
    <2> QED
      BY <1>6, <2>2, <2>3, <2>4 DEF ParseMixed
  <1>8. CASE Writing
    <2>1. PICK n \in 1 .. 2 * MaxBatch : WriteSome(n)
      BY <1>8 DEF Writing
    <2> QED
      BY <1>1, <2>1
  <1>9. CASE Reading
    <2>1. PICK n \in 1 .. 2 * MaxCmds + 2 : ReadSome(n)
      BY <1>9 DEF Reading
    <2> QED
      BY <1>3, <2>1
  <1> QED
    BY <1>2, <1>5, <1>6, <1>8, <1>9 DEF Client

LEMMA ClientCareful ==
  ASSUME IInv, Careful, program # "any", Client, UNCHANGED main
  PROVE  Careful'
PROOF
  <1>1. program' = program /\ at' = at /\ called' = called /\ exit' = exit
    BY DEF main
  <1>2. pc # "idle" /\ reported' = reported
    BY ClientEnds DEF Ends
  <1>3. called /\ exit = "no" /\ ~late /\ ~Misled /\ Main.calls[at] # "connect"
    BY <1>2 DEF Careful
  <1>4. Main' = Main /\ Main'.calls[at'] # "connect"
    <2>1. Main' = Main
      BY <1>1 DEF Main
    <2> QED
      BY <1>1, <1>3, <2>1
  <1>5. Good
    BY StepInv DEF Next
  <1>6. CASE late' = late /\ returned' = returned
    <2>1. ~Misled'
      BY <1>3, <1>6 DEF Misled
    <2> QED
      BY <1>1, <1>3, <1>4, <1>6, <2>1 DEF Careful
  <1>7. CASE Fails
    <2>1. pc' = "idle" /\ returned'.how = "error"
      BY <1>7 DEF Fails, Returns
    <2>2. Failed' /\ ~Misled'
      BY <1>4, <2>1 DEF Failed, Misled
    <2> QED
      BY <1>1, <1>3, <2>1, <2>2 DEF Careful
  <1>8. ASSUME NEW value, late' = late, pc = "reading",
               Returns("values", Append(responses, value))
        PROVE  Careful'
    <2>1. returned'.how = "values" /\ returned'.asked = batch
      BY <1>8 DEF Returns
    <2>2. CASE returned' = returned
      BY <1>6, <1>8, <2>2
    <2>3. CASE returned' # returned
      <3>1. returned'.values = batch
        BY <1>3, <1>5, <1>8, <2>1, <2>3 DEF Good
      <3>2. ~Misled'
        BY <2>1, <3>1 DEF Misled
      <3> QED
        BY <1>1, <1>3, <1>4, <1>8, <3>2 DEF Careful
    <2> QED
      BY <2>2, <2>3
  <1> QED
    BY <1>6, <1>7, <1>8, ClientEnds DEF Ends

LEMMA SameCareful ==
  ASSUME Careful, UNCHANGED main, UNCHANGED <<pc, late, returned, reported>>
  PROVE  Careful'
PROOF
  <1>1. /\ program' = program /\ at' = at /\ called' = called /\ exit' = exit
        /\ pc' = pc /\ late' = late /\ returned' = returned /\ reported' = reported
    BY DEF main
  <1>2. Main'.calls[at'] = Main.calls[at] /\ Failed' = Failed /\ Misled' = Misled
    BY <1>1, SameFailed
  <1> QED
    BY <1>1, <1>2 DEF Careful

LEMMA StepCareful == IInv /\ Careful /\ [ExampleNext]_allVars => Careful'
PROOF
  <1> SUFFICES ASSUME IInv, Careful, [ExampleNext]_allVars PROVE Careful'
    OBVIOUS
  <1>1. CASE program = "any" /\ program' = program
    BY <1>1 DEF Careful
  <1>2. CASE program # "any" /\ MakeCall
    BY <1>2, MakeCallCareful
  <1>3. CASE program # "any" /\ LookAtResult
    BY <1>3, LookAtResultCareful
  <1>4. CASE program # "any" /\ Client /\ UNCHANGED main
    BY <1>4, ClientCareful
  <1>5. CASE Network /\ UNCHANGED main
    <2>1. UNCHANGED <<pc, late, returned, reported>>
      BY <1>5 DEF Network, LateConnect, ServerReply, ServerError, Drop, call
    <2> QED
      BY <1>5, <2>1, SameCareful
  <1>6. CASE program # "any" /\ PrintOPSTooEarly
    <2>1. /\ exit = "no" /\ pc = "idle" /\ ~called
          /\ pc' = pc /\ late' = late /\ returned' = returned /\ exit' = exit
      BY <1>6 DEF PrintOPSTooEarly, Comes, Running, vars, call
    <2>2. ~late /\ ~Misled /\ ~Misled'
      BY <1>6, <2>1 DEF Careful, Misled
    <2> QED
      BY <2>1, <2>2 DEF Careful
  <1>7. CASE UNCHANGED allVars
    <2>1. UNCHANGED main /\ UNCHANGED <<pc, late, returned, reported>>
      BY <1>7 DEF allVars, vars, call
    <2> QED
      BY <2>1, SameCareful
  <1>8. program' = program
    BY DEF ExampleNext, MakeCall, PrintOPSTooEarly, LookAtResult, main, allVars
  <1> QED
    BY <1>1, <1>2, <1>3, <1>4, <1>5, <1>6, <1>7, <1>8 DEF ExampleNext

(* The examples are clients: whatever holds of every execution of the       *)
(* client holds with each of these programs.                                *)
THEOREM ExamplesAreClients == ExampleSpec => Spec
PROOF
  <1>1. ExampleInit => Init
    BY DEF ExampleInit
  <1> QED
    BY <1>1, ExampleStep, PTL DEF ExampleSpec, Spec

(* No example is given the reply to another command than the one it has     *)
(* sent, however writes and reads are cut and whatever fails.               *)
THEOREM ExamplesNeverMisled == ExampleSpec => []NeverMisled
PROOF
  <1>1. IInv /\ Careful /\ [ExampleNext]_allVars => (IInv /\ Careful)'
    BY ExampleStep, StepInv, StepCareful
  <1>2. Careful => NeverMisled
    BY DEF Careful, NeverMisled
  <1> QED
    BY InitCareful, <1>1, <1>2, PTL DEF ExampleSpec
=============================================================================
