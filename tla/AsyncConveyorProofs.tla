------------------------ MODULE AsyncConveyorProofs ------------------------
(***************************************************************************)
(* Proofs about AsyncClient: every reply finds the handler of its own      *)
(* command, there is one read loop, and the client keeps the promise of    *)
(* CommandQueue, for any number of commands, connections and drops, until  *)
(* a disconnect() leaves work behind that close() forgets.                 *)
(***************************************************************************)
EXTENDS AsyncClientProofs, FiniteSetTheorems

-----------------------------------------------------------------------------
(* A stream of replies and commands: the handlers `a` to be called fit the  *)
(* replies `x` of the block in hand and `y` still to be read, followed by   *)
(* something, which on a live connection is the commands `s` at the server  *)
(* and `u` not sent yet.                                                    *)
Any == 1 .. Garbage
Fits(a, x, y, up, s, u) ==
  \E w \in Seq(Any) : a = (x \o y) \o w /\ (up => w = s \o u)

(* Associativity, for sequences of replies and commands: a name of its own  *)
(* keeps the equation from being rewritten over and over.                   *)
Regroup(r, s, t) == (r \o s) \o t = r \o (s \o t)
LEMMA Assoc == \A r, s, t \in Seq(Any) : Regroup(r, s, t)
PROOF
  <1> SUFFICES ASSUME NEW r \in Seq(Any), NEW s \in Seq(Any), NEW t \in Seq(Any)
               PROVE  (r \o s) \o t = r \o (s \o t)
    BY DEF Regroup
  <1> QED
    BY ConcatAssociative

(* Without commands everything fits.                                        *)
LEMMA FitsEmpty ==
  ASSUME NEW up
  PROVE  Fits(<<>>, <<>>, <<>>, up, <<>>, <<>>)
PROOF
  <1>1. <<>> \in Seq(Any)
    OBVIOUS
  <1>2. <<>> \o <<>> = <<>>
    BY <1>1, ConcatEmptySeq
  <1> QED
    BY <1>1, <1>2 DEF Fits

(* A command that joins the handlers and the unsent commands.               *)
LEMMA FitsIssue ==
  ASSUME NEW a \in Seq(Any), NEW x \in Seq(Any), NEW y \in Seq(Any), NEW up,
         NEW s \in Seq(Any), NEW u \in Seq(Any), NEW c \in Any, Fits(a, x, y, up, s, u)
  PROVE  Fits(Append(a, c), x, y, up, s, Append(u, c))
PROOF
  <1>1. PICK w \in Seq(Any) : a = (x \o y) \o w /\ (up => w = s \o u)
    BY DEF Fits
  <1>2. <<c>> \in Seq(Any) /\ x \o y \in Seq(Any) /\ w \o <<c>> \in Seq(Any)
    BY ConcatProperties
  <1>3. Append(a, c) = a \o <<c>> /\ Append(u, c) = u \o <<c>>
    BY AppendIsConcat
  <1>4. Append(a, c) = (x \o y) \o (w \o <<c>>)
    <2>1. Regroup(x \o y, w, <<c>>)
      BY <1>2, Assoc
    <2> QED
      BY <1>1, <1>3, <2>1 DEF Regroup
  <1>5. up => w \o <<c>> = s \o Append(u, c)
    <2>1. Regroup(s, u, <<c>>)
      BY <1>2, Assoc
    <2> QED
      BY <1>1, <1>3, <2>1 DEF Regroup
  <1> QED
    BY <1>2, <1>4, <1>5 DEF Fits

(* The first handler belongs to the first reply of the block.               *)
LEMMA FitsAnswer ==
  ASSUME NEW a \in Seq(Any), NEW x \in Seq(Any), NEW y \in Seq(Any), NEW up,
         NEW s \in Seq(Any), NEW u \in Seq(Any), x # <<>>, Fits(a, x, y, up, s, u)
  PROVE  a # <<>> /\ Head(a) = Head(x) /\ Fits(Tail(a), Tail(x), y, up, s, u)
PROOF
  <1>1. PICK w \in Seq(Any) : a = (x \o y) \o w /\ (up => w = s \o u)
    BY DEF Fits
  <1>2. y \o w \in Seq(Any) /\ a = x \o (y \o w)
    <2>1. Regroup(x, y, w)
      BY <1>1, Assoc
    <2>2. y \o w \in Seq(Any)
      BY <1>1, ConcatProperties
    <2> QED
      BY <1>1, <2>1, <2>2 DEF Regroup
  <1>3. Head(x) \in Any /\ Tail(x) \in Seq(Any) /\ x = <<Head(x)>> \o Tail(x)
    BY HeadTailProperties
  <1>4. a = <<Head(x)>> \o (Tail(x) \o (y \o w)) /\ Tail(x) \o (y \o w) \in Seq(Any)
    <2>1. Tail(x) \o (y \o w) \in Seq(Any)
      BY <1>2, <1>3, ConcatProperties
    <2>2. <<Head(x)>> \in Seq(Any)
      BY <1>3
    <2>3. Regroup(<<Head(x)>>, Tail(x), y \o w)
      BY <1>2, <1>3, <2>2, Assoc
    <2>4. PICK p \in Seq(Any), r \in Seq(Any) : p = <<Head(x)>> /\ r = Tail(x)
      BY <1>3, <2>2
    <2>5. x = p \o r /\ Regroup(p, r, y \o w)
      BY <1>3, <2>3, <2>4
    <2>6. a = p \o (r \o (y \o w))
      BY <1>2, <2>5 DEF Regroup
    <2> QED
      BY <2>1, <2>4, <2>6
  <1> DEFINE rest == Tail(x) \o (y \o w)
  <1> HIDE DEF rest
  <1>5. a = <<Head(x)>> \o rest /\ rest \in Seq(Any)
    BY <1>4 DEF rest
  <1>6. a # <<>> /\ Head(a) = Head(x) /\ Tail(a) = rest
    BY <1>3, <1>5, SMTT(30)
  <1>7. rest = (Tail(x) \o y) \o w
    <2>1. Tail(x) \in Seq(Any) /\ y \in Seq(Any) /\ w \in Seq(Any)
      BY <1>3
    <2>2. Regroup(Tail(x), y, w)
      BY <2>1, Assoc
    <2> QED
      BY <2>2 DEF rest, Regroup
  <1> QED
    BY <1>1, <1>6, <1>7 DEF Fits

(* The head of the second of two sequences may as well end the first.       *)
LEMMA MoveHead ==
  ASSUME NEW r \in Seq(Any), NEW t \in Seq(Any), t # <<>>
  PROVE  r \o t = Append(r, Head(t)) \o Tail(t)
PROOF
  <1>1. Head(t) \in Any /\ Tail(t) \in Seq(Any) /\ t = <<Head(t)>> \o Tail(t)
    BY HeadTailProperties
  <1>2. <<Head(t)>> \in Seq(Any) /\ Append(r, Head(t)) = r \o <<Head(t)>>
    BY <1>1, AppendIsConcat
  <1>3. Regroup(r, <<Head(t)>>, Tail(t))
    BY <1>1, <1>2, Assoc
  <1> QED
    BY <1>1, <1>2, <1>3 DEF Regroup

(* Appending to the second of two sequences appends to the whole.           *)
LEMMA AppendConcat ==
  ASSUME NEW r \in Seq(Any), NEW t \in Seq(Any), NEW c \in Any
  PROVE  r \o Append(t, c) = Append(r \o t, c)
PROOF
  <1>1. <<c>> \in Seq(Any) /\ r \o t \in Seq(Any)
    BY ConcatProperties
  <1>2. Append(t, c) = t \o <<c>> /\ Append(r \o t, c) = (r \o t) \o <<c>>
    BY <1>1, AppendIsConcat
  <1>3. Regroup(r, t, <<c>>)
    BY <1>1, Assoc
  <1> QED
    BY <1>2, <1>3 DEF Regroup

(* The first unsent command reaches the server.                             *)
LEMMA FitsSend ==
  ASSUME NEW a \in Seq(Any), NEW x \in Seq(Any), NEW y \in Seq(Any), NEW up,
         NEW s \in Seq(Any), NEW u \in Seq(Any), u # <<>>, Fits(a, x, y, up, s, u)
  PROVE  Fits(a, x, y, up, Append(s, Head(u)), Tail(u))
PROOF
  <1>1. PICK w \in Seq(Any) : a = (x \o y) \o w /\ (up => w = s \o u)
    BY DEF Fits
  <1>2. s \o u = Append(s, Head(u)) \o Tail(u)
    BY MoveHead
  <1> QED
    BY <1>1, <1>2 DEF Fits

(* The server answers its first command.                                    *)
LEMMA FitsReply ==
  ASSUME NEW a \in Seq(Any), NEW x \in Seq(Any), NEW y \in Seq(Any),
         NEW s \in Seq(Any), NEW u \in Seq(Any), s # <<>>, Fits(a, x, y, TRUE, s, u)
  PROVE  Fits(a, x, Append(y, Head(s)), TRUE, Tail(s), u)
PROOF
  <1>1. a = (x \o y) \o (s \o u)
    BY DEF Fits
  <1>2. PICK w \in Seq(Any) : w = s \o u
    BY ConcatProperties
  <1>3. Head(s) \in Any /\ Tail(s) \in Seq(Any) /\ Tail(s) \o u \in Seq(Any)
    BY HeadTailProperties, ConcatProperties
  <1>4. s = <<Head(s)>> \o Tail(s) /\ <<Head(s)>> \in Seq(Any)
    BY HeadTailProperties
  <1>5. w = <<Head(s)>> \o (Tail(s) \o u)
    <2>1. Regroup(<<Head(s)>>, Tail(s), u)
      BY <1>3, <1>4, Assoc
    <2> QED
      BY <1>2, <1>4, <2>1 DEF Regroup
  <1>6. w # <<>> /\ Head(w) = Head(s) /\ Tail(w) = Tail(s) \o u
    BY <1>3, <1>4, <1>5
  <1>7. x \o y \in Seq(Any)
    BY ConcatProperties
  <1>8. a = Append(x \o y, Head(s)) \o (Tail(s) \o u)
    <2>1. (x \o y) \o w = Append(x \o y, Head(w)) \o Tail(w)
      BY <1>6, <1>7, MoveHead
    <2> QED
      BY <1>1, <1>2, <1>6, <2>1
  <1>9. Append(x \o y, Head(s)) = x \o Append(y, Head(s))
    <2>1. PICK c \in Any : c = Head(s)
      BY <1>3
    <2>2. x \o Append(y, c) = Append(x \o y, c)
      BY AppendConcat
    <2> QED
      BY <2>1, <2>2
  <1> QED
    BY <1>3, <1>8, <1>9 DEF Fits

(* The replies to be read split at any point.                               *)
LEMMA SplitSeq ==
  ASSUME NEW y \in Seq(Any), NEW n \in 0 .. Len(y)
  PROVE  /\ SubSeq(y, 1, n) \in Seq(Any) /\ SubSeq(y, n + 1, Len(y)) \in Seq(Any)
         /\ SubSeq(y, 1, n) \o SubSeq(y, n + 1, Len(y)) = y
PROOF
  <1>1. /\ Len(y) \in Nat /\ 1 \in 1 .. Len(y) + 1 /\ n \in 1 - 1 .. Len(y)
        /\ Len(y) \in n .. Len(y)
    OBVIOUS
  <1>2. SubSeq(y, 1, n) \o SubSeq(y, n + 1, Len(y)) = SubSeq(y, 1, Len(y))
    BY <1>1, ConcatAdjacentSubSeq
  <1>3. \A i \in 1 .. Len(y) : y[i] \in Any
    OBVIOUS
  <1>4. SubSeq(y, 1, n) \in Seq(Any) /\ SubSeq(y, n + 1, Len(y)) \in Seq(Any)
    BY <1>3, SubSeqProperties
  <1> QED
    BY <1>2, <1>4, SubSeqFull

(* Replies that do not arrive any more.                                     *)
LEMMA FitsDrop ==
  ASSUME NEW a \in Seq(Any), NEW x \in Seq(Any), NEW y \in Seq(Any), NEW up,
         NEW s, NEW u, NEW n \in 0 .. Len(y), NEW t, NEW v, Fits(a, x, y, up, s, u)
  PROVE  Fits(a, x, SubSeq(y, 1, n), FALSE, t, v)
PROOF
  <1>1. PICK w \in Seq(Any) : a = (x \o y) \o w
    BY DEF Fits
  <1> DEFINE p == SubSeq(y, 1, n)
             q == SubSeq(y, n + 1, Len(y))
  <1> HIDE DEF p, q
  <1>2. p \in Seq(Any) /\ q \in Seq(Any) /\ p \o q = y
    BY SplitSeq DEF p, q
  <1>3. x \o p \in Seq(Any) /\ q \o w \in Seq(Any)
    BY <1>2, ConcatProperties
  <1>4. x \o y = (x \o p) \o q
    <2>1. Regroup(x, p, q)
      BY <1>2, Assoc
    <2> QED
      BY <1>2, <2>1 DEF Regroup
  <1>5. a = (x \o p) \o (q \o w)
    <2>1. x \o p \in Seq(Any) /\ q \in Seq(Any) /\ w \in Seq(Any)
      BY <1>2, <1>3
    <2>2. Regroup(x \o p, q, w)
      BY <2>1, Assoc
    <2> QED
      BY <1>1, <1>4, <2>2 DEF Regroup
  <1> QED
    BY <1>3, <1>5 DEF Fits, p

(* A read moves the first replies into the block.                           *)
LEMMA FitsRead ==
  ASSUME NEW a \in Seq(Any), NEW y \in Seq(Any), NEW up, NEW s, NEW u,
         NEW n \in 0 .. Len(y), Fits(a, <<>>, y, up, s, u)
  PROVE  Fits(a, SubSeq(y, 1, n), SubSeq(y, n + 1, Len(y)), up, s, u)
PROOF
  <1>1. <<>> \o y = y
    BY ConcatEmptySeq
  <1> QED
    BY <1>1, SplitSeq DEF Fits

(* What fits says of the whole streams.                                     *)
LEMMA FitsWhole ==
  ASSUME NEW a \in Seq(Any), NEW x \in Seq(Any), NEW y \in Seq(Any), NEW up,
         NEW s \in Seq(Any), NEW u \in Seq(Any), Fits(a, x, y, up, s, u)
  PROVE  Prefix(x \o y, a) /\ (up => a = ((x \o y) \o s) \o u)
PROOF
  <1>1. PICK w \in Seq(Any) : a = (x \o y) \o w /\ (up => w = s \o u)
    BY DEF Fits
  <1> DEFINE z == x \o y
  <1> HIDE DEF z
  <1>2. z \in Seq(Any) /\ a = z \o w
    BY <1>1, ConcatProperties DEF z
  <1>3. Prefix(z, a)
    BY <1>2, ConcatProperties DEF Prefix
  <1>4. up => a = (z \o s) \o u
    <2>1. Regroup(z, s, u)
      BY <1>2, Assoc
    <2> QED
      BY <1>1, <1>2, <2>1 DEF Regroup
  <1> QED
    BY <1>3, <1>4 DEF z

-----------------------------------------------------------------------------
(* What may wait in the io_service's queue: blocks of replies and reports   *)
(* of connections that are up.                                              *)
IsBlock(c)     == c.op = "read" /\ c.st = "ok"
IsConnected(c) == c.op = "connect" /\ c.st = "ok"

NoBlocks(q)      == \A i \in DOMAIN q : ~IsBlock(q[i])
OneBlock(q, r)   == \E b \in DOMAIN q : /\ q[b] = r /\ IsBlock(r)
                                        /\ \A i \in DOMAIN q : IsBlock(q[i]) => i = b
NoConnects(q)    == \A i \in DOMAIN q : q[i].op # "connect"
NoneConnected(q) == \A i \in DOMAIN q : ~IsConnected(q[i])
LastConnected(q) == /\ q # <<>> /\ IsConnected(q[Len(q)])
                    /\ \A i \in DOMAIN q : IsConnected(q[i]) => i = Len(q)

(* The completions q2 hold the same block, or lack of one, as q1.           *)
SameBlocks(q1, q2) ==
  /\ NoBlocks(q1) => NoBlocks(q2)
  /\ \A r \in Completion : OneBlock(q1, r) => OneBlock(q2, r)

(* A completion joins the queue.                                            *)
LEMMA AppendQueue ==
  ASSUME NEW q \in Seq(Completion), NEW c \in Completion
  PROVE  /\ ~IsBlock(c) => SameBlocks(q, Append(q, c))
         /\ IsBlock(c) /\ NoBlocks(q) => OneBlock(Append(q, c), c)
         /\ c.op # "connect" /\ NoConnects(q) => NoConnects(Append(q, c))
         /\ ~IsConnected(c) /\ NoneConnected(q) => NoneConnected(Append(q, c))
         /\ IsConnected(c) /\ NoneConnected(q) => LastConnected(Append(q, c))
PROOF
  <1> DEFINE p == Append(q, c)
  <1>1. /\ DOMAIN p = 1 .. Len(q) + 1 /\ DOMAIN q = 1 .. Len(q) /\ Len(q) \in Nat
        /\ Len(p) = Len(q) + 1 /\ p # <<>>
        /\ p[Len(q) + 1] = c /\ \A i \in 1 .. Len(q) : p[i] = q[i]
    BY AppendProperties
  <1> HIDE DEF p
  <1>2. ~IsBlock(c) => SameBlocks(q, p)
    <2> SUFFICES ASSUME ~IsBlock(c) PROVE SameBlocks(q, p)
      OBVIOUS
    <2>1. NoBlocks(q) => NoBlocks(p)
      BY <1>1 DEF NoBlocks
    <2>2. ASSUME NEW r \in Completion, OneBlock(q, r) PROVE OneBlock(p, r)
      BY <1>1, <2>2 DEF OneBlock
    <2> QED
      BY <2>1, <2>2 DEF SameBlocks
  <1>3. IsBlock(c) /\ NoBlocks(q) => OneBlock(p, c)
    BY <1>1 DEF NoBlocks, OneBlock
  <1>4. c.op # "connect" /\ NoConnects(q) => NoConnects(p)
    BY <1>1 DEF NoConnects
  <1>5. ~IsConnected(c) /\ NoneConnected(q) => NoneConnected(p)
    BY <1>1 DEF NoneConnected
  <1>6. IsConnected(c) /\ NoneConnected(q) => LastConnected(p)
    BY <1>1 DEF NoneConnected, LastConnected
  <1> QED
    BY <1>2, <1>3, <1>4, <1>5, <1>6 DEF p

(* The completion at the head leaves the queue.                             *)
LEMMA TailQueue ==
  ASSUME NEW q \in Seq(Completion), q # <<>>
  PROVE  /\ NoBlocks(q) => ~IsBlock(Head(q))
         /\ ~IsBlock(Head(q)) => SameBlocks(q, Tail(q))
         /\ \A r \in Completion :
              IsBlock(Head(q)) /\ OneBlock(q, r) => Head(q) = r /\ NoBlocks(Tail(q))
         /\ NoConnects(q) => NoConnects(Tail(q)) /\ Head(q).op # "connect"
         /\ NoneConnected(q) => NoneConnected(Tail(q)) /\ ~IsConnected(Head(q))
         /\ LastConnected(q) /\ ~IsConnected(Head(q)) => LastConnected(Tail(q))
         /\ LastConnected(q) /\ IsConnected(Head(q)) => Tail(q) = <<>>
PROOF
  <1> DEFINE p == Tail(q)
  <1>1. /\ DOMAIN p = 1 .. Len(q) - 1 /\ DOMAIN q = 1 .. Len(q) /\ Len(q) \in Nat \ {0}
        /\ Len(p) = Len(q) - 1 /\ p \in Seq(Completion)
        /\ Head(q) = q[1] /\ \A i \in 1 .. Len(q) - 1 : p[i] = q[i + 1]
    BY HeadTailProperties, LenProperties, EmptySeq
  <1>2. \A i \in 1 .. Len(q) - 1 : i + 1 \in 1 .. Len(q)
    BY <1>1
  <1>3. \A i \in 1 .. Len(q) : i # 1 => i - 1 \in 1 .. Len(q) - 1 /\ p[i - 1] = q[i]
    BY <1>1
  <1>4. Len(q) # 1 => p # <<>>
    <2>1. p = <<>> => Len(p) = 0
      BY EmptySeq
    <2> QED
      BY <1>1, <2>1
  <1>5. Len(q) = 1 => p = <<>>
    BY <1>1, EmptySeq
  <1> DEFINE h == Head(q)
  <1> HIDE DEF p, h
  <1>6. h = q[1]
    BY <1>1 DEF h
  <1>7. NoBlocks(q) => ~IsBlock(h)
    BY <1>1, <1>6 DEF NoBlocks
  <1>8. ~IsBlock(h) => SameBlocks(q, p)
    <2> SUFFICES ASSUME ~IsBlock(h) PROVE SameBlocks(q, p)
      OBVIOUS
    <2>1. NoBlocks(q) => NoBlocks(p)
      BY <1>1, <1>2 DEF NoBlocks
    <2>2. ASSUME NEW r \in Completion, OneBlock(q, r) PROVE OneBlock(p, r)
      <3>1. PICK b \in 1 .. Len(q) : /\ q[b] = r /\ IsBlock(r)
                                     /\ \A i \in 1 .. Len(q) : IsBlock(q[i]) => i = b
        BY <1>1, <2>2 DEF OneBlock
      <3>2. b # 1
        BY <1>6, <3>1
      <3>3. b - 1 \in 1 .. Len(q) - 1 /\ p[b - 1] = r
        BY <1>3, <3>1, <3>2
      <3>4. \A i \in 1 .. Len(q) - 1 : IsBlock(p[i]) => i = b - 1
        BY <1>1, <1>2, <3>1
      <3> QED
        BY <1>1, <3>1, <3>3, <3>4 DEF OneBlock
    <2> QED
      BY <2>1, <2>2 DEF SameBlocks
  <1>9. ASSUME NEW r \in Completion, IsBlock(h), OneBlock(q, r)
        PROVE  h = r /\ NoBlocks(p)
    <2>1. PICK b \in 1 .. Len(q) : /\ q[b] = r /\ IsBlock(r)
                                   /\ \A i \in 1 .. Len(q) : IsBlock(q[i]) => i = b
      BY <1>1, <1>9 DEF OneBlock
    <2>2. b = 1
      BY <1>1, <1>6, <1>9, <2>1
    <2> QED
      BY <1>1, <1>2, <1>6, <2>1, <2>2 DEF NoBlocks
  <1>10. NoConnects(q) => NoConnects(p) /\ h.op # "connect"
    <2>1. SUFFICES ASSUME NoConnects(q) PROVE NoConnects(p) /\ h.op # "connect"
      OBVIOUS
    <2>2. \A i \in 1 .. Len(q) : q[i].op # "connect"
      BY <2>1 DEF NoConnects
    <2>3. ASSUME NEW i \in 1 .. Len(p) PROVE p[i].op # "connect"
      BY <1>1, <1>2, <2>2
    <2>4. h.op # "connect"
      BY <1>1, <1>6, <2>2
    <2> QED
      BY <2>3, <2>4 DEF NoConnects
  <1>11. NoneConnected(q) => NoneConnected(p) /\ ~IsConnected(h)
    <2>1. SUFFICES ASSUME NoneConnected(q) PROVE NoneConnected(p) /\ ~IsConnected(h)
      OBVIOUS
    <2>2. \A i \in 1 .. Len(q) : ~IsConnected(q[i])
      BY <2>1 DEF NoneConnected
    <2>3. ASSUME NEW i \in 1 .. Len(p) PROVE ~IsConnected(p[i])
      BY <1>1, <1>2, <2>2
    <2>4. ~IsConnected(h)
      BY <1>1, <1>6, <2>2, SMTT(30)
    <2> QED
      BY <1>1, <2>3, <2>4 DEF NoneConnected
  <1>12. LastConnected(q) /\ ~IsConnected(h) => LastConnected(p)
    <2> SUFFICES ASSUME LastConnected(q), ~IsConnected(h) PROVE LastConnected(p)
      OBVIOUS
    <2>1. Len(q) # 1
      BY <1>6 DEF LastConnected
    <2>2. p[Len(p)] = q[Len(q)] /\ p # <<>>
      BY <1>1, <1>3, <1>4, <2>1
    <2>3. \A i \in 1 .. Len(q) - 1 : IsConnected(p[i]) => i = Len(q) - 1
      <3>1. \A i \in 1 .. Len(q) : IsConnected(q[i]) => i = Len(q)
        BY <1>1 DEF LastConnected
      <3>2. ASSUME NEW i \in 1 .. Len(q) - 1, IsConnected(p[i])
            PROVE  i = Len(q) - 1
        <4>1. IsConnected(q[i + 1]) /\ i + 1 \in 1 .. Len(q)
          BY <1>1, <3>2
        <4>2. i + 1 = Len(q)
          BY <3>1, <4>1
        <4>3. Len(q) \in Nat /\ i \in Nat
          BY <1>1
        <4> QED
          BY <4>2, <4>3
      <3> QED
        BY <3>2, ZenonT(60)
    <2> QED
      BY <1>1, <2>2, <2>3 DEF LastConnected
  <1>13. LastConnected(q) /\ IsConnected(h) => p = <<>>
    BY <1>1, <1>5, <1>6 DEF LastConnected
  <1> QED
    BY <1>7, <1>8, <1>9, <1>10, <1>11, <1>12, <1>13 DEF p, h

(* A read that overwrites the buffers leaves operations and results alone.  *)
LEMMA OverwrittenQueue ==
  ASSUME NEW q \in Seq(Completion), MaxCmds \in Nat
  PROVE  /\ NoBlocks(q) => NoBlocks(Overwritten(q))
         /\ NoConnects(q) => NoConnects(Overwritten(q))
PROOF
  <1>1. DOMAIN Overwritten(q) = DOMAIN q
    BY DEF Overwritten
  <1>2. ASSUME NEW i \in DOMAIN q
        PROVE  Overwritten(q)[i].op = q[i].op /\ Overwritten(q)[i].st = q[i].st
    <2>1. q[i] \in Completion
      OBVIOUS
    <2>2. Overwritten(q)[i] = [q[i] EXCEPT !.ids = Copies(Len(@), Garbage)]
      BY DEF Overwritten
    <2> QED
      BY <2>1, <2>2 DEF Completion
  <1> QED
    BY <1>1, <1>2 DEF NoBlocks, NoConnects, IsBlock

(* Aborted operations are neither blocks nor connections.                   *)
LEMMA ConcatAborted ==
  ASSUME NEW q \in Seq(Completion), NEW op \in Kinds, NEW n \in Nat,
         NoBlocks(q), NoneConnected(q)
  PROVE  /\ q \o Copies(n, Done(op, "aborted")) \in Seq(Completion)
         /\ NoBlocks(q \o Copies(n, Done(op, "aborted")))
         /\ NoneConnected(q \o Copies(n, Done(op, "aborted")))
PROOF
  <1> DEFINE t == Copies(n, Done(op, "aborted"))
  <1>1. Done(op, "aborted") \in Completion /\ Done(op, "aborted").st = "aborted"
    BY DoneType DEF Results, Done
  <1>2. t \in Seq(Completion) /\ Len(t) = n /\ \A i \in 1 .. n : t[i] = Done(op, "aborted")
    BY <1>1, CopiesType
  <1>3. \A i \in 1 .. Len(t) : t[i].st = "aborted"
    BY <1>1, <1>2
  <1> HIDE DEF t
  <1>4. /\ q \o t \in Seq(Completion) /\ Len(q \o t) = Len(q) + Len(t)
        /\ \A i \in 1 .. Len(q) + Len(t) :
             (q \o t)[i] = IF i <= Len(q) THEN q[i] ELSE t[i - Len(q)]
    BY <1>2, ConcatProperties
  <1>5. DOMAIN (q \o t) = 1 .. Len(q) + Len(t) /\ DOMAIN q = 1 .. Len(q)
        /\ Len(q) \in Nat /\ Len(t) \in Nat
    BY <1>2, <1>4, LenProperties
  <1>6. \A i \in 1 .. Len(q) + Len(t) :
          (i \in 1 .. Len(q) /\ (q \o t)[i] = q[i]) \/ (q \o t)[i].st = "aborted"
    BY <1>3, <1>4, <1>5
  <1>7. NoBlocks(q \o t) /\ NoneConnected(q \o t)
    BY <1>5, <1>6 DEF NoBlocks, NoneConnected, IsBlock, IsConnected
  <1> QED
    BY <1>4, <1>7 DEF t

-----------------------------------------------------------------------------
(* The inductive invariant, as long as nothing has been left behind.        *)

\* The io thread is in the event loop or in a callback that reads on no more.
Resting == {"loop", "connectErr", "readErr", "writeErr"}

\* Not connected: nothing is queued, sent, received or about to be read.
Idle ==
  /\ handlers = <<>> /\ strandq = <<>> /\ dataQueued = <<>> /\ pendWrites = <<>>
  /\ pendReads = 0 /\ NoBlocks(doneq)
  /\ atServer = <<>> /\ toClient = <<>> /\ headCut = FALSE
  /\ ctl \in Resting /\ chunk = NoBlock
  /\ \/ NoneConnected(doneq) /\ sock # "up"
     \/ LastConnected(doneq) /\ sock \in {"up", "down"} /\ partial = FALSE

\* The read loop: it has yet to start, waits, has received a block, parses one
\* or has ended.  The replies of that block are x, and after it the parser is
\* inside a reply or not, as `more` says.
ReadNothing(x, more) ==
  pendReads = 0 /\ NoBlocks(doneq) /\ chunk = NoBlock /\ x = <<>> /\ more = partial

Starting(x, more) == ctl = "connectOk" /\ ReadNothing(x, more)
Ended(x, more)    == ctl \in Resting /\ sock = "down" /\ ReadNothing(x, more)
Waiting(x, more)  == /\ ctl \in Resting /\ pendReads = 1 /\ NoBlocks(doneq)
                     /\ chunk = NoBlock /\ x = <<>> /\ more = partial
Arrived(x, more)  == /\ ctl \in Resting /\ pendReads = 0 /\ chunk = NoBlock
                     /\ \E r \in Completion : /\ OneBlock(doneq, r) /\ r.cont = partial
                                              /\ x = r.ids /\ more = r.more
Parsing(x, more)  == /\ ctl \in {"parse", "reply"} /\ pendReads = 0 /\ NoBlocks(doneq)
                     /\ ctl = "reply" => handlers # <<>>
                     /\ x = chunk.ids /\ more = chunk.more

Reader(x, more) == Starting(x, more) \/ Ended(x, more) \/ Waiting(x, more)
                   \/ Arrived(x, more) \/ Parsing(x, more)

\* The handlers match the replies and the commands under way, and what is still
\* to be read begins inside a reply exactly if the parser will then be in one.
Flow(x)   == Fits(Awaiting, x, toClient, sock = "up", atServer, Unsent)
Cut(more) == sock = "up" \/ toClient # <<>> => headCut = more

Alive ==
  /\ sock \in {"up", "down"} /\ NoConnects(doneq)
  /\ \E x \in Seq(Any), more \in BOOLEAN : Reader(x, more) /\ Flow(x) /\ Cut(more)

Clean ==
  /\ state \in {"Unconnected", "Connecting", "Connected", "Closed"}
  /\ sock = "opening" => partial = FALSE
  /\ state = "Connected" => Alive
  /\ state # "Connected" => Idle

\* An async_connect is pending exactly while the socket is opening.
Opening == pendConnect <=> sock = "opening"

CInv == Opening /\ (~dirty => Clean)

(* What the invariants say of the types of the streams.                     *)
LEMMA Streams ==
  ASSUME IInv
  PROVE  /\ handlers \in Seq(Any) /\ strandq \in Seq(Cmd) /\ strandq \in Seq(Any)
         /\ dataQueued \in Seq(Any) /\ Unsent \in Seq(Any)
         /\ atServer \in Seq(Any) /\ toClient \in Seq(Any)
         /\ chunk.ids \in Seq(Any) /\ chunk.more \in BOOLEAN /\ doneq \in Seq(Completion)
PROOF
  <1> USE AsyncAssumption
  <1>1. Cmd \subseteq Any
    BY DEF Cmd, Any, Garbage
  <1>2. /\ handlers \in Seq(Cmd) /\ strandq \in Seq(Cmd) /\ dataQueued \in Seq(Cmd)
        /\ atServer \in Seq(Cmd) /\ toClient \in Seq(Cmd)
    BY DEF IInv, TypeOK, ClientOK, WireOK
  <1>3. /\ handlers \in Seq(Any) /\ strandq \in Seq(Any) /\ dataQueued \in Seq(Any)
        /\ atServer \in Seq(Any) /\ toClient \in Seq(Any)
    BY <1>1, <1>2, SeqMonotonic
  <1>4. chunk.ids \in Seq(Any) /\ chunk.more \in BOOLEAN
    BY DEF IInv, TypeOK, IoOK, Any
  <1>5. Unsent \in Seq(Any)
    <2>1. pendWrites \in Seq(Seq(Cmd))
      BY DEF IInv, TypeOK, OpsOK
    <2>2. CASE pendWrites = <<>>
      <3>1. <<>> \in Seq(Any)
        OBVIOUS
      <3> QED
        BY <1>3, <2>2, <3>1, ConcatProperties DEF Unsent
    <2>3. CASE pendWrites # <<>>
      <3>1. Head(pendWrites) \in Seq(Cmd)
        BY <2>1, <2>3, HeadTailProperties
      <3>2. Head(pendWrites) \in Seq(Any)
        BY <1>1, <3>1, SeqMonotonic
      <3> QED
        BY <1>3, <2>3, <3>2, ConcatProperties DEF Unsent
    <2> QED
      BY <2>2, <2>3
  <1>6. doneq \in Seq(Completion)
    BY Completions
  <1> QED
    BY <1>2, <1>3, <1>4, <1>5, <1>6

(* A parser that calls a reply handler calls one that is in the queue.      *)
LEMMA AwaitingType ==
  ASSUME IInv, NEW x, NEW more, Reader(x, more)
  PROVE  Awaiting \in Seq(Any)
PROOF
  <1>1. ctl = "reply" => handlers # <<>>
    BY DEF Reader, Starting, Ended, Waiting, Arrived, Parsing, Resting
  <1>2. handlers \in Seq(Any)
    BY Streams
  <1>3. handlers # <<>> => Tail(handlers) \in Seq(Any)
    BY <1>2, HeadTailProperties
  <1> QED
    BY <1>1, <1>2, <1>3 DEF Awaiting

(* The parts of the invariant in the next state.                            *)
LEMMA NextParts ==
  /\ \A x : Flow(x)' <=> Fits(Awaiting', x, toClient', sock' = "up", atServer', Unsent')
  /\ \A more : Cut(more)' <=> (sock' = "up" \/ toClient' # <<>> => headCut' = more)
  /\ Awaiting' = IF ctl' = "reply" THEN Tail(handlers') ELSE handlers'
  /\ Unsent' = (IF pendWrites' = <<>> THEN <<>> ELSE Head(pendWrites')) \o dataQueued'
PROOF
  <1>1. \A x : Flow(x)' <=> Fits(Awaiting', x, toClient', sock' = "up", atServer', Unsent')
    BY DEF Flow, Fits
  <1>2. \A more : Cut(more)' <=> (sock' = "up" \/ toClient' # <<>> => headCut' = more)
    BY DEF Cut
  <1>3. Awaiting' = IF ctl' = "reply" THEN Tail(handlers') ELSE handlers'
    BY DEF Awaiting
  <1>4. Unsent' = (IF pendWrites' = <<>> THEN <<>> ELSE Head(pendWrites')) \o dataQueued'
    BY DEF Unsent
  <1> QED
    BY <1>1, <1>2, <1>3, <1>4

(* A read loop that a step does not concern.                                *)
LEMMA ReaderKept ==
  ASSUME NEW x, NEW more, Reader(x, more),
         ctl' = ctl \/ (ctl \in Resting /\ ctl' \in Resting),
         pendReads' = pendReads, chunk' = chunk, partial' = partial,
         handlers # <<>> => handlers' # <<>>, sock = "down" => sock' = "down",
         SameBlocks(doneq, doneq')
  PROVE  Reader(x, more)'
PROOF
  <1>1. NoBlocks(doneq) => NoBlocks(doneq)'
    BY DEF SameBlocks, NoBlocks
  <1>2. \A r \in Completion : OneBlock(doneq, r) => OneBlock(doneq, r)'
    BY DEF SameBlocks, OneBlock
  <1>3. CASE Starting(x, more)
    <2>1. ctl' = "connectOk"
      BY <1>3 DEF Starting, Resting
    <2> QED
      BY <1>1, <1>3, <2>1 DEF Starting, ReadNothing, Reader
  <1>4. CASE Ended(x, more)
    <2>1. ctl' \in Resting
      BY <1>4 DEF Ended
    <2> QED
      BY <1>1, <1>4, <2>1 DEF Ended, ReadNothing, Reader
  <1>5. CASE Waiting(x, more)
    <2>1. ctl' \in Resting
      BY <1>5 DEF Waiting
    <2> QED
      BY <1>1, <1>5, <2>1 DEF Waiting, Reader
  <1>6. CASE Arrived(x, more)
    <2>1. ctl' \in Resting
      BY <1>6 DEF Arrived
    <2>2. PICK r \in Completion : /\ OneBlock(doneq, r) /\ r.cont = partial
                                  /\ x = r.ids /\ more = r.more
      BY <1>6 DEF Arrived
    <2>3. OneBlock(doneq, r)'
      BY <1>2, <2>2
    <2>4. Arrived(x, more)'
      BY <1>6, <2>1, <2>2, <2>3 DEF Arrived
    <2> QED
      BY <2>4 DEF Reader
  <1>7. CASE Parsing(x, more)
    <2>1. ctl' = ctl
      BY <1>7 DEF Parsing, Resting
    <2> QED
      BY <1>1, <1>7, <2>1 DEF Parsing, Reader
  <1> QED
    BY <1>3, <1>4, <1>5, <1>6, <1>7 DEF Reader

(* What makes the next state alive.                                         *)
LEMMA AliveNext ==
  ASSUME state' = "Connected", sock' \in {"up", "down"}, NoConnects(doneq'),
         NEW x \in Seq(Any), NEW more \in BOOLEAN, Reader(x, more)',
         Fits(Awaiting', x, toClient', sock' = "up", atServer', Unsent'),
         sock' = "up" \/ toClient' # <<>> => headCut' = more
  PROVE  Clean'
PROOF
  <1>1. Flow(x)' /\ Cut(more)'
    BY NextParts
  <1>2. NoConnects(doneq)'
    BY DEF NoConnects
  <1>3. Alive'
    BY <1>1, <1>2 DEF Alive
  <1> QED
    BY <1>3 DEF Clean

(* What the invariant says of a live client.                                *)
LEMMA AliveNow ==
  ASSUME Clean, state = "Connected"
  PROVE  /\ sock \in {"up", "down"} /\ NoConnects(doneq)
         /\ \E x \in Seq(Any), more \in BOOLEAN :
              /\ Reader(x, more)
              /\ Fits(Awaiting, x, toClient, sock = "up", atServer, Unsent)
              /\ sock = "up" \/ toClient # <<>> => headCut = more
PROOF BY DEF Clean, Alive, Flow, Cut

(* What makes the next state idle.                                          *)
LEMMA IdleNext ==
  ASSUME state' \in {"Unconnected", "Connecting", "Closed"},
         sock' = "opening" => partial' = FALSE,
         handlers' = <<>>, strandq' = <<>>, dataQueued' = <<>>, pendWrites' = <<>>,
         pendReads' = 0, NoBlocks(doneq'),
         atServer' = <<>>, toClient' = <<>>, headCut' = FALSE,
         ctl' \in Resting, chunk' = NoBlock,
         \/ NoneConnected(doneq') /\ sock' # "up"
         \/ LastConnected(doneq') /\ sock' \in {"up", "down"} /\ partial' = FALSE
  PROVE  Clean'
PROOF
  <1>1. NoBlocks(doneq)'
    BY DEF NoBlocks
  <1>2. NoneConnected(doneq') => NoneConnected(doneq)'
    BY DEF NoneConnected
  <1>3. LastConnected(doneq') => LastConnected(doneq)'
    BY DEF LastConnected
  <1>4. chunk' = NoBlock'
    BY DEF NoBlock
  <1>5. Idle'
    BY <1>1, <1>2, <1>3, <1>4 DEF Idle
  <1> QED
    BY <1>5 DEF Clean

(* A step that leaves the client, the queues and the wire alone.            *)
LEMMA SameClean ==
  ASSUME IInv, Clean, state' = state, sock' = sock, partial' = partial,
         handlers' = handlers, dataQueued' = dataQueued, pendWrites' = pendWrites,
         pendReads' = pendReads, doneq' = doneq, atServer' = atServer,
         toClient' = toClient, headCut' = headCut, chunk' = chunk,
         ctl' = ctl \/ (ctl \in Resting /\ ctl' \in Resting),
         state # "Connected" => strandq' = strandq
  PROVE  Clean'
PROOF
  <1>1. CASE state = "Connected"
    <2>1. PICK x \in Seq(Any), more \in BOOLEAN :
            /\ Reader(x, more)
            /\ Fits(Awaiting, x, toClient, sock = "up", atServer, Unsent)
            /\ sock = "up" \/ toClient # <<>> => headCut = more
      BY <1>1, AliveNow
    <2>2. sock \in {"up", "down"} /\ NoConnects(doneq)
      BY <1>1, AliveNow
    <2>3. SameBlocks(doneq, doneq')
      BY DEF SameBlocks
    <2>4. Reader(x, more)'
      BY <2>1, <2>3, ReaderKept
    <2>5. Awaiting' = Awaiting /\ Unsent' = Unsent
      BY NextParts DEF Awaiting, Unsent, Resting
    <2>6. Fits(Awaiting', x, toClient', sock' = "up", atServer', Unsent')
      BY <2>1, <2>5
    <2> QED
      BY <1>1, <2>1, <2>2, <2>4, <2>6, AliveNext
  <1>2. CASE state # "Connected"
    <2>1. Idle /\ state \in {"Unconnected", "Connecting", "Closed"}
      BY <1>2 DEF Clean
    <2>2. ctl' \in Resting
      BY <2>1 DEF Idle
    <2>3. sock' = "opening" => partial' = FALSE
      BY DEF Clean
    <2> QED
      BY <1>2, <2>1, <2>2, <2>3, IdleNext DEF Idle
  <1> QED
    BY <1>1, <1>2

(* Nothing carried over: no connection and no block waits to be handled.    *)
LEMMA NothingCarried ==
  ASSUME ~Carried
  PROVE  strandq = <<>> /\ dataQueued = <<>> /\ NoBlocks(doneq) /\ NoneConnected(doneq)
PROOF BY DEF Carried, NoBlocks, NoneConnected, IsBlock, IsConnected

-----------------------------------------------------------------------------
(* Each step keeps the invariant, unless it leaves work behind.             *)

(* connect() on a client that is closed starts from nothing.                *)
LEMMA ConnectClean ==
  ASSUME IInv, IInv', Clean, ~dirty', NEW via \in Transports, Connect(via)
  PROVE  Clean'
PROOF
  <1>1. /\ handlers' = handlers /\ dataQueued' = dataQueued /\ strandq' = strandq
        /\ ctl' = ctl /\ chunk' = chunk /\ pendReads' = pendReads /\ pendWrites' = pendWrites
    BY DEF Connect, io
  <1>2. CASE ConnectIgnored
    BY <1>1, <1>2, SameClean DEF ConnectIgnored, wire
  <1>3. CASE ConnectStarts(via)
    <2>1. /\ state \in {"Unconnected", "Closed"} /\ state' = "Connecting"
          /\ dirty' = \/ dirty \/ partial' \/ Carried
                      \/ handlers # <<>> \/ pendReads > 0 \/ pendWrites # <<>>
      BY <1>3 DEF ConnectStarts
    <2>2. ~partial' /\ ~Carried
      BY <2>1
    <2>3. partial' = FALSE
      BY <2>2 DEF IInv, TypeOK, FlagsOK
    <2>4. Idle
      BY <2>1 DEF Clean
    <2>5. NoBlocks(doneq) /\ NoneConnected(doneq) /\ doneq \in Seq(Completion)
      BY <2>2, NothingCarried, Completions
    <2>6. ~LastConnected(doneq)
      <3>1. doneq # <<>> => Len(doneq) \in DOMAIN doneq
        BY <2>5, LenProperties, EmptySeq
      <3> QED
        BY <2>5, <3>1 DEF LastConnected, NoneConnected
    <2>7. sock # "up"
      BY <2>4, <2>6 DEF Idle
    <2>8. /\ Done("connect", "failed") \in Completion /\ ~IsBlock(Done("connect", "failed"))
          /\ ~IsConnected(Done("connect", "failed"))
          /\ Done("connect", "ok") \in Completion /\ ~IsBlock(Done("connect", "ok"))
          /\ IsConnected(Done("connect", "ok"))
      BY DoneType DEF Kinds, Results, Done, IsBlock, IsConnected
    <2>9. /\ NoBlocks(Append(doneq, Done("connect", "failed")))
          /\ NoneConnected(Append(doneq, Done("connect", "failed")))
          /\ NoBlocks(Append(doneq, Done("connect", "ok")))
          /\ LastConnected(Append(doneq, Done("connect", "ok")))
      BY <2>5, <2>8, AppendQueue DEF SameBlocks
    <2>10. CASE /\ doneq' = Append(doneq, Done("connect", "failed"))
                /\ sock' = IF sock = "closed" THEN "down" ELSE sock
                /\ UNCHANGED <<pendConnect, atServer, toClient, headCut>>
      BY <1>1, <2>1, <2>3, <2>4, <2>7, <2>9, <2>10, IdleNext DEF Idle
    <2>11. CASE /\ doneq' = Append(doneq, Done("connect", "ok"))
                /\ sock' = "up"
                /\ UNCHANGED <<pendConnect, atServer, toClient, headCut>>
      BY <1>1, <2>1, <2>3, <2>4, <2>9, <2>11, IdleNext DEF Idle
    <2>12. CASE /\ sock' = "opening"
                /\ atServer' = <<>> /\ toClient' = <<>> /\ headCut' = FALSE
                /\ UNCHANGED doneq
      BY <1>1, <2>1, <2>3, <2>4, <2>5, <2>12, IdleNext DEF Idle
    <2> QED
      BY <1>3, <2>10, <2>11, <2>12 DEF ConnectStarts
  <1> QED
    BY <1>2, <1>3 DEF Connect

(* disconnect() from the event loop or the handler of an error, with        *)
(* nothing carried over, leaves nothing.                                    *)
LEMMA DisconnectClean ==
  ASSUME IInv, IInv', Clean, ~dirty', Disconnect
  PROVE  Clean'
PROOF
  <1>1. ~Carried /\ ctl \notin {"connectOk", "reply", "unexpected"} /\ InApp
    BY DEF Disconnect
  <1>2. ctl \in Resting /\ chunk = NoBlock
    <2>1. CASE state = "Connected"
      <3>1. \E x \in Seq(Any), more \in BOOLEAN : Reader(x, more)
        BY <2>1, AliveNow
      <3> QED
        BY <1>1, <3>1 DEF Reader, Starting, Ended, Waiting, Arrived, Parsing, ReadNothing,
                          InApp, Upcalls
    <2>2. CASE state # "Connected"
      BY <2>2 DEF Clean, Idle
    <2> QED
      BY <2>1, <2>2
  <1>3. /\ strandq = <<>> /\ dataQueued = <<>> /\ NoBlocks(doneq) /\ NoneConnected(doneq)
        /\ doneq \in Seq(Completion)
    BY <1>1, NothingCarried, Completions
  <1> DEFINE q1 == doneq \o Copies(pendReads, Done("read", "aborted"))
             q2 == q1 \o Copies(IF pendConnect THEN 1 ELSE 0, Done("connect", "aborted"))
             q3 == q2 \o Copies(Len(pendWrites), Done("write", "aborted"))
  <1>4. /\ pendReads \in Nat /\ Len(pendWrites) \in Nat
        /\ (IF pendConnect THEN 1 ELSE 0) \in Nat
    BY Completions
  <1>5. q1 \in Seq(Completion) /\ NoBlocks(q1) /\ NoneConnected(q1)
    BY <1>3, <1>4, ConcatAborted DEF Kinds
  <1> HIDE DEF q1
  <1>6. q2 \in Seq(Completion) /\ NoBlocks(q2) /\ NoneConnected(q2)
    BY <1>4, <1>5, ConcatAborted DEF Kinds
  <1> HIDE DEF q2
  <1>7. NoBlocks(q3) /\ NoneConnected(q3)
    BY <1>4, <1>6, ConcatAborted DEF Kinds
  <1>8. doneq' = q3
    BY DEF Disconnect, q1, q2
  <1> HIDE DEF q3
  <1>9. /\ state' = "Closed" /\ sock' = "closed" /\ handlers' = <<>> /\ pendReads' = 0
        /\ pendWrites' = <<>> /\ atServer' = <<>> /\ toClient' = <<>> /\ headCut' = FALSE
        /\ dataQueued' = dataQueued /\ strandq' = strandq /\ ctl' = ctl /\ chunk' = chunk
    BY DEF Disconnect, io
  <1> QED
    BY <1>2, <1>3, <1>7, <1>8, <1>9, IdleNext


(* On an open socket what asyncWrite() transmits is what is unsent next.    *)
LEMMA TransmitUnsent ==
  ASSUME NEW queue \in Seq(Cmd), NEW completions, sock # "closed", pendWrites = <<>>,
         Transmit(queue, completions)
  PROVE  Unsent' = queue /\ doneq' = completions
PROOF
  <1>1. doneq' = completions /\ dataQueued' = <<>>
    BY DEF Transmit
  <1>2. CASE queue = <<>>
    <2>1. pendWrites' = <<>>
      BY <1>2 DEF Transmit
    <2> QED
      BY <1>1, <1>2, <2>1, NextParts, ConcatEmptySeq
  <1>3. CASE queue # <<>>
    <2>1. pendWrites' = Append(<<>>, queue)
      BY <1>3 DEF Transmit
    <2>2. Append(<<>>, queue) # <<>> /\ Head(Append(<<>>, queue)) = queue
      OBVIOUS
    <2>3. Unsent' = queue \o <<>>
      BY <1>1, <2>1, <2>2, NextParts
    <2> QED
      BY <1>1, <2>3, ConcatEmptySeq
  <1> QED
    BY <1>2, <1>3

(* doAsyncCommand() adds a command to the handlers and to what is unsent.   *)
LEMMA DoAsyncCommandClean ==
  ASSUME IInv, IInv', Clean, DoAsyncCommand
  PROVE  Clean'
PROOF
  <1>1. /\ strandq # <<>> /\ ctl = "loop" /\ ctl' = ctl /\ chunk' = chunk
        /\ handlers' = Append(handlers, Head(strandq))
        /\ state' = state /\ partial' = partial /\ pendReads' = pendReads
        /\ sock' = sock /\ atServer' = atServer /\ toClient' = toClient /\ headCut' = headCut
    BY DEF DoAsyncCommand, io, wire
  <1>2. state = "Connected"
    BY <1>1 DEF Clean, Idle
  <1>3. PICK x \in Seq(Any), more \in BOOLEAN :
          /\ Reader(x, more)
          /\ Fits(Awaiting, x, toClient, sock = "up", atServer, Unsent)
          /\ sock = "up" \/ toClient # <<>> => headCut = more
    BY <1>2, AliveNow
  <1>4. sock \in {"up", "down"} /\ NoConnects(doneq)
    BY <1>2, AliveNow
  <1> DEFINE c == Head(strandq)
  <1>5. c \in Cmd /\ c \in Any /\ dataQueued \in Seq(Cmd)
    BY <1>1, Streams, Completions, HeadTailProperties
  <1> HIDE DEF c
  <1>6. Unsent' = Append(Unsent, c) /\ doneq' = doneq
    <2>1. CASE dataWrited = <<>>
      <3>1. pendWrites = <<>>
        BY <2>1, NothingPending
      <3>2. Unsent = dataQueued
        BY <1>5, <3>1, ConcatEmptySeq DEF Unsent
      <3>3. Append(dataQueued, c) \in Seq(Cmd)
        BY <1>5, AppendProperties
      <3>4. Transmit(Append(dataQueued, c), doneq)
        BY <2>1 DEF DoAsyncCommand, c
      <3> QED
        BY <1>4, <3>1, <3>2, <3>3, <3>4, TransmitUnsent
    <2>2. CASE dataWrited # <<>>
      <3>1. dataQueued' = Append(dataQueued, c) /\ pendWrites' = pendWrites /\ doneq' = doneq
        BY <2>2 DEF DoAsyncCommand, c
      <3>2. PICK b \in Seq(Any) : b = IF pendWrites = <<>> THEN <<>> ELSE Head(pendWrites)
        <4>1. CASE pendWrites = <<>>
          BY <4>1, EmptySeq
        <4>2. CASE pendWrites # <<>>
          <5>1. Head(pendWrites) \in Seq(Cmd)
            BY <4>2, Completions, HeadTailProperties
          <5>2. Cmd \subseteq Any
            BY AsyncAssumption DEF Cmd, Any, Garbage
          <5> QED
            BY <4>2, <5>1, <5>2, SeqMonotonic
        <4> QED
          BY <4>1, <4>2
      <3>3. Unsent = b \o dataQueued /\ Unsent' = b \o Append(dataQueued, c)
        BY <3>1, <3>2, NextParts DEF Unsent
      <3>4. dataQueued \in Seq(Any)
        BY Streams
      <3> QED
        BY <1>5, <3>1, <3>3, <3>4, AppendConcat
    <2> QED
      BY <2>1, <2>2
  <1>7. Awaiting = handlers /\ Awaiting' = Append(handlers, c)
    BY <1>1, NextParts DEF Awaiting, c
  <1>8. Fits(Append(handlers, c), x, toClient, sock = "up", atServer, Append(Unsent, c))
    BY <1>3, <1>5, <1>7, Streams, FitsIssue
  <1>9. Fits(Awaiting', x, toClient', sock' = "up", atServer', Unsent')
    BY <1>1, <1>6, <1>7, <1>8
  <1>10. SameBlocks(doneq, doneq')
    BY <1>6 DEF SameBlocks
  <1>11. handlers' # <<>>
    <2>1. handlers' = Append(handlers, c)
      BY <1>1 DEF c
    <2>2. handlers \in Seq(Any)
      BY Streams
    <2> QED
      BY <1>5, <2>1, <2>2, AppendProperties
  <1>12. Reader(x, more)'
    BY <1>1, <1>3, <1>10, <1>11, ReaderKept
  <1> QED
    BY <1>1, <1>2, <1>3, <1>4, <1>6, <1>9, <1>12, AliveNext

(* handleAsyncConnect() runs with nothing queued: on success the read loop  *)
(* starts from an empty stream.                                             *)
LEMMA HandleAsyncConnectClean ==
  ASSUME IInv, IInv', Clean, HandleAsyncConnect
  PROVE  Clean'
PROOF
  <1>1. /\ doneq # <<>> /\ Head(doneq).op = "connect" /\ doneq' = Tail(doneq)
        /\ handlers' = handlers /\ dataQueued' = dataQueued /\ strandq' = strandq
        /\ partial' = partial /\ chunk' = chunk /\ pendReads' = pendReads
        /\ pendWrites' = pendWrites /\ doneq \in Seq(Completion)
        /\ sock' = sock /\ atServer' = atServer /\ toClient' = toClient /\ headCut' = headCut
    BY Completions DEF HandleAsyncConnect, Completed, wire
  <1>2. state # "Connected"
    BY <1>1, AliveNow, TailQueue
  <1>3. Idle
    BY <1>2 DEF Clean
  <1>4. NoBlocks(Tail(doneq))
    BY <1>1, <1>3, TailQueue DEF Idle, SameBlocks
  <1>5. CASE Head(doneq).st = "ok"
    <2>1. state' = "Connected" /\ ctl' = "connectOk"
      BY <1>5 DEF HandleAsyncConnect
    <2>2. IsConnected(Head(doneq))
      BY <1>1, <1>5 DEF IsConnected
    <2>3. Tail(doneq) = <<>> /\ sock \in {"up", "down"} /\ partial = FALSE
      BY <1>1, <1>3, <2>2, TailQueue DEF Idle
    <2>4. NoConnects(doneq') /\ NoBlocks(doneq)'
      BY <1>1, <2>3 DEF NoConnects, NoBlocks
    <2>5. chunk' = NoBlock'
      BY <1>1, <1>3 DEF Idle, NoBlock
    <2>6. Starting(<<>>, FALSE)'
      BY <1>1, <1>3, <2>1, <2>3, <2>4, <2>5 DEF Starting, ReadNothing, Idle
    <2>7. Reader(<<>>, FALSE)'
      BY <2>6 DEF Reader
    <2>8. Awaiting' = <<>> /\ Unsent' = <<>> \o <<>>
      BY <1>1, <1>3, <2>1, NextParts DEF Idle
    <2>9. Unsent' = <<>> /\ <<>> \in Seq(Any)
      BY <2>8, EmptySeq, ConcatEmptySeq
    <2>10. Fits(Awaiting', <<>>, toClient', sock' = "up", atServer', Unsent')
      BY <1>1, <1>3, <2>8, <2>9, FitsEmpty DEF Idle
    <2> QED
      BY <1>1, <1>3, <2>1, <2>3, <2>4, <2>7, <2>9, <2>10, AliveNext DEF Idle
  <1>6. CASE Head(doneq).st # "ok"
    <2>1. state' = "Unconnected" /\ ctl' \in Resting
      BY <1>6 DEF HandleAsyncConnect, Resting
    <2>2. ~IsConnected(Head(doneq))
      BY <1>6 DEF IsConnected
    <2>3. \/ NoneConnected(doneq') /\ sock' # "up"
          \/ LastConnected(doneq') /\ sock' \in {"up", "down"} /\ partial' = FALSE
      BY <1>1, <1>3, <2>2, TailQueue DEF Idle
    <2>4. sock' = "opening" => partial' = FALSE
      BY <1>1 DEF Clean
    <2> QED
      BY <1>1, <1>3, <1>4, <2>1, <2>3, <2>4, IdleNext DEF Idle
  <1> QED
    BY <1>5, <1>6


(* asyncWrite() moves what is queued to what is being written.              *)
LEMMA AsyncWriteClean ==
  ASSUME IInv, IInv', Clean, AsyncWrite
  PROVE  Clean'
PROOF
  <1>1. /\ doneq # <<>> /\ Head(doneq).op = "write" /\ ctl = "loop"
        /\ doneq \in Seq(Completion) /\ Tail(doneq) \in Seq(Completion)
        /\ state' = state /\ handlers' = handlers /\ strandq' = strandq
        /\ partial' = partial /\ chunk' = chunk /\ pendReads' = pendReads
        /\ sock' = sock /\ atServer' = atServer /\ toClient' = toClient /\ headCut' = headCut
    BY Completions, HeadTailProperties DEF AsyncWrite, Completed, wire
  <1>2. ~IsBlock(Head(doneq)) /\ ~IsConnected(Head(doneq))
    BY <1>1 DEF IsBlock, IsConnected
  <1>3. ctl' \in {"loop", "writeErr"}
    BY <1>1 DEF AsyncWrite
  <1>4. pendWrites = <<>>
    BY <1>1, Completions, TailWrites, NothingPending
  <1>5. dataQueued \in Seq(Cmd) /\ Unsent = dataQueued
    BY <1>4, Completions, ConcatEmptySeq DEF Unsent
  <1>6. CASE state = "Connected"
    <2>1. PICK x \in Seq(Any), more \in BOOLEAN :
            /\ Reader(x, more)
            /\ Fits(Awaiting, x, toClient, sock = "up", atServer, Unsent)
            /\ sock = "up" \/ toClient # <<>> => headCut = more
      BY <1>6, AliveNow
    <2>2. sock \in {"up", "down"} /\ NoConnects(doneq)
      BY <1>6, AliveNow
    <2>3. Unsent' = Unsent /\ doneq' = Tail(doneq)
      <3>1. CASE Head(doneq).st = "ok"
        <4>1. Transmit(dataQueued, Tail(doneq))
          BY <3>1 DEF AsyncWrite
        <4> QED
          BY <1>4, <1>5, <2>2, <4>1, TransmitUnsent
      <3>2. CASE Head(doneq).st # "ok"
        <4>1. doneq' = Tail(doneq) /\ dataQueued' = dataQueued /\ pendWrites' = pendWrites
          BY <3>2 DEF AsyncWrite
        <4> QED
          BY <4>1, NextParts DEF Unsent
      <3> QED
        BY <3>1, <3>2
    <2>4. SameBlocks(doneq, doneq') /\ NoConnects(doneq')
      BY <1>1, <1>2, <2>2, <2>3, TailQueue
    <2>5. Reader(x, more)'
      BY <1>1, <1>3, <2>1, <2>4, ReaderKept DEF Resting
    <2>6. Awaiting' = Awaiting
      BY <1>1, <1>3, NextParts DEF Awaiting
    <2>7. Fits(Awaiting', x, toClient', sock' = "up", atServer', Unsent')
      BY <1>1, <2>1, <2>3, <2>6
    <2> QED
      BY <1>1, <1>6, <2>1, <2>2, <2>4, <2>5, <2>7, AliveNext
  <1>7. CASE state # "Connected"
    <2>1. Idle
      BY <1>7 DEF Clean
    <2>2. doneq' = Tail(doneq) /\ dataQueued' = <<>> /\ pendWrites' = <<>>
      <3>1. dataQueued = <<>>
        BY <2>1 DEF Idle
      <3> QED
        BY <1>4, <3>1 DEF AsyncWrite, Transmit
    <2>3. NoBlocks(doneq') /\ ctl' \in Resting
      BY <1>1, <1>2, <1>3, <2>1, <2>2, TailQueue DEF Idle, SameBlocks, Resting
    <2>4. \/ NoneConnected(doneq') /\ sock' # "up"
          \/ LastConnected(doneq') /\ sock' \in {"up", "down"} /\ partial' = FALSE
      BY <1>1, <1>2, <2>1, <2>2, TailQueue DEF Idle
    <2>5. state' \in {"Unconnected", "Connecting", "Closed"}
      BY <1>1, <1>7 DEF Clean
    <2>6. sock' = "opening" => partial' = FALSE
      BY <1>1 DEF Clean
    <2> QED
      BY <1>1, <2>1, <2>2, <2>3, <2>4, <2>5, <2>6, IdleNext DEF Idle
  <1> QED
    BY <1>6, <1>7

(* asyncRead() hands the block to the parser, which is where the block      *)
(* starts; a read that failed or was aborted starts no other.               *)
LEMMA AsyncReadClean ==
  ASSUME IInv, IInv', Clean, AsyncRead
  PROVE  Clean'
PROOF
  <1>1. /\ doneq # <<>> /\ Head(doneq).op = "read" /\ ctl = "loop"
        /\ doneq \in Seq(Completion) /\ doneq' = Tail(doneq) /\ Head(doneq) \in Completion
        /\ state' = state /\ handlers' = handlers /\ strandq' = strandq
        /\ dataQueued' = dataQueued /\ pendWrites' = pendWrites /\ pendReads' = pendReads
        /\ sock' = sock /\ atServer' = atServer /\ toClient' = toClient /\ headCut' = headCut
    BY Completions, HeadTailProperties DEF AsyncRead, Completed, wire
  <1>2. Head(doneq).st \in {"ok", "failed", "aborted"}
    BY <1>1 DEF Completion, Results
  <1>3. ~IsConnected(Head(doneq))
    BY <1>1 DEF IsConnected
  <1>4. CASE ~IsBlock(Head(doneq))
    <2>1. partial' = partial /\ chunk' = chunk /\ ctl' \in {"loop", "readErr"}
      BY <1>1, <1>4 DEF AsyncRead, IsBlock, io
    <2>2. CASE state = "Connected"
      <3>1. PICK x \in Seq(Any), more \in BOOLEAN :
              /\ Reader(x, more)
              /\ Fits(Awaiting, x, toClient, sock = "up", atServer, Unsent)
              /\ sock = "up" \/ toClient # <<>> => headCut = more
        BY <2>2, AliveNow
      <3>2. sock \in {"up", "down"} /\ NoConnects(doneq)
        BY <2>2, AliveNow
      <3>3. SameBlocks(doneq, doneq') /\ NoConnects(doneq')
        BY <1>1, <1>4, <3>2, TailQueue
      <3>4. Reader(x, more)'
        BY <1>1, <2>1, <3>1, <3>3, ReaderKept DEF Resting
      <3>5. Awaiting' = Awaiting /\ Unsent' = Unsent
        BY <1>1, <2>1, NextParts DEF Awaiting, Unsent
      <3>6. Fits(Awaiting', x, toClient', sock' = "up", atServer', Unsent')
        BY <1>1, <3>1, <3>5
      <3> QED
        BY <1>1, <2>2, <3>1, <3>2, <3>3, <3>4, <3>6, AliveNext
    <2>3. CASE state # "Connected"
      <3>1. Idle
        BY <2>3 DEF Clean
      <3>2. NoBlocks(doneq') /\ ctl' \in Resting
        BY <1>1, <1>4, <2>1, <3>1, TailQueue DEF Idle, SameBlocks, Resting
      <3>3. \/ NoneConnected(doneq') /\ sock' # "up"
            \/ LastConnected(doneq') /\ sock' \in {"up", "down"} /\ partial' = FALSE
        BY <1>1, <1>3, <2>1, <3>1, TailQueue DEF Idle
      <3>4. state' \in {"Unconnected", "Connecting", "Closed"}
        BY <1>1, <2>3 DEF Clean
      <3>5. sock' = "opening" => partial' = FALSE
        BY <1>1, <2>1 DEF Clean
      <3> QED
        BY <1>1, <2>1, <3>1, <3>2, <3>3, <3>4, <3>5, IdleNext DEF Idle
    <2> QED
      BY <2>2, <2>3
  <1>5. CASE IsBlock(Head(doneq))
    <2>1. ~NoBlocks(doneq)
      BY <1>1, <1>5, TailQueue
    <2>2. state = "Connected"
      BY <2>1 DEF Clean, Idle
    <2>3. PICK x \in Seq(Any), more \in BOOLEAN :
            /\ Reader(x, more)
            /\ Fits(Awaiting, x, toClient, sock = "up", atServer, Unsent)
            /\ sock = "up" \/ toClient # <<>> => headCut = more
      BY <2>2, AliveNow
    <2>4. sock \in {"up", "down"} /\ NoConnects(doneq)
      BY <2>2, AliveNow
    <2>5. Arrived(x, more)
      BY <2>1, <2>3 DEF Reader, Starting, Ended, Waiting, Parsing, ReadNothing
    <2>6. PICK r \in Completion : /\ OneBlock(doneq, r) /\ r.cont = partial
                                  /\ x = r.ids /\ more = r.more
      BY <2>5 DEF Arrived
    <2>7. Head(doneq) = r /\ NoBlocks(Tail(doneq)) /\ NoConnects(Tail(doneq))
      BY <1>1, <1>5, <2>4, <2>6, TailQueue
    <2>8. r.st = "ok"
      BY <1>5, <2>7 DEF IsBlock
    <2>9. /\ ctl' = "parse" /\ partial' = partial
          /\ chunk' = [ids |-> r.ids, more |-> r.more]
      BY <2>6, <2>7, <2>8 DEF AsyncRead
    <2>10. NoBlocks(doneq)'
      BY <1>1, <2>7 DEF NoBlocks
    <2>11. pendReads' = 0
      BY <1>1, <2>5 DEF Arrived
    <2>12. Parsing(x, more)'
      BY <2>6, <2>9, <2>10, <2>11 DEF Parsing
    <2>13. Reader(x, more)'
      BY <2>12 DEF Reader
    <2>14. Awaiting' = Awaiting /\ Unsent' = Unsent
      BY <1>1, <2>9, NextParts DEF Awaiting, Unsent
    <2>15. Fits(Awaiting', x, toClient', sock' = "up", atServer', Unsent')
      BY <1>1, <2>3, <2>14
    <2> QED
      BY <1>1, <2>2, <2>3, <2>4, <2>7, <2>13, <2>15, AliveNext
  <1> QED
    BY <1>4, <1>5

(* doProcessMessage() answers the first handler with the first reply of the *)
(* block, which is its own.                                                 *)
LEMMA Answering ==
  ASSUME IInv, Clean, DoProcessMessage
  PROVE  /\ handlers # <<>> /\ Head(chunk.ids) = Head(handlers) /\ Awaiting = handlers
         /\ ctl' = "reply" /\ Clean'
PROOF
  <1>1. /\ ctl = "parse" /\ chunk.ids # <<>>
        /\ chunk' = [chunk EXCEPT !.ids = Tail(@)] /\ chunk \in [ids : Seq(Any), more : BOOLEAN]
        /\ state' = state /\ handlers' = handlers /\ dataQueued' = dataQueued
        /\ partial' = partial /\ pendReads' = pendReads /\ pendWrites' = pendWrites
        /\ doneq' = doneq /\ sock' = sock /\ atServer' = atServer /\ toClient' = toClient
        /\ headCut' = headCut
    BY DEF DoProcessMessage, client, ops, wire, IInv, TypeOK, IoOK, Any
  <1>2. state = "Connected"
    BY <1>1 DEF Clean, Idle, Resting
  <1>3. PICK x \in Seq(Any), more \in BOOLEAN :
          /\ Reader(x, more)
          /\ Fits(Awaiting, x, toClient, sock = "up", atServer, Unsent)
          /\ sock = "up" \/ toClient # <<>> => headCut = more
    BY <1>2, AliveNow
  <1>4. sock \in {"up", "down"} /\ NoConnects(doneq)
    BY <1>2, AliveNow
  <1>5. Parsing(x, more)
    BY <1>1, <1>3 DEF Reader, Starting, Ended, Waiting, Arrived, Resting
  <1>6. x = chunk.ids /\ more = chunk.more /\ pendReads = 0 /\ NoBlocks(doneq)
    BY <1>5 DEF Parsing
  <1>7. Awaiting = handlers
    BY <1>1 DEF Awaiting
  <1>8. /\ handlers # <<>> /\ Head(handlers) = Head(x)
        /\ Fits(Tail(handlers), Tail(x), toClient, sock = "up", atServer, Unsent)
    BY <1>1, <1>3, <1>6, <1>7, Streams, FitsAnswer
  <1>9. ctl' = "reply"
    BY <1>8 DEF DoProcessMessage
  <1>10. chunk'.ids = Tail(x) /\ chunk'.more = more /\ Tail(x) \in Seq(Any)
    BY <1>1, <1>6, HeadTailProperties
  <1>11. NoBlocks(doneq)'
    BY <1>1, <1>6 DEF NoBlocks
  <1>12. Parsing(Tail(x), more)'
    BY <1>1, <1>6, <1>8, <1>9, <1>10, <1>11 DEF Parsing
  <1>13. Reader(Tail(x), more)'
    BY <1>12 DEF Reader
  <1>14. Awaiting' = Tail(handlers) /\ Unsent' = Unsent
    BY <1>1, <1>9, NextParts DEF Unsent
  <1>15. Fits(Awaiting', Tail(x), toClient', sock' = "up", atServer', Unsent')
    BY <1>1, <1>8, <1>14
  <1>16. Clean'
    BY <1>1, <1>2, <1>3, <1>4, <1>10, <1>13, <1>15, AliveNext
  <1> QED
    BY <1>6, <1>7, <1>8, <1>9, <1>16


(* The next read starts where the last block, or the connection, ended.     *)
LEMMA ReadOnClean ==
  ASSUME IInv, IInv', Clean, EndOfBlock \/ ReturnConnected
  PROVE  Clean'
PROOF
  <1>1. /\ state' = state /\ handlers' = handlers /\ dataQueued' = dataQueued
        /\ pendWrites' = pendWrites /\ ctl' = "loop" /\ StartRead
        /\ sock' = sock /\ atServer' = atServer /\ toClient' = toClient /\ headCut' = headCut
    BY DEF EndOfBlock, ReturnConnected, client, wire
  <1>2. state = "Connected"
    BY DEF Clean, Idle, Resting, EndOfBlock, ReturnConnected
  <1>3. PICK x \in Seq(Any), more \in BOOLEAN :
          /\ Reader(x, more)
          /\ Fits(Awaiting, x, toClient, sock = "up", atServer, Unsent)
          /\ sock = "up" \/ toClient # <<>> => headCut = more
    BY <1>2, AliveNow
  <1>4. sock \in {"up", "down"} /\ NoConnects(doneq)
    BY <1>2, AliveNow
  <1>5. pendReads' = pendReads + 1 /\ doneq' = doneq
    BY <1>1, <1>4 DEF StartRead
  <1>6. /\ pendReads = 0 /\ NoBlocks(doneq) /\ x = <<>> /\ more = partial'
        /\ chunk' = NoBlock /\ Awaiting = handlers
    <2>1. CASE EndOfBlock
      <3>1. Parsing(x, more) /\ Awaiting = handlers
        BY <1>3, <2>1 DEF Reader, Starting, Ended, Waiting, Arrived, Resting, EndOfBlock,
                          Awaiting
      <3> QED
        BY <2>1, <3>1 DEF Parsing, EndOfBlock
    <2>2. CASE ReturnConnected
      <3>1. Starting(x, more) /\ Awaiting = handlers
        BY <1>3, <2>2 DEF Reader, Parsing, Ended, Waiting, Arrived, Resting,
                          ReturnConnected, Awaiting
      <3>2. partial' = partial /\ chunk' = chunk
        BY <2>2 DEF ReturnConnected, client
      <3> QED
        BY <3>1, <3>2 DEF Starting, ReadNothing
    <2> QED
      BY <2>1, <2>2
  <1>7. NoBlocks(doneq)' /\ chunk' = NoBlock'
    BY <1>5, <1>6 DEF NoBlocks, NoBlock
  <1>8. Waiting(x, more)'
    BY <1>1, <1>5, <1>6, <1>7 DEF Waiting, Resting
  <1>9. Reader(x, more)'
    BY <1>8 DEF Reader
  <1>10. Awaiting' = Awaiting /\ Unsent' = Unsent
    BY <1>1, <1>6, NextParts DEF Unsent
  <1>11. Fits(Awaiting', x, toClient', sock' = "up", atServer', Unsent')
    BY <1>1, <1>3, <1>10
  <1> QED
    BY <1>1, <1>2, <1>3, <1>4, <1>5, <1>9, <1>11, AliveNext

(* The reply handler that returns is still in the queue, at its head.       *)
LEMMA Popping ==
  ASSUME Clean, ReturnReply
  PROVE  handlers # <<>> /\ handlers' = Tail(handlers) /\ ctl' = "parse" /\ state = "Connected"
PROOF
  <1>1. ctl = "reply"
    BY DEF ReturnReply
  <1>2. state = "Connected"
    BY <1>1 DEF Clean, Idle, Resting
  <1>3. \E x \in Seq(Any), more \in BOOLEAN : Reader(x, more)
    BY <1>2, AliveNow
  <1>4. handlers # <<>>
    BY <1>1, <1>3 DEF Reader, Parsing, Starting, Ended, Waiting, Arrived, Resting
  <1> QED
    BY <1>2, <1>4 DEF ReturnReply

(* Popping it leaves the handlers still to be called as they were.          *)
LEMMA ReturnReplyClean ==
  ASSUME IInv, IInv', Clean, ReturnReply
  PROVE  Clean'
PROOF
  <1>1. /\ state' = state /\ dataQueued' = dataQueued /\ partial' = partial
        /\ chunk' = chunk /\ pendReads' = pendReads /\ pendWrites' = pendWrites
        /\ doneq' = doneq /\ sock' = sock /\ atServer' = atServer /\ toClient' = toClient
        /\ headCut' = headCut /\ ctl = "reply"
    BY DEF ReturnReply, ops, wire
  <1>2. handlers # <<>> /\ handlers' = Tail(handlers) /\ ctl' = "parse" /\ state = "Connected"
    BY Popping
  <1>3. PICK x \in Seq(Any), more \in BOOLEAN :
          /\ Reader(x, more)
          /\ Fits(Awaiting, x, toClient, sock = "up", atServer, Unsent)
          /\ sock = "up" \/ toClient # <<>> => headCut = more
    BY <1>2, AliveNow
  <1>4. sock \in {"up", "down"} /\ NoConnects(doneq)
    BY <1>2, AliveNow
  <1>5. Parsing(x, more)
    BY <1>1, <1>3 DEF Reader, Starting, Ended, Waiting, Arrived, Resting
  <1>6. NoBlocks(doneq)'
    BY <1>1, <1>5 DEF Parsing, NoBlocks
  <1>7. Parsing(x, more)'
    BY <1>1, <1>2, <1>5, <1>6 DEF Parsing
  <1>8. Reader(x, more)'
    BY <1>7 DEF Reader
  <1>9. Awaiting' = Awaiting /\ Unsent' = Unsent
    BY <1>1, <1>2, NextParts DEF Awaiting, Unsent
  <1>10. Fits(Awaiting', x, toClient', sock' = "up", atServer', Unsent')
    BY <1>1, <1>3, <1>9
  <1> QED
    BY <1>1, <1>2, <1>3, <1>4, <1>8, <1>10, AliveNext

(* A clean client calls no callback for an unexpected message.              *)
LEMMA Controls ==
  ASSUME Clean
  PROVE  ctl \in Resting \cup {"connectOk", "parse", "reply"}
PROOF
  <1>1. CASE state = "Connected"
    <2>1. \E x \in Seq(Any), more \in BOOLEAN : Reader(x, more)
      BY <1>1, AliveNow
    <2> QED
      BY <2>1 DEF Reader, Starting, Ended, Waiting, Arrived, Parsing
  <1>2. CASE state # "Connected"
    BY <1>2 DEF Clean, Idle
  <1> QED
    BY <1>1, <1>2

(* An error handler returns to the event loop and changes nothing.          *)
LEMMA ReturnErrorClean ==
  ASSUME IInv, Clean, ReturnError
  PROVE  Clean' /\ ctl # "reply" /\ ctl' # "reply"
PROOF
  <1>1. ctl \in Resting /\ ctl' = "loop"
    BY Controls DEF ReturnError, Upcalls, Resting
  <1>2. /\ state' = state /\ sock' = sock /\ partial' = partial /\ handlers' = handlers
        /\ dataQueued' = dataQueued /\ pendWrites' = pendWrites /\ pendReads' = pendReads
        /\ doneq' = doneq /\ atServer' = atServer /\ toClient' = toClient
        /\ headCut' = headCut /\ chunk' = chunk /\ strandq' = strandq
    BY DEF ReturnError, client, ops, wire
  <1>3. ctl' \in Resting
    BY <1>1 DEF Resting
  <1> QED
    BY <1>1, <1>2, <1>3, SameClean DEF Resting

(* An async_connect ends when nothing else waits to be handled.             *)
LEMMA ConnectResolvedClean ==
  ASSUME IInv, Clean, Opening, NEW result \in {"ok", "failed"}, ConnectResolved(result)
  PROVE  Clean'
PROOF
  <1>1. /\ pendConnect /\ doneq = <<>> /\ doneq' = <<Done("connect", result)>>
        /\ sock' = IF result = "ok" THEN "up" ELSE "down"
        /\ state' = state /\ handlers' = handlers /\ dataQueued' = dataQueued
        /\ strandq' = strandq /\ partial' = partial /\ ctl' = ctl /\ chunk' = chunk
        /\ pendReads' = pendReads /\ pendWrites' = pendWrites
        /\ atServer' = atServer /\ toClient' = toClient /\ headCut' = headCut
    BY DEF ConnectResolved, client, io
  <1>2. sock = "opening" /\ partial = FALSE
    BY <1>1 DEF Opening, Clean
  <1>3. state # "Connected" /\ state \in {"Unconnected", "Connecting", "Closed"}
    BY <1>2, AliveNow DEF Clean
  <1>4. Idle
    BY <1>3 DEF Clean
  <1> DEFINE c == Done("connect", result)
  <1>5. c.op = "connect" /\ c.st = result
    BY DEF Done
  <1> HIDE DEF c
  <1>6. doneq' = <<c>> /\ DOMAIN <<c>> = {1} /\ <<c>>[1] = c /\ Len(<<c>>) = 1 /\ <<c>> # <<>>
    BY <1>1 DEF c
  <1>7. NoBlocks(doneq')
    BY <1>5, <1>6 DEF NoBlocks, IsBlock
  <1>8. result = "ok" => LastConnected(doneq')
    BY <1>5, <1>6 DEF LastConnected, IsConnected
  <1>9. result # "ok" => NoneConnected(doneq')
    BY <1>5, <1>6 DEF NoneConnected, IsConnected
  <1> QED
    BY <1>1, <1>2, <1>3, <1>4, <1>7, <1>8, <1>9, IdleNext DEF Idle

(* A command on its way to the server is still under way.                   *)
LEMMA SendSomeClean ==
  ASSUME IInv, IInv', Clean, SendSome
  PROVE  Clean'
PROOF
  <1> DEFINE batch == Head(pendWrites)
  <1>1. /\ sock = "up" /\ pendWrites # <<>> /\ atServer' = Append(atServer, Head(batch))
        /\ state' = state /\ handlers' = handlers /\ dataQueued' = dataQueued
        /\ strandq' = strandq /\ partial' = partial /\ ctl' = ctl /\ chunk' = chunk
        /\ pendReads' = pendReads /\ sock' = sock /\ toClient' = toClient /\ headCut' = headCut
    BY DEF SendSome, client, io
  <1>2. /\ pendWrites \in Seq(Seq(Cmd)) /\ Len(pendWrites) <= 1 /\ pendWrites[1] # <<>>
        /\ doneq \in Seq(Completion)
    <2>1. pendWrites \in Seq(Seq(Cmd)) /\ doneq \in Seq(Completion)
      BY Completions
    <2>2. 1 \in DOMAIN pendWrites
      BY <1>1, <2>1, LenProperties, EmptySeq
    <2> QED
      BY <2>1, <2>2 DEF IInv, WriteDiscipline
  <1>3. batch \in Seq(Cmd) /\ batch # <<>> /\ Tail(pendWrites) = <<>>
    <2>1. Len(Tail(pendWrites)) = 0 /\ Tail(pendWrites) \in Seq(Seq(Cmd))
      <3>1. Tail(pendWrites) \in Seq(Seq(Cmd)) /\ Len(Tail(pendWrites)) = Len(pendWrites) - 1
        BY <1>1, <1>2, HeadTailProperties
      <3>2. Len(pendWrites) \in Nat \ {0}
        BY <1>1, <1>2, EmptySeq
      <3> QED
        BY <1>2, <3>1, <3>2
    <2> QED
      BY <1>1, <1>2, <2>1, HeadTailProperties, EmptySeq
  <1>4. state = "Connected"
    BY <1>1 DEF Clean, Idle
  <1>5. PICK x \in Seq(Any), more \in BOOLEAN :
          /\ Reader(x, more)
          /\ Fits(Awaiting, x, toClient, sock = "up", atServer, Unsent)
          /\ sock = "up" \/ toClient # <<>> => headCut = more
    BY <1>4, AliveNow
  <1>6. NoConnects(doneq)
    BY <1>4, AliveNow
  <1>7. Done("write", "ok") \in Completion /\ Done("write", "ok").op = "write"
    BY DoneType DEF Kinds, Results
  <1>8. SameBlocks(doneq, doneq') /\ NoConnects(doneq')
    <2>1. doneq' \in {doneq, Append(doneq, Done("write", "ok"))}
      BY DEF SendSome
    <2>2. SameBlocks(doneq, doneq)
      BY DEF SameBlocks
    <2> QED
      BY <1>2, <1>6, <1>7, <2>1, <2>2, AppendQueue DEF IsBlock
  <1>9. Unsent # <<>> /\ Head(Unsent) = Head(batch) /\ Unsent' = Tail(Unsent)
    <2>1. /\ batch \in Seq(Any) /\ dataQueued \in Seq(Any)
          /\ Tail(batch) \in Seq(Any) /\ Head(batch) \in Any
      <3>1. Cmd \subseteq Any
        BY AsyncAssumption DEF Cmd, Any, Garbage
      <3>2. batch \in Seq(Any)
        BY <1>3, <3>1, SeqMonotonic
      <3> QED
        BY <1>3, <3>2, Streams, HeadTailProperties
    <2>2. Unsent = batch \o dataQueued
      BY <1>1 DEF Unsent
    <2>3. Unsent' = Tail(batch) \o dataQueued
      <3>1. CASE Len(batch) = 1
        <4>1. pendWrites' = <<>>
          BY <1>3, <3>1 DEF SendSome
        <4>2. Tail(batch) = <<>>
          <5>1. Tail(batch) \in Seq(Cmd) /\ Len(Tail(batch)) = Len(batch) - 1
            BY ONLY <1>3, HeadTailProperties
          <5>2. Tail(batch) # <<>> => Len(Tail(batch)) # 0
            BY <5>1, EmptySeq
          <5> QED
            BY <3>1, <5>1, <5>2
        <4> QED
          BY <1>1, <4>1, <4>2, NextParts
      <3>2. CASE Len(batch) # 1
        <4>1. pendWrites' = <<Tail(batch)>> \o Tail(pendWrites)
          BY <3>2 DEF SendSome
        <4>2. <<Tail(batch)>> \in Seq(Seq(Cmd))
          BY <1>3, HeadTailProperties
        <4>3. pendWrites' = <<Tail(batch)>>
          BY <1>3, <4>1, <4>2, ConcatEmptySeq
        <4> QED
          BY <1>1, <4>3, NextParts
      <3> QED
        BY <3>1, <3>2
    <2>4. PICK b \in Seq(Any), d \in Seq(Any) : b = batch /\ d = dataQueued
      BY <2>1
    <2>5. b # <<>> /\ Head(b) \in Any /\ Tail(b) \in Seq(Any) /\ Tail(b) \o d \in Seq(Any)
      BY <1>3, <2>1, <2>4, ConcatProperties
    <2>6. b \o d = <<Head(b)>> \o (Tail(b) \o d)
      <3>1. b = <<Head(b)>> \o Tail(b) /\ <<Head(b)>> \in Seq(Any)
        BY <2>5, HeadTailProperties
      <3>2. Regroup(<<Head(b)>>, Tail(b), d)
        BY <2>4, <2>5, <3>1, Assoc
      <3> QED
        BY <3>1, <3>2 DEF Regroup
    <2>7. b \o d # <<>> /\ Head(b \o d) = Head(b) /\ Tail(b \o d) = Tail(b) \o d
      BY <2>5, <2>6
    <2> QED
      BY <2>2, <2>3, <2>4, <2>7
  <1>10. Awaiting \in Seq(Any)
    BY <1>5, AwaitingType
  <1>11. Fits(Awaiting, x, toClient, sock = "up", Append(atServer, Head(Unsent)), Tail(Unsent))
    BY <1>5, <1>9, <1>10, Streams, FitsSend
  <1>12. Awaiting' = Awaiting
    BY <1>1, NextParts DEF Awaiting
  <1>13. Fits(Awaiting', x, toClient', sock' = "up", atServer', Unsent')
    BY <1>1, <1>9, <1>11, <1>12
  <1>14. Reader(x, more)'
    BY <1>1, <1>5, <1>8, ReaderKept
  <1> QED
    BY <1>1, <1>4, <1>5, <1>8, <1>13, <1>14, AliveNext


(* Without a connection nothing more needs to be sent.                      *)
LEMMA FailWriteClean ==
  ASSUME IInv, IInv', Clean, FailWrite
  PROVE  Clean'
PROOF
  <1>1. /\ sock = "down" /\ pendWrites # <<>>
        /\ doneq' = Append(doneq, Done("write", "failed")) /\ doneq \in Seq(Completion)
        /\ state' = state /\ handlers' = handlers /\ partial' = partial /\ ctl' = ctl
        /\ chunk' = chunk /\ pendReads' = pendReads /\ sock' = sock
        /\ toClient' = toClient /\ headCut' = headCut
    BY Completions DEF FailWrite, client, io, wire
  <1>2. state = "Connected"
    BY <1>1 DEF Clean, Idle
  <1>3. PICK x \in Seq(Any), more \in BOOLEAN :
          /\ Reader(x, more)
          /\ Fits(Awaiting, x, toClient, sock = "up", atServer, Unsent)
          /\ sock = "up" \/ toClient # <<>> => headCut = more
    BY <1>2, AliveNow
  <1>4. NoConnects(doneq)
    BY <1>2, AliveNow
  <1>5. Done("write", "failed") \in Completion /\ Done("write", "failed").op = "write"
    BY DoneType DEF Kinds, Results
  <1>6. SameBlocks(doneq, doneq') /\ NoConnects(doneq')
    BY <1>1, <1>4, <1>5, AppendQueue DEF IsBlock
  <1>7. Reader(x, more)'
    BY <1>1, <1>3, <1>6, ReaderKept
  <1>8. Awaiting' = Awaiting
    BY <1>1, NextParts DEF Awaiting
  <1>9. Fits(Awaiting', x, toClient', sock' = "up", atServer', Unsent')
    BY <1>1, <1>3, <1>8 DEF Fits
  <1> QED
    BY <1>1, <1>2, <1>3, <1>6, <1>7, <1>9, AliveNext

(* A reply takes the place of its command in the stream.                    *)
LEMMA ServerReplyClean ==
  ASSUME IInv, IInv', Clean, ServerReply
  PROVE  Clean'
PROOF
  <1>1. /\ sock = "up" /\ atServer # <<>> /\ atServer' = Tail(atServer)
        /\ toClient' = Append(toClient, Head(atServer))
        /\ state' = state /\ handlers' = handlers /\ dataQueued' = dataQueued
        /\ partial' = partial /\ ctl' = ctl /\ chunk' = chunk /\ pendReads' = pendReads
        /\ pendWrites' = pendWrites /\ doneq' = doneq /\ sock' = sock /\ headCut' = headCut
    BY DEF ServerReply, client, io, ops
  <1>2. state = "Connected"
    BY <1>1 DEF Clean, Idle
  <1>3. PICK x \in Seq(Any), more \in BOOLEAN :
          /\ Reader(x, more)
          /\ Fits(Awaiting, x, toClient, sock = "up", atServer, Unsent)
          /\ sock = "up" \/ toClient # <<>> => headCut = more
    BY <1>2, AliveNow
  <1>4. NoConnects(doneq) /\ SameBlocks(doneq, doneq')
    BY <1>1, <1>2, AliveNow DEF SameBlocks
  <1>5. Awaiting \in Seq(Any)
    BY <1>3, AwaitingType
  <1>6. sock = "up" <=> TRUE
    BY <1>1
  <1>7. Fits(Awaiting, x, toClient, TRUE, atServer, Unsent)
    BY <1>3, <1>6 DEF Fits
  <1>8. Fits(Awaiting, x, Append(toClient, Head(atServer)), TRUE, Tail(atServer), Unsent)
    BY <1>1, <1>5, <1>7, Streams, FitsReply
  <1>9. Awaiting' = Awaiting /\ Unsent' = Unsent
    BY <1>1, NextParts DEF Awaiting, Unsent
  <1>10. Fits(Awaiting', x, toClient', sock' = "up", atServer', Unsent')
    BY <1>1, <1>8, <1>9 DEF Fits
  <1>11. Reader(x, more)'
    BY <1>1, <1>3, <1>4, ReaderKept
  <1> QED
    BY <1>1, <1>2, <1>3, <1>4, <1>10, <1>11, AliveNext

(* A connection that drops takes the end of the stream with it.             *)
LEMMA PeerDropClean ==
  ASSUME IInv, IInv', Clean, NEW arrives \in 0 .. Len(toClient), PeerDrop(arrives)
  PROVE  Clean'
PROOF
  <1>1. /\ sock = "up" /\ sock' = "down" /\ atServer' = <<>>
        /\ toClient' = SubSeq(toClient, 1, arrives)
        /\ headCut' = (headCut /\ arrives > 0)
        /\ state' = state /\ handlers' = handlers /\ dataQueued' = dataQueued
        /\ strandq' = strandq /\ partial' = partial /\ ctl' = ctl /\ chunk' = chunk
        /\ pendReads' = pendReads /\ pendWrites' = pendWrites /\ doneq' = doneq
    BY DEF PeerDrop, client, io, ops
  <1>2. toClient \in Seq(Any) /\ Len(toClient) \in Nat /\ headCut \in BOOLEAN
    BY Streams, LenProperties DEF IInv, TypeOK, FlagsOK
  <1>3. arrives = 0 => toClient' = <<>>
    BY <1>1, SubSeqEmpty
  <1>4. CASE state = "Connected"
    <2>1. PICK x \in Seq(Any), more \in BOOLEAN :
            /\ Reader(x, more)
            /\ Fits(Awaiting, x, toClient, sock = "up", atServer, Unsent)
            /\ sock = "up" \/ toClient # <<>> => headCut = more
      BY <1>4, AliveNow
    <2>2. NoConnects(doneq) /\ SameBlocks(doneq, doneq')
      BY <1>1, <1>4, AliveNow DEF SameBlocks
    <2>3. Awaiting \in Seq(Any)
      BY <2>1, AwaitingType
    <2>4. Fits(Awaiting, x, SubSeq(toClient, 1, arrives), FALSE, atServer', Unsent')
      BY <1>2, <2>1, <2>3, Streams, FitsDrop
    <2>5. Awaiting' = Awaiting
      BY <1>1, NextParts DEF Awaiting
    <2>6. Fits(Awaiting', x, toClient', sock' = "up", atServer', Unsent')
      BY <1>1, <2>4, <2>5 DEF Fits
    <2>7. Reader(x, more)'
      BY <1>1, <2>1, <2>2, ReaderKept
    <2>8. toClient' # <<>> => headCut' = more
      <3>1. headCut = more
        BY <1>1, <2>1
      <3>2. toClient' # <<>> => arrives > 0
        BY <1>3
      <3> QED
        BY <1>1, <1>2, <3>1, <3>2
    <2> QED
      BY <1>1, <1>4, <2>1, <2>2, <2>6, <2>7, <2>8, AliveNext
  <1>5. CASE state # "Connected"
    <2>1. Idle /\ state \in {"Unconnected", "Connecting", "Closed"}
      BY <1>5 DEF Clean
    <2>2. Len(toClient) = 0 /\ headCut = FALSE
      BY <2>1 DEF Idle
    <2>3. toClient' = <<>> /\ headCut' = FALSE
      <3>1. arrives = 0
        BY <2>2
      <3>2. ~headCut'
        BY <1>1, <2>2
      <3>3. headCut' \in BOOLEAN
        BY DEF IInv, TypeOK, FlagsOK
      <3> QED
        BY <1>3, <3>1, <3>2, <3>3
    <2>4. LastConnected(doneq) /\ partial = FALSE
      BY <1>1, <2>1 DEF Idle
    <2> QED
      BY <1>1, <2>1, <2>3, <2>4, IdleNext DEF Idle
  <1> QED
    BY <1>4, <1>5

(* A block starts where the parser is, and its replies are the next ones.   *)
LEMMA ReadSomeClean ==
  ASSUME IInv, IInv', Clean, NEW n \in 0 .. MaxCmds, NEW more \in BOOLEAN,
         ReadSome(n, more)
  PROVE  Clean'
PROOF
  <1> DEFINE ids   == SubSeq(toClient, 1, n)
             rest  == SubSeq(toClient, n + 1, Len(toClient))
             block == [op |-> "read", st |-> "ok", ids |-> ids, cont |-> headCut,
                       more |-> more]
  <1>1. /\ sock \in {"up", "down"} /\ pendReads > 0 /\ n <= Len(toClient)
        /\ more => n < Len(toClient)
        /\ n = 0 => more /\ ~headCut
        /\ pendReads' = pendReads - 1
        /\ doneq' = Append(Overwritten(doneq), block)
        /\ toClient' = rest /\ headCut' = more
        /\ state' = state /\ handlers' = handlers /\ dataQueued' = dataQueued
        /\ partial' = partial /\ ctl' = ctl /\ chunk' = chunk
        /\ pendWrites' = pendWrites /\ sock' = sock /\ atServer' = atServer
    BY DEF ReadSome, client, io
  <1>2. state = "Connected"
    BY <1>1 DEF Clean, Idle
  <1>3. PICK x \in Seq(Any), before \in BOOLEAN :
          /\ Reader(x, before)
          /\ Fits(Awaiting, x, toClient, sock = "up", atServer, Unsent)
          /\ sock = "up" \/ toClient # <<>> => headCut = before
    BY <1>2, AliveNow
  <1>4. NoConnects(doneq) /\ doneq \in Seq(Completion) /\ MaxCmds \in Nat
    BY <1>2, AliveNow, Completions, AsyncAssumption
  <1>5. Waiting(x, before)
    BY <1>1, <1>3 DEF Reader, Starting, Ended, Arrived, Parsing, ReadNothing
  <1>6. ctl \in Resting /\ pendReads = 1 /\ NoBlocks(doneq) /\ chunk = NoBlock
        /\ x = <<>> /\ before = partial
    BY <1>5 DEF Waiting
  <1>7. toClient \in Seq(Any) /\ Len(toClient) \in Nat /\ n \in 0 .. Len(toClient)
    BY <1>1, Streams, LenProperties
  <1>8. toClient # <<>>
    <2>1. Len(toClient) > 0
      BY <1>1, <1>7
    <2> QED
      BY <2>1
  <1>9. headCut = partial /\ headCut \in BOOLEAN
    BY <1>3, <1>6, <1>8 DEF IInv, TypeOK, FlagsOK
  <1>10. /\ ids \in Seq(Any)
         /\ Fits(Awaiting, ids, rest, sock = "up", atServer, Unsent)
    <2>1. Awaiting \in Seq(Any)
      BY <1>3, AwaitingType
    <2> QED
      BY <1>3, <1>6, <1>7, <2>1, SplitSeq, FitsRead
  <1>11. block \in Completion /\ IsBlock(block) /\ block.op # "connect"
         /\ block.cont = partial /\ block.ids = ids /\ block.more = more
    BY <1>9, <1>10 DEF Completion, Kinds, Results, Any, IsBlock
  <1> HIDE DEF block, ids, rest
  <1>12. Overwritten(doneq) \in Seq(Completion)
    BY <1>4, OverwrittenType
  <1>13. OneBlock(doneq', block) /\ NoConnects(doneq')
    BY <1>1, <1>4, <1>6, <1>11, <1>12, OverwrittenQueue, AppendQueue
  <1>14. PICK r \in Completion : r = block
    BY <1>11
  <1>15. OneBlock(doneq, r)'
    BY <1>13, <1>14 DEF OneBlock
  <1>16. PICK y \in Seq(Any) : y = ids
    BY <1>10
  <1>17. chunk' = NoBlock'
    BY <1>1, <1>6 DEF NoBlock
  <1>18. pendReads' = 0 /\ r.cont = partial' /\ y = r.ids /\ more = r.more
    BY <1>1, <1>6, <1>11, <1>14, <1>16
  <1>19. Arrived(y, more)'
    BY <1>1, <1>6, <1>15, <1>17, <1>18 DEF Arrived
  <1>20. Reader(y, more)'
    BY <1>19 DEF Reader
  <1>21. Awaiting' = Awaiting /\ Unsent' = Unsent
    BY <1>1, NextParts DEF Awaiting, Unsent
  <1>22. Fits(Awaiting', y, toClient', sock' = "up", atServer', Unsent')
    BY <1>1, <1>10, <1>16, <1>21
  <1> QED
    BY <1>1, <1>2, <1>13, <1>20, <1>22, AliveNext

(* The end of the connection ends the read loop.                            *)
LEMMA ReadEofClean ==
  ASSUME IInv, IInv', Clean, ReadEof
  PROVE  Clean'
PROOF
  <1>1. /\ sock = "down" /\ pendReads > 0 /\ toClient = <<>> /\ pendReads' = pendReads - 1
        /\ doneq' = Append(doneq, Done("read", "failed")) /\ doneq \in Seq(Completion)
        /\ state' = state /\ handlers' = handlers /\ dataQueued' = dataQueued
        /\ partial' = partial /\ ctl' = ctl /\ chunk' = chunk /\ pendWrites' = pendWrites
        /\ sock' = sock /\ atServer' = atServer /\ toClient' = toClient /\ headCut' = headCut
    BY Completions DEF ReadEof, client, io, wire
  <1>2. state = "Connected"
    BY <1>1 DEF Clean, Idle
  <1>3. PICK x \in Seq(Any), more \in BOOLEAN :
          /\ Reader(x, more)
          /\ Fits(Awaiting, x, toClient, sock = "up", atServer, Unsent)
          /\ sock = "up" \/ toClient # <<>> => headCut = more
    BY <1>2, AliveNow
  <1>4. NoConnects(doneq)
    BY <1>2, AliveNow
  <1>5. Waiting(x, more)
    BY <1>1, <1>3 DEF Reader, Starting, Ended, Arrived, Parsing, ReadNothing
  <1>6. Done("read", "failed") \in Completion /\ Done("read", "failed").op = "read"
        /\ Done("read", "failed").st = "failed"
    BY DoneType DEF Kinds, Results, Done
  <1>7. SameBlocks(doneq, doneq') /\ NoConnects(doneq')
    BY <1>1, <1>4, <1>6, AppendQueue DEF IsBlock
  <1>8. NoBlocks(doneq)'
    BY <1>5, <1>7 DEF SameBlocks, Waiting, NoBlocks
  <1>9. chunk' = NoBlock' /\ pendReads' = 0
    BY <1>1, <1>5 DEF Waiting, NoBlock
  <1>10. ReadNothing(x, more)'
    BY <1>1, <1>5, <1>8, <1>9 DEF ReadNothing, Waiting
  <1>11. Ended(x, more)'
    BY <1>1, <1>5, <1>10 DEF Ended, Waiting
  <1>12. Reader(x, more)'
    BY <1>11 DEF Reader
  <1>13. Awaiting' = Awaiting /\ Unsent' = Unsent
    BY <1>1, NextParts DEF Awaiting, Unsent
  <1>14. Fits(Awaiting', x, toClient', sock' = "up", atServer', Unsent')
    BY <1>1, <1>3, <1>13
  <1> QED
    BY <1>1, <1>2, <1>3, <1>7, <1>12, <1>14, AliveNext


-----------------------------------------------------------------------------
(* The socket opens exactly while an async_connect is pending.              *)
LEMMA OpeningStep ==
  ASSUME IInv, Opening, [Next]_vars
  PROVE  Opening'
PROOF
  <1>1. pendConnect \in BOOLEAN
    BY DEF IInv, TypeOK, FlagsOK
  <1>2. CASE \E via \in Transports : Connect(via)
    BY <1>1, <1>2 DEF Opening, Connect, ConnectStarts, ConnectIgnored, wire
  <1>3. CASE Disconnect
    BY <1>3 DEF Opening, Disconnect
  <1>4. CASE Command
    BY <1>4 DEF Opening, Command, ops, wire
  <1>5. CASE Handlers
    BY <1>5 DEF Opening, Handlers, DoAsyncCommand, HandleAsyncConnect, AsyncWrite, AsyncRead,
                wire
  <1>6. CASE Running
    BY <1>6 DEF Opening, Running, DoProcessMessage, EndOfBlock, ReturnConnected, ReturnReply,
                ReturnError, ops, wire
  <1>7. CASE \E result \in {"ok", "failed"} : ConnectResolved(result)
    BY <1>7 DEF Opening, ConnectResolved
  <1>8. CASE SendSome \/ FailWrite \/ ServerReply \/ ReadEof
    BY <1>8 DEF Opening, SendSome, FailWrite, ServerReply, ReadEof, ops, wire
  <1>9. CASE Reading
    BY <1>9 DEF Opening, Reading, ReadSome
  <1>10. CASE \E arrives \in 0 .. Len(toClient) : PeerDrop(arrives)
    BY <1>10 DEF Opening, PeerDrop, ops
  <1>11. CASE UNCHANGED vars
    BY <1>11 DEF Opening, vars, ops, wire
  <1> QED
    BY <1>2, <1>3, <1>4, <1>5, <1>6, <1>7, <1>8, <1>9, <1>10, <1>11 DEF Next, App, Network

(* What has been left behind stays left behind.                             *)
LEMMA DirtyStays ==
  ASSUME IInv, [Next]_vars, dirty
  PROVE  dirty'
PROOF
  <1>1. CASE \E via \in Transports : Connect(via)
    BY <1>1 DEF Connect, ConnectStarts, ConnectIgnored
  <1>2. CASE Disconnect
    BY <1>2 DEF Disconnect
  <1>3. CASE Command
    BY <1>3 DEF Command
  <1>4. CASE Handlers
    BY <1>4 DEF Handlers, DoAsyncCommand, HandleAsyncConnect, AsyncWrite, AsyncRead, history
  <1>5. CASE Running
    BY <1>5 DEF Running, DoProcessMessage, EndOfBlock, ReturnConnected, ReturnReply,
                ReturnError, history
  <1>6. CASE Network
    BY <1>6 DEF Network, ConnectResolved, SendSome, FailWrite, ServerReply, Reading,
                ReadSome, ReadEof, PeerDrop, history
  <1>7. CASE UNCHANGED vars
    BY <1>7 DEF vars, history
  <1> QED
    BY <1>1, <1>2, <1>3, <1>4, <1>5, <1>6, <1>7 DEF Next, App

(* Every step that leaves nothing behind keeps the client clean.            *)
LEMMA CleanStep ==
  ASSUME IInv, IInv', Opening, Clean, [Next]_vars, ~dirty'
  PROVE  Clean'
PROOF
  <1>1. CASE \E via \in Transports : Connect(via)
    BY <1>1, ConnectClean
  <1>2. CASE Disconnect
    BY <1>2, DisconnectClean
  <1>3. CASE Command
    <2>1. /\ state = "Connected" /\ state' = state /\ sock' = sock /\ partial' = partial
          /\ handlers' = handlers /\ dataQueued' = dataQueued /\ pendWrites' = pendWrites
          /\ pendReads' = pendReads /\ doneq' = doneq /\ atServer' = atServer
          /\ toClient' = toClient /\ headCut' = headCut /\ chunk' = chunk /\ ctl' = ctl
      BY <1>3 DEF Command, io, ops, wire
    <2> QED
      BY <2>1, SameClean
  <1>4. CASE Handlers
    BY <1>4, DoAsyncCommandClean, HandleAsyncConnectClean, AsyncWriteClean, AsyncReadClean
       DEF Handlers
  <1>5. CASE Running
    BY <1>5, Answering, ReadOnClean, ReturnReplyClean, ReturnErrorClean DEF Running
  <1>6. CASE Network
    <2>1. CASE Reading
      BY <2>1, ReadSomeClean DEF Reading
    <2>2. CASE ~Reading
      BY <1>6, <2>2, ConnectResolvedClean, SendSomeClean, FailWriteClean, ServerReplyClean,
         ReadEofClean, PeerDropClean DEF Network
    <2> QED
      BY <2>1, <2>2
  <1>7. CASE UNCHANGED vars
    <2>1. /\ state' = state /\ sock' = sock /\ partial' = partial /\ strandq' = strandq
          /\ handlers' = handlers /\ dataQueued' = dataQueued /\ pendWrites' = pendWrites
          /\ pendReads' = pendReads /\ doneq' = doneq /\ atServer' = atServer
          /\ toClient' = toClient /\ headCut' = headCut /\ chunk' = chunk /\ ctl' = ctl
      BY <1>7 DEF vars, client, io, ops, wire
    <2> QED
      BY <2>1, SameClean
  <1> QED
    BY <1>1, <1>2, <1>3, <1>4, <1>5, <1>6, <1>7 DEF Next, App

(* The client starts clean.                                                 *)
LEMMA InitClean == Init => CInv
PROOF
  <1> SUFFICES ASSUME Init PROVE CInv
    OBVIOUS
  <1>1. Opening
    BY DEF Init, Opening
  <1>2. NoBlocks(doneq) /\ NoneConnected(doneq)
    BY DEF Init, NoBlocks, NoneConnected
  <1>3. Idle
    BY <1>2 DEF Init, Idle, Resting
  <1> QED
    BY <1>1, <1>3 DEF Init, CInv, Clean

(* Every step keeps the inductive invariant of the client and its streams.  *)
LEMMA CleanInv == IInv /\ CInv /\ [Next]_vars => CInv'
PROOF
  <1> SUFFICES ASSUME IInv, CInv, [Next]_vars PROVE CInv'
    OBVIOUS
  <1>1. IInv'
    BY StepInv
  <1>2. Opening'
    BY OpeningStep DEF CInv
  <1>3. ASSUME ~dirty' PROVE Clean'
    <2>1. ~dirty
      BY <1>3, DirtyStays
    <2> QED
      BY <1>1, <1>3, <2>1, CleanStep DEF CInv
  <1> QED
    BY <1>2, <1>3 DEF CInv

(* As long as nothing is left behind, the client is clean in every state.   *)
THEOREM StreamsInvariant == Spec => [](IInv /\ CInv)
PROOF
  <1>1. IInv /\ CInv /\ [Next]_vars => (IInv /\ CInv)'
    BY StepInv, CleanInv
  <1> QED
    BY <1>1, InitInv, InitClean, PTL DEF Spec

-----------------------------------------------------------------------------
(* What the invariant says of the properties of the runs.                   *)

(* The one block that waits to be handled is the one BlockIds chooses.      *)
LEMMA BlocksThere ==
  /\ NoBlocks(doneq) => Blocks = {} /\ BlockIds = <<>>
  /\ \A r \in Completion : OneBlock(doneq, r) =>
       BlockIds = r.ids /\ \E b : Blocks = {b}
PROOF
  <1>1. NoBlocks(doneq) => Blocks = {} /\ BlockIds = <<>>
    BY DEF NoBlocks, IsBlock, Blocks, BlockIds
  <1>2. ASSUME NEW r \in Completion, OneBlock(doneq, r)
        PROVE  BlockIds = r.ids /\ \E b : Blocks = {b}
    <2>1. PICK b \in DOMAIN doneq :
            /\ doneq[b] = r /\ IsBlock(r)
            /\ \A i \in DOMAIN doneq : IsBlock(doneq[i]) => i = b
      BY <1>2 DEF OneBlock
    <2>2. Blocks = {b}
      BY <2>1 DEF Blocks, IsBlock
    <2>3. (CHOOSE i \in Blocks : TRUE) = b
      BY <2>2
    <2>4. BlockIds = r.ids
      BY <2>1, <2>2, <2>3 DEF BlockIds
    <2> QED
      BY <2>2, <2>4
  <1> QED
    BY <1>1, <1>2

(* The replies of the block in hand are those of Received.                  *)
LEMMA ReceivedThere ==
  ASSUME IInv, NEW x \in Seq(Any), NEW more, Reader(x, more)
  PROVE  Received = x \o toClient
PROOF
  <1>1. toClient \in Seq(Any) /\ chunk.ids \in Seq(Any) /\ <<>> \in Seq(Any)
    BY Streams, EmptySeq
  <1>2. \/ chunk.ids = <<>> /\ BlockIds = x
        \/ chunk.ids = x /\ BlockIds = <<>>
    BY BlocksThere DEF Reader, Starting, Ended, Waiting, Arrived, Parsing, ReadNothing, NoBlock
  <1>3. chunk.ids \o BlockIds = x
    BY <1>1, <1>2, ConcatEmptySeq
  <1> QED
    BY <1>3 DEF Received

(* The stream of replies and commands is what Conveyor says it is.          *)
LEMMA CleanConveyor == IInv /\ CInv => Conveyor
PROOF
  <1> SUFFICES ASSUME IInv, CInv, ~dirty
               PROVE  CASE sock = "up"   -> Awaiting = Received \o atServer \o Unsent
                        [] sock = "down" -> Prefix(Received, Awaiting)
                        [] OTHER         -> handlers = <<>> /\ Received = <<>>
                                            /\ state # "Connected"
    BY DEF Conveyor
  <1>1. Clean
    BY DEF CInv
  <1>2. <<>> \in Seq(Any) /\ <<>> \o <<>> = <<>>
    BY EmptySeq, ConcatEmptySeq
  <1>3. CASE state = "Connected"
    <2>1. PICK x \in Seq(Any), more \in BOOLEAN :
            /\ Reader(x, more)
            /\ Fits(Awaiting, x, toClient, sock = "up", atServer, Unsent)
      BY <1>1, <1>3, AliveNow
    <2>2. sock \in {"up", "down"}
      BY <1>1, <1>3, AliveNow
    <2>3. Received = x \o toClient
      BY <2>1, ReceivedThere
    <2>4. Awaiting \in Seq(Any)
      BY <2>1, AwaitingType
    <2>5. /\ Prefix(x \o toClient, Awaiting)
          /\ sock = "up" => Awaiting = ((x \o toClient) \o atServer) \o Unsent
      <3>1. PICK live \in BOOLEAN : live <=> sock = "up"
        OBVIOUS
      <3>2. Fits(Awaiting, x, toClient, live, atServer, Unsent)
        BY <2>1, <3>1 DEF Fits
      <3>3. /\ Prefix(x \o toClient, Awaiting)
            /\ live => Awaiting = ((x \o toClient) \o atServer) \o Unsent
        BY <2>4, <3>2, Streams, FitsWhole
      <3> QED
        BY <3>1, <3>3
    <2>6. Prefix(Received, Awaiting)
      BY <2>3, <2>5
    <2>7. sock = "up" => Awaiting = Received \o atServer \o Unsent
      BY <2>3, <2>5
    <2> QED
      BY <2>2, <2>6, <2>7
  <1>4. CASE state # "Connected"
    <2>1. Idle
      BY <1>1, <1>4 DEF Clean
    <2>2. Awaiting = <<>> /\ handlers = <<>>
      BY <2>1 DEF Idle, Awaiting, Resting
    <2>3. Received = <<>>
      BY <1>2, <2>1, BlocksThere DEF Idle, Received, NoBlock
    <2>4. Unsent = <<>> /\ atServer = <<>>
      BY <1>2, <2>1 DEF Idle, Unsent
    <2>5. Awaiting = Received \o atServer \o Unsent
      BY <1>2, <2>2, <2>3, <2>4
    <2>6. Prefix(Received, Awaiting)
      BY <2>2, <2>3 DEF Prefix
    <2> QED
      BY <1>4, <2>2, <2>3, <2>5, <2>6
  <1> QED
    BY <1>3, <1>4

(* The read loop is what NoStray and OneReader say it is.                   *)
LEMMA CleanReaders == IInv /\ CInv => NoStray /\ OneReader
PROOF
  <1> SUFFICES ASSUME IInv, CInv, ~dirty
               PROVE  /\ ctl \notin {"unexpected", "parseErr"}
                      /\ Readers <= 1 /\ (sock = "up" /\ ~Connecting => Readers = 1)
    BY DEF NoStray, OneReader
  <1>1. Clean
    BY DEF CInv
  <1>2. ctl \in Resting \cup {"connectOk", "parse", "reply"}
    BY <1>1, Controls
  <1>3. /\ Blocks = {} => Cardinality(Blocks) = 0
        /\ \A b : Blocks = {b} => Cardinality(Blocks) = 1
    BY FS_EmptySet, FS_Singleton
  <1>4. CASE state = "Connected"
    <2>1. PICK x \in Seq(Any), more \in BOOLEAN : Reader(x, more)
      BY <1>1, <1>4, AliveNow
    <2>2. CASE Starting(x, more) \/ Waiting(x, more) \/ Parsing(x, more)
      <3>1. Cardinality(Blocks) = 0
        BY <1>3, <2>2, BlocksThere DEF Starting, Waiting, Parsing, ReadNothing
      <3>2. Readers = 1
        BY <2>2, <3>1 DEF Starting, Waiting, Parsing, ReadNothing, Resting, Readers
      <3> QED
        BY <1>2, <3>2 DEF Resting
    <2>3. CASE Arrived(x, more)
      <3>1. Cardinality(Blocks) = 1
        BY <1>3, <2>3, BlocksThere DEF Arrived
      <3>2. Readers = 1
        BY <2>3, <3>1 DEF Arrived, Resting, Readers
      <3> QED
        BY <1>2, <3>2 DEF Resting
    <2>4. CASE Ended(x, more)
      <3>1. Cardinality(Blocks) = 0
        BY <1>3, <2>4, BlocksThere DEF Ended, ReadNothing
      <3>2. Readers = 0 /\ sock = "down"
        BY <2>4, <3>1 DEF Ended, ReadNothing, Resting, Readers
      <3> QED
        BY <1>2, <3>2 DEF Resting
    <2> QED
      BY <2>1, <2>2, <2>3, <2>4 DEF Reader
  <1>5. CASE state # "Connected"
    <2>1. Idle
      BY <1>1, <1>5 DEF Clean
    <2>2. Cardinality(Blocks) = 0
      BY <1>3, <2>1, BlocksThere DEF Idle
    <2>3. Readers = 0
      BY <2>1, <2>2 DEF Idle, Resting, Readers
    <2>4. sock = "up" => Connecting
      <3>1. SUFFICES ASSUME sock = "up" PROVE Connecting
        OBVIOUS
      <3>2. LastConnected(doneq)
        BY <2>1, <3>1 DEF Idle
      <3>3. doneq # <<>> /\ doneq \in Seq(Completion)
        BY <3>2, Completions DEF LastConnected
      <3>4. Len(doneq) \in DOMAIN doneq
        BY <3>3, LenProperties, EmptySeq
      <3> QED
        BY <3>2, <3>4 DEF LastConnected, IsConnected, Connecting
    <2> QED
      BY <1>2, <2>3, <2>4 DEF Resting
  <1> QED
    BY <1>4, <1>5

(* Whatever the order of connections, commands, blocks and drops: the       *)
(* handlers match, one for one and in order, the replies received and the   *)
(* commands under way, as long as no disconnect() has left work behind.     *)
THEOREM ConveyorHolds == Spec => []Conveyor
PROOF BY StreamsInvariant, CleanConveyor, PTL

(* Until then asyncRead() calls errorHandler for neither an unexpected nor  *)
(* a malformed reply.                                                       *)
THEOREM NoStrayReply == Spec => []NoStray
PROOF
  <1>1. IInv /\ CInv => NoStray
    BY CleanReaders
  <1> QED
    BY <1>1, StreamsInvariant, PTL

(* There is one receive buffer and never a second read loop to use it; and  *)
(* on a live connection the one loop there is does not end.                 *)
THEOREM OneReadLoop == Spec => []OneReader
PROOF
  <1>1. IInv /\ CInv => OneReader
    BY CleanReaders
  <1> QED
    BY <1>1, StreamsInvariant, PTL


-----------------------------------------------------------------------------
(* The promise of CommandQueue.                                             *)

(* What the client promises at the start.                                   *)
LEMMA PromiseInit == Init => Promise!Init
PROOF
  <1> SUFFICES ASSUME Init PROVE Promise!Init
    OBVIOUS
  <1>1. Awaiting = <<>> /\ strandq = <<>>
    BY DEF Init, Awaiting
  <1>2. <<>> \o <<>> = <<>>
    BY EmptySeq, ConcatEmptySeq
  <1> QED
    BY <1>1, <1>2 DEF Init, Promise!Init, Cmd

(* A step that leaves the handlers and the strand alone keeps the promise.  *)
LEMMA PromiseKept ==
  ASSUME handlers' = handlers, strandq' = strandq,
         ctl' = ctl \/ (ctl # "reply" /\ ctl' # "reply"),
         cmds' = cmds, answers' = answers, dirty' = dirty
  PROVE  UNCHANGED Promise!vars
PROOF
  <1>1. Awaiting' = Awaiting
    BY NextParts DEF Awaiting
  <1> QED
    BY <1>1 DEF Promise!vars

(* command() issues the next command.                                       *)
LEMMA PromiseIssue ==
  ASSUME IInv, Clean, Command
  PROVE  Promise!Issue
PROOF
  <1>1. /\ state = "Connected" /\ cmds < MaxCmds /\ cmds' = cmds + 1
        /\ strandq' = Append(strandq, cmds + 1) /\ handlers' = handlers /\ ctl' = ctl
        /\ answers' = answers /\ dirty' = dirty
    BY DEF Command, io
  <1>2. PICK x \in Seq(Any), more \in BOOLEAN : Reader(x, more)
    BY <1>1, AliveNow
  <1>3. Awaiting \in Seq(Any) /\ strandq \in Seq(Any)
    BY <1>2, AwaitingType, Streams
  <1>4. cmds + 1 \in Any
    BY <1>1, AsyncAssumption DEF IInv, TypeOK, HistoryOK, Any, Garbage
  <1>5. Awaiting \o Append(strandq, cmds + 1) = Append(Awaiting \o strandq, cmds + 1)
    BY <1>3, <1>4, AppendConcat
  <1>6. Awaiting' = Awaiting
    BY <1>1, NextParts DEF Awaiting
  <1> QED
    BY <1>1, <1>5, <1>6 DEF Promise!Issue

(* doAsyncCommand() moves a command from the strand to the handlers.        *)
LEMMA PromiseStrand ==
  ASSUME IInv, DoAsyncCommand
  PROVE  UNCHANGED Promise!vars
PROOF
  <1>1. /\ ctl = "loop" /\ ctl' = ctl /\ strandq # <<>> /\ strandq' = Tail(strandq)
        /\ handlers' = Append(handlers, Head(strandq))
        /\ cmds' = cmds /\ answers' = answers /\ dirty' = dirty
    BY DEF DoAsyncCommand, io, history
  <1>2. handlers \in Seq(Any) /\ strandq \in Seq(Any)
    BY Streams
  <1>3. handlers \o strandq = Append(handlers, Head(strandq)) \o Tail(strandq)
    BY <1>1, <1>2, MoveHead
  <1>4. Awaiting = handlers /\ Awaiting' = handlers'
    BY <1>1, NextParts DEF Awaiting
  <1> QED
    BY <1>1, <1>3, <1>4 DEF Promise!vars

(* doProcessMessage() answers the command that has waited longest, with the *)
(* reply to that command.                                                   *)
LEMMA PromiseAnswer ==
  ASSUME IInv, Clean, DoProcessMessage
  PROVE  Promise!Answer
PROOF
  <1>1. /\ handlers # <<>> /\ Head(chunk.ids) = Head(handlers) /\ Awaiting = handlers
        /\ ctl' = "reply"
    BY Answering
  <1>2. /\ handlers' = handlers /\ strandq' = strandq /\ cmds' = cmds /\ dirty' = dirty
        /\ answers' = [answers EXCEPT ![Head(handlers)] = Head(chunk.ids)]
    BY <1>1 DEF DoProcessMessage, client
  <1>3. Awaiting' = Tail(handlers)
    BY <1>1, <1>2, NextParts
  <1>4. PICK h \in Seq(Any), t \in Seq(Any) : h = handlers /\ t = strandq
    BY Streams
  <1>5. h # <<>> /\ h \o t # <<>> /\ Head(h \o t) = Head(h) /\ Tail(h \o t) = Tail(h) \o t
    <2>1. h # <<>> /\ h = <<Head(h)>> \o Tail(h) /\ Head(h) \in Any /\ Tail(h) \in Seq(Any)
      BY <1>1, <1>4, HeadTailProperties
    <2>2. <<Head(h)>> \in Seq(Any) /\ Tail(h) \o t \in Seq(Any)
      BY <1>4, <2>1, ConcatProperties
    <2>3. t \in Seq(Any)
      BY <1>4
    <2>4. Regroup(<<Head(h)>>, Tail(h), t)
      BY <2>1, <2>2, <2>3, Assoc
    <2>5. h \o t = <<Head(h)>> \o (Tail(h) \o t)
      BY <2>1, <2>4 DEF Regroup
    <2> QED
      BY <2>1, <2>2, <2>5
  <1> DEFINE waiting == handlers \o strandq
  <1>6. waiting # <<>> /\ Head(waiting) = Head(handlers)
        /\ Tail(waiting) = Tail(handlers) \o strandq
    BY <1>4, <1>5
  <1> HIDE DEF waiting
  <1>7. answers' = [answers EXCEPT ![Head(waiting)] = Head(waiting)]
    BY <1>1, <1>2, <1>6
  <1> QED
    BY <1>1, <1>2, <1>3, <1>6, <1>7 DEF Promise!Answer, waiting

(* disconnect() clears the queue.                                           *)
LEMMA PromiseClear ==
  ASSUME IInv, Disconnect, ~dirty', ~dirty
  PROVE  Promise!Clear
PROOF
  <1>1. ~Carried /\ ctl # "reply" /\ ctl' = ctl /\ handlers' = <<>> /\ strandq' = strandq
        /\ cmds' = cmds /\ answers' = answers
    BY DEF Disconnect, io
  <1>2. strandq' = <<>> /\ Awaiting' = <<>>
    BY <1>1, NothingCarried, NextParts
  <1>3. <<>> \o <<>> = <<>>
    BY EmptySeq, ConcatEmptySeq
  <1>4. dirty' = dirty
    BY DEF IInv, TypeOK, FlagsOK, Disconnect
  <1> QED
    BY <1>1, <1>2, <1>3, <1>4 DEF Promise!Clear


(* The handler that returns had been answered already.                      *)
LEMMA PromisePopped ==
  ASSUME Clean, ReturnReply
  PROVE  UNCHANGED Promise!vars
PROOF
  <1>1. ctl = "reply" /\ handlers' = Tail(handlers) /\ ctl' = "parse"
    BY Popping DEF ReturnReply
  <1>2. Awaiting = Tail(handlers) /\ Awaiting' = Tail(handlers)
    BY <1>1, NextParts DEF Awaiting
  <1>3. strandq' = strandq /\ cmds' = cmds /\ answers' = answers /\ dirty' = dirty
    BY DEF ReturnReply, history
  <1> QED
    BY <1>2, <1>3 DEF Promise!vars

(* Every step of the client is one the promise allows, or none.             *)
LEMMA PromiseStep ==
  ASSUME IInv, IInv', CInv, [Next]_vars
  PROVE  [Promise!Next]_(Promise!vars)
PROOF
  <1>1. CASE dirty'
    BY <1>1 DEF Promise!Next, Promise!Void
  <1>2. CASE ~dirty'
    <2>1. ~dirty /\ Clean
      BY <1>2, DirtyStays DEF CInv
    <2>2. dirty' = dirty
      BY <1>2, <2>1 DEF IInv, TypeOK, FlagsOK
    <2>3. CASE \E via \in Transports : Connect(via)
      <3>1. handlers' = handlers /\ strandq' = strandq /\ ctl' = ctl /\ cmds' = cmds
            /\ answers' = answers
        BY <2>3 DEF Connect, io
      <3> QED
        BY <2>2, <3>1, PromiseKept
    <2>4. CASE Disconnect
      BY <1>2, <2>1, <2>4, PromiseClear DEF Promise!Next
    <2>5. CASE Command
      BY <2>1, <2>5, PromiseIssue DEF Promise!Next
    <2>6. CASE DoAsyncCommand
      BY <2>6, PromiseStrand
    <2>7. CASE HandleAsyncConnect \/ AsyncWrite \/ AsyncRead \/ EndOfBlock \/ ReturnConnected
      <3>1. handlers' = handlers /\ strandq' = strandq /\ cmds' = cmds /\ answers' = answers
        BY <2>7 DEF HandleAsyncConnect, AsyncWrite, AsyncRead, EndOfBlock, ReturnConnected,
                    history, client
      <3>2. ctl # "reply" /\ ctl' # "reply"
        BY <2>7 DEF HandleAsyncConnect, AsyncWrite, AsyncRead, EndOfBlock, ReturnConnected,
                    Completed, io
      <3> QED
        BY <2>2, <3>1, <3>2, PromiseKept
    <2>8. CASE DoProcessMessage
      BY <2>1, <2>8, PromiseAnswer DEF Promise!Next
    <2>9. CASE ReturnReply
      BY <2>1, <2>9, PromisePopped
    <2>10. CASE ReturnError
      <3>1. ctl # "reply" /\ ctl' # "reply"
        BY <2>1, <2>10, ReturnErrorClean
      <3>2. handlers' = handlers /\ strandq' = strandq /\ cmds' = cmds /\ answers' = answers
        BY <2>10 DEF ReturnError, client, history
      <3> QED
        BY <2>2, <3>1, <3>2, PromiseKept
    <2>11. CASE Network \/ UNCHANGED vars
      <3>1. handlers' = handlers /\ strandq' = strandq /\ ctl' = ctl /\ cmds' = cmds
            /\ answers' = answers
        BY <2>11 DEF Network, ConnectResolved, SendSome, FailWrite, ServerReply, Reading,
                     ReadSome, ReadEof, PeerDrop, vars, client, io, history
      <3> QED
        BY <2>2, <3>1, PromiseKept
    <2> QED
      BY <2>3, <2>4, <2>5, <2>6, <2>7, <2>8, <2>9, <2>10, <2>11
         DEF Next, App, Handlers, Running
  <1> QED
    BY <1>1, <1>2

(* RedisAsyncClient implements CommandQueue: the handlers are called first  *)
(* in, first out, each with the reply to its own command, and disconnect()  *)
(* clears the queue, whatever the sockets, blocks and drops do, until a     *)
(* disconnect() or a connect() finds work that close() forgets.             *)
THEOREM ClientKeepsPromise == Spec => PromiseSpec
PROOF
  <1>1. (IInv /\ CInv) /\ (IInv /\ CInv)' /\ [Next]_vars => [Promise!Next]_(Promise!vars)
    BY PromiseStep
  <1>2. Spec => Promise!Init
    BY PromiseInit DEF Spec
  <1>3. Spec => [][Promise!Next]_(Promise!vars)
    BY <1>1, StreamsInvariant, PTL DEF Spec
  <1> QED
    BY <1>2, <1>3 DEF PromiseSpec, Promise!Spec


=============================================================================
