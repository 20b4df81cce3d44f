--------------------------- MODULE MCRedisParser ---------------------------
(* RedisParser for TLC: the streams a server sends, damaged ones, and the   *)
(* commands a client sends, as a server reads them.                         *)
EXTENDS Resp, RedisInspect

(* The RESP encoding of a value.                                            *)
Sign(v) == CASE v.error -> "-" [] v.type = "string" /\ ~v.error -> "$" [] v.type = "nil" -> "$"
             [] v.type = "int" -> ":" [] v.type = "array" -> "*"
Line(v) == CASE v.error -> v.str
             [] v.type = "string" /\ ~v.error -> Decimal(Len(v.str))
             [] v.type = "nil"   -> Decimal(-1)
             [] v.type = "int"   -> Decimal(v.num)
             [] v.type = "array" -> Decimal(Len(v.items))

RECURSIVE Encode(_), EncodeAll(_)
Encode(v) ==
  <<Sign(v)>> \o Line(v) \o Crlf
    \o (IF IsByteArray(v) /\ ~v.error THEN v.str \o Crlf ELSE EncodeAll(v.items))
EncodeAll(vs) == IF vs = <<>> THEN <<>> ELSE Encode(Head(vs)) \o EncodeAll(Tail(vs))

(* The places of the values, from position p on, and all that is in them.   *)
RECURSIVE Places(_, _), Pieces(_)
Place(v, p) ==
  [from |-> p, to |-> p + Len(Encode(v)), sign |-> Sign(v), line |-> Line(v), value |-> v,
   parts |-> Places(v.items, p + Len(Line(v)) + 3)]
Places(vs, p) ==
  IF vs = <<>> THEN <<>>
  ELSE <<Place(Head(vs), p)>> \o Places(Tail(vs), p + Len(Encode(Head(vs))))
Pieces(xs) == UNION {{xs[k]} \cup Pieces(xs[k].parts) : k \in DOMAIN xs}

Stream(vs) == [bytes |-> EncodeAll(vs), values |-> vs]

Simple == {Nil, String(<<>>), String(<<"CR">>), String(<<"$", "NUL", "LF">>),
           Error(<<"a">>), Number(12), Number(-3), Array(<<>>)}
Nested == {Array(<<v, w>>) : v \in Simple, w \in {Nil, String(<<"a">>), Array(<<>>)}}
          \cup {Array(<<Array(<<v>>)>>) : v \in Simple}
          \cup {Array(<<Array(<<v>>), Array(<<Array(<<v>>), v>>)>>) : v \in {Nil, Number(1)}}

Streams == {Stream(<<v, w>>) : v \in Simple \cup Nested, w \in Simple}
           \cup {Stream(<<w, v>>) : v \in Nested, w \in Simple}

(* A string and a missing array as a server may write them, too.            *)
OtherPieces ==
  <<[from |-> 0, to |-> 5, sign |-> "+", line |-> <<"a", "-">>, parts |-> <<>>,
     value |-> String(<<"a", "-">>)],
    [from |-> 5, to |-> 10, sign |-> "*", line |-> <<"-", "1">>, parts |-> <<>>, value |-> Nil]>>
OtherStream == [bytes  |-> <<"+", "a", "-">> \o Crlf \o <<"*", "-", "1">> \o Crlf,
                values |-> ValuesOf(OtherPieces)]

WellFormed == Streams \cup {OtherStream}

(* The streams are what Resp calls the encoding of their values.            *)
ASSUME StreamsAssumption ==
  /\ \A s \in Streams :
       LET roots == Places(s.values, 0) IN Encoding(s.bytes, s.values, Pieces(roots), roots)
  /\ Encoding(OtherStream.bytes, OtherStream.values, ToSet(OtherPieces), OtherPieces)

(* One byte of a stream is lost, doubled or replaced.                      *)
Damaged(s) ==
  {SubSeq(s, 1, i - 1) \o new \o SubSeq(s, i + 1, Len(s)) :
     i \in 1 .. Len(s), new \in {<<>>} \cup {<<c>> : c \in Byte} \cup {<<"-", "1">>}}

Malformed ==
  {[bytes |-> b, values |-> <<>>] :
     b \in UNION {Damaged(EncodeAll(<<v>>) \o <<":", "1">> \o Crlf) : v \in
       Simple \cup {Array(<<String(<<"a", "a">>), Array(<<Nil>>)>>)}}}

(* Commands, and what a server is to read: one array of strings for each.   *)
Args     == {<<>>, <<"a">>, <<"CR", "LF">>, <<"$", "1">>, [i \in 1 .. 12 |-> "a"],
             BufferOfCString(<<"a", "NUL", "a">>)}
Commands == {CommandItems(<<"a", "a">>, args) : args \in UNION {[1 .. n -> Args] : n \in 0 .. 2}}
            \cup {PublishItems(<<"a">>, msg) : msg \in Args}
Told     == {[bytes  |-> Carried(<<c, <<(<<"a">>)>>, c>>),
              values |-> Meant(<<c, <<(<<"a">>)>>, c>>)] : c \in Commands}

AllInputs == WellFormed \cup Malformed \cup Told

(* What inspect() shows of a value that was delivered, which is what an     *)
(* unexpected message is reported with: the items of an array with a        *)
(* separator between each two of them, at every depth.                      *)
RECURSIVE Shown(_)
Shown(v) ==
  LET before(i) == IF i = 1 THEN <<>> ELSE <<",", " ">>
      upTo[i \in 0 .. Len(v.items)] ==
        IF i = 0 THEN <<>> ELSE upTo[i - 1] \o before(i) \o Shown(v.items[i])
  IN  CASE v.type = "array" -> <<"[">> \o upTo[Len(v.items)] \o <<"]">>
        [] v.type = "int"   -> Decimal(v.num)
        [] v.type = "nil"   -> <<"(null)">>
        [] OTHER            -> IF v.error THEN <<"error: ">> \o v.str ELSE v.str

Inspected == \A i \in DOMAIN delivered : Inspect(delivered[i]) = Shown(delivered[i])
=============================================================================
