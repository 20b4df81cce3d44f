-------------------------------- MODULE Resp --------------------------------
(***************************************************************************)
(* The protocol the parser reads: which bytes stand for which values.      *)
(*                                                                         *)
(* A piece is a place in a stream, the bytes from + 1 .. to, that stands   *)
(* for a value.  It begins with a line: a sign, a text, CR and LF.  After   *)
(* the line come the bytes of a string or the parts of an array, which are  *)
(* pieces again.                                                            *)
(***************************************************************************)
EXTENDS RedisParser, Command

\* The text stands in the stream b after position p.
Stands(b, p, text) == \A j \in 1 .. Len(text) : b[p + j] = text[j]

LineEnd(b, p) == b[p + 1] = "CR" /\ b[p + 2] = "LF"

\* The pieces follow each other from one position to another.
Follow(parts, from, to) ==
  /\ parts = <<>> => from = to
  /\ parts # <<>> => parts[1].from = from /\ parts[Len(parts)].to = to
  /\ \A k \in 1 .. Len(parts) - 1 : parts[k].to = parts[k + 1].from

ValuesOf(parts) == [k \in 1 .. Len(parts) |-> parts[k].value]

\* Where the line of a piece ends.
AfterLine(x) == x.from + 1 + Len(x.line) + 2

SimpleString(x) == x.sign = "+" /\ x.line \in Seq(Text) /\ x.value = String(x.line)
SimpleError(x)  == x.sign = "-" /\ x.line \in Seq(Text) /\ x.value = Error(x.line)
WholeNumber(x)  ==
  /\ x.sign = ":" /\ x.value.num \in Int
  /\ x.line = Decimal(x.value.num) /\ x.value = Number(x.value.num)
NilValue(x)     == x.sign \in {"$", "*"} /\ x.line = Decimal(-1) /\ x.value = Nil

BulkString(b, x) ==
  LET str == x.value.str
  IN  /\ x.sign = "$" /\ x.value = String(str) /\ str \in Seq(Byte)
      /\ x.line = Decimal(Len(str))
      /\ Stands(b, AfterLine(x), str)
      /\ LineEnd(b, AfterLine(x) + Len(str))
      /\ x.to = AfterLine(x) + Len(str) + 2

ArrayOf(x) ==
  /\ x.sign = "*" /\ x.value = Array(ValuesOf(x.parts))
  /\ x.line = Decimal(Len(x.parts))
  /\ Follow(x.parts, AfterLine(x), x.to)

\* The bytes at the place of x are what stands for its value.
Spelled(b, x) ==
  /\ x.from \in Nat /\ x.to \in Nat /\ x.to <= Len(b)
  /\ b[x.from + 1] = x.sign
  /\ x.line \in Seq(Byte) /\ Stands(b, x.from + 1, x.line)
  /\ LineEnd(b, x.from + 1 + Len(x.line)) /\ AfterLine(x) <= x.to
  /\ \/ /\ SimpleString(x) \/ SimpleError(x) \/ WholeNumber(x) \/ NilValue(x)
        /\ x.to = AfterLine(x)
     \/ BulkString(b, x)
     \/ ArrayOf(x)

\* The stream b is the values, one after the other: the roots, with their parts
\* among the pieces.
Encoding(b, values, pieces, roots) ==
  /\ b \in Seq(Byte)
  /\ roots \in Seq(pieces) /\ Follow(roots, 0, Len(b)) /\ values = ValuesOf(roots)
  /\ \A x \in pieces : Spelled(b, x) /\ x.parts \in Seq(pieces)

Encodes(b, values) == \E pieces, roots : Encoding(b, values, pieces, roots)

\* What a client has written after some commands, and the values that stand for
\* them: an array of strings for each.
Carried(commands) == FlattenSeq([k \in 1 .. Len(commands) |-> MakeCommand(commands[k])])
Meant(commands) ==
  [k \in 1 .. Len(commands) |->
     Array([i \in 1 .. Len(commands[k]) |-> String(commands[k][i])])]
=============================================================================
