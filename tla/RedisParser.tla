---------------------------- MODULE RedisParser ----------------------------
(***************************************************************************)
(* RedisParser::parseChunk, the incremental RESP decoder, and the loop in  *)
(* RedisClientImpl::asyncRead (and syncReadResponse) that feeds it: bytes  *)
(* arrive in blocks cut anywhere; each call of parse() gets what is left   *)
(* of a block and stops after one value, at the end of the block, or at a  *)
(* byte it cannot accept.                                                  *)
(*                                                                         *)
(* One step is one turn of parseChunk's while loop; what the parser keeps  *)
(* between calls is in its members.  Stacks have their top at index 1.     *)
(* The build defines NDEBUG: assertions are not executed.                  *)
(***************************************************************************)
EXTENDS RedisValue

CONSTANTS
  Inputs   \* the byte streams considered, each with the values it encodes

Digits == {"0", "1", "2", "3", "4", "5", "6", "7", "8", "9"}
Text   == Digits \cup {"+", "-", ":", "$", "*", "a"}   \* isChar(c) && !isControl(c)
Byte   == Text \cup {"CR", "LF", "NUL"}

Lines   == {"String", "ErrorString"}
Numbers == {"Integer", "BulkSize", "ArraySize"}
States  == {"Start", "StartArray", "StringLF", "ErrorLF", "IntegerLF",
            "BulkSizeLF", "ArraySizeLF", "Bulk", "BulkCR", "BulkLF"}
           \cup Lines \cup Numbers

ASSUME ParserAssumption == \A i \in Inputs : i.bytes \in Seq(Byte)

VARIABLES
  states, buf, bulkSize, arraySizes, arrayValues, redisValue, \* members
  state,     \* parseChunk's local variable
  result,    \* what the last call of parse() returned
  pc,        \* "read", "call", "loop", "return", "stopped"
  block,     \* bytes of the current block not yet consumed
  input,     \* bytes still to arrive
  delivered, \* values given to doProcessMessage
  sent       \* the values the input stands for

members == <<states, buf, bulkSize, arraySizes, arrayValues, redisValue>>
vars    == <<members, state, result, pc, block, input, delivered, sent>>

Init ==
  /\ states = <<>> /\ buf = <<>> /\ bulkSize = 0
  /\ arraySizes = <<>> /\ arrayValues = <<>> /\ redisValue = Nil
  /\ state = "Start" /\ result = "none" /\ pc = "read"
  /\ block = <<>> /\ delivered = <<>>
  /\ \E i \in Inputs : input = i.bytes /\ sent = i.values

-----------------------------------------------------------------------------
(* Numbers and stacks.                                                     *)

\* c - '0', for a digit or a '-'.
DigitOf(c) ==
  IF c \in Digits THEN CHOOSE d \in 0 .. 9 : DecimalDigits[d + 1] = c ELSE -3

Unsigned(s) == IF s # <<>> /\ Head(s) = "-" THEN Tail(s) ELSE s

\* bufToLong(), for numbers that fit a long.
BufToLong(s) ==
  LET ds == Unsigned(s)
      value[n \in 0 .. Len(ds)] ==
        IF n = 0 THEN 0 ELSE 10 * value[n - 1] + DigitOf(ds[n])
  IN  IF Unsigned(s) = s THEN value[Len(ds)] ELSE -value[Len(ds)]

Rest(s, n) == SubSeq(s, n + 1, Len(s))
Least(m, n) == IF m < n THEN m ELSE n

\* How many of the innermost arrays one more item completes.
Closing ==
  CHOOSE k \in 0 .. Len(arraySizes) :
    /\ \A i \in 1 .. k : arraySizes[i] = 1
    /\ k < Len(arraySizes) => arraySizes[k + 1] # 1

\* The value v, wrapped in the innermost k arrays that it completes.
Wrapped(v, k) ==
  LET w[i \in 0 .. k] == IF i = 0 THEN v ELSE Array(Append(arrayValues[i], w[i - 1]))
  IN  w[k]

-----------------------------------------------------------------------------
(* The outcomes of one turn of the loop of parseChunk.                     *)

\* Go on with the next byte in the given state.
Goto(next) ==
  /\ state' = next
  /\ pc' = "loop"
  /\ UNCHANGED <<states, arraySizes, arrayValues, redisValue, result>>

\* A byte that cannot be accepted: the stack of states is emptied, the
\* unfinished arrays stay.
Fail ==
  /\ states' = <<>>
  /\ result' = "Error"
  /\ pc' = "return"
  /\ UNCHANGED <<state, arraySizes, arrayValues, redisValue>>

\* A value is complete: it is an item of the innermost array, and completes as
\* many arrays as were waiting only for it.  Without an unfinished array the
\* loop ends.
Complete(v) ==
  LET k == Closing
  IN  /\ state' = "Start"
      /\ redisValue' = Wrapped(v, k)
      /\ IF k = Len(arraySizes)
           THEN /\ arraySizes' = <<>> /\ arrayValues' = <<>>
                /\ result' = "Completed"
                /\ pc' = "return"
           ELSE /\ arraySizes' = [Rest(arraySizes, k) EXCEPT ![1] = @ - 1]
                /\ arrayValues' = [Rest(arrayValues, k) EXCEPT ![1] = Append(@, redisValue')]
                /\ pc' = "loop"
                /\ UNCHANGED result
      /\ UNCHANGED states

-----------------------------------------------------------------------------
(* The turns of the loop, by the state it is in and the byte it takes.     *)

Consume(n) ==
  /\ block' = Rest(block, n)
  /\ UNCHANGED <<input, delivered, sent>>

Turn(from) == pc = "loop" /\ block # <<>> /\ state \in from

FirstByte == [c \in {"+", "-", ":", "$", "*"} |->
                CASE c = "+" -> "String" [] c = "-" -> "ErrorString"
                  [] c = ":" -> "Integer" [] c = "$" -> "BulkSize"
                  [] c = "*" -> "ArraySize"]

Begin ==
  /\ Turn({"Start", "StartArray"})
  /\ Consume(1)
  /\ buf' = <<>>
  /\ IF Head(block) \in DOMAIN FirstByte
       THEN /\ Goto(FirstByte[Head(block)])
            /\ bulkSize' = IF Head(block) = "$" THEN 0 ELSE bulkSize
       ELSE /\ Fail
            /\ UNCHANGED bulkSize

AfterCR == [s \in Lines \cup Numbers |->
              CASE s = "String" -> "StringLF" [] s = "ErrorString" -> "ErrorLF"
                [] s = "Integer" -> "IntegerLF" [] s = "BulkSize" -> "BulkSizeLF"
                [] s = "ArraySize" -> "ArraySizeLF"]

InLine ==
  /\ Turn(Lines)
  /\ Consume(1)
  /\ LET c == Head(block)
     IN  \/ c = "CR" /\ Goto(AfterCR[state]) /\ UNCHANGED buf
         \/ c \in Text /\ Goto(state) /\ buf' = Append(buf, c)
         \/ c \notin Text \cup {"CR"} /\ Fail /\ UNCHANGED buf
  /\ UNCHANGED bulkSize

InNumber ==
  /\ Turn(Numbers)
  /\ Consume(1)
  /\ LET c == Head(block)
     IN  \/ c = "CR" /\ buf # <<>> /\ Goto(AfterCR[state]) /\ UNCHANGED buf
         \/ c = "CR" /\ buf = <<>> /\ Fail /\ UNCHANGED buf
         \/ c \in Digits \cup {"-"} /\ Goto(state) /\ buf' = Append(buf, c)
         \/ c \notin Digits \cup {"-", "CR"} /\ Fail /\ UNCHANGED buf
  /\ UNCHANGED bulkSize

\* The line feed after a line or an integer.
EndLine ==
  /\ Turn({"StringLF", "ErrorLF", "IntegerLF"})
  /\ Consume(1)
  /\ IF Head(block) = "LF"
       THEN /\ Complete(CASE state = "StringLF"  -> String(buf)
                          [] state = "ErrorLF"   -> Error(buf)
                          [] state = "IntegerLF" -> Number(BufToLong(buf)))
            /\ buf' = IF state = "IntegerLF" THEN <<>> ELSE buf
       ELSE Fail /\ UNCHANGED buf
  /\ UNCHANGED bulkSize

\* The line feed after the size of a bulk string; what the block already has
\* of the string is taken at once.
EndBulkSize ==
  /\ Turn({"BulkSizeLF"})
  /\ LET size  == BufToLong(buf)
         taken == Least(size, Len(block) - 1)
     IN  \/ /\ Head(block) # "LF"
            /\ Consume(1) /\ Fail /\ UNCHANGED <<buf, bulkSize>>
         \/ /\ Head(block) = "LF" /\ size < 0
            /\ Consume(1)
            /\ buf' = <<>> /\ bulkSize' = size
            /\ IF size = -1 THEN Complete(Nil) ELSE Fail
         \/ /\ Head(block) = "LF" /\ size >= 0
            /\ Consume(1 + taken)
            /\ buf' = SubSeq(block, 2, 1 + taken)
            /\ bulkSize' = size - taken
            /\ Goto(IF taken < size THEN "Bulk" ELSE "BulkCR")

\* Mutant: the block replaces what was read of the string.
InBulkReplaces ==
  /\ Turn({"Bulk"})
  /\ LET taken == Least(Len(block), bulkSize)
     IN  /\ Consume(taken)
         /\ buf' = SubSeq(block, 1, taken)
         /\ bulkSize' = bulkSize - taken
         /\ Goto(IF taken = bulkSize THEN "BulkCR" ELSE "Bulk")

InBulk ==
  /\ Turn({"Bulk"})
  /\ LET taken == Least(Len(block), bulkSize)
     IN  /\ Consume(taken)
         /\ buf' = buf \o SubSeq(block, 1, taken)
         /\ bulkSize' = bulkSize - taken
         /\ Goto(IF taken = bulkSize THEN "BulkCR" ELSE "Bulk")

EndBulk ==
  /\ Turn({"BulkCR", "BulkLF"})
  /\ Consume(1)
  /\ IF Head(block) # (IF state = "BulkCR" THEN "CR" ELSE "LF") THEN Fail
     ELSE IF state = "BulkCR" THEN Goto("BulkLF")
     ELSE Complete(String(buf))
  /\ UNCHANGED <<buf, bulkSize>>

\* Mutant: an empty array is waited for like any other.
EndArraySizeNoEmpty ==
  /\ Turn({"ArraySizeLF"})
  /\ Consume(1)
  /\ LET size == BufToLong(buf)
     IN  \/ (Head(block) # "LF" \/ size < -1) /\ Fail
         \/ Head(block) = "LF" /\ size = -1 /\ Complete(Nil)
         \/ /\ Head(block) = "LF" /\ size >= 0
            /\ state' = "StartArray" /\ pc' = "loop"
            /\ arraySizes' = <<size>> \o arraySizes
            /\ arrayValues' = <<(<<>>)>> \o arrayValues
            /\ UNCHANGED <<states, redisValue, result>>
  /\ UNCHANGED <<buf, bulkSize>>

EndArraySize ==
  /\ Turn({"ArraySizeLF"})
  /\ Consume(1)
  /\ LET size == BufToLong(buf)
     IN  \/ Head(block) # "LF" /\ Fail
         \/ Head(block) = "LF" /\ size < -1 /\ Fail
         \/ Head(block) = "LF" /\ size = -1 /\ Complete(Nil)
         \/ Head(block) = "LF" /\ size = 0  /\ Complete(Array(<<>>))
         \/ /\ Head(block) = "LF" /\ size > 0
            /\ state' = "StartArray" /\ pc' = "loop"
            /\ arraySizes' = <<size>> \o arraySizes
            /\ arrayValues' = <<(<<>>)>> \o arrayValues
            /\ UNCHANGED <<states, redisValue, result>>
  /\ UNCHANGED <<buf, bulkSize>>

\* The end of the block in the middle of a value.
EndOfBlock ==
  /\ pc = "loop"
  /\ block = <<>>
  /\ states' = <<state>> \o states
  /\ result' = "Incompleted"
  /\ pc' = "return"
  /\ UNCHANGED <<buf, bulkSize, arraySizes, arrayValues, redisValue, state,
                 block, input, delivered, sent>>

-----------------------------------------------------------------------------
(* The calls: parse() and the loop around it.                              *)

\* The next n bytes have been received.
ReadBlock(n) ==
  /\ pc = "read"
  /\ block' = SubSeq(input, 1, n)
  /\ input' = Rest(input, n)
  /\ pc' = "call"
  /\ UNCHANGED <<members, state, result, delivered, sent>>

\* Mutant: the stack is read and not popped.
ParseKeeps ==
  /\ pc = "call"
  /\ state' = IF states = <<>> THEN "Start" ELSE Head(states)
  /\ pc' = "loop"
  /\ UNCHANGED <<members, result, block, input, delivered, sent>>

Parse ==
  /\ pc = "call"
  /\ state' = IF states = <<>> THEN "Start" ELSE Head(states)
  /\ states' = IF states = <<>> THEN states ELSE Tail(states)
  /\ pc' = "loop"
  /\ UNCHANGED <<buf, bulkSize, arraySizes, arrayValues, redisValue, result,
                 block, input, delivered, sent>>

\* What the caller does with the result.  After Incompleted it reads the next
\* block, whatever is left of this one.  After Error asyncRead does not read
\* again; syncReadResponse gives up the command, and the next command goes on.
Return ==
  /\ pc = "return"
  /\ delivered' = IF result = "Completed" THEN Append(delivered, redisValue)
                  ELSE delivered
  /\ \/ result = "Error" /\ pc' = "stopped"
     \/ pc' = IF result # "Incompleted" /\ block # <<>> THEN "call" ELSE "read"
  /\ UNCHANGED <<members, state, result, block, input, sent>>

Next ==
  \/ \E n \in 1 .. Len(input) : ReadBlock(n)
  \/ Parse \/ Return \/ EndOfBlock
  \/ Begin \/ InLine \/ InNumber \/ EndLine
  \/ EndBulkSize \/ InBulk \/ EndBulk \/ EndArraySize

Spec == Init /\ [][Next]_vars
FairSpec == Spec /\ WF_vars(Next)

-----------------------------------------------------------------------------
(* Properties.                                                             *)

TypeOK ==
  /\ states \in Seq(States) /\ Len(states) <= 1
  /\ buf \in Seq(Byte)
  /\ bulkSize \in Int
  /\ arraySizes \in Seq(Nat \ {0})
  /\ DOMAIN arrayValues = DOMAIN arraySizes
  /\ state \in States
  /\ result \in {"none", "Completed", "Incompleted", "Error"}
  /\ pc \in {"read", "call", "loop", "return", "stopped"}
  /\ block \in Seq(Byte) /\ input \in Seq(Byte)

(* However the stream is cut into blocks, the values delivered are the      *)
(* values sent, in order, and none is refused; and when all of the stream   *)
(* has been received and the caller wants more, none is missing.            *)
InOrder ==
  sent # <<>> =>
    /\ delivered = SubSeq(sent, 1, Len(delivered))
    /\ result # "Error"
    /\ pc = "read" /\ input = <<>> => delivered = sent

(* Between two values the parser holds nothing of the last one.             *)
CleanBetween ==
  pc \in {"return", "call"} /\ result = "Completed" =>
    states = <<>> /\ arraySizes = <<>> /\ arrayValues = <<>>

(* Once all of the stream has been received, all of its values have been    *)
(* delivered.                                                              *)
AllDelivered == <>[](sent # <<>> => delivered = sent)
=============================================================================
