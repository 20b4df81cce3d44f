------------------------- MODULE RedisParserProofs -------------------------
(***************************************************************************)
(* Proofs about RedisParser, for any streams of bytes and any cut of them   *)
(* into blocks.                                                             *)
(***************************************************************************)
EXTENDS Resp, SequenceTheorems, WellFoundedInduction, TLAPS

-----------------------------------------------------------------------------
(* The least of a set of natural numbers, and induction for sets of them.   *)

LEMMA NatLeast ==
  ASSUME NEW U, U \subseteq Nat, U # {}
  PROVE  \E x \in U : \A y \in U : x <= y
PROOF
  <1> DEFINE R == {ss \in Nat \X Nat : ss[1] < ss[2]}
  <1>1. IsWellFoundedOn(R, Nat)
    BY NatLessThanWellFounded DEF OpToRel
  <1>2. \E x \in U : \A y \in U : ~ (<<y, x>> \in R)
    <2> HIDE DEF R
    <2> QED
      BY <1>1, WFMin
  <1>3. PICK x \in U : \A y \in U : ~ (<<y, x>> \in R)
    BY <1>2
  <1>4. ASSUME NEW y \in U PROVE x <= y
    <2>1. x \in Nat /\ y \in Nat /\ ~ (<<y, x>> \in R)
      BY <1>3
    <2> QED
      BY <2>1
  <1> QED
    BY <1>4

LEMMA SetInduction ==
  ASSUME NEW T, 0 \in T, \A n \in Nat : n \in T => n + 1 \in T
  PROVE  Nat \subseteq T
PROOF
  <1> DEFINE U == Nat \ T
  <1>1. SUFFICES ASSUME U # {} PROVE FALSE
    OBVIOUS
  <1>2. PICK x \in U : \A y \in U : x <= y
    <2> HIDE DEF U
    <2>1. U \subseteq Nat
      BY DEF U
    <2> QED
      BY <1>1, <2>1, NatLeast
  <1>3. x - 1 \in Nat /\ x - 1 \in U
    OBVIOUS
  <1> QED
    BY <1>2, <1>3

-----------------------------------------------------------------------------
(* Sequences.                                                               *)

LEMMA SeqWidens ==
  ASSUME NEW S, NEW T, S \subseteq T, NEW s \in Seq(S)
  PROVE  s \in Seq(T)
PROOF
  BY Z3

LEMMA RestSeq ==
  ASSUME NEW S, NEW s \in Seq(S), NEW k \in 0 .. Len(s)
  PROVE  /\ Rest(s, k) \in Seq(S)
         /\ Len(Rest(s, k)) = Len(s) - k
         /\ \A i \in 1 .. Len(s) - k : Rest(s, k)[i] = s[i + k]
PROOF
  BY DEF Rest

LEMMA FirstSeq ==
  ASSUME NEW S, NEW s \in Seq(S), NEW k \in 0 .. Len(s)
  PROVE  SubSeq(s, 1, k) \in Seq(S) /\ Len(SubSeq(s, 1, k)) = k
PROOF
  OBVIOUS

LEMMA OneItem ==
  ASSUME NEW S, NEW s \in Seq(S), Len(s) <= 1, s # <<>>
  PROVE  Tail(s) = <<>> /\ Head(s) \in S
PROOF
  <1>1. Head(s) \in S /\ Tail(s) \in Seq(S) /\ Len(Tail(s)) = Len(s) - 1
    BY HeadTailProperties
  <1>2. Len(Tail(s)) = 0
    <2>1. Len(s) \in Nat /\ Len(Tail(s)) \in Nat
      BY <1>1, LenProperties
    <2> QED
      BY <1>1, <2>1
  <1> QED
    BY <1>1, <1>2, EmptySeq

LEMMA Pushed ==
  ASSUME NEW S, NEW one \in Seq(S), Len(one) = 1, NEW s \in Seq(S)
  PROVE  one \o s \in Seq(S) /\ Len(one \o s) = Len(s) + 1
PROOF
  <1>1. one \o s \in Seq(S) /\ Len(one \o s) = Len(one) + Len(s)
    BY ConcatProperties
  <1> QED
    BY <1>1

(* The first item of a sequence is replaced.                                *)
LEMMA NewFirst ==
  ASSUME NEW S, NEW s \in Seq(S), s # <<>>, NEW x \in S
  PROVE  /\ [s EXCEPT ![1] = x] \in Seq(S)
         /\ Len([s EXCEPT ![1] = x]) = Len(s)
PROOF
  OBVIOUS

-----------------------------------------------------------------------------
(* Numbers.                                                                 *)

(* The recursion of BufToLong: f[n] is the value of the first n digits.     *)
Values(f, ds, m) ==
  f = [n \in 0 .. m |-> IF n = 0 THEN 0 ELSE 10 * f[n - 1] + DigitOf(ds[n])]

LEMMA DigitIs ==
  ASSUME NEW d \in 0 .. 9
  PROVE  DecimalDigits[d + 1] \in Digits /\ DigitOf(DecimalDigits[d + 1]) = d
PROOF
  <1>1. d \in {0, 1, 2, 3, 4, 5, 6, 7, 8, 9}
    OBVIOUS
  <1>2. DecimalDigits[d + 1] \in Digits
    BY <1>1 DEF DecimalDigits, Digits
  <1>3. \A e \in 0 .. 9 : DecimalDigits[e + 1] = DecimalDigits[d + 1] => e = d
    <2> SUFFICES ASSUME NEW e \in 0 .. 9, DecimalDigits[e + 1] = DecimalDigits[d + 1]
                 PROVE  e = d
      OBVIOUS
    <2>1. e \in {0, 1, 2, 3, 4, 5, 6, 7, 8, 9}
      OBVIOUS
    <2> QED
      BY <1>1, <2>1 DEF DecimalDigits
  <1> QED
    BY <1>2, <1>3 DEF DigitOf

LEMMA DigitInt == \A c : DigitOf(c) \in Int
PROOF
  <1> SUFFICES ASSUME NEW c PROVE DigitOf(c) \in Int
    OBVIOUS
  <1>1. CASE c \notin Digits
    BY <1>1 DEF DigitOf
  <1>2. CASE c \in Digits
    <2>1. \E d \in 0 .. 9 : DecimalDigits[d + 1] = c
      <3>1. /\ DecimalDigits[0 + 1] = "0" /\ DecimalDigits[1 + 1] = "1"
            /\ DecimalDigits[2 + 1] = "2" /\ DecimalDigits[3 + 1] = "3"
            /\ DecimalDigits[4 + 1] = "4" /\ DecimalDigits[5 + 1] = "5"
            /\ DecimalDigits[6 + 1] = "6" /\ DecimalDigits[7 + 1] = "7"
            /\ DecimalDigits[8 + 1] = "8" /\ DecimalDigits[9 + 1] = "9"
        BY DEF DecimalDigits
      <3>2. c \in {"0", "1", "2", "3", "4", "5", "6", "7", "8", "9"}
        BY <1>2 DEF Digits
      <3> HIDE DEF DecimalDigits
      <3> QED
        BY <3>1, <3>2
    <2>2. DigitOf(c) \in 0 .. 9
      BY <1>2, <2>1 DEF DigitOf
    <2> QED
      BY <2>2
  <1> QED
    BY <1>1, <1>2

LEMMA ValuesExist ==
  ASSUME NEW ds, NEW m \in Nat
  PROVE  \E f : Values(f, ds, m)
PROOF
  <1> DEFINE N == {k \in Nat : \E f : Values(f, ds, k)}
  <1>1. 0 \in N
    <2>1. Values([n \in 0 .. 0 |-> 0], ds, 0)
      BY DEF Values
    <2> QED
      BY <2>1
  <1>2. ASSUME NEW k \in Nat, k \in N PROVE k + 1 \in N
    <2>1. PICK f : Values(f, ds, k)
      BY <1>2
    <2> DEFINE g == [n \in 0 .. k + 1 |->
                       IF n <= k THEN f[n] ELSE 10 * f[k] + DigitOf(ds[k + 1])]
    <2>2. Values(g, ds, k + 1)
      <3> SUFFICES ASSUME NEW n \in 0 .. k + 1
                   PROVE  g[n] = IF n = 0 THEN 0 ELSE 10 * g[n - 1] + DigitOf(ds[n])
        BY DEF Values
      <3>1. CASE n = k + 1
        BY <3>1
      <3>2. CASE n \in 0 .. k
        <4>1. f[n] = IF n = 0 THEN 0 ELSE 10 * f[n - 1] + DigitOf(ds[n])
          BY <2>1, <3>2 DEF Values
        <4>2. g[n] = f[n]
          BY <3>2
        <4>3. n # 0 => g[n - 1] = f[n - 1]
          BY <3>2
        <4> QED
          BY <4>1, <4>2, <4>3
      <3> QED
        BY <3>1, <3>2
    <2> QED
      BY <2>2
  <1>3. Nat \subseteq N
    <2> HIDE DEF N
    <2> QED
      BY <1>1, <1>2, SetInduction
  <1> QED
    BY <1>3

LEMMA ValuesInt ==
  ASSUME NEW f, NEW ds, NEW m \in Nat, Values(f, ds, m)
  PROVE  /\ f[0] = 0
         /\ \A n \in 1 .. m : f[n] = 10 * f[n - 1] + DigitOf(ds[n])
         /\ \A n \in 0 .. m : f[n] \in Int
PROOF
  <1>1. f[0] = 0
    BY DEF Values
  <1>2. ASSUME NEW n \in 1 .. m PROVE f[n] = 10 * f[n - 1] + DigitOf(ds[n])
    <2>1. n \in 0 .. m /\ n # 0
      OBVIOUS
    <2> QED
      BY <2>1 DEF Values
  <1> DEFINE N == {n \in Nat : n <= m => f[n] \in Int}
  <1>3. 0 \in N
    BY <1>1
  <1>4. ASSUME NEW n \in Nat, n \in N PROVE n + 1 \in N
    <2>1. CASE n + 1 <= m
      <3>1. f[n] \in Int /\ n + 1 \in 1 .. m
        BY <1>4, <2>1
      <3>2. f[n + 1] = 10 * f[n] + DigitOf(ds[n + 1])
        BY <1>2, <3>1
      <3>3. DigitOf(ds[n + 1]) \in Int
        BY DigitInt
      <3> QED
        BY <3>1, <3>2, <3>3
    <2>2. CASE ~ (n + 1 <= m)
      BY <2>2
    <2> QED
      BY <2>1, <2>2
  <1>5. Nat \subseteq N
    <2> HIDE DEF N
    <2> QED
      BY <1>3, <1>4, SetInduction
  <1> QED
    BY <1>1, <1>2, <1>5

(* What BufToLong computes, and that it is a number.                        *)
LEMMA BufToLongIs ==
  ASSUME NEW S, NEW s \in Seq(S)
  PROVE  \E f : /\ Values(f, Unsigned(s), Len(Unsigned(s)))
                /\ BufToLong(s) = IF Unsigned(s) = s THEN f[Len(Unsigned(s))]
                                  ELSE -f[Len(Unsigned(s))]
PROOF
  <1> DEFINE ds == Unsigned(s)
             ff == CHOOSE f : Values(f, ds, Len(ds))
  <1>1. ds \in Seq(S) /\ Len(ds) \in Nat
    BY DEF Unsigned
  <1>2. Values(ff, ds, Len(ds))
    <2> HIDE DEF ds
    <2> QED
      BY <1>1, ValuesExist
  <1>3. BufToLong(s) = IF ds = s THEN ff[Len(ds)] ELSE -ff[Len(ds)]
    BY DEF BufToLong, Values
  <1> QED
    BY <1>2, <1>3

LEMMA BufToLongInt ==
  ASSUME NEW S, NEW s \in Seq(S)
  PROVE  BufToLong(s) \in Int
PROOF
  <1>1. Len(Unsigned(s)) \in Nat
    BY DEF Unsigned
  <1>2. PICK f : /\ Values(f, Unsigned(s), Len(Unsigned(s)))
                 /\ BufToLong(s) = IF Unsigned(s) = s THEN f[Len(Unsigned(s))]
                                   ELSE -f[Len(Unsigned(s))]
    BY BufToLongIs
  <1>3. f[Len(Unsigned(s))] \in Int
    BY <1>1, <1>2, ValuesInt
  <1> QED
    BY <1>2, <1>3

-----------------------------------------------------------------------------
(* Closing is what its comment says: the choice is of something there is.   *)

LEMMA ClosingIs ==
  ASSUME arraySizes \in Seq(Nat \ {0})
  PROVE  /\ Closing \in 0 .. Len(arraySizes)
         /\ \A i \in 1 .. Closing : arraySizes[i] = 1
         /\ Closing < Len(arraySizes) => arraySizes[Closing + 1] # 1
PROOF
  <1> DEFINE n == Len(arraySizes)
             U == {k \in 0 .. n : k = n \/ arraySizes[k + 1] # 1}
  <1>1. n \in Nat
    OBVIOUS
  <1>2. U \subseteq Nat /\ U # {}
    <2>1. n \in U
      BY <1>1
    <2> QED
      BY <2>1
  <1>3. PICK k \in U : \A j \in U : k <= j
    <2> HIDE DEF U
    <2> QED
      BY <1>2, NatLeast
  <1>4. k \in 0 .. n /\ (k < n => arraySizes[k + 1] # 1)
    BY <1>3
  <1>5. ASSUME NEW i \in 1 .. k PROVE arraySizes[i] = 1
    <2>1. i - 1 \in 0 .. n /\ i - 1 < k /\ i - 1 # n
      BY <1>1, <1>4
    <2>2. i - 1 \notin U
      <3> HIDE DEF U
      <3> QED
        BY <1>3, <1>4, <2>1
    <2>3. arraySizes[(i - 1) + 1] = 1
      BY <2>1, <2>2
    <2> QED
      BY <2>3
  <1> HIDE DEF U
  <1> QED
    BY <1>4, <1>5 DEF Closing

-----------------------------------------------------------------------------
(* The invariant.  Beside the properties: the items of the unfinished       *)
(* arrays are sequences, one for each count; the stack of states is empty   *)
(* while parseChunk runs; a call that returns Incompleted has taken all of  *)
(* its block; after a value nothing is left over until the next call has    *)
(* begun; and a bulk string that is waited for has bytes to come, which     *)
(* parseChunk asserts.                                                      *)

Stacked == \E S : arrayValues \in Seq(S) /\ Len(arrayValues) = Len(arraySizes)

Popped == pc = "loop" => states = <<>>

NothingSkipped == pc \in {"return", "read"} /\ result = "Incompleted" => block = <<>>

Clean ==
  pc \in {"return", "call", "read"} /\ result = "Completed" =>
    states = <<>> /\ arraySizes = <<>> /\ arrayValues = <<>>

Waits == (pc = "loop" /\ state = "Bulk") \/ (states # <<>> /\ Head(states) = "Bulk")
Pending == Waits => bulkSize > 0

IInv == TypeOK /\ Stacked /\ Popped /\ NothingSkipped /\ Clean /\ Pending

LEMMA InitHolds == Init => IInv
PROOF
  <1> SUFFICES ASSUME Init PROVE IInv
    OBVIOUS
  <1>1. PICK i \in Inputs : input = i.bytes
    BY DEF Init
  <1>2. input \in Seq(Byte)
    BY <1>1, ParserAssumption
  <1>3. TypeOK
    BY <1>2 DEF Init, TypeOK, States
  <1>4. Stacked
    <2>1. arrayValues \in Seq({}) /\ Len(arrayValues) = Len(arraySizes)
      BY DEF Init
    <2> QED
      BY <2>1 DEF Stacked
  <1>5. Popped /\ NothingSkipped /\ Clean /\ Pending
    BY DEF Init, Popped, NothingSkipped, Clean, Pending, Waits
  <1> QED
    BY <1>3, <1>4, <1>5 DEF IInv

-----------------------------------------------------------------------------
(* The outcomes of a turn.                                                  *)

LEMMA FailKeeps ==
  ASSUME IInv, Fail, bulkSize' \in Int, buf' \in Seq(Byte),
         block' \in Seq(Byte), input' \in Seq(Byte)
  PROVE  IInv'
PROOF
  <1>1. TypeOK'
    BY DEF IInv, TypeOK, Fail
  <1>2. Stacked'
    BY DEF IInv, Stacked, Fail
  <1>3. (Popped /\ NothingSkipped /\ Clean /\ Pending)'
    BY DEF Popped, NothingSkipped, Clean, Pending, Waits, Fail
  <1> QED
    BY <1>1, <1>2, <1>3 DEF IInv

LEMMA GotoKeeps ==
  ASSUME IInv, pc = "loop", NEW next \in States, Goto(next),
         next = "Bulk" => bulkSize' > 0,
         bulkSize' \in Int, buf' \in Seq(Byte),
         block' \in Seq(Byte), input' \in Seq(Byte)
  PROVE  IInv'
PROOF
  <1>1. TypeOK'
    BY DEF IInv, TypeOK, Goto
  <1>2. Stacked'
    BY DEF IInv, Stacked, Goto
  <1>3. (Popped /\ NothingSkipped /\ Clean /\ Pending)'
    BY DEF IInv, Popped, NothingSkipped, Clean, Pending, Waits, Goto
  <1> QED
    BY <1>1, <1>2, <1>3 DEF IInv

(* What is left of the stacks after a value is well formed: the count of    *)
(* the innermost array was not 1, so one less is not 0.                     *)
LEMMA CompleteKeeps ==
  ASSUME IInv, pc = "loop", NEW v, Complete(v),
         bulkSize' \in Int, buf' \in Seq(Byte),
         block' \in Seq(Byte), input' \in Seq(Byte)
  PROVE  IInv'
PROOF
  <1> DEFINE k == Closing
             n == Len(arraySizes)
             left == Rest(arraySizes, k)
             kept == Rest(arrayValues, k)
  <1>1. arraySizes \in Seq(Nat \ {0}) /\ n \in Nat
    BY DEF IInv, TypeOK
  <1>2. k \in 0 .. n /\ (k < n => arraySizes[k + 1] # 1)
    BY <1>1, ClosingIs
  <1>3. PICK S : arrayValues \in Seq(S) /\ Len(arrayValues) = n
    BY DEF IInv, Stacked
  <1>4. left \in Seq(Nat \ {0}) /\ Len(left) = n - k
        /\ \A i \in 1 .. n - k : left[i] = arraySizes[i + k]
    <2> HIDE DEF k, left
    <2>1. k \in 0 .. Len(arraySizes)
      BY <1>2
    <2> QED
      BY <1>1, <2>1, RestSeq DEF left
  <1>5. kept \in Seq(S) /\ Len(kept) = n - k
    <2> HIDE DEF k, kept
    <2>1. k \in 0 .. Len(arrayValues)
      BY <1>2, <1>3
    <2> QED
      BY <1>3, <2>1, RestSeq DEF kept
  <1>6. /\ state' = "Start" /\ states' = states /\ states = <<>>
        /\ k = n => /\ arraySizes' = <<>> /\ arrayValues' = <<>>
                    /\ result' = "Completed" /\ pc' = "return"
        /\ k # n => /\ arraySizes' = [left EXCEPT ![1] = @ - 1]
                    /\ arrayValues' = [kept EXCEPT ![1] = Append(@, redisValue')]
                    /\ pc' = "loop" /\ result' = result
    BY DEF Complete, IInv, Popped
  <1> HIDE DEF k, n, left, kept
  <1>7. CASE k = n
    <2>1. arraySizes' \in Seq(Nat \ {0}) /\ DOMAIN arrayValues' = DOMAIN arraySizes'
      BY <1>6, <1>7
    <2>2. TypeOK'
      BY <1>6, <1>7, <2>1 DEF IInv, TypeOK, States
    <2>3. arrayValues' \in Seq({}) /\ Len(arrayValues') = Len(arraySizes')
      BY <1>6, <1>7
    <2>4. Stacked'
      BY <2>3 DEF Stacked
    <2>5. (Popped /\ NothingSkipped /\ Clean /\ Pending)'
      BY <1>6, <1>7 DEF Popped, NothingSkipped, Clean, Pending, Waits
    <2> QED
      BY <2>2, <2>4, <2>5 DEF IInv
  <1>8. CASE k # n
    <2>1. k < n /\ n - k \in Nat /\ 1 \in 1 .. n - k /\ arraySizes[k + 1] # 1
      BY <1>1, <1>2, <1>8
    <2>2. left[1] = arraySizes[1 + k] /\ 1 + k = k + 1 /\ left # <<>>
      BY <1>2, <1>4, <2>1
    <2>3. left[1] \in Nat \ {0} /\ left[1] # 1
      BY <1>4, <2>1, <2>2
    <2>4. left[1] - 1 \in Nat \ {0}
      BY <2>3
    <2>5. arraySizes' \in Seq(Nat \ {0}) /\ Len(arraySizes') = n - k
      <3> DEFINE less == left[1] - 1
      <3>1. arraySizes' = [left EXCEPT ![1] = less] /\ less \in Nat \ {0}
        BY <1>6, <1>8, <2>4
      <3> HIDE DEF less
      <3>2. /\ [left EXCEPT ![1] = less] \in Seq(Nat \ {0})
            /\ Len([left EXCEPT ![1] = less]) = Len(left)
        BY <1>4, <2>2, <3>1, NewFirst
      <3> QED
        BY <1>4, <3>1, <3>2
    <2> DEFINE more == Append(kept[1], redisValue')
               T == S \cup {more}
    <2>6. kept \in Seq(T) /\ kept # <<>> /\ more \in T
      <3>1. S \subseteq T /\ more \in T
        OBVIOUS
      <3> HIDE DEF more, T
      <3> QED
        BY <1>5, <2>1, <3>1, SeqWidens
    <2>7. arrayValues' = [kept EXCEPT ![1] = more]
      BY <1>6, <1>8
    <2>8. arrayValues' \in Seq(T) /\ Len(arrayValues') = n - k
      <3> HIDE DEF more, T
      <3> QED
        BY <1>5, <2>6, <2>7, NewFirst
    <2> HIDE DEF more, T
    <2>9. Stacked'
      BY <2>5, <2>8 DEF Stacked
    <2>10. DOMAIN arrayValues' = DOMAIN arraySizes'
      BY <2>5, <2>8
    <2>11. TypeOK'
      BY <1>6, <1>8, <2>5, <2>10 DEF IInv, TypeOK, States
    <2>12. (Popped /\ NothingSkipped /\ Clean /\ Pending)'
      BY <1>6, <1>8 DEF IInv, Popped, NothingSkipped, Clean, Pending, Waits
    <2> QED
      BY <2>9, <2>11, <2>12 DEF IInv
  <1> QED
    BY <1>7, <1>8

-----------------------------------------------------------------------------
(* The steps.                                                               *)

LEMMA Consumed ==
  ASSUME TypeOK, NEW n \in 0 .. Len(block), Consume(n)
  PROVE  block' \in Seq(Byte) /\ input' \in Seq(Byte)
PROOF
  <1>1. block \in Seq(Byte) /\ input \in Seq(Byte)
    BY DEF TypeOK
  <1>2. block' = Rest(block, n) /\ input' = input
    BY DEF Consume
  <1> QED
    BY <1>1, <1>2, RestSeq

LEMMA TurnHas ==
  ASSUME TypeOK, NEW from, Turn(from)
  PROVE  /\ pc = "loop" /\ state \in from
         /\ Len(block) \in Nat \ {0} /\ Head(block) \in Byte
         /\ 1 \in 0 .. Len(block)
PROOF
  <1>1. block \in Seq(Byte) /\ block # <<>>
    BY DEF TypeOK, Turn
  <1>2. Len(block) \in Nat \ {0} /\ Head(block) \in Byte
    BY <1>1
  <1> QED
    BY <1>2 DEF Turn

LEMMA BeginStep == IInv /\ Begin => IInv'
PROOF
  <1> SUFFICES ASSUME IInv, Begin PROVE IInv'
    OBVIOUS
  <1>1. TypeOK /\ Turn({"Start", "StartArray"}) /\ Consume(1)
    BY DEF IInv, Begin
  <1>2. pc = "loop" /\ 1 \in 0 .. Len(block)
    BY <1>1, TurnHas
  <1>3. block' \in Seq(Byte) /\ input' \in Seq(Byte)
    BY <1>1, <1>2, Consumed
  <1>4. buf' \in Seq(Byte) /\ bulkSize' \in Int
    <2>1. buf' = <<>> /\ bulkSize' \in {0, bulkSize}
      BY DEF Begin
    <2> QED
      BY <1>1, <2>1 DEF TypeOK
  <1>5. CASE Head(block) \in DOMAIN FirstByte
    <2>1. Goto(FirstByte[Head(block)])
      BY <1>5 DEF Begin
    <2>2. FirstByte[Head(block)] \in States /\ FirstByte[Head(block)] # "Bulk"
      BY <1>5 DEF FirstByte, States, Lines, Numbers
    <2> QED
      BY <1>2, <1>3, <1>4, <2>1, <2>2, GotoKeeps
  <1>6. CASE Head(block) \notin DOMAIN FirstByte
    <2>1. Fail
      BY <1>6 DEF Begin
    <2> QED
      BY <1>3, <1>4, <2>1, FailKeeps
  <1> QED
    BY <1>5, <1>6

LEMMA AfterCRState ==
  ASSUME NEW s \in Lines \cup Numbers
  PROVE  AfterCR[s] \in States /\ AfterCR[s] # "Bulk"
PROOF
  BY DEF AfterCR, States, Lines, Numbers

LEMMA BufGrows ==
  ASSUME buf \in Seq(Byte), NEW c \in Byte, buf' \in {buf, Append(buf, c)}
  PROVE  buf' \in Seq(Byte)
PROOF
  OBVIOUS

LEMMA InLineStep == IInv /\ InLine => IInv'
PROOF
  <1> SUFFICES ASSUME IInv, InLine PROVE IInv'
    OBVIOUS
  <1> DEFINE c == Head(block)
  <1>1. TypeOK /\ Turn(Lines) /\ Consume(1) /\ bulkSize' = bulkSize
    BY DEF IInv, InLine
  <1>2. pc = "loop" /\ 1 \in 0 .. Len(block) /\ c \in Byte /\ state \in Lines
    BY <1>1, TurnHas
  <1>3. block' \in Seq(Byte) /\ input' \in Seq(Byte)
    BY <1>1, <1>2, Consumed
  <1>4. bulkSize' \in Int /\ buf \in Seq(Byte)
    BY <1>1 DEF TypeOK
  <1>5. buf' \in Seq(Byte)
    <2>1. buf' \in {buf, Append(buf, c)}
      BY DEF InLine
    <2> QED
      BY <1>2, <1>4, <2>1, BufGrows
  <1>6. Goto(AfterCR[state]) \/ Goto(state) \/ Fail
    BY DEF InLine
  <1>7. AfterCR[state] \in States /\ AfterCR[state] # "Bulk"
    BY <1>2, AfterCRState
  <1>8. state \in States /\ state # "Bulk"
    BY <1>2 DEF States, Lines
  <1> QED
    BY <1>2, <1>3, <1>4, <1>5, <1>6, <1>7, <1>8, GotoKeeps, FailKeeps

LEMMA InNumberStep == IInv /\ InNumber => IInv'
PROOF
  <1> SUFFICES ASSUME IInv, InNumber PROVE IInv'
    OBVIOUS
  <1> DEFINE c == Head(block)
  <1>1. TypeOK /\ Turn(Numbers) /\ Consume(1) /\ bulkSize' = bulkSize
    BY DEF IInv, InNumber
  <1>2. pc = "loop" /\ 1 \in 0 .. Len(block) /\ c \in Byte /\ state \in Numbers
    BY <1>1, TurnHas
  <1>3. block' \in Seq(Byte) /\ input' \in Seq(Byte)
    BY <1>1, <1>2, Consumed
  <1>4. bulkSize' \in Int /\ buf \in Seq(Byte)
    BY <1>1 DEF TypeOK
  <1>5. buf' \in Seq(Byte)
    <2>1. buf' \in {buf, Append(buf, c)}
      BY DEF InNumber
    <2> QED
      BY <1>2, <1>4, <2>1, BufGrows
  <1>6. Goto(AfterCR[state]) \/ Goto(state) \/ Fail
    BY DEF InNumber
  <1>7. AfterCR[state] \in States /\ AfterCR[state] # "Bulk"
    BY <1>2, AfterCRState
  <1>8. state \in States /\ state # "Bulk"
    BY <1>2 DEF States, Numbers
  <1> QED
    BY <1>2, <1>3, <1>4, <1>5, <1>6, <1>7, <1>8, GotoKeeps, FailKeeps

LEMMA EndLineStep == IInv /\ EndLine => IInv'
PROOF
  <1> SUFFICES ASSUME IInv, EndLine PROVE IInv'
    OBVIOUS
  <1>1. TypeOK /\ Turn({"StringLF", "ErrorLF", "IntegerLF"}) /\ Consume(1)
        /\ bulkSize' = bulkSize
    BY DEF IInv, EndLine
  <1>2. pc = "loop" /\ 1 \in 0 .. Len(block)
    BY <1>1, TurnHas
  <1>3. block' \in Seq(Byte) /\ input' \in Seq(Byte)
    BY <1>1, <1>2, Consumed
  <1>4. bulkSize' \in Int /\ buf' \in Seq(Byte)
    <2>1. buf' = <<>> \/ buf' = buf
      BY DEF EndLine
    <2>2. buf \in Seq(Byte) /\ bulkSize \in Int
      BY <1>1 DEF TypeOK
    <2>3. bulkSize' = bulkSize
      BY <1>1
    <2>4. <<>> \in Seq(Byte)
      OBVIOUS
    <2> QED
      BY <2>1, <2>2, <2>3, <2>4
  <1>5. (\E v : Complete(v)) \/ Fail
    BY DEF EndLine
  <1> QED
    BY <1>2, <1>3, <1>4, <1>5, CompleteKeeps, FailKeeps

LEMMA EndBulkStep == IInv /\ EndBulk => IInv'
PROOF
  <1> SUFFICES ASSUME IInv, EndBulk PROVE IInv'
    OBVIOUS
  <1>1. TypeOK /\ Turn({"BulkCR", "BulkLF"}) /\ Consume(1)
        /\ bulkSize' = bulkSize /\ buf' = buf
    BY DEF IInv, EndBulk
  <1>2. pc = "loop" /\ 1 \in 0 .. Len(block)
    BY <1>1, TurnHas
  <1>3. block' \in Seq(Byte) /\ input' \in Seq(Byte)
    BY <1>1, <1>2, Consumed
  <1>4. bulkSize' \in Int /\ buf' \in Seq(Byte)
    BY <1>1 DEF TypeOK
  <1>5. Fail \/ Goto("BulkLF") \/ Complete(String(buf))
    BY DEF EndBulk
  <1>6. "BulkLF" \in States
    BY DEF States
  <1> QED
    BY <1>2, <1>3, <1>4, <1>5, <1>6, GotoKeeps, CompleteKeeps, FailKeeps

LEMMA EndArraySizeStep == IInv /\ EndArraySize => IInv'
PROOF
  <1> SUFFICES ASSUME IInv, EndArraySize PROVE IInv'
    OBVIOUS
  <1> DEFINE size == BufToLong(buf)
  <1>1. TypeOK /\ Turn({"ArraySizeLF"}) /\ Consume(1)
        /\ bulkSize' = bulkSize /\ buf' = buf
    BY DEF IInv, EndArraySize
  <1>2. pc = "loop" /\ 1 \in 0 .. Len(block)
    BY <1>1, TurnHas
  <1>3. block' \in Seq(Byte) /\ input' \in Seq(Byte)
    BY <1>1, <1>2, Consumed
  <1>4. bulkSize' \in Int /\ buf' \in Seq(Byte) /\ size \in Int
    BY <1>1, BufToLongInt DEF TypeOK
  <1>5. \/ Fail \/ Complete(Nil) \/ Complete(Array(<<>>))
        \/ /\ size > 0
           /\ state' = "StartArray" /\ pc' = "loop"
           /\ arraySizes' = <<size>> \o arraySizes
           /\ arrayValues' = <<(<<>>)>> \o arrayValues
           /\ UNCHANGED <<states, redisValue, result>>
    BY DEF EndArraySize
  <1>6. ASSUME size > 0, state' = "StartArray", pc' = "loop",
               arraySizes' = <<size>> \o arraySizes,
               arrayValues' = <<(<<>>)>> \o arrayValues,
               UNCHANGED <<states, redisValue, result>>
        PROVE  IInv'
    <2> DEFINE one == <<size>>
               none == <<(<<>>)>>
    <2>1. size \in Nat \ {0}
      BY <1>4, <1>6
    <2> HIDE DEF size
    <2>2. one \in Seq(Nat \ {0}) /\ Len(one) = 1
      BY <2>1
    <2>3. arraySizes \in Seq(Nat \ {0}) /\ Len(arraySizes) \in Nat
      BY <1>1 DEF TypeOK
    <2>4. PICK S : arrayValues \in Seq(S) /\ Len(arrayValues) = Len(arraySizes)
      BY DEF IInv, Stacked
    <2> DEFINE T == S \cup {<<>>}
    <2>5. none \in Seq(T) /\ Len(none) = 1 /\ arrayValues \in Seq(T)
      <3>1. <<>> \in T /\ S \subseteq T
        OBVIOUS
      <3>2. arrayValues \in Seq(T)
        <4> HIDE DEF T
        <4> QED
          BY <2>4, <3>1, SeqWidens
      <3> HIDE DEF T
      <3> QED
        BY <3>1, <3>2
    <2>6. arraySizes' = one \o arraySizes /\ arrayValues' = none \o arrayValues
      BY <1>6
    <2> HIDE DEF one, none, T
    <2>7. arraySizes' \in Seq(Nat \ {0}) /\ Len(arraySizes') = Len(arraySizes) + 1
      <3>1. /\ one \o arraySizes \in Seq(Nat \ {0})
            /\ Len(one \o arraySizes) = Len(arraySizes) + 1
        BY <2>2, <2>3, Pushed
      <3> QED
        BY <2>6, <3>1
    <2>8. arrayValues' \in Seq(T) /\ Len(arrayValues') = Len(arraySizes) + 1
      <3>1. /\ none \o arrayValues \in Seq(T)
            /\ Len(none \o arrayValues) = Len(arrayValues) + 1
        BY <2>5, Pushed
      <3> QED
        BY <2>4, <2>6, <3>1
    <2>9. Stacked'
      BY <2>7, <2>8 DEF Stacked
    <2>10. DOMAIN arrayValues' = DOMAIN arraySizes'
      BY <2>7, <2>8
    <2>11. TypeOK'
      BY <1>3, <1>4, <1>6, <2>7, <2>10 DEF IInv, TypeOK, States
    <2>12. (Popped /\ NothingSkipped /\ Clean /\ Pending)'
      BY <1>2, <1>6 DEF IInv, Popped, NothingSkipped, Clean, Pending, Waits
    <2> QED
      BY <2>9, <2>11, <2>12 DEF IInv
  <1> HIDE DEF size
  <1> QED
    BY <1>2, <1>3, <1>4, <1>5, <1>6, CompleteKeeps, FailKeeps

LEMMA LeastIs ==
  ASSUME NEW m \in Int, NEW n \in Int
  PROVE  Least(m, n) \in Int /\ Least(m, n) <= m /\ Least(m, n) <= n
         /\ Least(m, n) \in {m, n}
PROOF
  BY DEF Least

LEMMA EndBulkSizeStep == IInv /\ EndBulkSize => IInv'
PROOF
  <1> SUFFICES ASSUME IInv, EndBulkSize PROVE IInv'
    OBVIOUS
  <1> DEFINE size  == BufToLong(buf)
             taken == Least(size, Len(block) - 1)
  <1>1. TypeOK /\ Turn({"BulkSizeLF"})
    BY DEF IInv, EndBulkSize
  <1>2. pc = "loop" /\ 1 \in 0 .. Len(block) /\ Len(block) \in Nat \ {0}
    BY <1>1, TurnHas
  <1>3. buf \in Seq(Byte) /\ bulkSize \in Int /\ block \in Seq(Byte)
    BY <1>1 DEF TypeOK
  <1>4. size \in Int
    BY <1>3, BufToLongInt
  <1>5. taken \in Int /\ taken <= size /\ taken <= Len(block) - 1
        /\ taken \in {size, Len(block) - 1}
    <2> HIDE DEF size
    <2> QED
      <3>1. Len(block) - 1 \in Int
        BY <1>2
      <3> QED
        BY <1>4, <3>1, LeastIs
  <1>6. \/ Consume(1) /\ Fail /\ UNCHANGED <<buf, bulkSize>>
        \/ Consume(1) /\ buf' = <<>> /\ bulkSize' = size /\ (Complete(Nil) \/ Fail)
        \/ /\ size >= 0 /\ Consume(1 + taken)
           /\ buf' = SubSeq(block, 2, 1 + taken)
           /\ bulkSize' = size - taken
           /\ Goto(IF taken < size THEN "Bulk" ELSE "BulkCR")
    BY DEF EndBulkSize
  <1> HIDE DEF size, taken
  <1>7. CASE Consume(1) /\ Fail /\ UNCHANGED <<buf, bulkSize>>
    <2>1. block' \in Seq(Byte) /\ input' \in Seq(Byte)
      BY <1>1, <1>2, <1>7, Consumed
    <2>2. buf' \in Seq(Byte) /\ bulkSize' \in Int
      BY <1>3, <1>7
    <2> QED
      BY <1>7, <2>1, <2>2, FailKeeps
  <1>8. CASE Consume(1) /\ buf' = <<>> /\ bulkSize' = size /\ (Complete(Nil) \/ Fail)
    <2>1. block' \in Seq(Byte) /\ input' \in Seq(Byte)
      BY <1>1, <1>2, <1>8, Consumed
    <2>2. buf' \in Seq(Byte) /\ bulkSize' \in Int
      BY <1>4, <1>8
    <2> QED
      BY <1>2, <1>8, <2>1, <2>2, CompleteKeeps, FailKeeps
  <1>9. CASE /\ size >= 0 /\ Consume(1 + taken)
             /\ buf' = SubSeq(block, 2, 1 + taken)
             /\ bulkSize' = size - taken
             /\ Goto(IF taken < size THEN "Bulk" ELSE "BulkCR")
    <2>1. 1 + taken \in 0 .. Len(block) /\ taken \in Nat
      BY <1>2, <1>4, <1>5, <1>9
    <2>2. block' \in Seq(Byte) /\ input' \in Seq(Byte)
      BY <1>1, <1>9, <2>1, Consumed
    <2>3. buf' \in Seq(Byte)
      BY <1>2, <1>3, <1>9, <2>1
    <2>4. bulkSize' \in Int /\ (taken < size => bulkSize' > 0)
      BY <1>4, <1>5, <1>9
    <2>5. "Bulk" \in States /\ "BulkCR" \in States
      BY DEF States
    <2> QED
      BY <1>2, <1>9, <2>2, <2>3, <2>4, <2>5, GotoKeeps
  <1> QED
    BY <1>6, <1>7, <1>8, <1>9

LEMMA InBulkStep == IInv /\ InBulk => IInv'
PROOF
  <1> SUFFICES ASSUME IInv, InBulk PROVE IInv'
    OBVIOUS
  <1> DEFINE taken == Least(Len(block), bulkSize)
  <1>1. TypeOK /\ Turn({"Bulk"}) /\ Pending
    BY DEF IInv, InBulk
  <1>2. pc = "loop" /\ state = "Bulk" /\ Len(block) \in Nat \ {0}
    BY <1>1, TurnHas
  <1>3. buf \in Seq(Byte) /\ bulkSize \in Int /\ block \in Seq(Byte) /\ bulkSize > 0
    BY <1>1, <1>2 DEF TypeOK, Pending, Waits
  <1>4. taken \in Int /\ taken <= Len(block) /\ taken <= bulkSize
        /\ taken \in {Len(block), bulkSize}
    <2>1. Len(block) \in Int
      BY <1>2
    <2> QED
      BY <1>3, <2>1, LeastIs
  <1>5. /\ Consume(taken)
        /\ buf' = buf \o SubSeq(block, 1, taken)
        /\ bulkSize' = bulkSize - taken
        /\ Goto(IF taken = bulkSize THEN "BulkCR" ELSE "Bulk")
    BY DEF InBulk
  <1> HIDE DEF taken
  <1>6. taken \in 0 .. Len(block)
    BY <1>2, <1>3, <1>4
  <1>7. block' \in Seq(Byte) /\ input' \in Seq(Byte)
    BY <1>1, <1>5, <1>6, Consumed
  <1>8. buf' \in Seq(Byte)
    <2>1. SubSeq(block, 1, taken) \in Seq(Byte)
      BY <1>3, <1>6, FirstSeq
    <2>2. buf \o SubSeq(block, 1, taken) \in Seq(Byte)
      BY <1>3, <2>1, ConcatProperties
    <2> QED
      BY <1>5, <2>2
  <1>9. bulkSize' \in Int /\ (taken # bulkSize => bulkSize' > 0)
    BY <1>3, <1>4, <1>5
  <1>10. "Bulk" \in States /\ "BulkCR" \in States
    BY DEF States
  <1> QED
    BY <1>2, <1>5, <1>7, <1>8, <1>9, <1>10, GotoKeeps

LEMMA EndOfBlockStep == IInv /\ EndOfBlock => IInv'
PROOF
  <1> SUFFICES ASSUME IInv, EndOfBlock PROVE IInv'
    OBVIOUS
  <1>1. states = <<>> /\ pc = "loop" /\ state \in States
    BY DEF IInv, EndOfBlock, Popped, TypeOK
  <1> DEFINE one == <<state>>
  <1>2. states' = one \o states
    BY DEF EndOfBlock
  <1>3. one \in Seq(States) /\ Len(one) = 1 /\ Head(one) = state
    BY <1>1
  <1> HIDE DEF one
  <1>4. states' \in Seq(States) /\ Len(states') = 1 /\ states' = one
    BY <1>1, <1>2, <1>3
  <1>5. TypeOK'
    BY <1>4 DEF IInv, TypeOK, EndOfBlock
  <1>6. Stacked'
    BY DEF IInv, Stacked, EndOfBlock
  <1>7. (Popped /\ NothingSkipped /\ Clean)'
    BY DEF Popped, NothingSkipped, Clean, EndOfBlock
  <1>8. Pending'
    BY <1>1, <1>3, <1>4 DEF IInv, Pending, Waits, EndOfBlock
  <1> QED
    BY <1>5, <1>6, <1>7, <1>8 DEF IInv

LEMMA ReadBlockStep ==
  ASSUME IInv, NEW n \in 1 .. Len(input), ReadBlock(n)
  PROVE  IInv'
PROOF
  <1>1. input \in Seq(Byte) /\ n \in 0 .. Len(input)
    BY DEF IInv, TypeOK
  <1>2. block' = SubSeq(input, 1, n) /\ input' = Rest(input, n)
    BY DEF ReadBlock
  <1>3. block' \in Seq(Byte) /\ input' \in Seq(Byte)
    BY <1>1, <1>2, FirstSeq, RestSeq
  <1>4. TypeOK'
    BY <1>3 DEF IInv, TypeOK, ReadBlock, members
  <1>5. Stacked'
    BY DEF IInv, Stacked, ReadBlock, members
  <1>6. (Popped /\ NothingSkipped /\ Clean /\ Pending)'
    BY DEF IInv, Popped, NothingSkipped, Clean, Pending, Waits, ReadBlock, members
  <1> QED
    BY <1>4, <1>5, <1>6 DEF IInv

LEMMA ParseStep == IInv /\ Parse => IInv'
PROOF
  <1> SUFFICES ASSUME IInv, Parse PROVE IInv'
    OBVIOUS
  <1>1. states \in Seq(States) /\ Len(states) <= 1
    BY DEF IInv, TypeOK
  <1>2. states' = <<>> /\ state' \in States
    <2>1. CASE states = <<>>
      BY <2>1 DEF Parse, States
    <2>2. CASE states # <<>>
      <3>1. Tail(states) = <<>> /\ Head(states) \in States
        BY <1>1, <2>2, OneItem
      <3> QED
        BY <2>2, <3>1 DEF Parse
    <2> QED
      BY <2>1, <2>2
  <1>3. TypeOK'
    BY <1>2 DEF IInv, TypeOK, Parse
  <1>4. Stacked'
    BY DEF IInv, Stacked, Parse
  <1>5. (Popped /\ NothingSkipped /\ Clean)'
    BY <1>2 DEF Popped, NothingSkipped, Clean, Parse
  <1>6. Pending'
    BY <1>2 DEF IInv, Pending, Waits, Parse
  <1> QED
    BY <1>3, <1>4, <1>5, <1>6 DEF IInv

LEMMA ReturnStep == IInv /\ Return => IInv'
PROOF
  <1> SUFFICES ASSUME IInv, Return PROVE IInv'
    OBVIOUS
  <1>1. TypeOK'
    BY DEF IInv, TypeOK, Return, members
  <1>2. Stacked'
    BY DEF IInv, Stacked, Return, members
  <1>3. (Popped /\ NothingSkipped /\ Clean /\ Pending)'
    BY DEF IInv, Popped, NothingSkipped, Clean, Pending, Waits, Return, members
  <1> QED
    BY <1>1, <1>2, <1>3 DEF IInv

LEMMA NextHolds == IInv /\ [Next]_vars => IInv'
PROOF
  <1> SUFFICES ASSUME IInv, [Next]_vars PROVE IInv'
    OBVIOUS
  <1>1. CASE UNCHANGED vars
    BY <1>1 DEF vars, members, IInv, TypeOK, Stacked, Popped, NothingSkipped, Clean,
       Pending, Waits
  <1>2. ASSUME NEW n \in 1 .. Len(input), ReadBlock(n) PROVE IInv'
    BY <1>2, ReadBlockStep
  <1> QED
    BY <1>1, <1>2, ParseStep, ReturnStep, EndOfBlockStep, BeginStep, InLineStep,
       InNumberStep, EndLineStep, EndBulkSizeStep, InBulkStep, EndBulkStep,
       EndArraySizeStep DEF Next

LEMMA IInvAlways == Spec => []IInv
PROOF
  BY InitHolds, NextHolds, PTL DEF Spec

(* Every reachable state of the parser is well typed: no count of an        *)
(* unfinished array is ever 0 or less, on any stream of bytes, damaged or   *)
(* not, and there is never more than one state on the stack.                *)
THEOREM ParserTypeCorrect == Spec => []TypeOK
PROOF
  BY IInvAlways, PTL DEF IInv

(* After a value nothing of it is left in the parser, whatever came before. *)
THEOREM ParserCleanBetween == Spec => []CleanBetween
PROOF
  <1>1. IInv => CleanBetween
    BY DEF IInv, Clean, CleanBetween
  <1> QED
    BY <1>1, IInvAlways, PTL

-----------------------------------------------------------------------------
(* bufToLong() inverts std::to_string().                                    *)

(* The recursion of Decimal.                                                *)
Written(f, n) ==
  f = [m \in 0 .. n |->
         IF m < 10 THEN <<DecimalDigits[m + 1]>>
         ELSE Append(f[m \div 10], DecimalDigits[(m % 10) + 1])]

LEMMA Division ==
  ASSUME NEW m \in Nat
  PROVE  /\ m \div 10 \in Nat /\ m % 10 \in 0 .. 9
         /\ m = 10 * (m \div 10) + (m % 10)
         /\ m >= 10 => m \div 10 < m
PROOF
  OBVIOUS

LEMMA WrittenExists ==
  ASSUME NEW n \in Nat
  PROVE  \E f : Written(f, n)
PROOF
  <1> DEFINE N == {k \in Nat : \E f : Written(f, k)}
  <1>1. 0 \in N
    <2>1. Written([m \in 0 .. 0 |-> <<DecimalDigits[1]>>], 0)
      BY DEF Written
    <2> QED
      BY <2>1
  <1>2. ASSUME NEW k \in Nat, k \in N PROVE k + 1 \in N
    <2>1. PICK f : Written(f, k)
      BY <1>2
    <2> DEFINE last == IF k + 1 < 10 THEN <<DecimalDigits[(k + 1) + 1]>>
                       ELSE Append(f[(k + 1) \div 10], DecimalDigits[((k + 1) % 10) + 1])
               g == [m \in 0 .. k + 1 |-> IF m <= k THEN f[m] ELSE last]
    <2>2. Written(g, k + 1)
      <3> SUFFICES ASSUME NEW m \in 0 .. k + 1
                   PROVE  g[m] = IF m < 10 THEN <<DecimalDigits[m + 1]>>
                                 ELSE Append(g[m \div 10], DecimalDigits[(m % 10) + 1])
        BY DEF Written
      <3>1. m >= 10 => m \div 10 \in 0 .. k
        BY Division
      <3>2. m >= 10 => g[m \div 10] = f[m \div 10]
        BY <3>1
      <3>3. CASE m = k + 1
        <4>1. g[m] = last
          BY <3>3
        <4> QED
          BY <3>2, <3>3, <4>1
      <3>4. CASE m \in 0 .. k
        <4>1. f[m] = IF m < 10 THEN <<DecimalDigits[m + 1]>>
                     ELSE Append(f[m \div 10], DecimalDigits[(m % 10) + 1])
          BY <2>1, <3>4 DEF Written
        <4>2. g[m] = f[m]
          BY <3>4
        <4> QED
          BY <3>2, <4>1, <4>2
      <3> QED
        BY <3>3, <3>4
    <2> QED
      BY <2>2
  <1>3. Nat \subseteq N
    <2> HIDE DEF N
    <2> QED
      BY <1>1, <1>2, SetInduction
  <1> QED
    BY <1>3

LEMMA ValuesAgree ==
  ASSUME NEW f, NEW ds, NEW m \in Nat, Values(f, ds, m),
         NEW g, NEW es, NEW n \in Nat, Values(g, es, n),
         NEW k \in Nat, k <= m, k <= n, \A i \in 1 .. k : ds[i] = es[i]
  PROVE  f[k] = g[k]
PROOF
  <1> DEFINE N == {j \in Nat : j <= k => f[j] = g[j]}
  <1>1. 0 \in N
    BY ValuesInt
  <1>2. ASSUME NEW j \in Nat, j \in N PROVE j + 1 \in N
    <2>1. CASE j + 1 <= k
      <3>1. f[j] = g[j] /\ j + 1 \in 1 .. m /\ j + 1 \in 1 .. n /\ j + 1 \in 1 .. k
        BY <1>2, <2>1
      <3>2. /\ f[j + 1] = 10 * f[(j + 1) - 1] + DigitOf(ds[j + 1])
            /\ g[j + 1] = 10 * g[(j + 1) - 1] + DigitOf(es[j + 1])
        BY <3>1, ValuesInt
      <3>3. ds[j + 1] = es[j + 1] /\ (j + 1) - 1 = j
        BY <3>1
      <3> QED
        BY <3>1, <3>2, <3>3
    <2>2. CASE ~ (j + 1 <= k)
      BY <2>2
    <2> QED
      BY <2>1, <2>2
  <1>3. Nat \subseteq N
    <2> HIDE DEF N
    <2> QED
      BY <1>1, <1>2, SetInduction
  <1> QED
    BY <1>3

LEMMA NoSign ==
  ASSUME NEW s \in Seq(Digits), s # <<>>
  PROVE  Unsigned(s) = s
PROOF
  <1>1. Head(s) \in Digits
    BY HeadTailProperties
  <1>2. Head(s) # "-"
    BY <1>1 DEF Digits
  <1> QED
    BY <1>2 DEF Unsigned

(* One digit more.                                                          *)
LEMMA OneDigit ==
  ASSUME NEW d \in 0 .. 9
  PROVE  /\ <<DecimalDigits[d + 1]>> \in Seq(Digits)
         /\ <<DecimalDigits[d + 1]>> # <<>>
         /\ BufToLong(<<DecimalDigits[d + 1]>>) = d
PROOF
  <1> DEFINE s == <<DecimalDigits[d + 1]>>
  <1>1. s \in Seq(Digits) /\ Len(s) = 1 /\ s[1] = DecimalDigits[d + 1] /\ s # <<>>
    BY DigitIs
  <1>2. DigitOf(s[1]) = d
    BY <1>1, DigitIs
  <1> HIDE DEF s
  <1>3. Unsigned(s) = s
    BY <1>1, NoSign
  <1>4. PICK f : Values(f, s, 1) /\ BufToLong(s) = f[1]
    BY <1>1, <1>3, BufToLongIs
  <1>5. f[0] = 0 /\ f[1] = 10 * f[1 - 1] + DigitOf(s[1])
    <2>1. 1 \in 1 .. 1 /\ 1 \in Nat
      OBVIOUS
    <2> QED
      BY <1>4, <2>1, ValuesInt
  <1>6. BufToLong(s) = d
    BY <1>2, <1>4, <1>5
  <1> QED
    BY <1>1, <1>6 DEF s

LEMMA MoreDigits ==
  ASSUME NEW s \in Seq(Digits), s # <<>>, NEW d \in 0 .. 9
  PROVE  /\ Append(s, DecimalDigits[d + 1]) \in Seq(Digits)
         /\ Append(s, DecimalDigits[d + 1]) # <<>>
         /\ BufToLong(Append(s, DecimalDigits[d + 1])) = 10 * BufToLong(s) + d
PROOF
  <1> DEFINE c == DecimalDigits[d + 1]
             t == Append(s, c)
             n == Len(s)
  <1>1. c \in Digits /\ DigitOf(c) = d
    BY DigitIs
  <1> HIDE DEF c
  <1>2. /\ t \in Seq(Digits) /\ Len(t) = n + 1 /\ t[n + 1] = c /\ n \in Nat
        /\ \A i \in 1 .. n : s[i] = t[i]
    BY <1>1, AppendProperties
  <1>3. t # <<>>
    BY <1>2
  <1> HIDE DEF t, n
  <1>4. Unsigned(s) = s /\ Unsigned(t) = t
    BY <1>2, <1>3, NoSign
  <1>5. PICK f : Values(f, s, n) /\ BufToLong(s) = f[n]
    BY <1>4, BufToLongIs DEF n
  <1>6. PICK g : Values(g, t, n + 1) /\ BufToLong(t) = g[n + 1]
    BY <1>2, <1>4, BufToLongIs
  <1>7. f[n] = g[n]
    <2>1. n + 1 \in Nat /\ n <= n /\ n <= n + 1
      BY <1>2
    <2> QED
      BY <1>2, <1>5, <1>6, <2>1, ValuesAgree
  <1>8. g[n + 1] = 10 * g[(n + 1) - 1] + DigitOf(t[n + 1])
    <2>1. n + 1 \in Nat /\ n + 1 \in 1 .. n + 1
      BY <1>2
    <2> QED
      BY <1>6, <2>1, ValuesInt
  <1>9. (n + 1) - 1 = n
    BY <1>2
  <1>10. BufToLong(t) = 10 * BufToLong(s) + d
    BY <1>1, <1>2, <1>5, <1>6, <1>7, <1>8, <1>9
  <1> QED
    BY <1>2, <1>3, <1>10 DEF t, c

LEMMA WrittenNumber ==
  ASSUME NEW f, NEW n \in Nat, Written(f, n)
  PROVE  \A m \in 0 .. n : /\ f[m] \in Seq(Digits) /\ f[m] # <<>>
                           /\ BufToLong(f[m]) = m
PROOF
  <1> DEFINE Right(m) == f[m] \in Seq(Digits) /\ f[m] # <<>> /\ BufToLong(f[m]) = m
             N == {k \in Nat : \A m \in 0 .. n : m < k => Right(m)}
  <1>1. 0 \in N
    OBVIOUS
  <1>2. ASSUME NEW k \in Nat, k \in N PROVE k + 1 \in N
    <2>1. SUFFICES ASSUME NEW m \in 0 .. n, m < k + 1 PROVE Right(m)
      OBVIOUS
    <2>2. CASE m < k
      BY <1>2, <2>2
    <2>3. CASE m = k /\ m < 10
      <3>1. f[m] = <<DecimalDigits[m + 1]>>
        BY <2>3 DEF Written
      <3>2. m \in 0 .. 9
        BY <2>3
      <3> QED
        BY <3>1, <3>2, OneDigit
    <2>4. CASE m = k /\ m >= 10
      <3> DEFINE q == m \div 10
                 r == m % 10
      <3>1. q \in Nat /\ r \in 0 .. 9 /\ m = 10 * q + r /\ q < m
        BY <2>4, Division
      <3>2. f[m] = Append(f[q], DecimalDigits[r + 1])
        <4>1. m \in 0 .. n /\ ~ (m < 10)
          BY <2>4
        <4>2. f[m] = IF m < 10 THEN <<DecimalDigits[m + 1]>>
                     ELSE Append(f[m \div 10], DecimalDigits[(m % 10) + 1])
          BY <4>1 DEF Written
        <4> QED
          BY <4>1, <4>2
      <3> HIDE DEF q, r
      <3>3. q \in 0 .. n /\ q < k
        BY <2>4, <3>1
      <3>4. Right(q)
        BY <1>2, <3>3
      <3>5. f[m] \in Seq(Digits) /\ f[m] # <<>> /\ BufToLong(f[m]) = 10 * BufToLong(f[q]) + r
        BY <3>1, <3>2, <3>4, MoreDigits
      <3> QED
        BY <3>1, <3>4, <3>5
    <2> QED
      BY <2>1, <2>2, <2>3, <2>4
  <1>3. Nat \subseteq N
    <2> HIDE DEF N
    <2> QED
      BY <1>1, <1>2, SetInduction
  <1>4. n + 1 \in N
    BY <1>3
  <1> QED
    BY <1>4

LEMMA DecimalIs ==
  ASSUME NEW n \in Int
  PROVE  \E f : /\ Written(f, IF n < 0 THEN -n ELSE n)
                /\ Decimal(n) = IF n < 0 THEN <<"-">> \o f[-n] ELSE f[n]
PROOF
  <1> DEFINE abs == IF n < 0 THEN -n ELSE n
             ff == CHOOSE f : Written(f, abs)
  <1>1. abs \in Nat
    OBVIOUS
  <1>2. Written(ff, abs)
    <2> HIDE DEF abs
    <2> QED
      BY <1>1, WrittenExists
  <1>3. Decimal(n) = IF n < 0 THEN <<"-">> \o ff[abs] ELSE ff[abs]
    BY DEF Decimal, Written
  <1> QED
    BY <1>2, <1>3

(* A number is read as it was written: only digits and a sign, and the same *)
(* number.                                                                  *)
LEMMA DecimalRead ==
  ASSUME NEW n \in Int
  PROVE  /\ Decimal(n) \in Seq(Digits \cup {"-"}) /\ Decimal(n) # <<>>
         /\ BufToLong(Decimal(n)) = n
PROOF
  <1>1. PICK f : /\ Written(f, IF n < 0 THEN -n ELSE n)
                 /\ Decimal(n) = IF n < 0 THEN <<"-">> \o f[-n] ELSE f[n]
    BY DecimalIs
  <1>2. CASE n >= 0
    <2>1. Decimal(n) = f[n] /\ Written(f, n) /\ n \in 0 .. n /\ n \in Nat
      BY <1>1, <1>2
    <2>2. f[n] \in Seq(Digits) /\ f[n] # <<>> /\ BufToLong(f[n]) = n
      BY <2>1, WrittenNumber
    <2>3. f[n] \in Seq(Digits \cup {"-"})
      BY <2>2, SeqWidens
    <2> QED
      BY <2>1, <2>2, <2>3
  <1>3. CASE n < 0
    <2> DEFINE m == -n
               sign == <<"-">>
               ds == f[m]
               s == sign \o ds
    <2>1. Decimal(n) = s /\ Written(f, m) /\ m \in 0 .. m /\ m \in Nat
      BY <1>1, <1>3
    <2>2. ds \in Seq(Digits) /\ ds # <<>> /\ BufToLong(ds) = m
      <3> HIDE DEF m
      <3> QED
        BY <2>1, WrittenNumber
    <2>3. ds \in Seq(Digits \cup {"-"})
      BY <2>2, SeqWidens
    <2>4. sign \in Seq(Digits \cup {"-"}) /\ Len(sign) = 1 /\ sign[1] = "-"
      OBVIOUS
    <2> HIDE DEF m, sign, ds
    <2>5. /\ s \in Seq(Digits \cup {"-"}) /\ s # <<>> /\ Head(s) = "-" /\ Tail(s) = ds
          /\ Len(s) = 1 + Len(ds) /\ Len(ds) \in Nat
      <3>1. s \in Seq(Digits \cup {"-"}) /\ Len(s) = 1 + Len(ds)
        <4>1. s \in Seq(Digits \cup {"-"})
          BY <2>3, <2>4, ConcatProperties
        <4>2. Len(sign \o ds) = Len(sign) + Len(ds)
          BY <2>3, <2>4, ConcatProperties
        <4> QED
          BY <2>4, <4>1, <4>2
      <3>2. s # <<>> /\ s[1] = sign[1]
        BY <2>3, <2>4, <3>1
      <3>3. Head(s) = "-"
        BY <2>4, <3>1, <3>2
      <3>4. Tail(s) = ds
        BY <2>3, <2>4, <3>1
      <3> QED
        BY <3>1, <3>2, <3>3, <3>4
    <2> HIDE DEF s
    <2>7. Unsigned(s) = ds /\ ds # s
      BY <2>5 DEF Unsigned
    <2>6. Unsigned(ds) = ds
      BY <2>2, NoSign
    <2>9. PICK g : Values(g, ds, Len(ds)) /\ BufToLong(s) = -g[Len(ds)]
      BY <2>5, <2>7, BufToLongIs
    <2>10. PICK h : Values(h, ds, Len(ds)) /\ BufToLong(ds) = h[Len(ds)]
      BY <2>2, <2>6, BufToLongIs
    <2>11. g[Len(ds)] = h[Len(ds)]
      <3>1. Len(ds) \in Nat /\ Len(ds) <= Len(ds)
        BY <2>5
      <3> QED
        BY <2>9, <2>10, <3>1, ValuesAgree
    <2>12. BufToLong(s) = n
      BY <2>2, <2>9, <2>10, <2>11 DEF m
    <2> QED
      BY <2>1, <2>5, <2>12
  <1> QED
    BY <1>2, <1>3

-----------------------------------------------------------------------------
(* The invariant for InOrder.  While the streams are encodings of values,   *)
(* there is at any moment, with b the whole stream and roots its values, a  *)
(* place p in b up to which the parser has come: what is left of the block  *)
(* and of the input is what follows it; the unfinished arrays are pieces of *)
(* the stream that lie in each other, with done[i] of the parts of the i-th *)
(* complete and in arrayValues; and the state, buf and bulkSize are what is *)
(* known of the piece at p.  The outermost list is that of the roots.       *)

Now == IF pc = "loop" THEN state ELSE IF states = <<>> THEN "Start" ELSE Head(states)

Returned == pc = "return" /\ result = "Completed"
Whole    == IF Returned THEN Len(delivered) + 1 ELSE Len(delivered)

Ahead(b, blk, inp, p) ==
  /\ Len(b) = p + Len(blk) + Len(inp)
  /\ \A j \in 1 .. Len(blk) : blk[j] = b[p + j]
  /\ \A j \in 1 .. Len(inp) : inp[j] = b[p + Len(blk) + j]

Current(lists, done, i) == lists[i][done[i] + 1]

Opened(roots, lists, done, n, sizes, items) ==
  /\ Len(lists) = Len(sizes) + 1 /\ Len(done) = Len(sizes) + 1
  /\ lists[Len(sizes) + 1] = roots /\ done[Len(sizes) + 1] = n
  /\ \A i \in 1 .. Len(sizes) :
       /\ done[i + 1] < Len(lists[i + 1])
       /\ ArrayOf(Current(lists, done, i + 1))
       /\ lists[i] = Current(lists, done, i + 1).parts
       /\ done[i] < Len(lists[i])
       /\ sizes[i] = Len(lists[i]) - done[i]
       /\ items[i] = [k \in 1 .. done[i] |-> lists[i][k].value]

Reading(b, x, st, p, bf, size) ==
  \/ st \in {"Start", "StartArray"} /\ p = x.from
  \/ /\ st = FirstByte[x.sign] /\ Len(bf) <= Len(x.line)
     /\ bf = SubSeq(x.line, 1, Len(bf)) /\ p = x.from + 1 + Len(bf)
  \/ /\ st = AfterCR[FirstByte[x.sign]]
     /\ bf = x.line /\ p = x.from + 1 + Len(x.line) + 1
  \/ /\ st = "Bulk" /\ BulkString(b, x)
     /\ size > 0 /\ Len(bf) + size = Len(x.value.str)
     /\ bf = SubSeq(x.value.str, 1, Len(bf)) /\ p = AfterLine(x) + Len(bf)
  \/ /\ st = "BulkCR" /\ BulkString(b, x)
     /\ bf = x.value.str /\ p = AfterLine(x) + Len(bf)
  \/ /\ st = "BulkLF" /\ BulkString(b, x)
     /\ bf = x.value.str /\ p = AfterLine(x) + Len(bf) + 1

Placed(b, lists, done, st, p, bf, size) ==
  IF done[1] = Len(lists[1])
    THEN Len(lists) = 1 /\ st = "Start" /\ p = Len(b)
    ELSE done[1] < Len(lists[1]) /\ Reading(b, Current(lists, done, 1), st, p, bf, size)

Delivering(roots) ==
  /\ Len(delivered) \in Nat /\ Whole <= Len(roots)
  /\ delivered = SubSeq(ValuesOf(roots), 1, Len(delivered))
  /\ Returned => redisValue = ValuesOf(roots)[Whole]

Follows(b, pieces, roots, lists, done, p) ==
  /\ lists \in Seq(Seq(pieces)) /\ done \in Seq(Nat) /\ p \in Nat
  /\ Ahead(b, block, input, p)
  /\ Opened(roots, lists, done, Whole, arraySizes, arrayValues)
  /\ Placed(b, lists, done, Now, p, buf, bulkSize)
  /\ Delivering(roots)
  /\ result # "Error" /\ pc # "stopped"
  /\ pc = "read" => block = <<>>

Somewhere(b, pieces, roots) ==
  \E lists, done, p : Follows(b, pieces, roots, lists, done, p)

OInv ==
  sent # <<>> =>
    \E b, pieces, roots :
      Encoding(b, sent, pieces, roots) /\ Somewhere(b, pieces, roots)

-----------------------------------------------------------------------------
(* What is ahead.                                                           *)

LEMMA AheadIs ==
  ASSUME NEW b \in Seq(Byte), NEW blk \in Seq(Byte), NEW inp \in Seq(Byte), NEW p \in Nat,
         Ahead(b, blk, inp, p), blk # <<>>
  PROVE  p < Len(b) /\ Head(blk) = b[p + 1]
PROOF
  <1>1. Len(blk) \in Nat /\ Len(blk) >= 1 /\ Len(inp) \in Nat /\ Head(blk) = blk[1]
    OBVIOUS
  <1>2. 1 \in 1 .. Len(blk) /\ Len(b) = p + Len(blk) + Len(inp)
    BY <1>1 DEF Ahead
  <1>3. blk[1] = b[p + 1]
    BY <1>2 DEF Ahead
  <1> QED
    BY <1>1, <1>2, <1>3

LEMMA AheadRest ==
  ASSUME NEW b \in Seq(Byte), NEW blk \in Seq(Byte), NEW inp \in Seq(Byte), NEW p \in Nat,
         Ahead(b, blk, inp, p), NEW n \in 0 .. Len(blk)
  PROVE  /\ Ahead(b, Rest(blk, n), inp, p + n)
         /\ \A j \in 1 .. n : blk[j] = b[p + j]
PROOF
  <1> DEFINE r == Rest(blk, n)
  <1>1. r \in Seq(Byte) /\ Len(r) = Len(blk) - n /\ \A i \in 1 .. Len(blk) - n : r[i] = blk[i + n]
    BY RestSeq
  <1> HIDE DEF r
  <1>2. Len(blk) \in Nat /\ Len(inp) \in Nat
    OBVIOUS
  <1>3. Len(b) = (p + n) + Len(r) + Len(inp)
    BY <1>1, <1>2 DEF Ahead
  <1>4. ASSUME NEW j \in 1 .. Len(r) PROVE r[j] = b[(p + n) + j]
    <2>1. r[j] = blk[j + n] /\ j + n \in 1 .. Len(blk)
      BY <1>1, <1>2
    <2>2. blk[j + n] = b[p + (j + n)]
      BY <2>1 DEF Ahead
    <2>3. p + (j + n) = (p + n) + j
      OBVIOUS
    <2> QED
      BY <2>1, <2>2, <2>3
  <1>5. ASSUME NEW j \in 1 .. Len(inp) PROVE inp[j] = b[(p + n) + Len(r) + j]
    <2>1. inp[j] = b[p + Len(blk) + j]
      BY DEF Ahead
    <2>2. p + Len(blk) + j = (p + n) + Len(r) + j
      BY <1>1, <1>2
    <2> QED
      BY <2>1, <2>2
  <1>6. \A j \in 1 .. n : blk[j] = b[p + j]
    BY <1>2 DEF Ahead
  <1>7. Ahead(b, r, inp, p + n)
    BY <1>3, <1>4, <1>5 DEF Ahead
  <1> QED
    BY <1>6, <1>7 DEF r

LEMMA AheadRead ==
  ASSUME NEW b \in Seq(Byte), NEW blk, blk = <<>>, NEW inp \in Seq(Byte), NEW p \in Nat,
         Ahead(b, blk, inp, p), NEW n \in 1 .. Len(inp)
  PROVE  Ahead(b, SubSeq(inp, 1, n), Rest(inp, n), p)
PROOF
  <1> DEFINE f == SubSeq(inp, 1, n)
             r == Rest(inp, n)
  <1>1. n \in 0 .. Len(inp) /\ Len(inp) \in Nat /\ Len(blk) = 0
    OBVIOUS
  <1>2. r \in Seq(Byte) /\ Len(r) = Len(inp) - n /\ \A i \in 1 .. Len(inp) - n : r[i] = inp[i + n]
    BY <1>1, RestSeq
  <1>3. f \in Seq(Byte) /\ Len(f) = n /\ \A i \in 1 .. n : f[i] = inp[i]
    BY <1>1
  <1> HIDE DEF f, r
  <1>4. Len(b) = p + Len(inp)
    BY <1>1 DEF Ahead
  <1>5. \A j \in 1 .. Len(inp) : inp[j] = b[p + j]
    <2> SUFFICES ASSUME NEW j \in 1 .. Len(inp) PROVE inp[j] = b[p + j]
      OBVIOUS
    <2>1. inp[j] = b[p + Len(blk) + j] /\ p + Len(blk) + j = p + j
      BY <1>1 DEF Ahead
    <2> QED
      BY <2>1
  <1>6. Len(b) = p + Len(f) + Len(r)
    BY <1>1, <1>2, <1>3, <1>4
  <1>7. ASSUME NEW j \in 1 .. Len(f) PROVE f[j] = b[p + j]
    <2>1. j \in 1 .. n /\ j \in 1 .. Len(inp)
      BY <1>1, <1>3
    <2> QED
      BY <1>3, <1>5, <2>1
  <1>8. ASSUME NEW j \in 1 .. Len(r) PROVE r[j] = b[p + Len(f) + j]
    <2>1. r[j] = inp[j + n] /\ j + n \in 1 .. Len(inp)
      BY <1>1, <1>2, SMTT(30)
    <2>2. inp[j + n] = b[p + (j + n)] /\ p + (j + n) = p + Len(f) + j
      BY <1>3, <1>5, <2>1
    <2> QED
      BY <2>1, <2>2
  <1>9. Ahead(b, f, r, p)
    BY <1>6, <1>7, <1>8 DEF Ahead
  <1> QED
    BY <1>9 DEF f, r

-----------------------------------------------------------------------------
(* Pieces.                                                                  *)

Signs == {"+", "-", ":", "$", "*"}
LineEnds == {"StringLF", "ErrorLF", "IntegerLF", "BulkSizeLF", "ArraySizeLF"}

LEMMA SignStates ==
  /\ FirstByte["+"] = "String" /\ FirstByte["-"] = "ErrorString"
  /\ FirstByte[":"] = "Integer" /\ FirstByte["$"] = "BulkSize"
  /\ FirstByte["*"] = "ArraySize"
  /\ AfterCR["String"] = "StringLF" /\ AfterCR["ErrorString"] = "ErrorLF"
  /\ AfterCR["Integer"] = "IntegerLF" /\ AfterCR["BulkSize"] = "BulkSizeLF"
  /\ AfterCR["ArraySize"] = "ArraySizeLF"
  /\ DOMAIN FirstByte = Signs
PROOF
  BY DEF FirstByte, AfterCR, Signs, Lines, Numbers

LEMMA SignFits ==
  ASSUME NEW b, NEW x, Spelled(b, x)
  PROVE  /\ x.sign \in Signs
         /\ FirstByte[x.sign] \in Lines \cup Numbers
         /\ AfterCR[FirstByte[x.sign]] \in LineEnds
PROOF
  <1>1. x.sign \in Signs
    BY DEF Spelled, SimpleString, SimpleError, WholeNumber, NilValue, BulkString, ArrayOf,
       Signs
  <1> QED
    BY <1>1, SignStates DEF Signs, Lines, Numbers, LineEnds

(* What a state says of the piece that is read.                             *)
LEMMA InsideLine ==
  ASSUME NEW b, NEW x, Spelled(b, x), NEW st, NEW p, NEW bf, NEW size,
         Reading(b, x, st, p, bf, size), st \in Lines \cup Numbers
  PROVE  /\ st = FirstByte[x.sign] /\ Len(bf) <= Len(x.line)
         /\ bf = SubSeq(x.line, 1, Len(bf)) /\ p = x.from + 1 + Len(bf)
PROOF
  <1>1. st \notin LineEnds \cup {"Start", "StartArray", "Bulk", "BulkCR", "BulkLF"}
    BY DEF Lines, Numbers, LineEnds
  <1> QED
    BY <1>1, SignFits DEF Reading

LEMMA AfterCROfLine ==
  ASSUME NEW b, NEW x, Spelled(b, x), NEW st, NEW p, NEW bf, NEW size,
         Reading(b, x, st, p, bf, size), st \in LineEnds
  PROVE  /\ st = AfterCR[FirstByte[x.sign]]
         /\ bf = x.line /\ p = x.from + 1 + Len(x.line) + 1
PROOF
  <1>1. st \notin Lines \cup Numbers \cup {"Start", "StartArray", "Bulk", "BulkCR", "BulkLF"}
    BY DEF Lines, Numbers, LineEnds
  <1> QED
    BY <1>1, SignFits DEF Reading

LEMMA InsideBulk ==
  ASSUME NEW b, NEW x, Spelled(b, x), NEW st, NEW p, NEW bf, NEW size,
         Reading(b, x, st, p, bf, size)
  PROVE  /\ st = "Bulk" =>
              /\ BulkString(b, x)
              /\ size > 0 /\ Len(bf) + size = Len(x.value.str)
              /\ bf = SubSeq(x.value.str, 1, Len(bf)) /\ p = AfterLine(x) + Len(bf)
         /\ st = "BulkCR" => /\ BulkString(b, x) /\ bf = x.value.str
                             /\ p = AfterLine(x) + Len(bf)
         /\ st = "BulkLF" => /\ BulkString(b, x) /\ bf = x.value.str
                             /\ p = AfterLine(x) + Len(bf) + 1
PROOF
  <1>1. {"Bulk", "BulkCR", "BulkLF"} \cap (Lines \cup Numbers \cup LineEnds) = {}
    BY DEF Lines, Numbers, LineEnds
  <1>2. /\ FirstByte[x.sign] \in Lines \cup Numbers
        /\ AfterCR[FirstByte[x.sign]] \in LineEnds
    BY SignFits
  <1> QED
    BY <1>1, <1>2 DEF Reading

LEMMA AtItsBegin ==
  ASSUME NEW b, NEW x, Spelled(b, x), NEW st, NEW p, NEW bf, NEW size,
         Reading(b, x, st, p, bf, size), st \in {"Start", "StartArray"}
  PROVE  p = x.from
PROOF
  <1>1. st \notin Lines \cup Numbers \cup LineEnds \cup {"Bulk", "BulkCR", "BulkLF"}
    BY DEF Lines, Numbers, LineEnds
  <1> QED
    BY <1>1, SignFits DEF Reading

(* The line of a piece is what the parser accepts in the state it is in.    *)
LEMMA LineText ==
  ASSUME NEW b, NEW x, Spelled(b, x)
  PROVE  /\ FirstByte[x.sign] \in Lines => x.line \in Seq(Text)
         /\ FirstByte[x.sign] \in Numbers =>
              x.line \in Seq(Digits \cup {"-"}) /\ x.line # <<>>
PROOF
  <1>1. CASE SimpleString(x) \/ SimpleError(x)
    <2>1. x.line \in Seq(Text) /\ x.sign \in {"+", "-"}
      BY <1>1 DEF SimpleString, SimpleError
    <2>2. FirstByte[x.sign] \notin Numbers
      BY <2>1, SignStates DEF Numbers
    <2> QED
      BY <2>1, <2>2
  <1>2. CASE WholeNumber(x) \/ NilValue(x) \/ BulkString(b, x) \/ ArrayOf(x)
    <2>1. \E n \in Int : x.line = Decimal(n)
      <3>1. CASE WholeNumber(x)
        BY <3>1 DEF WholeNumber
      <3>2. CASE NilValue(x)
        <4>1. -1 \in Int
          OBVIOUS
        <4> QED
          BY <3>2, <4>1 DEF NilValue
      <3>3. CASE BulkString(b, x)
        <4>1. x.value.str \in Seq(Byte) /\ x.line = Decimal(Len(x.value.str))
          BY <3>3 DEF BulkString
        <4>2. Len(x.value.str) \in Int
          BY <4>1
        <4> QED
          BY <4>1, <4>2
      <3>4. CASE ArrayOf(x)
        <4>1. x.line = Decimal(Len(x.parts))
          BY <3>4 DEF ArrayOf
        <4> QED
          BY <4>1
      <3> QED
        BY <1>2, <3>1, <3>2, <3>3, <3>4
    <2>2. x.line \in Seq(Digits \cup {"-"}) /\ x.line # <<>>
      BY <2>1, DecimalRead
    <2>3. x.sign \in {":", "$", "*"}
      BY <1>2 DEF WholeNumber, NilValue, BulkString, ArrayOf
    <2>4. FirstByte[x.sign] \notin Lines
      BY <2>3, SignStates DEF Lines
    <2> QED
      BY <2>2, <2>4
  <1> QED
    BY <1>1, <1>2 DEF Spelled

(* A byte of the line, or the CR after it.                                  *)
LEMMA NextOfLine ==
  ASSUME NEW b, NEW x, Spelled(b, x), NEW bf, Len(bf) \in Nat, Len(bf) <= Len(x.line),
         bf = SubSeq(x.line, 1, Len(bf))
  PROVE  /\ Len(bf) < Len(x.line) =>
              /\ b[(x.from + 1 + Len(bf)) + 1] = x.line[Len(bf) + 1]
              /\ Append(bf, x.line[Len(bf) + 1]) = SubSeq(x.line, 1, Len(bf) + 1)
              /\ Len(Append(bf, x.line[Len(bf) + 1])) = Len(bf) + 1
         /\ Len(bf) = Len(x.line) =>
              bf = x.line /\ b[(x.from + 1 + Len(bf)) + 1] = "CR"
PROOF
  <1> DEFINE n == Len(bf)
             s == x.line
  <1>1. s \in Seq(Byte) /\ n \in Nat /\ n <= Len(s) /\ Len(s) \in Nat /\ x.from \in Nat
    BY DEF Spelled
  <1>2. bf = SubSeq(s, 1, n)
    OBVIOUS
  <1> HIDE DEF n, s
  <1>3. CASE n < Len(s)
    <2>1. n + 1 \in 1 .. Len(s)
      BY <1>1, <1>3
    <2>2. b[(x.from + 1) + (n + 1)] = s[n + 1]
      BY <2>1 DEF Spelled, Stands, s
    <2>3. (x.from + 1) + (n + 1) = (x.from + 1 + n) + 1
      <3>1. x.from \in Nat /\ n \in Nat
        BY <1>1
      <3> QED
        BY <3>1, SMTT(30)
    <2>4. bf \in Seq(Byte) /\ s[n + 1] \in Byte /\ Len(bf) = n
      BY <1>1, <1>2, <2>1
    <2>5. Append(bf, s[n + 1]) \in Seq(Byte) /\ Len(Append(bf, s[n + 1])) = n + 1
      BY <2>4, AppendProperties
    <2>6. Append(bf, s[n + 1]) = SubSeq(s, 1, n + 1)
      <3>1. SubSeq(s, 1, n + 1) \in Seq(Byte) /\ Len(SubSeq(s, 1, n + 1)) = n + 1
            /\ \A i \in 1 .. n + 1 : SubSeq(s, 1, n + 1)[i] = s[i]
        BY <1>1, <2>1
      <3>2. ASSUME NEW i \in 1 .. n + 1 PROVE Append(bf, s[n + 1])[i] = s[i]
        <4>1. CASE i = n + 1
          BY <2>4, <4>1, AppendProperties
        <4>2. CASE i \in 1 .. n
          <5>1. bf[i] = s[i]
            BY <1>1, <1>2, <4>2
          <5> QED
            BY <2>4, <4>2, <5>1, AppendProperties
        <4>3. i = n + 1 \/ i \in 1 .. n
          <5>1. n \in Nat
            BY <1>1
          <5> QED
            BY <5>1
        <4> QED
          BY <4>1, <4>2, <4>3
      <3> QED
        BY <2>5, <3>1, <3>2, SeqEqual
    <2> QED
      BY <1>3, <2>2, <2>3, <2>5, <2>6 DEF n, s
  <1>4. CASE n = Len(s)
    <2>1. bf = s
      BY <1>1, <1>2, <1>4, SubSeqFull
    <2>2. b[(x.from + 1 + Len(s)) + 1] = "CR"
      BY DEF Spelled, LineEnd, s
    <2> QED
      BY <1>4, <2>1, <2>2 DEF n, s
  <1> QED
    BY <1>1, <1>3, <1>4 DEF n, s

-----------------------------------------------------------------------------
(* The pieces that are open.                                                *)

LEMMA InStream ==
  ASSUME NEW b, NEW values, NEW pieces, NEW roots, Encoding(b, values, pieces, roots)
  PROVE  /\ b \in Seq(Byte) /\ roots \in Seq(pieces)
         /\ Follow(roots, 0, Len(b)) /\ values = ValuesOf(roots)
         /\ \A x \in pieces : Spelled(b, x) /\ x.parts \in Seq(pieces)
PROOF
  BY DEF Encoding

(* In each list of open pieces there is one that is not complete, if there  *)
(* is one in the innermost.                                                 *)
LEMMA OpenHas ==
  ASSUME NEW pieces, NEW roots, NEW lists \in Seq(Seq(pieces)), NEW done \in Seq(Nat),
         NEW n, NEW sizes, Len(sizes) \in Nat, NEW items,
         Opened(roots, lists, done, n, sizes, items), done[1] < Len(lists[1]),
         NEW i \in 1 .. Len(sizes) + 1
  PROVE  /\ lists[i] \in Seq(pieces) /\ done[i] \in Nat /\ done[i] < Len(lists[i])
         /\ Current(lists, done, i) \in pieces
PROOF
  <1>1. Len(lists) = Len(sizes) + 1 /\ Len(done) = Len(sizes) + 1
    BY DEF Opened
  <1>2. lists[i] \in Seq(pieces) /\ done[i] \in Nat
    <2>1. i \in 1 .. Len(lists) /\ i \in 1 .. Len(done)
      BY <1>1
    <2> QED
      BY <2>1, ElementOfSeq
  <1>3. done[i] < Len(lists[i])
    <2>1. CASE i = Len(sizes) + 1 /\ i # 1
      <3>1. i - 1 \in 1 .. Len(sizes) /\ (i - 1) + 1 = i
        BY <2>1
      <3>2. done[(i - 1) + 1] < Len(lists[(i - 1) + 1])
        BY <3>1 DEF Opened
      <3> QED
        BY <3>1, <3>2
    <2>2. CASE i = 1
      BY <2>2
    <2>3. CASE i \in 1 .. Len(sizes)
      BY <2>3 DEF Opened
    <2>4. i = Len(sizes) + 1 \/ i \in 1 .. Len(sizes)
      BY SMTT(30)
    <2> QED
      BY <2>1, <2>2, <2>3, <2>4
  <1>4. Current(lists, done, i) \in pieces
    <2>1. done[i] + 1 \in 1 .. Len(lists[i])
      BY <1>2, <1>3, SMTT(30)
    <2> QED
      BY <1>2, <2>1, ElementOfSeq DEF Current
  <1> QED
    BY <1>2, <1>3, <1>4

(* The turn of the loop is in the middle of a piece of the stream.          *)
LEMMA TurnReads ==
  ASSUME NEW b, NEW pieces, NEW roots, NEW lists, NEW done, NEW p,
         Encoding(b, sent, pieces, roots), Follows(b, pieces, roots, lists, done, p),
         TypeOK, NEW from, Turn(from)
  PROVE  /\ done[1] < Len(lists[1])
         /\ Current(lists, done, 1) \in pieces
         /\ Spelled(b, Current(lists, done, 1))
         /\ Reading(b, Current(lists, done, 1), state, p, buf, bulkSize)
         /\ b \in Seq(Byte) /\ p \in Nat /\ Ahead(b, block, input, p)
         /\ block \in Seq(Byte) /\ input \in Seq(Byte) /\ Len(buf) \in Nat
         /\ buf \in Seq(Byte)
         /\ Head(block) = b[p + 1] /\ p < Len(b)
         /\ pc = "loop" /\ state \in from
PROOF
  <1>1. b \in Seq(Byte) /\ p \in Nat /\ Ahead(b, block, input, p)
    BY InStream DEF Follows
  <1>2. block \in Seq(Byte) /\ input \in Seq(Byte) /\ block # <<>> /\ buf \in Seq(Byte)
        /\ pc = "loop" /\ state \in from /\ arraySizes \in Seq(Nat \ {0})
    BY DEF TypeOK, Turn
  <1>3. p < Len(b) /\ Head(block) = b[p + 1]
    BY <1>1, <1>2, AheadIs
  <1>4. Placed(b, lists, done, state, p, buf, bulkSize)
    BY <1>2 DEF Follows, Now
  <1>5. done[1] # Len(lists[1])
    <2>1. p # Len(b)
      BY <1>1, <1>3
    <2> QED
      BY <1>4, <2>1 DEF Placed
  <1>6. done[1] < Len(lists[1]) /\ Reading(b, Current(lists, done, 1), state, p, buf, bulkSize)
    BY <1>4, <1>5 DEF Placed
  <1>7. Current(lists, done, 1) \in pieces
    <2>1. lists \in Seq(Seq(pieces)) /\ done \in Seq(Nat)
          /\ Opened(roots, lists, done, Whole, arraySizes, arrayValues)
      BY DEF Follows
    <2>2. Len(arraySizes) \in Nat /\ 1 \in 1 .. Len(arraySizes) + 1
      BY <1>2
    <2> QED
      BY <1>6, <2>1, <2>2, OpenHas
  <1>8. Spelled(b, Current(lists, done, 1))
    BY <1>7, InStream
  <1>9. Len(buf) \in Nat
    BY <1>2
  <1> QED
    BY <1>1, <1>2, <1>3, <1>6, <1>7, <1>8, <1>9

(* The loop goes on in the same piece.                                      *)
LEMMA GotoFollows ==
  ASSUME NEW b, NEW pieces, NEW roots, NEW lists, NEW done, NEW p,
         Follows(b, pieces, roots, lists, done, p),
         done[1] < Len(lists[1]), lists[1] \in Seq(pieces), done[1] \in Nat,
         pc = "loop", NEW next, Goto(next), delivered' = delivered,
         NEW q \in Nat, Ahead(b, block', input', q),
         Reading(b, Current(lists, done, 1), next, q, buf', bulkSize')
  PROVE  Follows(b, pieces, roots, lists, done, q)'
PROOF
  <1>1. pc' = "loop" /\ state' = next /\ result' = result
        /\ arraySizes' = arraySizes /\ arrayValues' = arrayValues
        /\ redisValue' = redisValue
    BY DEF Goto
  <1>2. Whole = Len(delivered) /\ Whole' = Len(delivered) /\ Now' = next /\ ~Returned'
    BY <1>1 DEF Whole, Returned, Now
  <1>3. Opened(roots, lists, done, Whole', arraySizes', arrayValues')
    BY <1>1, <1>2 DEF Follows
  <1>4. Placed(b, lists, done, Now', q, buf', bulkSize')
    <2>1. done[1] # Len(lists[1])
      <3>1. Len(lists[1]) \in Nat
        OBVIOUS
      <3> QED
        BY <3>1
    <2> QED
      BY <1>2, <2>1 DEF Placed
  <1>5. Delivering(roots)'
    BY <1>2 DEF Follows, Delivering
  <1> QED
    BY <1>1, <1>3, <1>4, <1>5 DEF Follows

-----------------------------------------------------------------------------
(* A complete value, and the arrays it completes.                           *)

LEMMA AppendValues ==
  ASSUME NEW S, NEW l \in Seq(S), NEW n \in Nat, n < Len(l)
  PROVE  Append([j \in 1 .. n |-> l[j].value], l[n + 1].value)
           = [j \in 1 .. n + 1 |-> l[j].value]
PROOF
  <1> DEFINE V == {l[j].value : j \in 1 .. n + 1}
             f == [j \in 1 .. n |-> l[j].value]
             g == [j \in 1 .. n + 1 |-> l[j].value]
             c == l[n + 1].value
  <1>1. f \in Seq(V) /\ Len(f) = n /\ g \in Seq(V) /\ Len(g) = n + 1 /\ c \in V
    <2>1. \A j \in 1 .. n + 1 : l[j].value \in V
      OBVIOUS
    <2>2. n + 1 \in 1 .. n + 1 /\ \A j \in 1 .. n : j \in 1 .. n + 1
      OBVIOUS
    <2> HIDE DEF V
    <2> QED
      BY <2>1, <2>2
  <1>2. (\A j \in 1 .. n : f[j] = g[j]) /\ g[n + 1] = c
    OBVIOUS
  <1> HIDE DEF V, f, g, c
  <1>3. /\ Append(f, c) \in Seq(V) /\ Len(Append(f, c)) = n + 1
        /\ \A j \in 1 .. n : Append(f, c)[j] = f[j]
        /\ Append(f, c)[n + 1] = c
    BY <1>1, AppendProperties
  <1>4. ASSUME NEW j \in 1 .. n + 1 PROVE Append(f, c)[j] = g[j]
    <2>1. j = n + 1 \/ j \in 1 .. n
      OBVIOUS
    <2> QED
      BY <1>2, <1>3, <2>1
  <1>5. Append(f, c) = g
    BY <1>1, <1>3, <1>4, SeqEqual
  <1> QED
    BY <1>5 DEF f, g, c

(* The recursion of Wrapped.                                                *)
Wraps(w, items, v, k) ==
  w = [i \in 0 .. k |-> IF i = 0 THEN v ELSE Array(Append(items[i], w[i - 1]))]

LEMMA WrapsExist ==
  ASSUME NEW items, NEW v, NEW k \in Nat
  PROVE  \E w : Wraps(w, items, v, k)
PROOF
  <1> DEFINE N == {n \in Nat : \E w : Wraps(w, items, v, n)}
  <1>1. 0 \in N
    <2>1. Wraps([i \in 0 .. 0 |-> v], items, v, 0)
      BY DEF Wraps
    <2> QED
      BY <2>1
  <1>2. ASSUME NEW n \in Nat, n \in N PROVE n + 1 \in N
    <2>1. PICK w : Wraps(w, items, v, n)
      BY <1>2
    <2> DEFINE g == [i \in 0 .. n + 1 |->
                       IF i <= n THEN w[i] ELSE Array(Append(items[n + 1], w[n]))]
    <2>2. Wraps(g, items, v, n + 1)
      <3> SUFFICES ASSUME NEW i \in 0 .. n + 1
                   PROVE  g[i] = IF i = 0 THEN v ELSE Array(Append(items[i], g[i - 1]))
        BY DEF Wraps
      <3>1. CASE i = n + 1
        BY <3>1
      <3>2. CASE i \in 0 .. n
        <4>1. w[i] = IF i = 0 THEN v ELSE Array(Append(items[i], w[i - 1]))
          BY <2>1, <3>2 DEF Wraps
        <4>2. g[i] = w[i]
          BY <3>2
        <4>3. i # 0 => g[i - 1] = w[i - 1]
          BY <3>2
        <4> QED
          BY <4>1, <4>2, <4>3
      <3> QED
        BY <3>1, <3>2
    <2> QED
      BY <2>2
  <1>3. Nat \subseteq N
    <2> HIDE DEF N
    <2> QED
      BY <1>1, <1>2, SetInduction
  <1> QED
    BY <1>3

LEMMA WrappedIs ==
  ASSUME NEW v, NEW k \in Nat
  PROVE  \E w : Wraps(w, arrayValues, v, k) /\ Wrapped(v, k) = w[k]
PROOF
  <1> DEFINE ww == CHOOSE w : Wraps(w, arrayValues, v, k)
  <1>1. Wraps(ww, arrayValues, v, k)
    BY WrapsExist
  <1>2. Wrapped(v, k) = ww[k]
    BY DEF Wrapped, Wraps
  <1> QED
    BY <1>1, <1>2

LEMMA WrapsStep ==
  ASSUME NEW w, NEW items, NEW v, NEW k \in Nat, Wraps(w, items, v, k)
  PROVE  /\ w[0] = v
         /\ \A i \in 1 .. k : w[i] = Array(Append(items[i], w[i - 1]))
PROOF
  <1>1. w[0] = v
    BY DEF Wraps
  <1>2. ASSUME NEW i \in 1 .. k PROVE w[i] = Array(Append(items[i], w[i - 1]))
    <2>1. i \in 0 .. k /\ i # 0
      OBVIOUS
    <2> QED
      BY <2>1 DEF Wraps
  <1> QED
    BY <1>1, <1>2

(* The values wrapped around each other are those of the pieces around each *)
(* other, and all end at the same place.                                    *)
Climbs(lists, done, w, k) ==
  \A i \in 0 .. k : /\ w[i] = Current(lists, done, i + 1).value
                    /\ Current(lists, done, i + 1).to = Current(lists, done, 1).to

LEMMA ClimbsOut ==
  ASSUME NEW pieces, NEW roots, NEW lists \in Seq(Seq(pieces)), NEW done \in Seq(Nat),
         NEW n, NEW sizes, Len(sizes) \in Nat, NEW items,
         Opened(roots, lists, done, n, sizes, items), done[1] < Len(lists[1]),
         NEW k \in 0 .. Len(sizes), \A i \in 1 .. k : sizes[i] = 1,
         NEW w, Wraps(w, items, Current(lists, done, 1).value, k)
  PROVE  Climbs(lists, done, w, k)
PROOF
  <1> DEFINE Cur(i) == Current(lists, done, i + 1)
             N == {i \in Nat : i <= k => w[i] = Cur(i).value /\ Cur(i).to = Cur(0).to}
  <1>1. 0 \in N
    <2>1. w[0] = Cur(0).value
      BY WrapsStep
    <2> QED
      BY <2>1
  <1>2. ASSUME NEW j \in Nat, j \in N PROVE j + 1 \in N
    <2>1. CASE j + 1 <= k
      <3> DEFINE i == j + 1
                 x == Current(lists, done, i + 1)
                 y == Current(lists, done, i)
                 l == lists[i]
                 m == done[i]
      <3>1. i \in 1 .. k /\ i \in 1 .. Len(sizes) /\ i \in 1 .. Len(sizes) + 1 /\ i - 1 = j
        BY <2>1
      <3>2. w[j] = y.value /\ y.to = Cur(0).to
        BY <1>2, <2>1
      <3>3. l \in Seq(pieces) /\ m \in Nat /\ m < Len(l)
        <4> HIDE DEF i
        <4> QED
          BY <3>1, OpenHas
      <3>4. /\ ArrayOf(x) /\ l = x.parts /\ sizes[i] = Len(l) - m
            /\ items[i] = [z \in 1 .. m |-> l[z].value]
        BY <3>1 DEF Opened
      <3>5. sizes[i] = 1
        BY <3>1
      <3>6. Len(l) = m + 1 /\ y = l[m + 1] /\ l # <<>>
        <4>1. Len(l) \in Nat
          BY <3>3
        <4>2. y = l[m + 1]
          BY DEF Current
        <4> HIDE DEF i, l, m, y
        <4>3. Len(l) = m + 1
          BY <3>3, <3>4, <3>5, <4>1, SMTT(30)
        <4> QED
          BY <3>3, <4>2, <4>3
      <3>7. w[i] = Array(Append(items[i], w[j]))
        BY <3>1, WrapsStep
      <3> HIDE DEF i, x, y, l, m
      <3>8. Append(items[i], w[j]) = [z \in 1 .. m + 1 |-> l[z].value]
        BY <3>2, <3>3, <3>4, <3>6, AppendValues
      <3>9. w[i] = x.value
        <4>1. x.value = Array(ValuesOf(l))
          BY <3>4 DEF ArrayOf
        <4>2. ValuesOf(l) = [z \in 1 .. m + 1 |-> l[z].value]
          BY <3>6 DEF ValuesOf
        <4> QED
          BY <3>7, <3>8, <4>1, <4>2
      <3>10. x.to = y.to
        <4>1. Follow(l, AfterLine(x), x.to)
          BY <3>4 DEF ArrayOf
        <4> QED
          BY <3>6, <4>1 DEF Follow
      <3>11. Cur(i) = x
        BY DEF x
      <3>12. i \in N
        <4>1. i \in Nat
          BY DEF i
        <4> QED
          BY <3>2, <3>9, <3>10, <3>11, <4>1
      <3> QED
        BY <3>12 DEF i
    <2>2. CASE ~ (j + 1 <= k)
      BY <2>2
    <2> QED
      BY <2>1, <2>2
  <1>3. Nat \subseteq N
    <2> HIDE DEF N
    <2> QED
      BY <1>1, <1>2, SetInduction
  <1>4. ASSUME NEW i \in 0 .. k
        PROVE  /\ w[i] = Current(lists, done, i + 1).value
               /\ Current(lists, done, i + 1).to = Current(lists, done, 1).to
    <2>1. i \in Nat /\ i <= k
      OBVIOUS
    <2>2. i \in N
      <3> HIDE DEF N
      <3> QED
        BY <1>3, <2>1
    <2> QED
      BY <2>1, <2>2
  <1> HIDE DEF N
  <1> QED
    BY <1>4 DEF Climbs

(* Every open list is one whose pieces follow each other.                   *)
LEMMA OpenFollow ==
  ASSUME NEW b, NEW values, NEW pieces, NEW roots, Encoding(b, values, pieces, roots),
         NEW lists, NEW done, NEW n, NEW sizes, Len(sizes) \in Nat, NEW items,
         Opened(roots, lists, done, n, sizes, items), NEW i \in 1 .. Len(sizes) + 1
  PROVE  \A k \in 1 .. Len(lists[i]) - 1 : lists[i][k].to = lists[i][k + 1].from
PROOF
  <1>1. CASE i = Len(sizes) + 1
    <2>1. lists[i] = roots /\ Follow(roots, 0, Len(b))
      BY <1>1, InStream DEF Opened
    <2> QED
      BY <2>1 DEF Follow
  <1>2. CASE i \in 1 .. Len(sizes)
    <2> DEFINE x == Current(lists, done, i + 1)
    <2>1. ArrayOf(x) /\ lists[i] = x.parts
      BY <1>2 DEF Opened
    <2> HIDE DEF x
    <2>2. Follow(lists[i], AfterLine(x), x.to)
      BY <2>1 DEF ArrayOf
    <2> QED
      BY <2>2 DEF Follow
  <1>3. i = Len(sizes) + 1 \/ i \in 1 .. Len(sizes)
    OBVIOUS
  <1> QED
    BY <1>1, <1>2, <1>3

(* The lists that are open when the innermost k arrays are complete, with   *)
(* one part more complete in the array around them.                         *)
OpensAfter(pieces, roots, lists, done, k, m, sizes, sizes2, items2) ==
  \E lists2, done2 :
    /\ lists2 \in Seq(Seq(pieces)) /\ done2 \in Seq(Nat)
    /\ Opened(roots, lists2, done2, m, sizes2, items2)
    /\ lists2[1] = lists[k + 1] /\ done2[1] = done[k + 1] + 1
    /\ Len(lists2) = Len(sizes) - k + 1
    /\ k < Len(sizes) => done[k + 1] + 1 < Len(lists[k + 1])

(* What becomes of the sizes and the items then: n of the outermost values  *)
(* were delivered before, m are after.                                      *)
Closes(lists, done, n, sizes, items, k, m, sizes2, items2) ==
  /\ k < Len(sizes) => sizes[k + 1] # 1
  /\ k < Len(sizes) => m = n
  /\ k = Len(sizes) => m = n + 1
  /\ k = Len(sizes) => sizes2 = <<>> /\ items2 = <<>>
  /\ k < Len(sizes) =>
       /\ sizes2 = [Rest(sizes, k) EXCEPT ![1] = @ - 1]
       /\ items2 = [Rest(items, k) EXCEPT
                      ![1] = Append(@, Current(lists, done, k + 1).value)]

LEMMA OpenedAfter ==
  ASSUME NEW pieces, NEW roots, NEW lists \in Seq(Seq(pieces)), NEW done \in Seq(Nat),
         NEW n, NEW sizes \in Seq(Nat \ {0}),
         NEW S, NEW items \in Seq(S), Len(items) = Len(sizes),
         Opened(roots, lists, done, n, sizes, items), done[1] < Len(lists[1]),
         NEW k \in 0 .. Len(sizes), NEW m, NEW sizes2, NEW items2,
         Closes(lists, done, n, sizes, items, k, m, sizes2, items2)
  PROVE  OpensAfter(pieces, roots, lists, done, k, m, sizes, sizes2, items2)
PROOF
  <1> SUFFICES ASSUME k < Len(sizes) => sizes[k + 1] # 1,
                      k < Len(sizes) => m = n,
                      k = Len(sizes) => m = n + 1,
                      k = Len(sizes) => sizes2 = <<>> /\ items2 = <<>>,
                      k < Len(sizes) =>
                        /\ sizes2 = [Rest(sizes, k) EXCEPT ![1] = @ - 1]
                        /\ items2 = [Rest(items, k) EXCEPT
                                       ![1] = Append(@, Current(lists, done, k + 1).value)]
               PROVE  OpensAfter(pieces, roots, lists, done, k, m, sizes, sizes2, items2)
    BY DEF Closes
  <1> DEFINE d == Len(sizes)
             e == d - k
             one == done[k + 1] + 1
             rest == Rest(done, k)
             lists2 == Rest(lists, k)
             done2 == [rest EXCEPT ![1] = one]
  <1>1. d \in Nat /\ e \in Nat /\ e = d - k /\ k \in 0 .. d /\ k + 1 \in 1 .. d + 1
    OBVIOUS
  <1>2. Len(lists) = d + 1 /\ Len(done) = d + 1 /\ lists[d + 1] = roots /\ done[d + 1] = n
    BY DEF Opened
  <1> HIDE DEF e
  <1>3. /\ lists2 \in Seq(Seq(pieces)) /\ Len(lists2) = e + 1
        /\ \A i \in 1 .. e + 1 : lists2[i] = lists[i + k]
    <2>1. k \in 0 .. Len(lists)
      BY <1>1, <1>2
    <2>2. Len(lists) - k = e + 1
      BY <1>1, <1>2
    <2>3. /\ lists2 \in Seq(Seq(pieces)) /\ Len(lists2) = Len(lists) - k
          /\ \A i \in 1 .. Len(lists) - k : lists2[i] = lists[i + k]
      BY <2>1, RestSeq
    <2> HIDE DEF lists2
    <2> QED
      BY <2>2, <2>3
  <1>4. /\ rest \in Seq(Nat) /\ Len(rest) = e + 1
        /\ \A i \in 1 .. e + 1 : rest[i] = done[i + k]
    <2>1. k \in 0 .. Len(done)
      BY <1>1, <1>2
    <2>2. Len(done) - k = e + 1
      BY <1>1, <1>2
    <2>3. /\ rest \in Seq(Nat) /\ Len(rest) = Len(done) - k
          /\ \A i \in 1 .. Len(done) - k : rest[i] = done[i + k]
      BY <2>1, RestSeq
    <2> HIDE DEF rest
    <2> QED
      BY <2>2, <2>3
  <1>5. \A i \in 1 .. d + 1 : /\ lists[i] \in Seq(pieces) /\ done[i] \in Nat
                              /\ done[i] < Len(lists[i])
    BY <1>1, OpenHas
  <1> HIDE DEF lists2, rest
  <1>6. one \in Nat
    <2>1. done[k + 1] \in Nat
      BY <1>1, <1>5
    <2> QED
      BY <2>1, SMTT(30)
  <1>7. /\ done2 \in Seq(Nat) /\ Len(done2) = e + 1 /\ done2[1] = one
        /\ \A i \in 2 .. e + 1 : done2[i] = done[i + k]
    <2> HIDE DEF one
    <2>1. rest # <<>> /\ 1 \in DOMAIN rest
      BY <1>1, <1>4
    <2>2. done2 \in Seq(Nat) /\ Len(done2) = Len(rest)
      BY <1>4, <1>6, <2>1, NewFirst
    <2>3. done2[1] = one
      BY <2>1
    <2>4. ASSUME NEW i \in 2 .. e + 1 PROVE done2[i] = done[i + k]
      <3>1. i \in 1 .. e + 1 /\ i # 1
        OBVIOUS
      <3>2. DOMAIN rest = 1 .. e + 1
        BY <1>4
      <3> QED
        BY <1>4, <3>1, <3>2
    <2> QED
      BY <1>4, <2>2, <2>3, <2>4
  <1> HIDE DEF done2
  <1>8. lists2[1] = lists[k + 1]
    <2>1. 1 \in 1 .. e + 1 /\ 1 + k = k + 1
      BY <1>1
    <2> QED
      BY <1>3, <2>1
  <1>9. CASE k = d
    <2>1. e = 0 /\ sizes2 = <<>> /\ items2 = <<>> /\ m = n + 1
      BY <1>1, <1>9
    <2>2. Len(sizes2) = 0 /\ 1 .. Len(sizes2) = {}
      BY <2>1
    <2>3. Len(lists2) = 1 /\ Len(done2) = 1 /\ lists2[1] = roots /\ done2[1] = m
      BY <1>2, <1>3, <1>7, <1>8, <1>9, <2>1
    <2>4. Opened(roots, lists2, done2, m, sizes2, items2)
      BY <2>2, <2>3 DEF Opened
    <2>5. Len(lists2) = Len(sizes) - k + 1 /\ ~ (k < Len(sizes))
      BY <1>1, <1>9, <2>3
    <2>6. done2[1] = done[k + 1] + 1
      BY <1>7
    <2> QED
      BY <1>3, <1>7, <1>8, <2>4, <2>5, <2>6 DEF OpensAfter
  <1>10. CASE k < d
    <2> DEFINE left == Rest(sizes, k)
               kept == Rest(items, k)
               x == Current(lists, done, k + 1)
    <2>1. k + 1 \in 1 .. d /\ e \in Nat \ {0} /\ m = n
      BY <1>1, <1>10
    <2>2. left \in Seq(Nat \ {0}) /\ Len(left) = e /\ \A i \in 1 .. e : left[i] = sizes[i + k]
      <3>1. k \in 0 .. Len(sizes) /\ Len(sizes) - k = e
        BY <1>1
      <3>2. /\ left \in Seq(Nat \ {0}) /\ Len(left) = Len(sizes) - k
            /\ \A i \in 1 .. Len(sizes) - k : left[i] = sizes[i + k]
        BY <3>1, RestSeq, SMTT(30)
      <3> HIDE DEF left
      <3> QED
        BY <3>1, <3>2
    <2>3. kept \in Seq(S) /\ Len(kept) = e /\ \A i \in 1 .. e : kept[i] = items[i + k]
      <3>1. k \in 0 .. Len(items) /\ Len(items) - k = e
        BY <1>1
      <3>2. /\ kept \in Seq(S) /\ Len(kept) = Len(items) - k
            /\ \A i \in 1 .. Len(items) - k : kept[i] = items[i + k]
        BY <3>1, RestSeq
      <3> HIDE DEF kept
      <3> QED
        BY <3>1, <3>2
    <2>4. sizes2 = [left EXCEPT ![1] = @ - 1] /\ items2 = [kept EXCEPT ![1] = Append(@, x.value)]
      BY <1>10
    <2> HIDE DEF left, kept
    <2>5. DOMAIN left = 1 .. e /\ DOMAIN kept = 1 .. e /\ 1 \in 1 .. e
      BY <2>1, <2>2, <2>3
    <2>6. /\ DOMAIN sizes2 = 1 .. e /\ sizes2[1] = left[1] - 1
          /\ \A i \in 2 .. e : sizes2[i] = left[i]
      BY <2>4, <2>5
    <2>7. /\ items2[1] = Append(kept[1], x.value)
          /\ \A i \in 2 .. e : items2[i] = kept[i]
      BY <2>4, <2>5
    <2>8. left[1] = sizes[k + 1] /\ kept[1] = items[k + 1]
      <3>1. 1 + k = k + 1
        BY <1>1
      <3> QED
        BY <2>2, <2>3, <2>5, <3>1
    <2>9. Len(sizes2) = e
      <3>1. left # <<>> /\ left[1] - 1 \in Nat \ {0}
        <4>1. left[1] \in Nat \ {0} /\ left[1] # 1
          BY <1>10, <2>2, <2>5, <2>8
        <4>2. Len(left) # 0
          BY <2>1, <2>2
        <4> QED
          BY <4>1, <4>2, SMTT(30)
      <3> DEFINE less == left[1] - 1
      <3>2. sizes2 = [left EXCEPT ![1] = less]
        BY <2>4
      <3> HIDE DEF less
      <3>3. Len([left EXCEPT ![1] = less]) = Len(left)
        <4>1. less \in Nat \ {0}
          BY <3>1 DEF less
        <4> QED
          BY <2>2, <3>1, <4>1, NewFirst
      <3> QED
        BY <2>2, <3>2, <3>3
    <2>10. /\ sizes[k + 1] = Len(lists[k + 1]) - done[k + 1]
           /\ items[k + 1] = [z \in 1 .. done[k + 1] |-> lists[k + 1][z].value]
           /\ sizes[k + 1] # 1
      BY <1>10, <2>1 DEF Opened
    <2>11. lists[k + 1] \in Seq(pieces) /\ done[k + 1] \in Nat /\ Len(lists[k + 1]) \in Nat
           /\ done[k + 1] < Len(lists[k + 1])
      BY <1>1, <1>5
    <2>12. one < Len(lists[k + 1]) /\ sizes2[1] = Len(lists[k + 1]) - one
      <3> DEFINE len == Len(lists[k + 1])
                 was == done[k + 1]
      <3>1. sizes2[1] = sizes[k + 1] - 1 /\ sizes[k + 1] = len - was /\ sizes[k + 1] # 1
        BY <2>6, <2>8, <2>10
      <3>2. len \in Nat /\ was \in Nat /\ was < len /\ one = was + 1
        BY <2>11
      <3> HIDE DEF len, was, one
      <3>3. one < len /\ sizes2[1] = len - one
        BY <3>1, <3>2, SMTT(30)
      <3> QED
        BY <3>3 DEF len
    <2>13. items2[1] = [z \in 1 .. one |-> lists[k + 1][z].value]
      <3>1. x.value = lists[k + 1][done[k + 1] + 1].value
        BY DEF Current
      <3>2. Append([z \in 1 .. done[k + 1] |-> lists[k + 1][z].value],
                   lists[k + 1][done[k + 1] + 1].value)
              = [z \in 1 .. done[k + 1] + 1 |-> lists[k + 1][z].value]
        BY <2>11, AppendValues
      <3> QED
        BY <2>7, <2>8, <2>10, <3>1, <3>2
    <2>14. ASSUME NEW i \in 1 .. e
           PROVE  /\ done2[i + 1] < Len(lists2[i + 1])
                  /\ ArrayOf(Current(lists2, done2, i + 1))
                  /\ lists2[i] = Current(lists2, done2, i + 1).parts
                  /\ done2[i] < Len(lists2[i])
                  /\ sizes2[i] = Len(lists2[i]) - done2[i]
                  /\ items2[i] = [z \in 1 .. done2[i] |-> lists2[i][z].value]
      <3> DEFINE j == i + k
      <3>1. j \in 1 .. d /\ i + 1 \in 2 .. e + 1 /\ i + 1 \in 1 .. e + 1 /\ i \in 1 .. e + 1
            /\ (i + 1) + k = j + 1 /\ (i # 1 => i \in 2 .. e /\ i \in 2 .. e + 1)
        <4>7. d \in Nat /\ e \in Nat /\ k \in Nat /\ e = d - k
          BY <1>1
        <4>1. PICK u \in Nat, v \in Nat, w \in Nat : u = d /\ v = e /\ w = k /\ v = u - w
          BY <4>7, Zenon
        <4>2. PICK t \in Nat : t = i /\ 1 <= t /\ t <= v
          BY ONLY <2>14, <4>1
        <4>3. j \in 1 .. d
          BY ONLY <4>1, <4>2
        <4>4. i + 1 \in 2 .. e + 1 /\ i + 1 \in 1 .. e + 1 /\ i \in 1 .. e + 1
          BY ONLY <4>1, <4>2
        <4>5. (i + 1) + k = j + 1
          BY ONLY <4>1, <4>2
        <4>6. i # 1 => i \in 2 .. e /\ i \in 2 .. e + 1
          BY ONLY <4>1, <4>2
        <4> QED
          BY <4>3, <4>4, <4>5, <4>6
      <3>2. done2[i + 1] = done[j + 1] /\ lists2[i + 1] = lists[j + 1] /\ lists2[i] = lists[j]
        BY <1>3, <1>7, <3>1
      <3>3. Current(lists2, done2, i + 1) = Current(lists, done, j + 1)
        BY <3>2 DEF Current
      <3>4. /\ done[j + 1] < Len(lists[j + 1]) /\ ArrayOf(Current(lists, done, j + 1))
            /\ lists[j] = Current(lists, done, j + 1).parts
            /\ done[j] < Len(lists[j]) /\ sizes[j] = Len(lists[j]) - done[j]
            /\ items[j] = [z \in 1 .. done[j] |-> lists[j][z].value]
        BY <3>1 DEF Opened
      <3>5. CASE i = 1
        <4>1. j = k + 1 /\ lists2[i] = lists[k + 1] /\ done2[i] = one
          BY <1>7, <1>8, <3>5
        <4> QED
          BY <2>12, <2>13, <3>2, <3>3, <3>4, <3>5, <4>1
      <3>6. CASE i # 1
        <4>1. done2[i] = done[j] /\ sizes2[i] = sizes[j] /\ items2[i] = items[j]
          BY <1>7, <2>2, <2>3, <2>6, <2>7, <3>1, <3>6
        <4> QED
          BY <3>2, <3>3, <3>4, <4>1
      <3> QED
        BY <3>5, <3>6
    <2>15. lists2[e + 1] = roots /\ done2[e + 1] = m
      <3>1. e + 1 \in 1 .. e + 1 /\ e + 1 \in 2 .. e + 1 /\ (e + 1) + k = d + 1
        BY <1>1, <2>1
      <3> QED
        BY <1>2, <1>3, <1>7, <2>1, <3>1
    <2>16. Opened(roots, lists2, done2, m, sizes2, items2)
      BY <1>3, <1>7, <2>9, <2>14, <2>15 DEF Opened
    <2>17. Len(lists2) = Len(sizes) - k + 1
      BY <1>1, <1>3
    <2> QED
      BY <1>3, <1>7, <1>8, <2>12, <2>16, <2>17 DEF OpensAfter
  <1> QED
    BY <1>1, <1>9, <1>10

(* A value is complete: the parser is at the piece after it, or at the end. *)
LEMMA CompleteFollows ==
  ASSUME NEW b, NEW pieces, NEW roots, NEW lists, NEW done, NEW p,
         Encoding(b, sent, pieces, roots), Follows(b, pieces, roots, lists, done, p),
         IInv, pc = "loop", done[1] < Len(lists[1]),
         Complete(Current(lists, done, 1).value), delivered' = delivered,
         Ahead(b, block', input', Current(lists, done, 1).to)
  PROVE  Somewhere(b, pieces, roots)'
PROOF
  <1> DEFINE x == Current(lists, done, 1)
  <1>1. /\ lists \in Seq(Seq(pieces)) /\ done \in Seq(Nat)
        /\ Opened(roots, lists, done, Len(delivered), arraySizes, arrayValues)
        /\ Len(delivered) \in Nat /\ delivered = SubSeq(ValuesOf(roots), 1, Len(delivered))
        /\ result # "Error" /\ states = <<>>
    BY DEF Follows, Delivering, Whole, Returned, IInv, Popped
  <1>2. PICK n \in Nat : n = Len(delivered)
    BY <1>1
  <1>3. arraySizes \in Seq(Nat \ {0})
    BY DEF IInv, TypeOK
  <1>4. PICK S : arrayValues \in Seq(S) /\ Len(arrayValues) = Len(arraySizes)
    BY DEF IInv, Stacked
  <1>5. PICK d \in Nat : d = Len(arraySizes)
    BY <1>3
  <1>6. PICK k \in Nat : k = Closing
    BY <1>3, <1>5, ClosingIs
  <1>7. /\ k \in 0 .. d /\ \A i \in 1 .. k : arraySizes[i] = 1
        /\ k < d => arraySizes[k + 1] # 1
    BY <1>3, <1>5, <1>6, ClosingIs
  <1> DEFINE m == IF k = d THEN n + 1 ELSE n
  <1>8. /\ state' = "Start" /\ redisValue' = Wrapped(x.value, k) /\ states' = <<>>
        /\ k = d => /\ arraySizes' = <<>> /\ arrayValues' = <<>>
                    /\ result' = "Completed" /\ pc' = "return"
        /\ k # d => /\ arraySizes' = [Rest(arraySizes, k) EXCEPT ![1] = @ - 1]
                    /\ arrayValues' = [Rest(arrayValues, k) EXCEPT ![1] = Append(@, redisValue')]
                    /\ result' = result /\ pc' = "loop"
    BY <1>1, <1>5, <1>6 DEF Complete
  <1>9. Whole' = m /\ Now' = "Start" /\ (Returned' <=> k = d)
    BY <1>2, <1>8 DEF Whole, Returned, Now
  <1>10. /\ redisValue' = Current(lists, done, k + 1).value
         /\ Current(lists, done, k + 1).to = x.to
    <2>1. PICK w : Wraps(w, arrayValues, x.value, k) /\ Wrapped(x.value, k) = w[k]
      BY <1>7, WrappedIs
    <2>2. \A i \in 0 .. k : /\ w[i] = Current(lists, done, i + 1).value
                            /\ Current(lists, done, i + 1).to = x.to
      <3>1. Len(arraySizes) \in Nat /\ k \in 0 .. Len(arraySizes)
        BY <1>5, <1>7
      <3>2. Wraps(w, arrayValues, Current(lists, done, 1).value, k)
        BY <2>1
      <3>3. \A i \in 1 .. k : arraySizes[i] = 1
        BY <1>7
      <3>4. Opened(roots, lists, done, n, arraySizes, arrayValues)
        BY <1>1, <1>2
      <3>5. lists \in Seq(Seq(pieces)) /\ done \in Seq(Nat)
        BY <1>1
      <3> HIDE DEF x
      <3>6. Climbs(lists, done, w, k)
        BY <3>1, <3>2, <3>3, <3>4, <3>5, ClimbsOut
      <3> QED
        BY <3>6 DEF x, Climbs
    <2>3. k \in 0 .. k
      BY <1>7
    <2> QED
      BY <1>8, <2>1, <2>2, <2>3
  <1> DEFINE l == lists[k + 1]
             c == done[k + 1]
  <1>11. /\ l \in Seq(pieces) /\ c \in Nat /\ c < Len(l) /\ Len(l) \in Nat
         /\ k + 1 \in 1 .. d + 1
    <2>1. k + 1 \in 1 .. d + 1
      BY <1>7
    <2>2. l \in Seq(pieces) /\ c \in Nat /\ c < Len(l)
      BY <1>1, <1>5, <2>1, OpenHas
    <2> QED
      BY <2>1, <2>2
  <1>12. n < Len(roots) /\ lists[d + 1] = roots /\ done[d + 1] = n /\ Len(roots) \in Nat
    <2>1. d + 1 \in 1 .. d + 1
      OBVIOUS
    <2>2. done[d + 1] < Len(lists[d + 1])
      BY <1>1, <1>5, <2>1, OpenHas
    <2>3. lists[d + 1] = roots /\ done[d + 1] = n
      BY <1>1, <1>2, <1>5 DEF Opened
    <2>4. Len(roots) \in Nat
      BY InStream
    <2> QED
      BY <2>2, <2>3, <2>4
  <1>13. /\ k = d => m = n + 1
         /\ k < d => m = n /\ k # d
    BY <1>7
  <1> HIDE DEF m
  <1>14. PICK lists2, done2 :
           /\ lists2 \in Seq(Seq(pieces)) /\ done2 \in Seq(Nat)
           /\ Opened(roots, lists2, done2, m, arraySizes', arrayValues')
           /\ lists2[1] = l /\ done2[1] = c + 1
           /\ Len(lists2) = d - k + 1
           /\ k < d => c + 1 < Len(l)
    <2>1. /\ k < Len(arraySizes) => arraySizes[k + 1] # 1
          /\ k < Len(arraySizes) => m = Len(delivered)
          /\ k = Len(arraySizes) => m = Len(delivered) + 1
          /\ k = Len(arraySizes) => arraySizes' = <<>> /\ arrayValues' = <<>>
          /\ k < Len(arraySizes) =>
               /\ arraySizes' = [Rest(arraySizes, k) EXCEPT ![1] = @ - 1]
               /\ arrayValues' = [Rest(arrayValues, k) EXCEPT
                                    ![1] = Append(@, Current(lists, done, k + 1).value)]
      BY <1>2, <1>5, <1>7, <1>8, <1>10, <1>13
    <2>2. k \in 0 .. Len(arraySizes)
      BY <1>5, <1>7
    <2>3. \E lists2, done2 :
            /\ lists2 \in Seq(Seq(pieces)) /\ done2 \in Seq(Nat)
            /\ Opened(roots, lists2, done2, m, arraySizes', arrayValues')
            /\ lists2[1] = lists[k + 1] /\ done2[1] = done[k + 1] + 1
            /\ Len(lists2) = Len(arraySizes) - k + 1
            /\ k < Len(arraySizes) => done[k + 1] + 1 < Len(lists[k + 1])
      <3> HIDE DEF x, l, c
      <3>1. Opened(roots, lists, done, n, arraySizes, arrayValues)
        BY <1>1, <1>2
      <3>2. lists \in Seq(Seq(pieces)) /\ done \in Seq(Nat) /\ done[1] < Len(lists[1])
        BY <1>1
      <3>3. /\ k < Len(arraySizes) => m = n
            /\ k = Len(arraySizes) => m = n + 1
        BY <1>2, <2>1
      <3>4. k < Len(arraySizes) => arraySizes[k + 1] # 1
        BY <2>1
      <3>5. k = Len(arraySizes) => arraySizes' = <<>> /\ arrayValues' = <<>>
        BY <2>1
      <3>6. k < Len(arraySizes) =>
              /\ arraySizes' = [Rest(arraySizes, k) EXCEPT ![1] = @ - 1]
              /\ arrayValues' = [Rest(arrayValues, k) EXCEPT
                                   ![1] = Append(@, Current(lists, done, k + 1).value)]
        BY <2>1
      <3>8. Closes(lists, done, n, arraySizes, arrayValues, k, m, arraySizes', arrayValues')
        BY <3>3, <3>4, <3>5, <3>6 DEF Closes
      <3>7. OpensAfter(pieces, roots, lists, done, k, m, arraySizes, arraySizes', arrayValues')
        BY <1>3, <1>4, <2>2, <3>1, <3>2, <3>8, OpenedAfter
      <3> QED
        BY <3>7 DEF OpensAfter
    <2> QED
      BY <1>5, <2>3
  <1>15. x.to \in Nat
    <2>1. 1 \in 1 .. d + 1
      OBVIOUS
    <2>2. x \in pieces
      BY <1>1, <1>5, <2>1, OpenHas
    <2> QED
      BY <2>2, InStream DEF Spelled
  <1>16. l[c + 1].to = x.to
    BY <1>10 DEF Current
  <1>17. Placed(b, lists2, done2, "Start", x.to, buf', bulkSize')
    <2>1. CASE c + 1 = Len(l)
      <3>1. k = d
        BY <1>7, <1>11, <1>14, <2>1
      <3>2. l = roots /\ Follow(roots, 0, Len(b))
        BY <1>12, <3>1, InStream
      <3>3. roots # <<>>
        BY <1>12
      <3>4. roots[Len(roots)].to = Len(b)
        BY <3>2, <3>3 DEF Follow
      <3>5. x.to = Len(b)
        BY <1>16, <2>1, <3>2, <3>4
      <3>6. Len(lists2) = 1
        BY <1>14, <3>1
      <3> QED
        BY <1>14, <2>1, <3>5, <3>6 DEF Placed
    <2>2. CASE c + 1 < Len(l)
      <3>1. c + 1 \in 1 .. Len(l) - 1
        BY <1>11, <2>2
      <3>2. l[c + 1].to = l[c + 1 + 1].from
        <4>1. \A i \in 1 .. Len(l) - 1 : l[i].to = l[i + 1].from
          <5>1. Len(arraySizes) \in Nat /\ k + 1 \in 1 .. Len(arraySizes) + 1
            BY <1>5, <1>11
          <5>2. \A i \in 1 .. Len(lists[k + 1]) - 1 :
                  lists[k + 1][i].to = lists[k + 1][i + 1].from
            <6> HIDE DEF x, l, c
            <6>1. PICK i : i = k + 1
              OBVIOUS
            <6>2. Opened(roots, lists, done, Len(delivered), arraySizes, arrayValues)
              BY <1>1
            <6>3. Len(arraySizes) \in Nat /\ i \in 1 .. Len(arraySizes) + 1
              BY <5>1, <6>1
            <6>4. \A j \in 1 .. Len(lists[i]) - 1 : lists[i][j].to = lists[i][j + 1].from
              BY <6>2, <6>3, OpenFollow
            <6> QED
              BY <6>1, <6>4
          <5> QED
            BY <5>2
        <4> QED
          BY <3>1, <4>1
      <3>3. Current(lists2, done2, 1) = l[c + 1 + 1]
        BY <1>14 DEF Current
      <3>4. Reading(b, Current(lists2, done2, 1), "Start", x.to, buf', bulkSize')
        BY <1>16, <3>2, <3>3 DEF Reading
      <3>5. c + 1 # Len(l)
        BY <1>11, <2>2
      <3> QED
        BY <1>14, <2>2, <3>4, <3>5 DEF Placed
    <2>3. c + 1 = Len(l) \/ c + 1 < Len(l)
      BY <1>11
    <2> QED
      BY <2>1, <2>2, <2>3
  <1>18. Delivering(roots)'
    <2>1. m <= Len(roots) /\ Len(delivered) \in Nat
      BY <1>2, <1>12 DEF m
    <2>2. k = d => redisValue' = ValuesOf(roots)[m]
      <3> SUFFICES ASSUME k = d PROVE redisValue' = ValuesOf(roots)[m]
        OBVIOUS
      <3>1. redisValue' = roots[n + 1].value
        BY <1>10, <1>12 DEF Current
      <3>2. n + 1 \in 1 .. Len(roots)
        BY <1>12
      <3> QED
        BY <1>13, <3>1, <3>2 DEF ValuesOf
    <2>3. delivered' = SubSeq(ValuesOf(roots), 1, Len(delivered'))
      BY <1>1
    <2>4. Len(delivered') \in Nat
      BY <1>1
    <2> QED
      BY <1>9, <2>1, <2>2, <2>3, <2>4 DEF Delivering
  <1>19. result' # "Error" /\ pc' # "stopped" /\ pc' # "read"
    BY <1>1, <1>8
  <1>20. Follows(b, pieces, roots, lists2, done2, x.to)'
    <2>1. PICK q \in Nat : q = x.to
      BY <1>15
    <2>2. Follows(b, pieces, roots, lists2, done2, q)'
      BY <1>9, <1>14, <1>17, <1>18, <1>19, <2>1 DEF Follows
    <2> QED
      BY <2>1, <2>2
  <1> QED
    BY <1>20 DEF Somewhere

-----------------------------------------------------------------------------
(* The steps of the calls.                                                  *)

LEMMA ReadBlockFollows ==
  ASSUME NEW b, NEW pieces, NEW roots, NEW lists, NEW done, NEW p,
         Encoding(b, sent, pieces, roots), Follows(b, pieces, roots, lists, done, p),
         IInv, NEW n \in 1 .. Len(input), ReadBlock(n)
  PROVE  Somewhere(b, pieces, roots)'
PROOF
  <1>1. /\ pc = "read" /\ pc' = "call" /\ states' = states /\ state' = state
        /\ buf' = buf /\ bulkSize' = bulkSize /\ arraySizes' = arraySizes
        /\ arrayValues' = arrayValues /\ redisValue' = redisValue /\ result' = result
        /\ delivered' = delivered
        /\ block' = SubSeq(input, 1, n) /\ input' = Rest(input, n)
    BY DEF ReadBlock, members
  <1>2. b \in Seq(Byte) /\ input \in Seq(Byte)
    BY InStream DEF IInv, TypeOK
  <1>3. block = <<>> /\ p \in Nat /\ Ahead(b, block, input, p)
    BY <1>1 DEF Follows
  <1>4. Ahead(b, block', input', p)
    BY <1>1, <1>2, <1>3, AheadRead
  <1>5. Now' = Now /\ Whole' = Whole /\ ~ Returned'
    BY <1>1 DEF Now, Whole, Returned
  <1>6. Delivering(roots)'
    BY <1>1, <1>5 DEF Follows, Delivering
  <1>7. Follows(b, pieces, roots, lists, done, p)'
    BY <1>1, <1>4, <1>5, <1>6 DEF Follows
  <1> QED
    BY <1>7 DEF Somewhere

LEMMA ParseFollows ==
  ASSUME NEW b, NEW pieces, NEW roots, NEW lists, NEW done, NEW p,
         Follows(b, pieces, roots, lists, done, p), Parse
  PROVE  Somewhere(b, pieces, roots)'
PROOF
  <1>1. /\ pc = "call" /\ pc' = "loop"
        /\ state' = IF states = <<>> THEN "Start" ELSE Head(states)
        /\ buf' = buf /\ bulkSize' = bulkSize /\ arraySizes' = arraySizes
        /\ arrayValues' = arrayValues /\ redisValue' = redisValue /\ result' = result
        /\ delivered' = delivered /\ block' = block /\ input' = input
    BY DEF Parse
  <1>2. Now' = Now /\ Whole' = Whole /\ ~ Returned'
    BY <1>1 DEF Now, Whole, Returned
  <1>3. Delivering(roots)'
    BY <1>1, <1>2 DEF Follows, Delivering
  <1>4. Follows(b, pieces, roots, lists, done, p)'
    BY <1>1, <1>2, <1>3 DEF Follows
  <1> QED
    BY <1>4 DEF Somewhere

LEMMA EndOfBlockFollows ==
  ASSUME NEW b, NEW pieces, NEW roots, NEW lists, NEW done, NEW p,
         Follows(b, pieces, roots, lists, done, p), IInv, EndOfBlock
  PROVE  Somewhere(b, pieces, roots)'
PROOF
  <1>1. /\ pc = "loop" /\ pc' = "return" /\ states' = <<state>> \o states
        /\ state' = state /\ result' = "Incompleted"
        /\ buf' = buf /\ bulkSize' = bulkSize /\ arraySizes' = arraySizes
        /\ arrayValues' = arrayValues /\ redisValue' = redisValue
        /\ delivered' = delivered /\ block' = block /\ input' = input
    BY DEF EndOfBlock
  <1>2. states' # <<>> /\ Head(states') = state
    <2>1. states \in Seq(States) /\ state \in States
      BY DEF IInv, TypeOK
    <2> QED
      BY <1>1, <2>1, Pushed
  <1>3. Now' = Now /\ Whole' = Whole /\ ~ Returned'
    BY <1>1, <1>2 DEF Now, Whole, Returned
  <1>4. Delivering(roots)'
    BY <1>1, <1>3 DEF Follows, Delivering
  <1>5. Follows(b, pieces, roots, lists, done, p)'
    BY <1>1, <1>3, <1>4 DEF Follows
  <1> QED
    BY <1>5 DEF Somewhere

(* One more value of a sequence.                                            *)
LEMMA OneMore ==
  ASSUME NEW S, NEW s \in Seq(S), NEW n \in Nat, n + 1 <= Len(s)
  PROVE  /\ Append(SubSeq(s, 1, n), s[n + 1]) = SubSeq(s, 1, n + 1)
         /\ Len(SubSeq(s, 1, n + 1)) = n + 1
PROOF
  <1> DEFINE f == SubSeq(s, 1, n)
             g == SubSeq(s, 1, n + 1)
             c == s[n + 1]
  <1>1. /\ f \in Seq(S) /\ Len(f) = n /\ \A i \in 1 .. n : f[i] = s[i]
        /\ g \in Seq(S) /\ Len(g) = n + 1 /\ \A i \in 1 .. n + 1 : g[i] = s[i]
        /\ c \in S
    OBVIOUS
  <1> HIDE DEF f, g
  <1>2. /\ Append(f, c) \in Seq(S) /\ Len(Append(f, c)) = n + 1
        /\ \A i \in 1 .. n : Append(f, c)[i] = f[i]
        /\ Append(f, c)[n + 1] = c
    <2> HIDE DEF c
    <2> QED
      BY <1>1, AppendProperties
  <1>3. ASSUME NEW i \in 1 .. n + 1 PROVE Append(f, c)[i] = g[i]
    <2>1. CASE i = n + 1
      BY <1>1, <1>2, <2>1
    <2>2. CASE i \in 1 .. n
      BY <1>1, <1>2, <2>2
    <2>3. i = n + 1 \/ i \in 1 .. n
      OBVIOUS
    <2> QED
      BY <2>1, <2>2, <2>3
  <1>4. Append(f, c) = g
    BY <1>1, <1>2, <1>3, SeqEqual
  <1> QED
    BY <1>1, <1>4 DEF f, g

LEMMA ReturnFollows ==
  ASSUME NEW b, NEW pieces, NEW roots, NEW lists, NEW done, NEW p,
         Encoding(b, sent, pieces, roots), Follows(b, pieces, roots, lists, done, p),
         IInv, Return
  PROVE  Somewhere(b, pieces, roots)'
PROOF
  <1>1. /\ pc = "return" /\ states' = states
        /\ buf' = buf /\ bulkSize' = bulkSize /\ arraySizes' = arraySizes
        /\ arrayValues' = arrayValues /\ result' = result
        /\ block' = block /\ input' = input
        /\ delivered' = IF result = "Completed" THEN Append(delivered, redisValue)
                        ELSE delivered
    BY DEF Return, members
  <1>2. result # "Error"
    BY DEF Follows
  <1>3. pc' = IF result # "Incompleted" /\ block # <<>> THEN "call" ELSE "read"
    BY <1>2 DEF Return
  <1>4. pc' = "read" => block' = <<>>
    BY <1>1, <1>3 DEF IInv, NothingSkipped
  <1>5. Now' = Now /\ ~ Returned' /\ pc' # "stopped"
    BY <1>1, <1>3 DEF Now, Returned
  <1> DEFINE values == ValuesOf(roots)
             S == {roots[i].value : i \in 1 .. Len(roots)}
  <1>6. values \in Seq(S) /\ Len(values) = Len(roots) /\ Len(roots) \in Nat
    <2>1. Len(roots) \in Nat
      BY InStream
    <2>2. \A i \in 1 .. Len(roots) : roots[i].value \in S
      BY SMTT(30)
    <2> HIDE DEF S
    <2> QED
      BY <2>1, <2>2 DEF ValuesOf
  <1>7. PICK n \in Nat : n = Len(delivered)
    BY DEF Follows, Delivering
  <1>8. delivered = SubSeq(values, 1, n) /\ Whole <= Len(roots)
        /\ (Returned => redisValue = values[Whole])
    BY <1>7 DEF Follows, Delivering
  <1> HIDE DEF values, S
  <1>9. Len(delivered') = Whole /\ Whole \in Nat /\ delivered' = SubSeq(values, 1, Whole)
    <2>1. CASE Returned
      <3>1. Whole = n + 1 /\ delivered' = Append(SubSeq(values, 1, n), values[n + 1])
        BY <1>1, <1>7, <1>8, <2>1 DEF Whole, Returned
      <3>2. n + 1 <= Len(values)
        BY <1>6, <1>8, <3>1
      <3>3. delivered' = SubSeq(values, 1, n + 1) /\ Len(delivered') = n + 1
        BY <1>6, <3>1, <3>2, OneMore
      <3> QED
        BY <3>1, <3>3
    <2>2. CASE ~ Returned
      <3>1. Whole = n /\ delivered' = delivered
        BY <1>1, <1>7, <2>2 DEF Whole, Returned
      <3> QED
        BY <1>7, <1>8, <3>1
    <2> QED
      BY <2>1, <2>2
  <1>10. Whole' = Whole
    BY <1>5, <1>9 DEF Whole
  <1>11. Delivering(roots)'
    BY <1>5, <1>8, <1>9, <1>10 DEF Delivering, values
  <1>12. Follows(b, pieces, roots, lists, done, p)'
    BY <1>1, <1>2, <1>4, <1>5, <1>10, <1>11 DEF Follows
  <1> QED
    BY <1>12 DEF Somewhere

-----------------------------------------------------------------------------
(* The turns of the loop.                                                   *)

LEMMA NextAhead ==
  ASSUME NEW b \in Seq(Byte), NEW p \in Nat, TypeOK, Ahead(b, block, input, p),
         NEW n \in 0 .. Len(block), Consume(n)
  PROVE  /\ Ahead(b, block', input', p + n)
         /\ \A j \in 1 .. n : block[j] = b[p + j]
         /\ delivered' = delivered
PROOF
  <1>1. block \in Seq(Byte) /\ input \in Seq(Byte)
    BY DEF TypeOK
  <1>2. block' = Rest(block, n) /\ input' = input /\ delivered' = delivered
    BY DEF Consume
  <1> QED
    BY <1>1, <1>2, AheadRest

(* The place of the list the parser is in.                                  *)
LEMMA InList ==
  ASSUME NEW b, NEW pieces, NEW roots, NEW lists, NEW done, NEW p,
         Follows(b, pieces, roots, lists, done, p)
  PROVE  lists[1] \in Seq(pieces) /\ done[1] \in Nat
PROOF
  <1>1. lists \in Seq(Seq(pieces)) /\ done \in Seq(Nat)
        /\ Opened(roots, lists, done, Whole, arraySizes, arrayValues)
    BY DEF Follows
  <1>2. Len(arraySizes) \in Nat
    OBVIOUS
  <1>3. 1 \in 1 .. Len(lists) /\ 1 \in 1 .. Len(done)
    BY <1>1, <1>2 DEF Opened
  <1> QED
    BY <1>1, <1>3, ElementOfSeq

LEMMA BeginFollows ==
  ASSUME NEW b, NEW pieces, NEW roots, NEW lists, NEW done, NEW p,
         Encoding(b, sent, pieces, roots), Follows(b, pieces, roots, lists, done, p),
         IInv, Begin
  PROVE  Somewhere(b, pieces, roots)'
PROOF
  <1> DEFINE x == Current(lists, done, 1)
  <1>1. TypeOK /\ Turn({"Start", "StartArray"}) /\ Consume(1) /\ buf' = <<>>
    BY DEF Begin, IInv
  <1>2. /\ done[1] < Len(lists[1]) /\ Spelled(b, x)
        /\ Reading(b, x, state, p, buf, bulkSize)
        /\ b \in Seq(Byte) /\ p \in Nat /\ Ahead(b, block, input, p)
        /\ Head(block) = b[p + 1] /\ pc = "loop" /\ state \in {"Start", "StartArray"}
    BY <1>1, TurnReads
  <1> HIDE DEF x
  <1>3. p = x.from
    BY <1>2, AtItsBegin
  <1>4. Head(block) = x.sign /\ x.sign \in Signs /\ x.line \in Seq(Byte)
    BY <1>2, <1>3, SignFits DEF Spelled
  <1>5. Goto(FirstByte[x.sign])
    BY <1>4, SignStates DEF Begin
  <1>6. Ahead(b, block', input', p + 1) /\ delivered' = delivered
    BY <1>1, <1>2, TurnHas, NextAhead
  <1>7. Reading(b, x, FirstByte[x.sign], p + 1, buf', bulkSize')
    <2>1. Len(buf') = 0 /\ buf' = SubSeq(x.line, 1, 0) /\ Len(x.line) >= 0
      BY <1>1, <1>4
    <2>2. p + 1 = x.from + 1 + 0
      BY <1>2, <1>3
    <2> QED
      BY <2>1, <2>2 DEF Reading
  <1>8. Follows(b, pieces, roots, lists, done, p + 1)'
    <2>1. p + 1 \in Nat
      BY <1>2
    <2> QED
      BY <1>2, <1>5, <1>6, <1>7, <2>1, InList, GotoFollows DEF x
  <1> QED
    BY <1>8 DEF Somewhere

(* A byte within a line or after it, as InLine and InNumber take it.        *)
LEMMA LineFollows ==
  ASSUME NEW b, NEW pieces, NEW roots, NEW lists, NEW done, NEW p,
         Encoding(b, sent, pieces, roots), Follows(b, pieces, roots, lists, done, p),
         IInv, NEW from, from \subseteq Lines \cup Numbers, Turn(from), Consume(1),
         NEW good, state \in Lines => good = Text, state \in Numbers => good = Digits \cup {"-"},
         Head(block) = "CR" /\ (state \in Lines \/ buf # <<>>) =>
           Goto(AfterCR[state]) /\ buf' = buf,
         Head(block) \in good =>
           Goto(state) /\ buf' = Append(buf, Head(block))
  PROVE  Somewhere(b, pieces, roots)'
PROOF
  <1> DEFINE x == Current(lists, done, 1)
  <1>1. TypeOK
    BY DEF IInv
  <1>2. /\ done[1] < Len(lists[1]) /\ Spelled(b, x)
        /\ Reading(b, x, state, p, buf, bulkSize)
        /\ b \in Seq(Byte) /\ p \in Nat /\ Ahead(b, block, input, p)
        /\ Len(buf) \in Nat
        /\ Head(block) = b[p + 1] /\ pc = "loop" /\ state \in Lines \cup Numbers
    BY <1>1, TurnReads
  <1> HIDE DEF x
  <1>3. /\ state = FirstByte[x.sign] /\ Len(buf) <= Len(x.line)
        /\ buf = SubSeq(x.line, 1, Len(buf)) /\ p = x.from + 1 + Len(buf)
    BY <1>2, InsideLine
  <1>4. Ahead(b, block', input', p + 1) /\ delivered' = delivered
    BY <1>1, <1>2, TurnHas, NextAhead
  <1>5. /\ Len(buf) < Len(x.line) =>
             /\ Head(block) = x.line[Len(buf) + 1]
             /\ Append(buf, Head(block)) = SubSeq(x.line, 1, Len(buf) + 1)
             /\ Len(Append(buf, Head(block))) = Len(buf) + 1
        /\ Len(buf) = Len(x.line) => buf = x.line /\ Head(block) = "CR"
    BY <1>2, <1>3, NextOfLine, SMTT(30)
  <1>6. PICK n \in Nat : n = Len(buf)
    BY <1>2
  <1>7. PICK len \in Nat : len = Len(x.line)
    BY <1>2 DEF Spelled
  <1>8. p \in Nat /\ p + 1 \in Nat /\ x.from \in Nat
    BY <1>2 DEF Spelled
  <1>9. lists[1] \in Seq(pieces) /\ done[1] \in Nat
    BY InList
  <1>10. \E q \in Nat : Follows(b, pieces, roots, lists, done, q)'
    <2>1. CASE n < len
      <3>1. Head(block) \in good
        <4>1. x.line[n + 1] \in good
          <5>1. n + 1 \in 1 .. len
            BY <2>1
          <5>2. x.line \in Seq(good)
            BY <1>2, <1>3, LineText
          <5> QED
            BY <1>7, <5>1, <5>2, ElementOfSeq
        <4> QED
          BY <1>5, <1>6, <1>7, <2>1, <4>1
      <3>2. Goto(state) /\ buf' = Append(buf, Head(block))
        BY <3>1
      <3>3. /\ Len(buf') = n + 1 /\ Len(buf') <= Len(x.line)
            /\ buf' = SubSeq(x.line, 1, Len(buf'))
        BY <1>5, <1>6, <1>7, <2>1, <3>2
      <3>4. p + 1 = x.from + 1 + Len(buf')
        <4>1. PICK f \in Nat : f = x.from
          BY <1>8
        <4>2. p = f + 1 + n
          BY <1>3, <1>6, <4>1
        <4>3. p + 1 = f + 1 + (n + 1)
          BY <4>2
        <4> QED
          BY <3>3, <4>1, <4>3
      <3>5. Reading(b, x, state, p + 1, buf', bulkSize')
        BY <1>3, <3>3, <3>4 DEF Reading
      <3>6. Follows(b, pieces, roots, lists, done, p + 1)'
        BY <1>2, <1>4, <1>8, <1>9, <3>2, <3>5, GotoFollows DEF x
      <3> QED
        BY <1>8, <3>6
    <2>2. CASE n = len
      <3>1. buf = x.line /\ Goto(AfterCR[state]) /\ buf' = x.line
        <4>1. state \in Lines \/ x.line # <<>>
          BY <1>2, <1>3, LineText
        <4> QED
          BY <1>5, <1>6, <1>7, <2>2, <4>1
      <3>2. p + 1 = x.from + 1 + Len(x.line) + 1
        BY <1>3, <1>6, <1>7, <1>8, <2>2
      <3>3. Reading(b, x, AfterCR[state], p + 1, buf', bulkSize')
        BY <1>3, <3>1, <3>2 DEF Reading
      <3>4. Follows(b, pieces, roots, lists, done, p + 1)'
        BY <1>2, <1>4, <1>8, <1>9, <3>1, <3>3, GotoFollows DEF x
      <3> QED
        BY <1>8, <3>4
    <2>3. n < len \/ n = len
      BY <1>3, <1>6, <1>7
    <2> QED
      BY <2>1, <2>2, <2>3
  <1> QED
    BY <1>10 DEF Somewhere

LEMMA InLineFollows ==
  ASSUME NEW b, NEW pieces, NEW roots, NEW lists, NEW done, NEW p,
         Encoding(b, sent, pieces, roots), Follows(b, pieces, roots, lists, done, p),
         IInv, InLine
  PROVE  Somewhere(b, pieces, roots)'
PROOF
  <1>1. Turn(Lines) /\ Consume(1)
    BY DEF InLine
  <1>2. state \in Lines /\ state \notin Numbers
    BY <1>1 DEF Turn, Lines, Numbers
  <1>3. "CR" \notin Text
    BY DEF Text, Digits
  <1>4. /\ Head(block) = "CR" => Goto(AfterCR[state]) /\ buf' = buf
        /\ Head(block) \in Text => Goto(state) /\ buf' = Append(buf, Head(block))
    BY <1>3 DEF InLine
  <1>5. Lines \subseteq Lines \cup Numbers
    OBVIOUS
  <1> QED
    BY <1>1, <1>2, <1>4, <1>5, LineFollows

LEMMA InNumberFollows ==
  ASSUME NEW b, NEW pieces, NEW roots, NEW lists, NEW done, NEW p,
         Encoding(b, sent, pieces, roots), Follows(b, pieces, roots, lists, done, p),
         IInv, InNumber
  PROVE  Somewhere(b, pieces, roots)'
PROOF
  <1>1. Turn(Numbers) /\ Consume(1)
    BY DEF InNumber
  <1>2. state \in Numbers /\ state \notin Lines
    BY <1>1 DEF Turn, Lines, Numbers
  <1> DEFINE good == Digits \cup {"-"}
  <1>3. "CR" \notin good
    BY DEF Digits
  <1>4. /\ Head(block) = "CR" /\ buf # <<>> => Goto(AfterCR[state]) /\ buf' = buf
        /\ Head(block) \in good => Goto(state) /\ buf' = Append(buf, Head(block))
    BY <1>3 DEF InNumber
  <1>5. Numbers \subseteq Lines \cup Numbers
    OBVIOUS
  <1> QED
    BY <1>1, <1>2, <1>4, <1>5, LineFollows

(* The line feed after a line.                                              *)
LEMMA AfterLineIs ==
  ASSUME NEW b, NEW pieces, NEW roots, NEW lists, NEW done, NEW p,
         Encoding(b, sent, pieces, roots), Follows(b, pieces, roots, lists, done, p),
         TypeOK, NEW from, from \subseteq LineEnds, Turn(from), NEW x,
         x = Current(lists, done, 1)
  PROVE  /\ Spelled(b, x) /\ done[1] < Len(lists[1])
         /\ state = AfterCR[FirstByte[x.sign]] /\ x.sign \in Signs
         /\ buf = x.line /\ Head(block) = "LF" /\ p + 1 = AfterLine(x)
         /\ b \in Seq(Byte) /\ p \in Nat /\ Ahead(b, block, input, p) /\ pc = "loop"
         /\ Len(block) \in Nat \ {0}
PROOF
  <1>1. /\ done[1] < Len(lists[1]) /\ Spelled(b, x)
        /\ Reading(b, x, state, p, buf, bulkSize)
        /\ b \in Seq(Byte) /\ p \in Nat /\ Ahead(b, block, input, p)
        /\ Head(block) = b[p + 1] /\ pc = "loop" /\ state \in LineEnds
    BY TurnReads
  <1>2. /\ state = AfterCR[FirstByte[x.sign]]
        /\ buf = x.line /\ p = x.from + 1 + Len(x.line) + 1
    BY <1>1, AfterCROfLine
  <1>3. PICK f \in Nat : f = x.from
    BY <1>1 DEF Spelled
  <1>4. PICK len \in Nat : len = Len(x.line)
    BY <1>1 DEF Spelled
  <1>5. p = f + 1 + len + 1
    BY <1>2, <1>3, <1>4
  <1>6. b[(f + 1 + len) + 2] = "LF"
    BY <1>1, <1>3, <1>4 DEF Spelled, LineEnd
  <1>7. p + 1 = (f + 1 + len) + 2
    BY <1>5
  <1>8. Head(block) = "LF" /\ p + 1 = AfterLine(x)
    BY <1>1, <1>3, <1>4, <1>6, <1>7 DEF AfterLine
  <1> QED
    BY <1>1, <1>2, <1>8, SignFits, TurnHas

LEMMA EndLineFollows ==
  ASSUME NEW b, NEW pieces, NEW roots, NEW lists, NEW done, NEW p,
         Encoding(b, sent, pieces, roots), Follows(b, pieces, roots, lists, done, p),
         IInv, EndLine
  PROVE  Somewhere(b, pieces, roots)'
PROOF
  <1> DEFINE x == Current(lists, done, 1)
  <1>1. TypeOK /\ Turn({"StringLF", "ErrorLF", "IntegerLF"}) /\ Consume(1)
    BY DEF EndLine, IInv
  <1>2. /\ Spelled(b, x) /\ done[1] < Len(lists[1])
        /\ state = AfterCR[FirstByte[x.sign]] /\ x.sign \in Signs
        /\ buf = x.line /\ Head(block) = "LF" /\ p + 1 = AfterLine(x)
        /\ b \in Seq(Byte) /\ p \in Nat /\ Ahead(b, block, input, p) /\ pc = "loop"
    BY <1>1, AfterLineIs DEF LineEnds
  <1> HIDE DEF x
  <1>3. Ahead(b, block', input', p + 1) /\ delivered' = delivered
    BY <1>1, <1>2, TurnHas, NextAhead
  <1>4. Complete(CASE state = "StringLF"  -> String(buf)
                   [] state = "ErrorLF"   -> Error(buf)
                   [] state = "IntegerLF" -> Number(BufToLong(buf)))
    BY <1>2 DEF EndLine
  <1>5. x.sign \in {"+", "-", ":"}
    BY <1>1, <1>2, SignStates DEF Turn, Signs
  <1>6. /\ SimpleString(x) \/ SimpleError(x) \/ WholeNumber(x)
        /\ x.to = AfterLine(x)
    BY <1>2, <1>5 DEF Spelled, NilValue, BulkString, ArrayOf
  <1>7. Complete(x.value)
    <2>1. CASE SimpleString(x)
      <3>1. state = "StringLF" /\ x.value = String(buf)
        BY <1>2, <2>1, SignStates DEF SimpleString
      <3> QED
        BY <1>4, <3>1
    <2>2. CASE SimpleError(x)
      <3>1. state = "ErrorLF" /\ x.value = Error(buf)
        BY <1>2, <2>2, SignStates DEF SimpleError
      <3> QED
        BY <1>4, <3>1
    <2>3. CASE WholeNumber(x)
      <3>1. state = "IntegerLF" /\ x.value = Number(x.value.num)
        BY <1>2, <2>3, SignStates DEF WholeNumber
      <3>2. BufToLong(buf) = x.value.num
        BY <1>2, <2>3, DecimalRead DEF WholeNumber
      <3>3. x.value = Number(BufToLong(buf))
        BY <3>1, <3>2
      <3> QED
        BY <1>4, <3>1, <3>3
    <2> QED
      BY <1>6, <2>1, <2>2, <2>3
  <1>8. Ahead(b, block', input', x.to)
    BY <1>2, <1>3, <1>6
  <1> QED
    BY <1>2, <1>3, <1>7, <1>8, CompleteFollows DEF x

-----------------------------------------------------------------------------
(* The bytes of a string.                                                   *)

LEMMA Joined ==
  ASSUME NEW S, NEW s \in Seq(S), NEW t \in Seq(S)
  PROVE  /\ s \o t \in Seq(S) /\ Len(s \o t) = Len(s) + Len(t)
         /\ \A i \in 1 .. Len(s) : (s \o t)[i] = s[i]
         /\ \A i \in 1 .. Len(t) : (s \o t)[Len(s) + i] = t[i]
PROOF
  OBVIOUS

(* What begins a string, and what begins it with more of its bytes.         *)
Begins(bf, str) == Len(bf) <= Len(str) /\ bf = SubSeq(str, 1, Len(bf))

LEMMA BeginsIs ==
  ASSUME NEW str \in Seq(Byte), NEW bf \in Seq(Byte)
  PROVE  Begins(bf, str) <=> /\ Len(bf) <= Len(str)
                             /\ \A i \in 1 .. Len(bf) : bf[i] = str[i]
PROOF
  <1>1. ASSUME Len(bf) <= Len(str), bf = SubSeq(str, 1, Len(bf)), NEW i \in 1 .. Len(bf)
        PROVE  bf[i] = str[i]
    <2>1. SubSeq(str, 1, Len(bf))[i] = str[i]
      BY <1>1
    <2> QED
      BY <1>1, <2>1
  <1>2. ASSUME Len(bf) <= Len(str), \A i \in 1 .. Len(bf) : bf[i] = str[i]
        PROVE  bf = SubSeq(str, 1, Len(bf))
    <2> DEFINE f == SubSeq(str, 1, Len(bf))
    <2>1. f \in Seq(Byte) /\ Len(f) = Len(bf) /\ \A i \in 1 .. Len(bf) : f[i] = str[i]
      BY <1>2
    <2> HIDE DEF f
    <2>2. bf = f
      BY <1>2, <2>1, SeqEqual
    <2> QED
      BY <2>2 DEF f
  <1> QED
    BY <1>1, <1>2 DEF Begins

LEMMA TakesMore ==
  ASSUME NEW b, NEW a \in Nat, NEW str \in Seq(Byte), Stands(b, a, str),
         NEW bf \in Seq(Byte), Begins(bf, str),
         NEW more \in Seq(Byte), Len(bf) + Len(more) <= Len(str),
         NEW p \in Nat, p = a + Len(bf), Stands(b, p, more)
  PROVE  Begins(bf \o more, str)
PROOF
  <1> DEFINE f == bf \o more
             n == Len(bf)
             t == Len(more)
  <1>1. /\ f \in Seq(Byte) /\ Len(f) = n + t
        /\ \A i \in 1 .. n : f[i] = bf[i]
        /\ \A i \in 1 .. t : f[n + i] = more[i]
    BY Joined
  <1>2. n \in Nat /\ t \in Nat /\ Len(str) \in Nat /\ n + t <= Len(str) /\ p = a + n
    OBVIOUS
  <1> HIDE DEF f
  <1>3. ASSUME NEW i \in 1 .. n + t PROVE f[i] = str[i]
    <2>1. CASE i \in 1 .. n
      <3>1. bf[i] = str[i]
        BY <2>1, BeginsIs
      <3> QED
        BY <1>1, <2>1, <3>1
    <2>2. CASE i \notin 1 .. n
      <3> HIDE DEF n, t
      <3>1. i - n \in 1 .. t /\ n + (i - n) = i /\ p + (i - n) = a + i /\ i \in 1 .. Len(str)
        BY <1>2, <2>2, SMTT(30)
      <3>2. f[n + (i - n)] = more[i - n]
        BY <1>1, <3>1
      <3>3. more[i - n] = b[p + (i - n)]
        BY <3>1 DEF Stands, t
      <3>4. b[a + i] = str[i]
        BY <3>1 DEF Stands
      <3> QED
        BY <3>1, <3>2, <3>3, <3>4
    <2> QED
      BY <2>1, <2>2
  <1>4. Len(f) <= Len(str) /\ \A i \in 1 .. Len(f) : f[i] = str[i]
    <2> HIDE DEF n, t
    <2> QED
      BY <1>1, <1>2, <1>3
  <1>5. Begins(f, str)
    BY <1>1, <1>4, BeginsIs
  <1> QED
    BY <1>5 DEF f

(* More of a string has been taken: the parser is in it or at its end.      *)
LEMMA BulkTaken ==
  ASSUME NEW b, NEW pieces, NEW roots, NEW lists, NEW done, NEW p,
         Follows(b, pieces, roots, lists, done, p),
         done[1] < Len(lists[1]), pc = "loop", delivered' = delivered,
         NEW x, x = Current(lists, done, 1), Spelled(b, x), BulkString(b, x),
         NEW str \in Seq(Byte), str = x.value.str,
         NEW bf \in Seq(Byte), Begins(bf, str),
         NEW left \in Nat, Len(bf) + left = Len(str),
         buf' = bf, bulkSize' = left,
         Goto(IF left > 0 THEN "Bulk" ELSE "BulkCR"),
         NEW q, q = AfterLine(x) + Len(bf), Ahead(b, block', input', q)
  PROVE  Somewhere(b, pieces, roots)'
PROOF
  <1>1. q \in Nat
    <2>1. x.from \in Nat /\ Len(x.line) \in Nat /\ Len(bf) \in Nat
      BY DEF Spelled
    <2> QED
      BY <2>1, SMTT(30) DEF AfterLine
  <1>2. lists[1] \in Seq(pieces) /\ done[1] \in Nat
    BY InList
  <1>3. Reading(b, x, IF left > 0 THEN "Bulk" ELSE "BulkCR", q, bf, left)
    <2>1. CASE left > 0
      BY <2>1 DEF Reading, Begins
    <2>2. CASE left = 0
      <3>1. Len(bf) = Len(str)
        BY <2>2
      <3>2. bf = str
        BY <3>1, SubSeqFull DEF Begins
      <3> QED
        BY <2>2, <3>2 DEF Reading
    <2> QED
      BY <2>1, <2>2
  <1>4. Follows(b, pieces, roots, lists, done, q)'
    BY <1>1, <1>2, <1>3, GotoFollows
  <1> QED
    BY <1>4 DEF Somewhere

LEMMA InBulkFollows ==
  ASSUME NEW b, NEW pieces, NEW roots, NEW lists, NEW done, NEW p,
         Encoding(b, sent, pieces, roots), Follows(b, pieces, roots, lists, done, p),
         IInv, InBulk
  PROVE  Somewhere(b, pieces, roots)'
PROOF
  <1> DEFINE x == Current(lists, done, 1)
  <1>1. TypeOK /\ Turn({"Bulk"})
    BY DEF InBulk, IInv
  <1>2. /\ Spelled(b, x) /\ done[1] < Len(lists[1])
        /\ Reading(b, x, state, p, buf, bulkSize)
        /\ b \in Seq(Byte) /\ p \in Nat /\ Ahead(b, block, input, p) /\ pc = "loop"
        /\ state = "Bulk" /\ block \in Seq(Byte) /\ Len(buf) \in Nat
    BY <1>1, TurnReads
  <1> HIDE DEF x
  <1>3. /\ BulkString(b, x) /\ bulkSize > 0 /\ Len(buf) + bulkSize = Len(x.value.str)
        /\ buf = SubSeq(x.value.str, 1, Len(buf)) /\ p = AfterLine(x) + Len(buf)
    BY <1>2, InsideBulk
  <1>4. x.value.str \in Seq(Byte) /\ Stands(b, AfterLine(x), x.value.str)
    BY <1>3 DEF BulkString
  <1>5. PICK n \in Nat : n = Len(buf)
    BY <1>2
  <1>6. PICK len \in Nat : len = Len(x.value.str)
    BY <1>4
  <1>7. PICK size \in Int : size = bulkSize
    BY <1>1 DEF TypeOK
  <1>8. PICK a \in Nat : a = AfterLine(x)
    <2>1. x.from \in Nat /\ Len(x.line) \in Nat
      BY <1>2 DEF Spelled
    <2> QED
      BY <2>1 DEF AfterLine
  <1>9. size > 0 /\ n + size = len /\ p = a + n
    BY <1>3, <1>5, <1>6, <1>7, <1>8
  <1>10. PICK h \in Nat : h = Len(block)
    BY <1>2
  <1>11. PICK t : t = Least(h, size)
    OBVIOUS
  <1>12. t \in Nat /\ t <= h /\ t <= size
    BY <1>9, <1>11 DEF Least
  <1>13. /\ Consume(t) /\ buf' = buf \o SubSeq(block, 1, t) /\ bulkSize' = size - t
         /\ Goto(IF t = size THEN "BulkCR" ELSE "Bulk")
    BY <1>7, <1>10, <1>11 DEF InBulk
  <1> DEFINE more == SubSeq(block, 1, t)
  <1>14. more \in Seq(Byte) /\ Len(more) = t /\ \A j \in 1 .. t : more[j] = block[j]
    BY <1>2, <1>10, <1>12
  <1> HIDE DEF more
  <1>15. /\ Ahead(b, block', input', p + t) /\ delivered' = delivered
         /\ \A j \in 1 .. t : block[j] = b[p + j]
    <2>1. t \in 0 .. Len(block)
      BY <1>10, <1>12
    <2> QED
      BY <1>1, <1>2, <1>13, <2>1, NextAhead
  <1>16. PICK str \in Seq(Byte) : str = x.value.str
    BY <1>4
  <1>17. buf \in Seq(Byte) /\ Begins(buf, str)
    <2>1. n <= Len(str)
      BY <1>6, <1>9, <1>16
    <2>2. buf = SubSeq(str, 1, Len(buf))
      BY <1>3, <1>16
    <2> QED
      BY <1>1, <1>5, <2>1, <2>2 DEF TypeOK, Begins
  <1>18. PICK bf \in Seq(Byte) : bf = buf \o more /\ Len(bf) = n + t
    BY <1>5, <1>14, <1>17, Joined
  <1>19. Begins(bf, str)
    <2>1. Stands(b, p, more)
      BY <1>14, <1>15 DEF Stands
    <2>2. Stands(b, a, str)
      BY <1>4, <1>8, <1>16
    <2>3. Len(buf) + Len(more) <= Len(str)
      BY <1>5, <1>6, <1>9, <1>12, <1>14, <1>16
    <2>4. p = a + Len(buf)
      BY <1>5, <1>9
    <2> QED
      BY <1>2, <1>14, <1>17, <1>18, <2>1, <2>2, <2>3, <2>4, TakesMore
  <1>20. PICK left \in Nat : left = size - t
    BY <1>9, <1>12
  <1>21. (n + t) + left = len /\ (left > 0 <=> t # size) /\ a + (n + t) = p + t
    BY <1>9, <1>12, <1>20
  <1>22. buf' = bf /\ bulkSize' = left
         /\ Goto(IF left > 0 THEN "Bulk" ELSE "BulkCR")
    BY <1>13, <1>18, <1>20, <1>21 DEF more
  <1>23. PICK q : q = p + t
    OBVIOUS
  <1>24. Ahead(b, block', input', q) /\ q = AfterLine(x) + Len(bf)
    BY <1>8, <1>15, <1>18, <1>21, <1>23
  <1>25. Len(bf) + left = Len(str)
    BY <1>6, <1>16, <1>18, <1>21
  <1> QED
    BY <1>2, <1>3, <1>15, <1>16, <1>19, <1>22, <1>24, <1>25, BulkTaken DEF x

LEMMA EndBulkFollows ==
  ASSUME NEW b, NEW pieces, NEW roots, NEW lists, NEW done, NEW p,
         Encoding(b, sent, pieces, roots), Follows(b, pieces, roots, lists, done, p),
         IInv, EndBulk
  PROVE  Somewhere(b, pieces, roots)'
PROOF
  <1> DEFINE x == Current(lists, done, 1)
  <1>1. TypeOK /\ Turn({"BulkCR", "BulkLF"}) /\ Consume(1) /\ buf' = buf /\ bulkSize' = bulkSize
    BY DEF EndBulk, IInv
  <1>2. /\ Spelled(b, x) /\ done[1] < Len(lists[1])
        /\ Reading(b, x, state, p, buf, bulkSize)
        /\ b \in Seq(Byte) /\ p \in Nat /\ Ahead(b, block, input, p) /\ pc = "loop"
        /\ state \in {"BulkCR", "BulkLF"} /\ Head(block) = b[p + 1]
    BY <1>1, TurnReads
  <1> HIDE DEF x
  <1>3. /\ BulkString(b, x) /\ buf = x.value.str
        /\ state = "BulkCR" => p = AfterLine(x) + Len(buf)
        /\ state = "BulkLF" => p = AfterLine(x) + Len(buf) + 1
    BY <1>2, InsideBulk
  <1>4. PICK len \in Nat : len = Len(buf)
    BY <1>1 DEF TypeOK
  <1>5. PICK a \in Nat : a = AfterLine(x)
    <2>1. x.from \in Nat /\ Len(x.line) \in Nat
      BY <1>2 DEF Spelled
    <2> QED
      BY <2>1 DEF AfterLine
  <1>6. /\ b[(a + len) + 1] = "CR" /\ b[(a + len) + 2] = "LF" /\ x.to = a + len + 2
        /\ x.value = String(buf)
    BY <1>3, <1>4, <1>5 DEF BulkString, LineEnd
  <1>7. Ahead(b, block', input', p + 1) /\ delivered' = delivered
    BY <1>1, <1>2, TurnHas, NextAhead
  <1>8. CASE state = "BulkCR"
    <2>1. p = a + len
      BY <1>3, <1>4, <1>5, <1>8
    <2>2. Goto("BulkLF")
      BY <1>2, <1>6, <1>8, <2>1 DEF EndBulk
    <2>3. Reading(b, x, "BulkLF", p + 1, buf', bulkSize')
      BY <1>1, <1>3, <1>8 DEF Reading
    <2>4. Follows(b, pieces, roots, lists, done, p + 1)'
      <3>1. p + 1 \in Nat
        BY <1>2
      <3> QED
        BY <1>2, <1>7, <2>2, <2>3, <3>1, InList, GotoFollows DEF x
    <2> QED
      BY <2>4 DEF Somewhere
  <1>9. CASE state = "BulkLF"
    <2>1. p = a + len + 1
      BY <1>3, <1>4, <1>5, <1>9
    <2>2. p + 1 = (a + len) + 2
      BY <2>1
    <2>3. Complete(x.value)
      BY <1>2, <1>6, <1>9, <2>2 DEF EndBulk
    <2>4. Ahead(b, block', input', x.to)
      BY <1>6, <1>7, <2>2
    <2> QED
      BY <1>2, <1>7, <2>3, <2>4, CompleteFollows DEF x
  <1> QED
    BY <1>2, <1>8, <1>9

LEMMA EndBulkSizeFollows ==
  ASSUME NEW b, NEW pieces, NEW roots, NEW lists, NEW done, NEW p,
         Encoding(b, sent, pieces, roots), Follows(b, pieces, roots, lists, done, p),
         IInv, EndBulkSize
  PROVE  Somewhere(b, pieces, roots)'
PROOF
  <1> DEFINE x == Current(lists, done, 1)
  <1>1. TypeOK /\ Turn({"BulkSizeLF"})
    BY DEF EndBulkSize, IInv
  <1>2. /\ Spelled(b, x) /\ done[1] < Len(lists[1])
        /\ state = AfterCR[FirstByte[x.sign]] /\ x.sign \in Signs
        /\ buf = x.line /\ Head(block) = "LF" /\ p + 1 = AfterLine(x)
        /\ b \in Seq(Byte) /\ p \in Nat /\ Ahead(b, block, input, p) /\ pc = "loop"
        /\ Len(block) \in Nat \ {0}
    BY <1>1, AfterLineIs DEF LineEnds
  <1> HIDE DEF x
  <1>3. x.sign = "$"
    BY <1>1, <1>2, SignStates DEF Turn, Signs
  <1>4. BulkString(b, x) \/ (NilValue(x) /\ x.to = AfterLine(x))
    BY <1>2, <1>3 DEF Spelled, SimpleString, SimpleError, WholeNumber, ArrayOf
  <1>5. CASE NilValue(x) /\ x.to = AfterLine(x)
    <2>1. BufToLong(buf) = -1
      <3>1. x.line = Decimal(-1) /\ -1 \in Int
        BY <1>5 DEF NilValue
      <3> QED
        BY <1>2, <3>1, DecimalRead
    <2>2. Consume(1) /\ Complete(Nil)
      BY <1>2, <2>1 DEF EndBulkSize
    <2>3. Ahead(b, block', input', p + 1) /\ delivered' = delivered
      BY <1>1, <1>2, <2>2, TurnHas, NextAhead
    <2>4. Complete(x.value) /\ Ahead(b, block', input', x.to)
      BY <1>2, <1>5, <2>2, <2>3 DEF NilValue
    <2> QED
      BY <1>2, <2>3, <2>4, CompleteFollows DEF x
  <1>6. CASE BulkString(b, x)
    <2>1. PICK str \in Seq(Byte) : str = x.value.str
      BY <1>6 DEF BulkString
    <2>2. PICK len \in Nat : len = Len(str)
      BY <2>1
    <2>3. BufToLong(buf) = len
      <3>1. x.line = Decimal(len) /\ len \in Int
        BY <1>6, <2>1, <2>2 DEF BulkString
      <3> QED
        BY <1>2, <3>1, DecimalRead
    <2>4. PICK h \in Nat : h + 1 = Len(block)
      <3>1. Len(block) - 1 \in Nat /\ (Len(block) - 1) + 1 = Len(block)
        BY <1>2
      <3> QED
        BY <3>1
    <2>5. PICK t : t = Least(len, h)
      OBVIOUS
    <2>6. t \in Nat /\ t <= h /\ t <= len
      BY <2>5 DEF Least
    <2>7. Len(block) - 1 = h
      BY <2>4
    <2>8. /\ Consume(1 + t) /\ buf' = SubSeq(block, 2, 1 + t) /\ bulkSize' = len - t
          /\ Goto(IF t < len THEN "Bulk" ELSE "BulkCR")
      <3>1. len >= 0 /\ ~ (len < 0)
        OBVIOUS
      <3> QED
        BY <1>2, <2>3, <2>5, <2>7, <3>1 DEF EndBulkSize
    <2> DEFINE bf == SubSeq(block, 2, 1 + t)
    <2>9. bf \in Seq(Byte) /\ Len(bf) = t /\ \A j \in 1 .. t : bf[j] = block[j + 1]
      <3>1. block \in Seq(Byte)
        BY <1>1 DEF TypeOK
      <3> QED
        BY <2>4, <2>6, <3>1
    <2> HIDE DEF bf
    <2>10. /\ Ahead(b, block', input', p + (1 + t)) /\ delivered' = delivered
           /\ \A j \in 1 .. 1 + t : block[j] = b[p + j]
      <3>1. 1 + t \in 0 .. Len(block)
        BY <2>4, <2>6
      <3> QED
        BY <1>1, <1>2, <2>8, <3>1, NextAhead
    <2>11. PICK a \in Nat : a = p + 1 /\ a = AfterLine(x) /\ Stands(b, a, str)
      BY <1>2, <1>6, <2>1 DEF BulkString
    <2>12. ASSUME NEW j \in 1 .. t PROVE bf[j] = str[j]
      <3>1. j + 1 \in 1 .. 1 + t /\ j \in 1 .. Len(str) /\ p + (j + 1) = a + j
        BY <1>2, <2>2, <2>6, <2>11
      <3>2. bf[j] = b[p + (j + 1)]
        BY <2>9, <2>10, <3>1
      <3>3. b[a + j] = str[j]
        BY <2>11, <3>1 DEF Stands
      <3> QED
        BY <3>1, <3>2, <3>3
    <2>13. Begins(bf, str)
      BY <2>2, <2>6, <2>9, <2>12, BeginsIs
    <2>14. PICK left \in Nat : left = len - t
      BY <2>6
    <2>15. t + left = len /\ (left > 0 <=> t < len) /\ p + (1 + t) = a + t
      BY <1>2, <2>6, <2>11, <2>14
    <2>16. buf' = bf /\ bulkSize' = left /\ Goto(IF left > 0 THEN "Bulk" ELSE "BulkCR")
      BY <2>8, <2>14, <2>15 DEF bf
    <2>17. PICK q : q = a + t
      OBVIOUS
    <2>18. Ahead(b, block', input', q) /\ q = AfterLine(x) + Len(bf)
      BY <2>9, <2>10, <2>11, <2>15, <2>17
    <2>19. Len(bf) + left = Len(str)
      BY <2>2, <2>9, <2>15
    <2> QED
      BY <1>2, <1>6, <2>1, <2>9, <2>10, <2>13, <2>16, <2>18, <2>19, BulkTaken DEF x
  <1> QED
    BY <1>4, <1>5, <1>6

-----------------------------------------------------------------------------
(* The begin of an array.                                                   *)

LEMMA PushedIs ==
  ASSUME NEW S, NEW s \in Seq(S), NEW c \in S
  PROVE  /\ <<c>> \o s \in Seq(S) /\ Len(<<c>> \o s) = Len(s) + 1
         /\ (<<c>> \o s)[1] = c
         /\ \A i \in 1 .. Len(s) : (<<c>> \o s)[i + 1] = s[i]
PROOF
  OBVIOUS

LEMMA OpenedMore ==
  ASSUME NEW pieces, NEW roots, NEW lists \in Seq(Seq(pieces)), NEW done \in Seq(Nat),
         NEW n, NEW sizes \in Seq(Nat \ {0}),
         NEW S, NEW items \in Seq(S), Len(items) = Len(sizes),
         Opened(roots, lists, done, n, sizes, items), done[1] < Len(lists[1]),
         NEW x, x = Current(lists, done, 1), ArrayOf(x), x.parts \in Seq(pieces),
         NEW size \in Nat \ {0}, size = Len(x.parts)
  PROVE  Opened(roots, <<x.parts>> \o lists, <<0>> \o done, n,
                <<size>> \o sizes, <<(<<>>)>> \o items)
PROOF
  <1> DEFINE d == Len(sizes)
             lists2 == <<x.parts>> \o lists
             done2 == <<0>> \o done
             sizes2 == <<size>> \o sizes
             items2 == <<(<<>>)>> \o items
  <1>1. d \in Nat
    OBVIOUS
  <1>2. Len(lists) = d + 1 /\ Len(done) = d + 1 /\ lists[d + 1] = roots /\ done[d + 1] = n
    BY DEF Opened
  <1>3. Len(lists2) = d + 2 /\ lists2[1] = x.parts
        /\ \A i \in 1 .. d + 1 : lists2[i + 1] = lists[i]
    <2>1. /\ Len(lists2) = Len(lists) + 1 /\ lists2[1] = x.parts
          /\ \A i \in 1 .. Len(lists) : lists2[i + 1] = lists[i]
      BY PushedIs, SMTT(30)
    <2> HIDE DEF lists2
    <2> QED
      BY <1>1, <1>2, <2>1
  <1>4. Len(done2) = d + 2 /\ done2[1] = 0 /\ \A i \in 1 .. d + 1 : done2[i + 1] = done[i]
    <2>1. /\ Len(done2) = Len(done) + 1 /\ done2[1] = 0
          /\ \A i \in 1 .. Len(done) : done2[i + 1] = done[i]
      BY PushedIs
    <2> HIDE DEF done2
    <2> QED
      BY <1>1, <1>2, <2>1
  <1>5. Len(sizes2) = d + 1 /\ sizes2[1] = size /\ \A i \in 1 .. d : sizes2[i + 1] = sizes[i]
    BY PushedIs
  <1>6. items2[1] = <<>> /\ \A i \in 1 .. d : items2[i + 1] = items[i]
    <2> DEFINE T == S \cup {<<>>}
    <2>1. items \in Seq(T) /\ <<>> \in T
      BY SeqWidens
    <2> HIDE DEF T
    <2>2. items2[1] = <<>> /\ \A i \in 1 .. Len(items) : items2[i + 1] = items[i]
      BY <2>1, PushedIs
    <2> QED
      BY <2>2
  <1> HIDE DEF lists2, done2, sizes2, items2, d
  <1>7. ASSUME NEW i \in 1 .. d + 1
        PROVE  /\ done2[i + 1] < Len(lists2[i + 1])
               /\ ArrayOf(Current(lists2, done2, i + 1))
               /\ lists2[i] = Current(lists2, done2, i + 1).parts
               /\ done2[i] < Len(lists2[i])
               /\ sizes2[i] = Len(lists2[i]) - done2[i]
               /\ items2[i] = [k \in 1 .. done2[i] |-> lists2[i][k].value]
    <2>1. lists2[i + 1] = lists[i] /\ done2[i + 1] = done[i]
      BY <1>3, <1>4
    <2>2. Current(lists2, done2, i + 1) = Current(lists, done, i)
      BY <2>1 DEF Current
    <2>3. CASE i = 1
      <3>1. done2[1] = 0 /\ lists2[1] = x.parts /\ sizes2[1] = size /\ items2[1] = <<>>
        BY <1>3, <1>4, <1>5, <1>6
      <3>2. items2[1] = [k \in 1 .. done2[1] |-> lists2[1][k].value]
        BY <3>1
      <3>3. sizes2[1] = Len(lists2[1]) - done2[1] /\ done2[1] < Len(lists2[1])
        BY <3>1
      <3> QED
        BY <2>1, <2>2, <2>3, <3>1, <3>2, <3>3
    <2>4. CASE i # 1
      <3>1. PICK j \in 1 .. d : i = j + 1
        <4>1. i - 1 \in 1 .. d /\ i = (i - 1) + 1
          BY <1>1, <2>4
        <4> QED
          BY <4>1
      <3>2. /\ done[j + 1] < Len(lists[j + 1]) /\ ArrayOf(Current(lists, done, j + 1))
            /\ lists[j] = Current(lists, done, j + 1).parts
            /\ done[j] < Len(lists[j]) /\ sizes[j] = Len(lists[j]) - done[j]
            /\ items[j] = [k \in 1 .. done[j] |-> lists[j][k].value]
        BY <3>1 DEF Opened, d
      <3>3. j \in 1 .. d + 1
        BY <1>1
      <3>4. /\ lists2[i] = lists[j] /\ done2[i] = done[j]
            /\ sizes2[i] = sizes[j] /\ items2[i] = items[j]
        BY <1>3, <1>4, <1>5, <1>6, <3>1, <3>3
      <3> QED
        BY <2>1, <2>2, <3>1, <3>2, <3>4
    <2> QED
      BY <2>3, <2>4
  <1>8. lists2[(d + 1) + 1] = roots /\ done2[(d + 1) + 1] = n /\ d + 2 = (d + 1) + 1
    <2>1. d + 1 \in 1 .. d + 1
      BY <1>1
    <2> QED
      BY <1>1, <1>2, <1>3, <1>4, <2>1, SMTT(30)
  <1>9. Opened(roots, lists2, done2, n, sizes2, items2)
    BY <1>3, <1>4, <1>5, <1>7, <1>8 DEF Opened
  <1> QED
    BY <1>9 DEF lists2, done2, sizes2, items2

LEMMA EndArraySizeFollows ==
  ASSUME NEW b, NEW pieces, NEW roots, NEW lists, NEW done, NEW p,
         Encoding(b, sent, pieces, roots), Follows(b, pieces, roots, lists, done, p),
         IInv, EndArraySize
  PROVE  Somewhere(b, pieces, roots)'
PROOF
  <1> DEFINE x == Current(lists, done, 1)
  <1>1. TypeOK /\ Turn({"ArraySizeLF"}) /\ Consume(1) /\ buf' = buf /\ bulkSize' = bulkSize
    BY DEF EndArraySize, IInv
  <1>2. /\ Spelled(b, x) /\ done[1] < Len(lists[1])
        /\ state = AfterCR[FirstByte[x.sign]] /\ x.sign \in Signs
        /\ buf = x.line /\ Head(block) = "LF" /\ p + 1 = AfterLine(x)
        /\ b \in Seq(Byte) /\ p \in Nat /\ Ahead(b, block, input, p) /\ pc = "loop"
    BY <1>1, AfterLineIs DEF LineEnds
  <1>3. x \in pieces /\ x.parts \in Seq(pieces)
    <2>1. x \in pieces
      BY <1>1, TurnReads
    <2> HIDE DEF x
    <2> QED
      BY <2>1, InStream
  <1> HIDE DEF x
  <1>4. x.sign = "*"
    BY <1>1, <1>2, SignStates DEF Turn, Signs
  <1>5. ArrayOf(x) \/ (NilValue(x) /\ x.to = AfterLine(x))
    BY <1>2, <1>4 DEF Spelled, SimpleString, SimpleError, WholeNumber, BulkString
  <1>6. Ahead(b, block', input', p + 1) /\ delivered' = delivered
    BY <1>1, <1>2, TurnHas, NextAhead
  <1>7. CASE NilValue(x) /\ x.to = AfterLine(x)
    <2>1. BufToLong(buf) = -1
      <3>1. x.line = Decimal(-1) /\ -1 \in Int
        BY <1>7 DEF NilValue
      <3> QED
        BY <1>2, <3>1, DecimalRead
    <2>2. Complete(Nil)
      BY <1>2, <2>1 DEF EndArraySize
    <2>3. Complete(x.value) /\ Ahead(b, block', input', x.to)
      BY <1>2, <1>6, <1>7, <2>2 DEF NilValue
    <2> QED
      BY <1>2, <1>6, <2>3, CompleteFollows DEF x
  <1>8. CASE ArrayOf(x)
    <2>1. PICK size \in Nat : size = Len(x.parts)
      BY <1>3
    <2>2. BufToLong(buf) = size
      <3>1. x.line = Decimal(size) /\ size \in Int
        BY <1>8, <2>1 DEF ArrayOf
      <3> QED
        BY <1>2, <3>1, DecimalRead
    <2>3. x.value = Array(ValuesOf(x.parts)) /\ Follow(x.parts, AfterLine(x), x.to)
      BY <1>8 DEF ArrayOf
    <2>4. CASE size = 0
      <3>1. x.parts = <<>>
        <4>1. PICK parts : parts = x.parts
          OBVIOUS
        <4>2. parts \in Seq(pieces) /\ Len(parts) = 0
          BY <1>3, <2>1, <2>4, <4>1
        <4> QED
          BY <4>1, <4>2, EmptySeq
      <3>2. ValuesOf(x.parts) = <<>>
        BY <3>1 DEF ValuesOf
      <3>3. x.to = p + 1
        BY <1>2, <2>3, <3>1 DEF Follow
      <3>4. Complete(Array(<<>>))
        BY <1>2, <2>2, <2>4 DEF EndArraySize
      <3>5. Complete(x.value) /\ Ahead(b, block', input', x.to)
        BY <1>6, <2>3, <3>2, <3>3, <3>4
      <3> QED
        BY <1>2, <1>6, <3>5, CompleteFollows DEF x
    <2>5. CASE size # 0
      <3> DEFINE lists2 == <<x.parts>> \o lists
                 done2 == <<0>> \o done
      <3>1. /\ state' = "StartArray" /\ pc' = "loop"
            /\ arraySizes' = <<size>> \o arraySizes
            /\ arrayValues' = <<(<<>>)>> \o arrayValues
            /\ states' = states /\ redisValue' = redisValue /\ result' = result
        <4>1. size > 0 /\ size # -1 /\ ~ (size < -1)
          BY <2>5
        <4> QED
          BY <1>2, <2>2, <2>5, <4>1 DEF EndArraySize
      <3>2. /\ lists \in Seq(Seq(pieces)) /\ done \in Seq(Nat)
            /\ Opened(roots, lists, done, Whole, arraySizes, arrayValues)
            /\ Delivering(roots) /\ result # "Error"
        BY DEF Follows
      <3>3. PICK n : n = Whole
        OBVIOUS
      <3>4. arraySizes \in Seq(Nat \ {0})
        BY <1>1 DEF TypeOK
      <3>5. PICK S : arrayValues \in Seq(S) /\ Len(arrayValues) = Len(arraySizes)
        BY DEF IInv, Stacked
      <3>6. Opened(roots, lists2, done2, n, arraySizes', arrayValues')
        <4>1. Opened(roots, lists, done, n, arraySizes, arrayValues)
          BY <3>2, <3>3
        <4>2. size \in Nat \ {0}
          BY <2>5
        <4>3. Opened(roots, <<x.parts>> \o lists, <<0>> \o done, n,
                     <<size>> \o arraySizes, <<(<<>>)>> \o arrayValues)
          BY <1>2, <1>3, <1>8, <2>1, <3>2, <3>4, <3>5, <4>1, <4>2, OpenedMore DEF x
        <4> QED
          BY <3>1, <4>3
      <3>7. Whole' = n /\ ~ Returned' /\ Now' = "StartArray"
        BY <1>2, <1>6, <3>1, <3>3 DEF Whole, Returned, Now
      <3>8. /\ lists2 \in Seq(Seq(pieces)) /\ lists2[1] = x.parts
            /\ done2 \in Seq(Nat) /\ done2[1] = 0
        BY <1>3, <3>2, PushedIs
      <3> HIDE DEF lists2, done2
      <3>9. Placed(b, lists2, done2, "StartArray", p + 1, buf', bulkSize')
        <4>1. x.parts # <<>> /\ 0 < Len(x.parts) /\ 0 # Len(x.parts)
          BY <2>1, <2>5
        <4>2. x.parts[1].from = p + 1
          BY <1>2, <2>3, <4>1 DEF Follow
        <4>3. Current(lists2, done2, 1) = x.parts[1]
          BY <3>8 DEF Current
        <4>4. Reading(b, Current(lists2, done2, 1), "StartArray", p + 1, buf', bulkSize')
          BY <4>2, <4>3 DEF Reading
        <4> QED
          BY <3>8, <4>1, <4>4 DEF Placed
      <3>10. Delivering(roots)'
        <4>1. Whole' = Whole /\ delivered' = delivered /\ ~ Returned'
          BY <1>6, <3>3, <3>7
        <4> QED
          BY <3>2, <4>1 DEF Delivering
      <3>11. PICK q \in Nat : q = p + 1
        BY <1>2
      <3>12. Follows(b, pieces, roots, lists2, done2, q)'
        BY <1>6, <3>1, <3>2, <3>6, <3>7, <3>8, <3>9, <3>10, <3>11 DEF Follows
      <3> QED
        BY <3>12 DEF Somewhere
    <2> QED
      BY <2>4, <2>5
  <1> QED
    BY <1>5, <1>7, <1>8

-----------------------------------------------------------------------------
(* However the stream is cut into blocks, the values delivered are those it *)
(* encodes, in order, and no byte is refused.                               *)

Encoded == \A i \in Inputs : i.values # <<>> => Encodes(i.bytes, i.values)

LEMMA InitFollows == Encoded /\ Init => OInv
PROOF
  <1> SUFFICES ASSUME Encoded, Init, sent # <<>>
               PROVE  \E b, pieces, roots :
                        Encoding(b, sent, pieces, roots) /\ Somewhere(b, pieces, roots)
    BY DEF OInv
  <1>1. PICK i \in Inputs : input = i.bytes /\ sent = i.values
    BY DEF Init
  <1>2. PICK pieces, roots : Encoding(input, sent, pieces, roots)
    BY <1>1 DEF Encoded, Encodes
  <1>3. input \in Seq(Byte) /\ roots \in Seq(pieces) /\ Follow(roots, 0, Len(input))
    BY <1>2, InStream
  <1>4. /\ states = <<>> /\ arraySizes = <<>> /\ arrayValues = <<>> /\ result = "none"
        /\ pc = "read" /\ block = <<>> /\ delivered = <<>>
    BY DEF Init
  <1>5. Now = "Start" /\ ~ Returned /\ Whole = 0 /\ Len(arraySizes) = 0 /\ Len(delivered) = 0
    BY <1>4 DEF Now, Returned, Whole
  <1> DEFINE lists == <<roots>>
             done == <<0>>
  <1>6. /\ lists \in Seq(Seq(pieces)) /\ Len(lists) = 1 /\ lists[1] = roots
        /\ done \in Seq(Nat) /\ Len(done) = 1 /\ done[1] = 0
    BY <1>3
  <1> HIDE DEF lists, done
  <1>7. Ahead(input, block, input, 0)
    <2>1. Len(block) = 0 /\ Len(input) \in Nat
      BY <1>3, <1>4
    <2> QED
      BY <2>1 DEF Ahead
  <1>8. Opened(roots, lists, done, Whole, arraySizes, arrayValues)
    BY <1>5, <1>6 DEF Opened
  <1>9. Placed(input, lists, done, Now, 0, buf, bulkSize)
    <2>1. CASE roots = <<>>
      <3>1. Len(roots) = 0 /\ Len(input) = 0
        BY <1>3, <2>1 DEF Follow
      <3> QED
        BY <1>5, <1>6, <3>1 DEF Placed
    <2>2. CASE roots # <<>>
      <3>1. roots[1].from = 0 /\ 0 < Len(roots) /\ 0 # Len(roots)
        BY <1>3, <2>2 DEF Follow
      <3>2. Current(lists, done, 1) = roots[1]
        BY <1>6 DEF Current
      <3>3. Reading(input, Current(lists, done, 1), Now, 0, buf, bulkSize)
        BY <1>5, <3>1, <3>2 DEF Reading
      <3> QED
        BY <1>6, <3>1, <3>3 DEF Placed
    <2> QED
      BY <2>1, <2>2
  <1>10. Delivering(roots)
    <2> DEFINE values == ValuesOf(roots)
    <2>1. Len(roots) \in Nat
      BY <1>3
    <2>2. SubSeq(values, 1, 0) = <<>>
      <3> HIDE DEF values
      <3> QED
        OBVIOUS
    <2> QED
      BY <1>4, <1>5, <2>1, <2>2 DEF Delivering
  <1>11. Follows(input, pieces, roots, lists, done, 0)
    BY <1>4, <1>6, <1>7, <1>8, <1>9, <1>10 DEF Follows
  <1>12. Somewhere(input, pieces, roots)
    BY <1>11 DEF Somewhere
  <1> QED
    BY <1>2, <1>12

LEMMA NextFollows == IInv /\ OInv /\ [Next]_vars => OInv'
PROOF
  <1> SUFFICES ASSUME IInv, OInv, [Next]_vars, sent' # <<>>
               PROVE  \E b, pieces, roots :
                        Encoding(b, sent', pieces, roots) /\ Somewhere(b, pieces, roots)'
    BY DEF OInv
  <1>1. sent' = sent
    BY DEF Next, vars, ReadBlock, Parse, Return, EndOfBlock, Begin, InLine, InNumber, EndLine,
       EndBulkSize, InBulk, EndBulk, EndArraySize, Consume
  <1>2. PICK b, pieces, roots :
          Encoding(b, sent, pieces, roots) /\ Somewhere(b, pieces, roots)
    BY <1>1 DEF OInv
  <1>3. PICK lists, done, p : Follows(b, pieces, roots, lists, done, p)
    BY <1>2 DEF Somewhere
  <1>4. Somewhere(b, pieces, roots)'
    <2>1. CASE \E n \in 1 .. Len(input) : ReadBlock(n)
      BY <1>2, <1>3, <2>1, ReadBlockFollows
    <2>2. CASE Parse
      BY <1>3, <2>2, ParseFollows
    <2>3. CASE Return
      BY <1>2, <1>3, <2>3, ReturnFollows
    <2>4. CASE EndOfBlock
      BY <1>3, <2>4, EndOfBlockFollows
    <2>5. CASE Begin
      BY <1>2, <1>3, <2>5, BeginFollows
    <2>6. CASE InLine
      BY <1>2, <1>3, <2>6, InLineFollows
    <2>7. CASE InNumber
      BY <1>2, <1>3, <2>7, InNumberFollows
    <2>8. CASE EndLine
      BY <1>2, <1>3, <2>8, EndLineFollows
    <2>9. CASE EndBulkSize
      BY <1>2, <1>3, <2>9, EndBulkSizeFollows
    <2>10. CASE InBulk
      BY <1>2, <1>3, <2>10, InBulkFollows
    <2>11. CASE EndBulk
      BY <1>2, <1>3, <2>11, EndBulkFollows
    <2>12. CASE EndArraySize
      BY <1>2, <1>3, <2>12, EndArraySizeFollows
    <2>13. CASE UNCHANGED vars
      <3>1. /\ states' = states /\ buf' = buf /\ bulkSize' = bulkSize
            /\ arraySizes' = arraySizes /\ arrayValues' = arrayValues
            /\ redisValue' = redisValue /\ state' = state /\ result' = result /\ pc' = pc
            /\ block' = block /\ input' = input /\ delivered' = delivered
        BY <2>13 DEF vars, members
      <3>2. Now' = Now /\ Whole' = Whole /\ Returned' = Returned
        BY <3>1 DEF Now, Whole, Returned
      <3>3. Delivering(roots)'
        BY <1>3, <3>1, <3>2 DEF Follows, Delivering
      <3>4. Follows(b, pieces, roots, lists, done, p)'
        BY <1>3, <3>1, <3>2, <3>3 DEF Follows
      <3> QED
        BY <3>4 DEF Somewhere
    <2> QED
      BY <2>1, <2>2, <2>3, <2>4, <2>5, <2>6, <2>7, <2>8, <2>9, <2>10, <2>11, <2>12, <2>13
         DEF Next
  <1> QED
    BY <1>1, <1>2, <1>4

LEMMA OInvOrder ==
  OInv /\ sent # <<>> => delivered = SubSeq(sent, 1, Len(delivered)) /\ result # "Error"
PROOF
  <1> SUFFICES ASSUME OInv, sent # <<>>
               PROVE  delivered = SubSeq(sent, 1, Len(delivered)) /\ result # "Error"
    OBVIOUS
  <1>1. PICK b, pieces, roots, lists, done, p :
          /\ Encoding(b, sent, pieces, roots)
          /\ Follows(b, pieces, roots, lists, done, p)
    BY DEF OInv, Somewhere
  <1> QED
    BY <1>1 DEF Encoding, Follows, Delivering

(* What is read of a piece lies before its end.                             *)
LEMMA BeforeItsEnd ==
  ASSUME NEW b, NEW x, Spelled(b, x), NEW st, NEW p, NEW bf, NEW size \in Int,
         bf \in Seq(Byte), Reading(b, x, st, p, bf, size)
  PROVE  p < x.to
PROOF
  <1>1. PICK f \in Nat, to \in Nat, len \in Nat :
          f = x.from /\ to = x.to /\ len = Len(x.line)
    BY SMTT(30) DEF Spelled
  <1>2. AfterLine(x) = f + 1 + len + 2 /\ f + 1 + len + 2 <= to
    BY <1>1 DEF Spelled, AfterLine
  <1>3. PICK n \in Nat : n = Len(bf)
    OBVIOUS
  <1>4. CASE p = x.from
    BY <1>1, <1>2, <1>4, SMTT(30)
  <1>5. CASE Len(bf) <= Len(x.line) /\ p = x.from + 1 + Len(bf)
    <2>1. n <= len /\ p = f + 1 + n
      BY <1>1, <1>3, <1>5
    <2>2. f + 1 + n < to
      BY <1>2, <2>1
    <2> QED
      BY <1>1, <2>1, <2>2, Zenon
  <1>6. CASE p = x.from + 1 + Len(x.line) + 1
    <2>1. f + 1 + len + 1 < to
      BY <1>2
    <2>2. p = f + 1 + len + 1
      BY <1>1, <1>6, Zenon
    <2> QED
      BY <1>1, <2>1, <2>2, Zenon
  <1>7. CASE /\ BulkString(b, x) /\ Len(bf) <= Len(x.value.str)
             /\ p = AfterLine(x) + Len(bf) \/ p = AfterLine(x) + Len(bf) + 1
    <2>1. PICK m \in Nat : m = Len(x.value.str) /\ x.to = AfterLine(x) + m + 2
      BY <1>7 DEF BulkString
    <2>2. PICK a \in Nat : a = AfterLine(x)
      BY <1>2
    <2>3. n <= m /\ (p = a + n \/ p = a + n + 1) /\ to = a + m + 2
      BY <1>1, <1>3, <1>7, <2>1, <2>2
    <2>4. p < to
      BY <2>3
    <2> QED
      BY <1>1, <2>4
  <1>8. CASE /\ BulkString(b, x) /\ size > 0 /\ Len(bf) + size = Len(x.value.str)
             /\ p = AfterLine(x) + Len(bf)
    <2>1. PICK m \in Nat : m = Len(x.value.str)
      BY <1>8 DEF BulkString
    <2>2. n + size = m /\ size > 0
      BY <1>3, <1>8, <2>1
    <2>3. n <= m
      BY <2>2
    <2> QED
      BY <1>3, <1>7, <1>8, <2>1, <2>3
  <1>9. CASE /\ BulkString(b, x) /\ bf = x.value.str
             /\ p = AfterLine(x) + Len(bf) \/ p = AfterLine(x) + Len(bf) + 1
    <2>1. Len(bf) <= Len(x.value.str)
      BY <1>3, <1>9
    <2> QED
      BY <1>7, <1>9, <2>1
  <1> QED
    BY <1>4, <1>5, <1>6, <1>8, <1>9 DEF Reading

LEMMA OInvMissing ==
  IInv /\ OInv /\ sent # <<>> /\ pc = "read" /\ input = <<>> => delivered = sent
PROOF
  <1> SUFFICES ASSUME IInv, OInv, sent # <<>>, pc = "read", input = <<>>
               PROVE  delivered = sent
    OBVIOUS
  <1>1. PICK b, pieces, roots, lists, done, p :
          /\ Encoding(b, sent, pieces, roots)
          /\ Follows(b, pieces, roots, lists, done, p)
    BY DEF OInv, Somewhere
  <1>2. /\ p \in Nat /\ Ahead(b, block, input, p) /\ block = <<>>
        /\ lists \in Seq(Seq(pieces)) /\ done \in Seq(Nat)
        /\ Placed(b, lists, done, Now, p, buf, bulkSize)
        /\ Opened(roots, lists, done, Len(delivered), arraySizes, arrayValues)
        /\ Len(delivered) \in Nat
        /\ delivered = SubSeq(ValuesOf(roots), 1, Len(delivered))
    BY <1>1 DEF Follows, Delivering, Whole, Returned
  <1>3. Len(b) = p
    BY <1>2 DEF Ahead
  <1>4. buf \in Seq(Byte) /\ bulkSize \in Int /\ Len(arraySizes) \in Nat
    BY DEF IInv, TypeOK
  <1>5. done[1] = Len(lists[1])
    <2> SUFFICES ASSUME done[1] # Len(lists[1]) PROVE FALSE
      OBVIOUS
    <2>1. PICK x : x = Current(lists, done, 1)
      OBVIOUS
    <2>2. done[1] < Len(lists[1]) /\ Reading(b, x, Now, p, buf, bulkSize)
      BY <1>2, <2>1 DEF Placed
    <2>3. x \in pieces
      <3>1. 1 \in 1 .. Len(arraySizes) + 1
        BY <1>4
      <3> QED
        BY <1>2, <1>4, <2>1, <2>2, <3>1, OpenHas
    <2>4. Spelled(b, x)
      BY <1>1, <2>3, InStream
    <2>5. p < x.to /\ x.to <= Len(b) /\ x.to \in Nat
      BY <1>4, <2>2, <2>4, BeforeItsEnd DEF Spelled
    <2> QED
      BY <1>2, <1>3, <2>5
  <1>6. Len(delivered) = Len(roots)
    <2>1. Len(lists) = 1
      BY <1>2, <1>5 DEF Placed
    <2>2. Len(arraySizes) = 0
      <3>1. PICK d \in Nat : d = Len(arraySizes)
        BY <1>4
      <3>2. 1 = d + 1
        BY <1>2, <2>1, <3>1 DEF Opened
      <3> QED
        BY <3>1, <3>2
    <2>3. lists[1] = roots /\ done[1] = Len(delivered)
      BY <1>2, <2>2 DEF Opened
    <2> QED
      BY <1>5, <2>3
  <1>7. sent = ValuesOf(roots)
    BY <1>1, InStream
  <1> DEFINE values == ValuesOf(roots)
             S == {roots[i].value : i \in 1 .. Len(roots)}
  <1>8. values \in Seq(S) /\ Len(values) = Len(roots)
    <2>1. Len(roots) \in Nat
      BY <1>1, InStream
    <2>2. \A i \in 1 .. Len(roots) : roots[i].value \in S
      OBVIOUS
    <2> HIDE DEF S
    <2> QED
      BY <2>1, <2>2 DEF ValuesOf
  <1> HIDE DEF values, S
  <1>9. SubSeq(values, 1, Len(values)) = values
    BY <1>8, SubSeqFull
  <1> QED
    BY <1>2, <1>6, <1>7, <1>8, <1>9 DEF values

(* The values delivered are those sent, in order, and none is refused or,   *)
(* when all has been received, missing: for any streams that are the        *)
(* encodings of values, of any length and depth, cut into blocks anywhere.  *)
THEOREM ParserInOrder ==
  ASSUME Encoded
  PROVE  Spec => []InOrder
PROOF
  <1>1. Init => IInv /\ OInv
    BY InitHolds, InitFollows
  <1>2. IInv /\ OInv /\ [Next]_vars => (IInv /\ OInv)'
    BY NextHolds, NextFollows
  <1>3. IInv /\ OInv => InOrder
    BY OInvOrder, OInvMissing DEF InOrder
  <1> QED
    BY <1>1, <1>2, <1>3, PTL DEF Spec

-----------------------------------------------------------------------------
(* Commands.  What makeCommand() writes of some items is the encoding of an *)
(* array of them.                                                           *)

\* f is the sequences of ss put together, up to each of them.
Flattens(f, ss, S) ==
  /\ f \in [0 .. Len(ss) -> Seq(S)] /\ f[0] = <<>>
  /\ \A i \in 1 .. Len(ss) : f[i] = f[i - 1] \o ss[i]

\* The recursion of FlattenSeq.
Flat(w, ss, n) == w = [i \in 1 .. n |-> IF i = 1 THEN ss[i] ELSE w[i - 1] \o ss[i]]

LEMMA FlatExists ==
  ASSUME NEW ss, NEW n \in Nat
  PROVE  \E w : Flat(w, ss, n)
PROOF
  <1> DEFINE N == {m \in Nat : \E w : Flat(w, ss, m)}
  <1>1. 0 \in N
    <2>1. Flat([i \in 1 .. 0 |-> 0], ss, 0)
      BY DEF Flat
    <2> QED
      BY <2>1
  <1>2. ASSUME NEW m \in Nat, m \in N PROVE m + 1 \in N
    <2>1. PICK w : Flat(w, ss, m)
      BY <1>2
    <2> DEFINE g == [i \in 1 .. m + 1 |->
                       IF i <= m THEN w[i] ELSE IF i = 1 THEN ss[i] ELSE w[m] \o ss[m + 1]]
    <2>2. Flat(g, ss, m + 1)
      <3> SUFFICES ASSUME NEW i \in 1 .. m + 1
                   PROVE  g[i] = IF i = 1 THEN ss[i] ELSE g[i - 1] \o ss[i]
        BY DEF Flat
      <3>1. CASE i \in 1 .. m
        <4>1. w[i] = IF i = 1 THEN ss[i] ELSE w[i - 1] \o ss[i]
          BY <2>1, <3>1 DEF Flat
        <4>2. g[i] = w[i]
          BY <3>1
        <4>3. i # 1 => g[i - 1] = w[i - 1]
          BY <3>1
        <4> QED
          BY <4>1, <4>2, <4>3
      <3>2. CASE i = m + 1
        <4>1. ~ (i <= m) /\ i - 1 = m
          BY <3>2
        <4>2. i # 1 => m \in 1 .. m + 1 /\ g[m] = w[m]
          BY <3>2
        <4> QED
          BY <3>2, <4>1, <4>2
      <3>3. i \in 1 .. m \/ i = m + 1
        OBVIOUS
      <3> QED
        BY <3>1, <3>2, <3>3
    <2> QED
      BY <2>2
  <1>3. Nat \subseteq N
    <2> HIDE DEF N
    <2> QED
      BY <1>1, <1>2, SetInduction
  <1> QED
    BY <1>3

LEMMA Flattened ==
  ASSUME NEW S, NEW ss \in Seq(Seq(S))
  PROVE  \E f : Flattens(f, ss, S) /\ FlattenSeq(ss) = f[Len(ss)]
PROOF
  <1> DEFINE n == Len(ss)
             w == CHOOSE v : Flat(v, ss, n)
             f == [i \in 0 .. n |-> IF i = 0 THEN <<>> ELSE w[i]]
  <1>1. n \in Nat /\ \A i \in 1 .. n : ss[i] \in Seq(S)
    OBVIOUS
  <1>2. Flat(w, ss, n)
    BY <1>1, FlatExists
  <1>3. n # 0 => FlattenSeq(ss) = w[n]
    BY DEF FlattenSeq, Flat
  <1> HIDE DEF w
  <1>4. \A i \in 1 .. n : w[i] = IF i = 1 THEN ss[i] ELSE w[i - 1] \o ss[i]
    BY <1>2 DEF Flat
  <1>5. ASSUME NEW i \in 1 .. n PROVE f[i] = w[i] /\ f[i] = f[i - 1] \o ss[i]
    <2>1. f[i] = w[i]
      OBVIOUS
    <2>2. CASE i = 1
      <3>1. f[i - 1] = <<>> /\ w[i] = ss[i] /\ ss[i] \in Seq(S)
        BY <1>1, <1>4, <2>2
      <3>2. <<>> \o ss[i] = ss[i]
        BY <3>1, ConcatEmptySeq
      <3> QED
        BY <2>1, <3>1, <3>2
    <2>3. CASE i # 1
      <3>1. i - 1 \in 0 .. n /\ i - 1 # 0
        BY <2>3
      <3>2. f[i - 1] = w[i - 1]
        BY <3>1
      <3> QED
        BY <1>4, <2>1, <2>3, <3>2
    <2> QED
      BY <2>2, <2>3
  <1>6. f[0] = <<>>
    BY <1>1
  <1>7. DOMAIN f = 0 .. n /\ f = [i \in 0 .. n |-> f[i]]
    OBVIOUS
  <1>8. FlattenSeq(ss) = f[n]
    <2>1. CASE n = 0
      <3>1. ss = <<>>
        BY <2>1, EmptySeq
      <3> QED
        BY <1>6, <2>1, <3>1 DEF FlattenSeq
    <2>2. CASE n # 0
      <3>1. n \in 1 .. n
        BY <1>1, <2>2
      <3> QED
        BY <1>3, <1>5, <2>2, <3>1
    <2> QED
      BY <2>1, <2>2
  <1> HIDE DEF f
  <1>9. \A i \in 0 .. n : f[i] \in Seq(S)
    <2> DEFINE N == {i \in Nat : i <= n => f[i] \in Seq(S)}
    <2>1. 0 \in N
      <3>1. <<>> \in Seq(S)
        OBVIOUS
      <3>2. f[0] \in Seq(S)
        BY <1>6, <3>1
      <3> QED
        BY <3>2
    <2>2. ASSUME NEW i \in Nat, i \in N PROVE i + 1 \in N
      <3>1. CASE i + 1 <= n
        <4>1. i + 1 \in 1 .. n /\ (i + 1) - 1 = i /\ i <= n
          BY <1>1, <3>1
        <4>2. f[i + 1] = f[i] \o ss[i + 1]
          BY <1>5, <4>1
        <4>3. f[i] \in Seq(S) /\ ss[i + 1] \in Seq(S)
          BY <1>1, <2>2, <4>1
        <4>4. f[i + 1] \in Seq(S)
          BY <4>2, <4>3, Joined
        <4> QED
          BY <4>4
      <3>2. CASE ~ (i + 1 <= n)
        BY <3>2
      <3> QED
        BY <3>1, <3>2
    <2>3. Nat \subseteq N
      <3> HIDE DEF N
      <3> QED
        BY <2>1, <2>2, SetInduction
    <2> QED
      BY <1>1, <2>3
  <1>10. Flattens(f, ss, S)
    BY <1>5, <1>6, <1>7, <1>9 DEF Flattens
  <1> QED
    BY <1>8, <1>10

(* What stands somewhere as a whole stands there in parts.                  *)
LEMMA StandsInParts ==
  ASSUME NEW b, NEW p \in Nat, NEW s \in Seq(Byte), NEW t \in Seq(Byte), Stands(b, p, s \o t),
         NEW q, q = p + Len(s)
  PROVE  Stands(b, p, s) /\ Stands(b, q, t)
PROOF
  <1> DEFINE f == s \o t
             n == Len(s)
             m == Len(t)
  <1>1. /\ f \in Seq(Byte) /\ Len(f) = n + m
        /\ \A i \in 1 .. n : f[i] = s[i]
        /\ \A i \in 1 .. m : f[n + i] = t[i]
    BY Joined
  <1>2. n \in Nat /\ m \in Nat /\ q = p + n
    OBVIOUS
  <1>3. \A j \in 1 .. Len(f) : b[p + j] = f[j]
    BY DEF Stands
  <1> HIDE DEF f, n, m
  <1>4. ASSUME NEW j \in 1 .. n PROVE b[p + j] = s[j]
    <2>1. j \in 1 .. Len(f)
      BY <1>1, <1>2
    <2> QED
      BY <1>1, <1>3, <2>1
  <1>5. ASSUME NEW j \in 1 .. m PROVE b[q + j] = t[j]
    <2>1. PICK i \in Nat : i = n + j /\ i \in 1 .. n + m /\ q + j = p + i
      <3>1. n + j \in Nat /\ n + j \in 1 .. n + m /\ q + j = p + (n + j)
        BY <1>2
      <3> QED
        BY <3>1
    <2>2. i \in 1 .. Len(f)
      BY <1>1, <2>1
    <2>3. b[p + i] = f[i] /\ f[i] = t[j]
      BY <1>1, <1>3, <2>1, <2>2
    <2> QED
      BY <2>1, <2>3
  <1> QED
    BY <1>4, <1>5 DEF Stands, n, m

LEMMA StandsFlattened ==
  ASSUME NEW b, NEW p \in Nat, NEW ss \in Seq(Seq(Byte)), NEW f, Flattens(f, ss, Byte),
         Stands(b, p, f[Len(ss)])
  PROVE  \A k \in 1 .. Len(ss) :
           /\ Len(f[k]) = Len(f[k - 1]) + Len(ss[k]) /\ Len(f[k]) <= Len(f[Len(ss)])
           /\ Len(f[k - 1]) \in Nat /\ Len(f[k]) \in Nat /\ ss[k] \in Seq(Byte)
           /\ Stands(b, p + Len(f[k - 1]), ss[k])
PROOF
  <1> DEFINE n == Len(ss)
             N == {j \in Nat : j <= n => /\ Stands(b, p, f[n - j])
                                         /\ Len(f[n - j]) <= Len(f[n])}
  <1>1. n \in Nat /\ \A k \in 1 .. n : ss[k] \in Seq(Byte)
    OBVIOUS
  <1>2. \A k \in 0 .. n : f[k] \in Seq(Byte) /\ Len(f[k]) \in Nat
    BY DEF Flattens
  <1>3. ASSUME NEW k \in 1 .. n
        PROVE  /\ f[k] = f[k - 1] \o ss[k] /\ f[k - 1] \in Seq(Byte) /\ ss[k] \in Seq(Byte)
               /\ Len(f[k]) = Len(f[k - 1]) + Len(ss[k])
               /\ Len(f[k - 1]) \in Nat /\ Len(f[k]) \in Nat /\ Len(ss[k]) \in Nat
    <2>1. f[k] = f[k - 1] \o ss[k]
      BY DEF Flattens
    <2>2. k - 1 \in 0 .. n /\ k \in 0 .. n
      OBVIOUS
    <2>3. f[k - 1] \in Seq(Byte) /\ ss[k] \in Seq(Byte) /\ Len(f[k - 1]) \in Nat /\ Len(f[k]) \in Nat
      BY <1>1, <1>2, <2>2
    <2>4. Len(f[k - 1] \o ss[k]) = Len(f[k - 1]) + Len(ss[k])
      BY <2>3, Joined
    <2>5. Len(f[k]) = Len(f[k - 1]) + Len(ss[k])
      BY <2>1, <2>4
    <2>6. Len(ss[k]) \in Nat
      BY <2>3
    <2> HIDE DEF n
    <2> QED
      BY <2>1, <2>3, <2>5, <2>6
  <1>4. ASSUME NEW k \in 1 .. n, Stands(b, p, f[k])
        PROVE  Stands(b, p, f[k - 1]) /\ Stands(b, p + Len(f[k - 1]), ss[k])
    <2>1. Stands(b, p, f[k - 1] \o ss[k])
      BY <1>3, <1>4
    <2> QED
      BY <1>3, <2>1, StandsInParts
  <1> HIDE DEF n
  <1>5. 0 \in N
    <2>1. n - 0 = n /\ Len(f[n]) \in Nat
      <3>1. n \in 0 .. n
        BY <1>1
      <3> QED
        BY <1>1, <1>2, <3>1
    <2> QED
      BY <2>1 DEF n
  <1>6. ASSUME NEW j \in Nat, j \in N PROVE j + 1 \in N
    <2>1. CASE j + 1 <= n
      <3>1. PICK k \in 1 .. n : k = n - j /\ k - 1 = n - (j + 1)
        <4>1. n - j \in 1 .. n /\ (n - j) - 1 = n - (j + 1)
          BY <1>1, <2>1
        <4> QED
          BY <4>1
      <3>2. Stands(b, p, f[k]) /\ Len(f[k]) <= Len(f[n])
        BY <1>1, <1>6, <2>1, <3>1
      <3>3. Stands(b, p, f[k - 1])
        BY <1>4, <3>2
      <3>4. Len(f[k - 1]) <= Len(f[n])
        <4>1. Len(f[n]) \in Nat
          <5>1. n \in 0 .. n
            BY <1>1
          <5> QED
            BY <1>2, <5>1
        <4>2. Len(f[k]) = Len(f[k - 1]) + Len(ss[k]) /\ Len(f[k - 1]) \in Nat
              /\ Len(ss[k]) \in Nat /\ Len(f[k]) \in Nat
          BY <1>3
        <4> DEFINE u == Len(f[k - 1])
                   v == Len(ss[k])
                   z == Len(f[k])
                   y == Len(f[n])
        <4>3. z = u + v /\ u \in Nat /\ v \in Nat /\ z \in Nat /\ z <= y /\ y \in Nat
          BY <3>2, <4>1, <4>2
        <4> HIDE DEF u, v, z, y
        <4>4. u <= y
          BY <4>3
        <4> QED
          BY <4>4 DEF u, y
      <3> QED
        BY <3>1, <3>3, <3>4
    <2>2. CASE ~ (j + 1 <= n)
      BY <2>2
    <2> QED
      BY <2>1, <2>2
  <1>7. Nat \subseteq N
    <2> HIDE DEF N
    <2> QED
      BY <1>5, <1>6, SetInduction
  <1>8. ASSUME NEW k \in 1 .. n PROVE Stands(b, p, f[k]) /\ Len(f[k]) <= Len(f[n])
    <2>1. n - k \in Nat /\ n - k <= n /\ n - (n - k) = k
      BY <1>1
    <2>2. n - k \in N
      <3> HIDE DEF N
      <3> QED
        BY <1>7, <2>1
    <2> QED
      BY <2>1, <2>2
  <1> HIDE DEF N
  <1> QED
    BY <1>3, <1>4, <1>8 DEF n

(* The line that begins a piece.                                            *)
LineOf(sign, line) == <<sign>> \o line \o Crlf

LEMMA CrlfIs == Crlf \in Seq(Byte) /\ Len(Crlf) = 2 /\ Crlf[1] = "CR" /\ Crlf[2] = "LF"
PROOF
  BY DEF Crlf, Byte

LEMMA DecimalBytes ==
  ASSUME NEW n \in Nat
  PROVE  Decimal(n) \in Seq(Byte)
PROOF
  <1>1. Decimal(n) \in Seq(Digits \cup {"-"})
    BY DecimalRead
  <1>2. Digits \cup {"-"} \subseteq Byte
    BY DEF Byte, Text, Digits
  <1> QED
    BY <1>1, <1>2, SeqWidens

LEMMA CrlfStands ==
  ASSUME NEW b, NEW p \in Nat, Stands(b, p, Crlf)
  PROVE  LineEnd(b, p)
PROOF
  <1>1. 1 \in 1 .. Len(Crlf) /\ 2 \in 1 .. Len(Crlf)
    BY CrlfIs
  <1> QED
    BY <1>1, CrlfIs DEF Stands, LineEnd

LEMMA LineStands ==
  ASSUME NEW b, NEW p \in Nat, NEW sign \in Byte, NEW line \in Seq(Byte)
  PROVE  /\ LineOf(sign, line) \in Seq(Byte)
         /\ Len(LineOf(sign, line)) = 1 + Len(line) + 2
         /\ Stands(b, p, LineOf(sign, line)) =>
              /\ b[p + 1] = sign
              /\ Stands(b, p + 1, line)
              /\ LineEnd(b, p + 1 + Len(line))
PROOF
  <1> DEFINE s == <<sign>>
             t == s \o line
  <1>1. s \in Seq(Byte) /\ Len(s) = 1 /\ s[1] = sign
    OBVIOUS
  <1> HIDE DEF s
  <1>2. t \in Seq(Byte) /\ Len(t) = 1 + Len(line)
    <2>1. t \in Seq(Byte) /\ Len(t) = Len(s) + Len(line)
      BY <1>1, Joined
    <2> QED
      BY <1>1, <2>1
  <1>3. LineOf(sign, line) = t \o Crlf
    BY DEF LineOf, s
  <1> HIDE DEF t
  <1>4. t \o Crlf \in Seq(Byte) /\ Len(t \o Crlf) = Len(t) + 2
    <2>1. t \o Crlf \in Seq(Byte) /\ Len(t \o Crlf) = Len(t) + Len(Crlf)
      BY <1>2, CrlfIs, Joined
    <2> QED
      BY <2>1, CrlfIs
  <1>5. ASSUME Stands(b, p, t \o Crlf)
        PROVE  b[p + 1] = sign /\ Stands(b, p + 1, line) /\ LineEnd(b, p + 1 + Len(line))
    <2>1. PICK q \in Nat : q = p + Len(t) /\ q = p + 1 + Len(line)
      <3>1. p + Len(t) \in Nat /\ p + Len(t) = p + 1 + Len(line)
        BY <1>2
      <3> QED
        BY <3>1
    <2>2. Stands(b, p, t) /\ Stands(b, q, Crlf)
      BY <1>2, <1>5, <2>1, CrlfIs, StandsInParts
    <2>3. LineEnd(b, q)
      BY <2>2, CrlfStands
    <2>4. Stands(b, p, s) /\ Stands(b, p + 1, line)
      <3>1. Stands(b, p, s \o line)
        BY <2>2 DEF t
      <3>2. PICK r \in Nat : r = p + 1
        OBVIOUS
      <3>3. r = p + Len(s)
        BY <1>1, <3>2
      <3>4. Stands(b, p, s) /\ Stands(b, r, line)
        BY <1>1, <3>1, <3>3, StandsInParts
      <3> QED
        BY <3>2, <3>4
    <2>5. b[p + 1] = sign
      BY <1>1, <2>4 DEF Stands
    <2> QED
      BY <2>1, <2>3, <2>4, <2>5
  <1> QED
    BY <1>2, <1>3, <1>4, <1>5

\* The item that stands after position p, as a piece.
ItemAt(p, item) ==
  [from |-> p, to |-> p + Len(Bulk(item)), sign |-> "$", line |-> Decimal(Len(item)),
   value |-> String(item), parts |-> <<>>]

LEMMA BulkStands ==
  ASSUME NEW b, NEW p \in Nat, NEW item \in Seq(Byte)
  PROVE  /\ Bulk(item) \in Seq(Byte)
         /\ p + Len(Bulk(item)) <= Len(b) /\ Stands(b, p, Bulk(item))
              => Spelled(b, ItemAt(p, item))
PROOF
  <1> DEFINE line == Decimal(Len(item))
             s == LineOf("$", line)
             t == s \o item
             x == ItemAt(p, item)
  <1>1. PICK m \in Nat : m = Len(item)
    OBVIOUS
  <1>2. line \in Seq(Byte)
    BY <1>1, DecimalBytes
  <1>3. PICK n \in Nat : n = Len(line)
    BY <1>2
  <1>4. "$" \in Byte
    BY DEF Byte, Text
  <1>5. Bulk(item) = t \o Crlf
    BY DEF Bulk, LineOf
  <1> HIDE DEF line
  <1>6. s \in Seq(Byte) /\ Len(s) = 1 + n + 2
    BY <1>2, <1>3, <1>4, LineStands
  <1> HIDE DEF s
  <1>7. t \in Seq(Byte) /\ Len(t) = 1 + n + 2 + m
    BY <1>1, <1>6, Joined
  <1> HIDE DEF t
  <1>8. t \o Crlf \in Seq(Byte) /\ Len(t \o Crlf) = 1 + n + 2 + m + 2
    <2>1. t \o Crlf \in Seq(Byte) /\ Len(t \o Crlf) = Len(t) + Len(Crlf)
      BY <1>7, CrlfIs, Joined
    <2> QED
      BY <1>7, <2>1, CrlfIs
  <1>9. ASSUME p + Len(Bulk(item)) <= Len(b), Stands(b, p, Bulk(item))
        PROVE  Spelled(b, x)
    <2>1. PICK q \in Nat : q = p + 1 + n + 2
      OBVIOUS
    <2>2. PICK r \in Nat : r = q + m
      OBVIOUS
    <2>3. r = p + Len(t) /\ q = p + Len(s)
      BY <1>6, <1>7, <2>1, <2>2
    <2>4. Stands(b, p, t \o Crlf)
      BY <1>5, <1>9
    <2>5. Stands(b, p, t) /\ Stands(b, r, Crlf)
      BY <1>7, <2>3, <2>4, CrlfIs, StandsInParts
    <2>6. Stands(b, p, s \o item)
      BY <2>5 DEF t
    <2>7. Stands(b, p, s) /\ Stands(b, q, item)
      BY <1>6, <2>3, <2>6, StandsInParts
    <2>8. LineEnd(b, r)
      BY <2>5, CrlfStands
    <2>9. b[p + 1] = "$" /\ Stands(b, p + 1, line) /\ LineEnd(b, p + 1 + n)
      BY <1>2, <1>3, <1>4, <2>7, LineStands DEF s
    <2>10. /\ x.from = p /\ x.to = p + Len(Bulk(item)) /\ x.sign = "$" /\ x.line = line
           /\ x.value = String(item) /\ x.parts = <<>>
      BY DEF ItemAt, line
    <2>11. x.to = r + 2 /\ x.to \in Nat /\ x.to <= Len(b)
      <3>1. PICK k \in Nat : k = Len(Bulk(item)) /\ k = 1 + n + 2 + m + 2
        BY <1>5, <1>8
      <3>2. x.to = p + k /\ p + k = r + 2 /\ p + k \in Nat
        BY <2>1, <2>2, <2>10, <3>1
      <3> QED
        BY <1>9, <2>10, <3>2
    <2>12. String(item).str = item
      BY DEF String, ValueOf
    <2>13. AfterLine(x) = q
      BY <1>3, <2>1, <2>10 DEF AfterLine
    <2> HIDE DEF x
    <2>14. BulkString(b, x)
      <3>1. x.value.str = item
        BY <2>10, <2>12
      <3>2. AfterLine(x) + Len(item) = r
        BY <1>1, <2>2, <2>13
      <3>3. x.line = Decimal(Len(item))
        BY <2>10 DEF line
      <3> QED
        BY <2>7, <2>8, <2>10, <2>11, <2>13, <3>1, <3>2, <3>3 DEF BulkString
    <2>15. AfterLine(x) <= x.to
      BY <2>2, <2>11, <2>13
    <2>16. x.from \in Nat /\ b[x.from + 1] = x.sign
      BY <2>9, <2>10
    <2>17. x.line \in Seq(Byte) /\ Stands(b, x.from + 1, x.line)
      BY <1>2, <2>9, <2>10
    <2>18. LineEnd(b, x.from + 1 + Len(x.line))
      BY <1>3, <2>9, <2>10
    <2> QED
      BY <2>11, <2>14, <2>15, <2>16, <2>17, <2>18 DEF Spelled
  <1> QED
    BY <1>5, <1>8, <1>9

(* Pieces that stand for sequences put together follow each other.          *)
LEMMA FlattenedFollow ==
  ASSUME NEW ss \in Seq(Seq(Byte)), NEW f, Flattens(f, ss, Byte), NEW q \in Nat,
         \A k \in 1 .. Len(ss) :
           Len(f[k - 1]) \in Nat /\ Len(ss[k]) \in Nat /\ Len(f[k]) = Len(f[k - 1]) + Len(ss[k]),
         NEW S, NEW parts \in Seq(S), Len(parts) = Len(ss),
         \A k \in 1 .. Len(ss) :
           parts[k].from = q + Len(f[k - 1]) /\ parts[k].to = q + Len(f[k - 1]) + Len(ss[k]),
         NEW last, last = q + Len(f[Len(ss)])
  PROVE  Follow(parts, q, last)
PROOF
  <1>1. PICK n \in Nat : n = Len(ss) /\ n = Len(parts)
    OBVIOUS
  <1>2. f[0] = <<>> /\ Len(f[0]) = 0
    BY DEF Flattens
  <1>3. ASSUME NEW k \in 1 .. n
        PROVE  /\ parts[k].from = q + Len(f[k - 1]) /\ parts[k].to = q + Len(f[k])
               /\ Len(f[k]) \in Nat
    <2>1. PICK u \in Nat, v \in Nat : u = Len(f[k - 1]) /\ v = Len(ss[k])
      BY <1>1
    <2>2. Len(f[k]) = u + v /\ parts[k].from = q + u /\ parts[k].to = q + u + v
      BY <1>1, <2>1
    <2>3. q + u + v = q + (u + v) /\ u + v \in Nat
      OBVIOUS
    <2>4. parts[k].to = q + Len(f[k])
      BY <2>2, <2>3
    <2> QED
      BY <2>1, <2>2, <2>3, <2>4
  <1>4. ASSUME parts = <<>> PROVE q = last
    <2>1. n = 0
      BY <1>1, <1>4
    <2> QED
      BY <1>1, <1>2, <2>1
  <1>5. ASSUME parts # <<>> PROVE parts[1].from = q /\ parts[Len(parts)].to = last
    <2>1. n # 0
      BY <1>1, <1>5, EmptySeq
    <2>2. 1 \in 1 .. n /\ n \in 1 .. n /\ 1 - 1 = 0
      BY <2>1
    <2>3. parts[1].from = q + Len(f[0])
      BY <1>3, <2>2
    <2>4. parts[n].to = q + Len(f[n])
      BY <1>3, <2>2
    <2> QED
      BY <1>1, <1>2, <2>3, <2>4
  <1>6. ASSUME NEW k \in 1 .. Len(parts) - 1 PROVE parts[k].to = parts[k + 1].from
    <2>1. k \in 1 .. n /\ k + 1 \in 1 .. n /\ (k + 1) - 1 = k
      BY <1>1
    <2>2. parts[k].to = q + Len(f[k])
      BY <1>3, <2>1
    <2>3. parts[k + 1].from = q + Len(f[(k + 1) - 1])
      BY <1>3, <2>1
    <2> QED
      BY <2>1, <2>2, <2>3
  <1> QED
    BY <1>4, <1>5, <1>6 DEF Follow

PartsOf(x) == {x.parts[k] : k \in 1 .. Len(x.parts)}

LEMMA PartsAre ==
  ASSUME NEW x, NEW n \in Nat, x.parts = [k \in 1 .. n |-> x.parts[k]]
  PROVE  x.parts \in Seq(PartsOf(x)) /\ Len(x.parts) = n
PROOF
  <1>1. PICK parts : parts = x.parts
    OBVIOUS
  <1>2. parts = [k \in 1 .. n |-> parts[k]]
    BY <1>1
  <1>3. Len(parts) = n
    BY <1>2
  <1>4. \A k \in 1 .. n : parts[k] \in PartsOf(x)
    BY <1>1, <1>3 DEF PartsOf
  <1>5. parts \in Seq(PartsOf(x))
    BY <1>2, <1>4
  <1> QED
    BY <1>1, <1>3, <1>5

\* The command that stands after position p, as a piece.
IsCommand(x, b, p, items) ==
  /\ x.from = p /\ x.to = p + Len(MakeCommand(items))
  /\ x.value = Array([i \in 1 .. Len(items) |-> String(items[i])])
  /\ Spelled(b, x)
  /\ x.parts \in Seq(PartsOf(x))
  /\ \A y \in PartsOf(x) : Spelled(b, y) /\ y.parts = <<>>

LEMMA BulksFlattened ==
  ASSUME NEW items \in Seq(Seq(Byte))
  PROVE  \E f, ss : /\ ss \in Seq(Seq(Byte)) /\ Len(ss) = Len(items)
                    /\ \A k \in 1 .. Len(items) : ss[k] = Bulk(items[k])
                    /\ Flattens(f, ss, Byte)
                    /\ Bulks(items) = f[Len(items)] /\ f[Len(items)] \in Seq(Byte)
PROOF
  <1>1. PICK n \in Nat : n = Len(items)
    OBVIOUS
  <1>2. PICK ss : ss = [i \in 1 .. n |-> Bulk(items[i])]
    OBVIOUS
  <1>3. \A i \in 1 .. n : Bulk(items[i]) \in Seq(Byte)
    <2> SUFFICES ASSUME NEW i \in 1 .. n PROVE Bulk(items[i]) \in Seq(Byte)
      OBVIOUS
    <2>1. items[i] \in Seq(Byte)
      BY <1>1
    <2>2. 0 \in Nat
      OBVIOUS
    <2> QED
      BY <2>1, <2>2, BulkStands
  <1>4. ss \in Seq(Seq(Byte)) /\ Len(ss) = n /\ \A i \in 1 .. n : ss[i] = Bulk(items[i])
    BY <1>2, <1>3
  <1>5. PICK f : Flattens(f, ss, Byte) /\ FlattenSeq(ss) = f[Len(ss)]
    BY <1>4, Flattened
  <1>6. Bulks(items) = f[n]
    BY <1>1, <1>2, <1>4, <1>5 DEF Bulks
  <1>7. f[n] \in Seq(Byte)
    <2>1. n \in 0 .. n
      OBVIOUS
    <2> QED
      BY <1>4, <1>5, <2>1 DEF Flattens
  <1> QED
    BY <1>1, <1>4, <1>5, <1>6, <1>7

LEMMA CommandStands ==
  ASSUME NEW b, NEW p \in Nat, NEW items \in Seq(Seq(Byte))
  PROVE  /\ MakeCommand(items) \in Seq(Byte)
         /\ p + Len(MakeCommand(items)) <= Len(b) /\ Stands(b, p, MakeCommand(items))
              => \E x : IsCommand(x, b, p, items)
PROOF
  <1>1. PICK n \in Nat : n = Len(items)
    OBVIOUS
  <1>2. PICK line : line = Decimal(n)
    OBVIOUS
  <1>3. line \in Seq(Byte)
    BY <1>2, DecimalBytes
  <1>4. PICK f, ss : /\ ss \in Seq(Seq(Byte)) /\ Len(ss) = n
                     /\ \A k \in 1 .. n : ss[k] = Bulk(items[k])
                     /\ Flattens(f, ss, Byte)
                     /\ Bulks(items) = f[n] /\ f[n] \in Seq(Byte)
    BY <1>1, BulksFlattened
  <1>5. PICK head : head = LineOf("*", line)
    OBVIOUS
  <1>6. MakeCommand(items) = head \o f[n]
    BY <1>1, <1>2, <1>4, <1>5 DEF MakeCommand, LineOf
  <1>7. PICK h \in Nat : h = 1 + Len(line) + 2
    BY <1>3
  <1>8. "*" \in Byte
    BY DEF Byte, Text
  <1>9. head \in Seq(Byte) /\ Len(head) = h
    BY <1>3, <1>5, <1>7, <1>8, LineStands
  <1>10. head \o f[n] \in Seq(Byte) /\ Len(head \o f[n]) = Len(head) + Len(f[n])
    <2>1. PICK s \in Seq(Byte), t \in Seq(Byte) : s = head /\ t = f[n]
      BY <1>4, <1>9
    <2>2. s \o t \in Seq(Byte) /\ Len(s \o t) = Len(s) + Len(t)
      BY Joined
    <2> QED
      BY <2>1, <2>2, Zenon
  <1>11. PICK m \in Nat : m = Len(f[n])
    BY <1>4
  <1>12. Len(MakeCommand(items)) = h + m
    BY <1>6, <1>9, <1>10, <1>11
  <1>13. ASSUME p + Len(MakeCommand(items)) <= Len(b), Stands(b, p, MakeCommand(items))
         PROVE  \E x : IsCommand(x, b, p, items)
    <2>1. PICK q \in Nat : q = p + h
      OBVIOUS
    <2>2. PICK last \in Nat : last = q + m
      OBVIOUS
    <2>3. last = p + Len(MakeCommand(items)) /\ last <= Len(b)
      <3>1. p + (h + m) = q + m
        BY <2>1
      <3> QED
        BY <1>12, <1>13, <2>2, <3>1
    <2>4. Stands(b, p, head) /\ Stands(b, q, f[n])
      <3>1. Stands(b, p, head \o f[n])
        BY <1>6, <1>13
      <3>2. q = p + Len(head)
        BY <1>9, <2>1
      <3> QED
        BY <1>4, <1>9, <3>1, <3>2, StandsInParts
    <2>5. b[p + 1] = "*" /\ Stands(b, p + 1, line) /\ LineEnd(b, p + 1 + Len(line))
      BY <1>3, <1>5, <1>8, <2>4, LineStands
    <2>6. Stands(b, q, f[Len(ss)])
      BY <1>4, <2>4
    <2>7. \A k \in 1 .. Len(ss) :
            /\ Len(f[k]) = Len(f[k - 1]) + Len(ss[k]) /\ Len(f[k]) <= Len(f[Len(ss)])
            /\ Len(f[k - 1]) \in Nat /\ Len(f[k]) \in Nat /\ ss[k] \in Seq(Byte)
            /\ Stands(b, q + Len(f[k - 1]), ss[k])
      BY <1>4, <2>6, StandsFlattened
    <2> DEFINE part(k) == ItemAt(q + Len(f[k - 1]), items[k])
    <2>8. ASSUME NEW k \in 1 .. n
          PROVE  /\ part(k).from = q + Len(f[k - 1]) /\ part(k).to = q + Len(f[k - 1]) + Len(ss[k])
                 /\ part(k).value = String(items[k]) /\ part(k).parts = <<>>
                 /\ Spelled(b, part(k))
      <3>1. PICK u \in Nat, v \in Nat : u = Len(f[k - 1]) /\ v = Len(ss[k])
        <4>1. k \in 1 .. Len(ss)
          BY <1>4
        <4>2. Len(f[k - 1]) \in Nat /\ ss[k] \in Seq(Byte)
          BY <2>7, <4>1
        <4>3. Len(ss[k]) \in Nat
          BY <4>2
        <4> QED
          BY <4>2, <4>3
      <3>2. Len(f[k]) = u + v /\ u + v <= m /\ Stands(b, q + u, Bulk(items[k]))
        BY <1>4, <1>11, <2>7, <3>1
      <3>3. items[k] \in Seq(Byte) /\ Len(Bulk(items[k])) = v
        BY <1>1, <1>4, <3>1
      <3>4. PICK r \in Nat : r = q + u
        OBVIOUS
      <3>5. r + v <= last
        BY <2>2, <3>2, <3>4
      <3>6. r + Len(Bulk(items[k])) <= Len(b)
        <4>1. PICK e : e = Len(b)
          OBVIOUS
        <4>2. r + v \in Nat /\ r + v <= last /\ last <= e
          BY <2>3, <3>5, <4>1
        <4> QED
          BY <3>3, <4>1, <4>2
      <3>7. Spelled(b, ItemAt(r, items[k]))
        BY <3>2, <3>3, <3>4, <3>6, BulkStands
      <3>8. part(k) = ItemAt(r, items[k])
        BY <3>1, <3>4
      <3>9. /\ ItemAt(r, items[k]).from = r /\ ItemAt(r, items[k]).to = r + v
            /\ ItemAt(r, items[k]).value = String(items[k]) /\ ItemAt(r, items[k]).parts = <<>>
        BY <3>3 DEF ItemAt
      <3> QED
        BY <3>1, <3>4, <3>7, <3>8, <3>9
    <2> DEFINE ps == [k \in 1 .. n |-> part(k)]
               val == Array([i \in 1 .. n |-> String(items[i])])
    <2>9. PICK x : x = [from |-> p, to |-> last, sign |-> "*", line |-> line, value |-> val,
                        parts |-> ps]
      OBVIOUS
    <2>10. /\ x.from = p /\ x.to = last /\ x.sign = "*" /\ x.line = line
           /\ x.value = val /\ x.parts = ps
      BY <2>9
    <2>11. \A k \in 1 .. n : x.parts[k] = part(k)
      BY <2>10
    <2> HIDE DEF part
    <2>12. x.parts = [k \in 1 .. n |-> x.parts[k]]
      BY <2>10
    <2>13. x.parts \in Seq(PartsOf(x)) /\ Len(x.parts) = n
      BY <2>12, PartsAre
    <2>14. \A y \in PartsOf(x) : Spelled(b, y) /\ y.parts = <<>>
      <3>1. SUFFICES ASSUME NEW k \in 1 .. n, NEW y, y = x.parts[k]
                     PROVE  Spelled(b, y) /\ y.parts = <<>>
        BY <2>13 DEF PartsOf
      <3> QED
        BY <2>8, <2>11, <3>1
    <2>15. AfterLine(x) = q
      BY <1>7, <2>1, <2>10 DEF AfterLine
    <2>16. Follow(x.parts, q, last)
      <3>1. PICK parts : parts = x.parts
        OBVIOUS
      <3>2. parts \in Seq(PartsOf(x)) /\ Len(parts) = Len(ss)
        BY <1>4, <2>13, <3>1
      <3>3. \A k \in 1 .. Len(ss) :
              parts[k].from = q + Len(f[k - 1]) /\ parts[k].to = q + Len(f[k - 1]) + Len(ss[k])
        BY <1>4, <2>8, <2>11, <3>1
      <3>4. last = q + Len(f[Len(ss)])
        BY <1>4, <1>11, <2>2
      <3>5. \A k \in 1 .. Len(ss) :
              /\ Len(f[k - 1]) \in Nat /\ Len(ss[k]) \in Nat
              /\ Len(f[k]) = Len(f[k - 1]) + Len(ss[k])
        BY <1>4, <2>7
      <3> QED
        BY <1>4, <3>1, <3>2, <3>3, <3>4, <3>5, FlattenedFollow
    <2>17. ValuesOf(x.parts) = [i \in 1 .. n |-> String(items[i])]
      BY <2>8, <2>11, <2>13 DEF ValuesOf
    <2>18. ArrayOf(x)
      BY <1>2, <2>10, <2>13, <2>15, <2>16, <2>17 DEF ArrayOf
    <2>19. AfterLine(x) <= x.to
      BY <2>2, <2>10, <2>15
    <2>20. x.line \in Seq(Byte) /\ Stands(b, x.from + 1, x.line) /\ b[x.from + 1] = x.sign
      BY <1>3, <2>5, <2>10
    <2>21. LineEnd(b, x.from + 1 + Len(x.line))
      BY <2>5, <2>10
    <2>22. x.from \in Nat /\ x.to \in Nat /\ x.to <= Len(b)
      BY <2>3, <2>10
    <2>23. Spelled(b, x)
      BY <2>18, <2>19, <2>20, <2>21, <2>22 DEF Spelled
    <2>24. x.value = Array([i \in 1 .. Len(items) |-> String(items[i])])
      BY <1>1, <2>10
    <2> QED
      BY <2>3, <2>10, <2>13, <2>14, <2>23, <2>24 DEF IsCommand
  <1> QED
    BY <1>6, <1>10, <1>13

(* What a client has written is the encoding of its commands, each an array *)
(* of strings.                                                              *)
LEMMA CommandsEncode ==
  ASSUME NEW commands \in Seq(Seq(Seq(Byte)))
  PROVE  Encodes(Carried(commands), Meant(commands))
PROOF
  <1>1. PICK n \in Nat : n = Len(commands)
    OBVIOUS
  <1>2. \A k \in 1 .. n : commands[k] \in Seq(Seq(Byte))
    BY <1>1
  <1>3. PICK ss : ss = [k \in 1 .. n |-> MakeCommand(commands[k])]
    OBVIOUS
  <1>4. \A k \in 1 .. n : MakeCommand(commands[k]) \in Seq(Byte)
    <2> SUFFICES ASSUME NEW k \in 1 .. n PROVE MakeCommand(commands[k]) \in Seq(Byte)
      OBVIOUS
    <2>1. commands[k] \in Seq(Seq(Byte)) /\ 0 \in Nat
      BY <1>2
    <2> QED
      BY <2>1, CommandStands
  <1>5. /\ ss \in Seq(Seq(Byte)) /\ Len(ss) = n
        /\ \A k \in 1 .. n : ss[k] = MakeCommand(commands[k])
    BY <1>3, <1>4
  <1>6. PICK f : Flattens(f, ss, Byte) /\ FlattenSeq(ss) = f[Len(ss)]
    BY <1>5, Flattened
  <1>7. PICK b : b = f[n]
    OBVIOUS
  <1>8. Carried(commands) = b
    BY <1>1, <1>3, <1>5, <1>6, <1>7 DEF Carried
  <1>9. b \in Seq(Byte)
    <2>1. n \in 0 .. n
      OBVIOUS
    <2> QED
      BY <1>5, <1>6, <1>7, <2>1 DEF Flattens
  <1>10. Stands(b, 0, f[Len(ss)])
    <2>1. \A j \in 1 .. Len(b) : 0 + j = j
      BY <1>9
    <2> QED
      BY <1>5, <1>7, <2>1 DEF Stands
  <1>11. \A k \in 1 .. Len(ss) :
           /\ Len(f[k]) = Len(f[k - 1]) + Len(ss[k]) /\ Len(f[k]) <= Len(f[Len(ss)])
           /\ Len(f[k - 1]) \in Nat /\ Len(f[k]) \in Nat /\ ss[k] \in Seq(Byte)
           /\ Stands(b, 0 + Len(f[k - 1]), ss[k])
    <2>1. 0 \in Nat
      OBVIOUS
    <2> QED
      BY <1>5, <1>6, <1>10, <2>1, StandsFlattened
  <1>12. ASSUME NEW k \in 1 .. n
         PROVE  /\ Len(f[k - 1]) \in Nat /\ Len(ss[k]) \in Nat
                /\ Len(f[k]) = Len(f[k - 1]) + Len(ss[k])
                /\ \E x : IsCommand(x, b, Len(f[k - 1]), commands[k])
    <2>1. PICK q \in Nat : q = Len(f[k - 1])
      BY <1>5, <1>11
    <2>2. Stands(b, 0 + q, ss[k]) /\ ss[k] \in Seq(Byte) /\ Len(f[k]) = q + Len(ss[k])
      BY <1>5, <1>11, <2>1
    <2>3. Len(f[k]) <= Len(b)
      BY <1>5, <1>7, <1>11
    <2>4. ss[k] = MakeCommand(commands[k]) /\ commands[k] \in Seq(Seq(Byte))
      BY <1>2, <1>5
    <2>5. 0 + q = q
      OBVIOUS
    <2>6. Stands(b, q, MakeCommand(commands[k])) /\ q + Len(MakeCommand(commands[k])) <= Len(b)
      BY <2>2, <2>3, <2>4, <2>5
    <2>7. \E x : IsCommand(x, b, q, commands[k])
      BY <2>4, <2>6, CommandStands
    <2>8. Len(ss[k]) \in Nat
      BY <2>2
    <2> QED
      BY <2>1, <2>2, <2>7, <2>8
  <1> DEFINE root(k) == CHOOSE x : IsCommand(x, b, Len(f[k - 1]), commands[k])
  <1>13. \A k \in 1 .. n : IsCommand(root(k), b, Len(f[k - 1]), commands[k])
    BY <1>12
  <1> HIDE DEF root
  <1>14. PICK roots : roots = [k \in 1 .. n |-> root(k)]
    OBVIOUS
  <1>15. Len(roots) = n /\ \A k \in 1 .. n : roots[k] = root(k)
    BY <1>14
  <1>16. \A k \in 1 .. n : IsCommand(roots[k], b, Len(f[k - 1]), commands[k])
    BY <1>13, <1>15
  <1> DEFINE heads  == {roots[k] : k \in 1 .. n}
             pieces == heads \cup UNION {PartsOf(x) : x \in heads}
  <1>17. roots \in Seq(pieces)
    <2>1. \A k \in 1 .. n : root(k) \in pieces
      BY <1>15
    <2> HIDE DEF pieces
    <2> QED
      BY <1>14, <2>1
  <1>18. ASSUME NEW x \in pieces PROVE Spelled(b, x) /\ x.parts \in Seq(pieces)
    <2>1. CASE x \in heads
      <3>1. Spelled(b, x) /\ x.parts \in Seq(PartsOf(x))
        BY <1>16, <2>1 DEF IsCommand
      <3>2. PartsOf(x) \subseteq pieces
        BY <2>1
      <3> HIDE DEF pieces
      <3>3. x.parts \in Seq(pieces)
        BY <3>1, <3>2, SeqWidens
      <3> QED
        BY <3>1, <3>3
    <2>2. ASSUME NEW y \in heads, x \in PartsOf(y) PROVE Spelled(b, x) /\ x.parts \in Seq(pieces)
      <3>1. Spelled(b, x) /\ x.parts = <<>>
        BY <1>16, <2>2 DEF IsCommand
      <3> HIDE DEF pieces
      <3>2. <<>> \in Seq(pieces)
        OBVIOUS
      <3> QED
        BY <3>1, <3>2
    <2> QED
      BY <2>1, <2>2
  <1> HIDE DEF heads, pieces
  <1>19. ASSUME NEW k \in 1 .. n
         PROVE  /\ roots[k].from = 0 + Len(f[k - 1])
                /\ roots[k].to = 0 + Len(f[k - 1]) + Len(ss[k])
                /\ roots[k].value = Array([i \in 1 .. Len(commands[k]) |-> String(commands[k][i])])
    <2>1. PICK q \in Nat : q = Len(f[k - 1])
      BY <1>12
    <2>2. 0 + q = q
      OBVIOUS
    <2> QED
      BY <1>5, <1>16, <2>1, <2>2 DEF IsCommand
  <1>20. Follow(roots, 0, Len(b))
    <2>1. Len(b) \in Nat /\ 0 + Len(b) = Len(b) /\ 0 \in Nat
      BY <1>9
    <2>2. Len(b) = 0 + Len(f[Len(ss)])
      BY <1>5, <1>7, <2>1
    <2>3. \A k \in 1 .. Len(ss) :
            /\ Len(f[k - 1]) \in Nat /\ Len(ss[k]) \in Nat
            /\ Len(f[k]) = Len(f[k - 1]) + Len(ss[k])
      BY <1>5, <1>12
    <2>4. \A k \in 1 .. Len(ss) :
            roots[k].from = 0 + Len(f[k - 1]) /\ roots[k].to = 0 + Len(f[k - 1]) + Len(ss[k])
      BY <1>5, <1>19
    <2>5. Len(roots) = Len(ss)
      BY <1>5, <1>15
    <2> QED
      BY <1>5, <1>6, <1>17, <2>1, <2>2, <2>3, <2>4, <2>5, FlattenedFollow
  <1>21. Meant(commands) = ValuesOf(roots)
    BY <1>1, <1>15, <1>19 DEF Meant, ValuesOf
  <1>22. Encoding(b, Meant(commands), pieces, roots)
    BY <1>9, <1>17, <1>18, <1>20, <1>21 DEF Encoding
  <1> QED
    BY <1>8, <1>22 DEF Encodes

(* The commands that arrive are those that were written: whatever their     *)
(* number, their items and the bytes in them, a reader of the same protocol *)
(* gets one array of strings for each, in order, and none is missing when   *)
(* all has been read.                                                       *)
THEOREM CommandsArrive ==
  ASSUME \A i \in Inputs : \E commands \in Seq(Seq(Seq(Byte))) :
           i.bytes = Carried(commands) /\ i.values = Meant(commands)
  PROVE  Spec => []InOrder
PROOF
  <1>1. Encoded
    BY CommandsEncode DEF Encoded
  <1> QED
    BY <1>1, ParserInOrder
=============================================================================
