----------------------------- MODULE RedisValue -----------------------------
(***************************************************************************)
(* RedisValue: a variant of nothing, a number, bytes and an array, with a  *)
(* flag that says whether it is an error; and the functions that look at   *)
(* it.  Text is a sequence of characters; a word of which only the whole   *)
(* matters is one of them.                                                 *)
(***************************************************************************)
EXTENDS Integers, Sequences

ValueOf(type) == [type |-> type, str |-> <<>>, num |-> 0, items |-> <<>>, error |-> FALSE]

\* The constructors.
Nil          == ValueOf("nil")
Number(n)    == [ValueOf("int") EXCEPT !.num = n]
String(s)    == [ValueOf("string") EXCEPT !.str = s]
Error(s)     == [String(s) EXCEPT !.error = TRUE]
Array(items) == [ValueOf("array") EXCEPT !.items = items]

\* Each of castTo()'s four uses gives the empty value of its type for a value of
\* another.
IsError(v)     == v.error
IsNull(v)      == v.type = "nil"
IsInt(v)       == v.type = "int"
IsByteArray(v) == v.type = "string"
IsArray(v)     == v.type = "array"
ToInt(v)       == IF IsInt(v) THEN v.num ELSE 0
ToByteArray(v) == IF IsByteArray(v) THEN v.str ELSE <<>>
ToArray(v)     == IF IsArray(v) THEN v.items ELSE <<>>

DecimalDigits == <<"0", "1", "2", "3", "4", "5", "6", "7", "8", "9">>

\* std::to_string().
Decimal(n) ==
  LET abs == IF n < 0 THEN -n ELSE n
      digits[m \in 0 .. abs] ==
        IF m < 10 THEN <<DecimalDigits[m + 1]>>
        ELSE Append(digits[m \div 10], DecimalDigits[(m % 10) + 1])
  IN  IF n < 0 THEN <<"-">> \o digits[abs] ELSE digits[abs]
=============================================================================
