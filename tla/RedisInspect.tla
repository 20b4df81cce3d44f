---------------------------- MODULE RedisInspect ----------------------------
(* RedisValue::inspect(), which writes a value out: the text an unexpected  *)
(* message is reported with.                                                *)
EXTENDS RedisValue

RECURSIVE Inspect(_), InspectEach(_)
InspectEach(values) ==
  IF values = <<>> THEN <<>>
  ELSE Inspect(Head(values)) \o <<",", " ">> \o InspectEach(Tail(values))

\* Mutant: the separator after the last item is overwritten, not shortened.
InspectKeepsComma(v) ==
  LET listed == <<"[">> \o InspectEach(v.items)
  IN  CASE IsError(v) -> <<"error: ">> \o ToByteArray(v)
        [] IsNull(v) -> <<"(null)">>
        [] IsInt(v) -> Decimal(ToInt(v))
        [] IsByteArray(v) /\ ~IsError(v) -> ToByteArray(v)
        [] IsArray(v) -> [listed EXCEPT ![Len(listed)] = "]"]

\* A separator follows every item; of the last one the blank is cut off and the
\* comma overwritten.
Inspect(v) ==
  LET listed == <<"[">> \o InspectEach(ToArray(v))
      cut    == SubSeq(listed, 1, Len(listed) - 1)
  IN  CASE IsError(v) -> <<"error: ">> \o ToByteArray(v)
        [] IsNull(v) -> <<"(null)">>
        [] IsInt(v) -> Decimal(ToInt(v))
        [] IsByteArray(v) /\ ~IsError(v) -> ToByteArray(v)
        [] IsArray(v) -> IF ToArray(v) = <<>> THEN <<"[", "]">>
                         ELSE [cut EXCEPT ![Len(cut)] = "]"]
=============================================================================
