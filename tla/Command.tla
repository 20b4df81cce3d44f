------------------------------ MODULE Command -------------------------------
(***************************************************************************)
(* How a command is written: command() and publish() make a list of        *)
(* RedisBuffers, makeCommand() encodes it as an array of bulk strings.  A  *)
(* RedisBuffer is its bytes, whichever of its two types holds them.        *)
(***************************************************************************)
EXTENDS RedisValue, SequencesExt

Crlf == <<"CR", "LF">>

\* A buffer made of a C string ends at its first NUL.
BufferOfCString(s) ==
  LET nul == {i \in DOMAIN s : s[i] = "NUL"}
  IN  IF nul = {} THEN s ELSE SubSeq(s, 1, (CHOOSE i \in nul : \A j \in nul : i <= j) - 1)

\* Mutant: the line end is a C string, whose array has its NUL too.
BulkWithNul(item) ==
  <<"$">> \o Decimal(Len(item)) \o Crlf \o <<"NUL">> \o item \o Crlf \o <<"NUL">>

Bulk(item) == <<"$">> \o Decimal(Len(item)) \o Crlf \o item \o Crlf

Bulks(items) == FlattenSeq([i \in 1 .. Len(items) |-> Bulk(items[i])])

MakeCommand(items) == <<"*">> \o Decimal(Len(items)) \o Crlf \o Bulks(items)

\* A letter is as good as any other.
PublishStr == <<"a", "a", "a", "a", "a", "a", "a">>

\* The items of command() and of publish().
CommandItems(cmd, args)   == <<cmd>> \o args
PublishItems(channel, msg) == <<PublishStr, channel, msg>>
=============================================================================
