------------------------- MODULE ConnectionOptions -------------------------
(***************************************************************************)
(* ConnectionOptions(uri): how a URI becomes the options of a connection.  *)
(*                                                                         *)
(* A string is a sequence of tokens: the separators the code looks for,    *)
(* numerals, and words.  A numeral is what std::stoi and std::stoul read   *)
(* from a string that begins with it: blanks, a sign and digits.  Two      *)
(* tokens of the text in between, "1" "socket", stand for "1socket", of    *)
(* which the 1 is read.                                                    *)
(***************************************************************************)
EXTENDS Integers, Sequences, SequencesExt, TLC

CONSTANTS
  Numerals,  \* the numerals: a function from tokens to the integers they stand for
  IntMax,    \* the greatest int
  UlongMax   \* the greatest unsigned long

Separators == {"://", "@", ":", "/", "?", "&", "="}
Units      == [ms |-> 1, s |-> 1000, m |-> 60000]

ASSUME NumeralsAssumption ==
  /\ Numerals \in [DOMAIN Numerals -> Int]
  /\ DOMAIN Numerals \subseteq STRING \ (Separators \cup DOMAIN Units)
  /\ IntMax \in Nat /\ UlongMax \in Nat

\* What strings are made of; the name of the default user is one of them.
Tokens == STRING \cup {"default"}

\* The defaults of the members, and what a URI that throws is represented by.
DefaultOptions ==
  [valid |-> TRUE, type |-> "tcp", host |-> <<>>, port |-> 6379, path |-> <<>>,
   user |-> <<"default">>, password |-> <<>>, db |-> 0, keepAlive |-> FALSE,
   connectTimeout |-> 0, socketTimeout |-> 0, readonly |-> FALSE]
Invalid == [DefaultOptions EXCEPT !.valid = FALSE]

-----------------------------------------------------------------------------
(* std::string.                                                            *)

Find(s, token)  == SelectInSeq(s, LAMBDA c : c = token)
RFind(s, token) == SelectLastInSeq(s, LAMBDA c : c = token)
Before(s, i)    == SubSeq(s, 1, i - 1)
After(s, i)     == SubSeq(s, i + 1, Len(s))

\* std::stoi and std::stoul: a number is what the string begins with.  They
\* throw if there is none, and if it is too large, std::stoul whatever its sign.
IsNumber(s) == s # <<>> /\ Head(s) \in DOMAIN Numerals
Number(s)   == Numerals[Head(s)]
IsInt(s)    == IsNumber(s) /\ -IntMax - 1 <= Number(s) /\ Number(s) <= IntMax
IsUlong(s)  == IsNumber(s) /\ -UlongMax <= Number(s) /\ Number(s) <= UlongMax

\* An unsigned long taken for a long, and a product of longs.
Wrap(n) ==
  LET half == (UlongMax + 1) \div 2
  IN  ((n + half) % (UlongMax + 1)) - half

-----------------------------------------------------------------------------
(* The pieces of a URI.                                                    *)

\* Every delimiter begins a new field; there is none in an empty string.
Split(s, delimiter) ==
  LET fields[n \in 0 .. Len(s)] ==
        IF n = 0 THEN <<<<>>>>
        ELSE LET before == fields[n - 1]
             IN  IF s[n] = delimiter THEN Append(before, <<>>)
                 ELSE [before EXCEPT ![Len(before)] = Append(@, s[n])]
  IN  IF s = <<>> THEN <<>> ELSE fields[Len(s)]

SplitUri(uri) ==
  LET scheme == Find(uri, "://")
      rest   == After(uri, scheme)
      sign   == Find(rest, "@")
  IN  [type |-> Before(uri, scheme), auth |-> Before(rest, sign), path |-> After(rest, sign)]

\* Mutant: the number of the database must be all there is after the slash.
SplitPathStrict(path) ==
  LET mark  == RFind(path, "?")
      slash == RFind(path, "/")
      whole == slash # 0 /\ Len(path) = slash + 1 /\ IsInt(After(path, slash))
  IN  [path |-> IF whole THEN Before(path, slash) ELSE IF mark = 0 THEN path ELSE Before(path, mark),
       db |-> IF whole THEN Number(After(path, slash)) ELSE 0,
       parameters |-> IF mark = 0 THEN <<>> ELSE After(path, mark)]

\* A number after the last slash, whatever follows it, is the database.
SplitPath(path) ==
  LET mark     == RFind(path, "?")
      slash    == RFind(path, "/")
      numbered == slash # 0 /\ IsInt(After(path, slash))
  IN  [path |-> IF numbered THEN Before(path, slash)
                ELSE IF mark = 0 THEN path ELSE Before(path, mark),
       db |-> IF numbered THEN Number(After(path, slash)) ELSE 0,
       parameters |-> IF mark = 0 THEN <<>> ELSE After(path, mark)]

-----------------------------------------------------------------------------
(* The options.                                                            *)

SetAuthOpts(auth, opts) ==
  LET colon == Find(auth, ":")
  IN  IF auth = <<>> THEN opts
      ELSE IF colon = 0 THEN [opts EXCEPT !.password = auth]
      ELSE [opts EXCEPT !.user = Before(auth, colon), !.password = After(auth, colon)]

\* _parse_timeout_option(): in milliseconds.
IsTimeout(s) == IsUlong(s) /\ Len(s) = 2 /\ s[2] \in DOMAIN Units
Timeout(s)   == Wrap(Number(s) * Units[s[2]])

SetOption(key, val, opts) ==
  CASE key = <<"keep_alive">> /\ val \in {<<"true">>, <<"false">>} ->
         [opts EXCEPT !.keepAlive = (val = <<"true">>)]
    [] key = <<"connect_timeout">> /\ IsTimeout(val) -> [opts EXCEPT !.connectTimeout = Timeout(val)]
    [] key = <<"socket_timeout">> /\ IsTimeout(val) -> [opts EXCEPT !.socketTimeout = Timeout(val)]
    [] OTHER -> Invalid

SetParameter(parameter, opts) ==
  LET pair == Split(parameter, "=")
  IN  IF ~opts.valid \/ Len(pair) # 2 THEN Invalid ELSE SetOption(pair[1], pair[2], opts)

\* One parameter after the other; one that is wrong makes the constructor throw.
ParseParameters(parameters, opts) ==
  LET each == Split(parameters, "&")
      upTo[n \in 0 .. Len(each)] == IF n = 0 THEN opts ELSE SetParameter(each[n], upTo[n - 1])
  IN  upTo[Len(each)]

SetTcpOpts(path, opts) ==
  LET colon == Find(path, ":")
  IN  IF colon = 0 THEN [opts EXCEPT !.type = "tcp", !.host = path]
      ELSE IF ~IsInt(After(path, colon)) THEN Invalid
      ELSE [opts EXCEPT !.type = "tcp", !.host = Before(path, colon),
                        !.port = Number(After(path, colon))]

SetUnixOpts(path, opts) == [opts EXCEPT !.type = "unix", !.path = path]

ParseUri(uri) ==
  LET pieces == SplitUri(uri)
      split  == SplitPath(pieces.path)
      opts   == ParseParameters(split.parameters, SetAuthOpts(pieces.auth, DefaultOptions))
  IN  IF Find(uri, "://") = 0 \/ ~opts.valid THEN Invalid
      ELSE CASE pieces.type = <<"tcp">>  -> SetTcpOpts(split.path, [opts EXCEPT !.db = split.db])
             [] pieces.type = <<"unix">> -> SetUnixOpts(split.path, [opts EXCEPT !.db = split.db])
             [] OTHER -> Invalid
=============================================================================
