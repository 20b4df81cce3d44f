---------------------------- MODULE MCConnection ----------------------------
(* Connection for TLC: URIs put together from parts, those that make sense, *)
(* those that do not and are accepted all the same, and those refused.      *)
EXTENDS ConnectionUris

\* With an int of 14 bits and an unsigned long of 18.
Numbers ==
  ("0" :> 0) @@ ("1" :> 1) @@ ("2" :> 2) @@ ("-1" :> -1) @@ ("-5" :> -5) @@ (" 50" :> 50) @@ ("50" :> 50)
  @@ ("2050" :> 2050) @@ ("6380" :> 6380) @@ ("9000" :> 9000) @@ ("300000" :> 300000)

Auths == {[text |-> <<>>, user |-> <<"default">>, password |-> <<>>],
          [text |-> <<"pw", "@">>, user |-> <<"default">>, password |-> <<"pw">>],
          [text |-> <<"bob", ":", "pw", "@">>, user |-> <<"bob">>, password |-> <<"pw">>],
          [text |-> <<"bob", ":", "p", ":", "@">>, user |-> <<"bob">>, password |-> <<"p", ":">>]}

Tcp(host, port, text) ==
  [type |-> "tcp", host |-> host, port |-> port, path |-> <<>>, text |-> text, right |-> TRUE]
Unix(path) ==
  [type |-> "unix", host |-> <<>>, port |-> 6379, path |-> path, text |-> path, right |-> TRUE]

Here   == Tcp(<<"h">>, 6379, <<"h">>)
Odd    == {Tcp(<<"h">>, 6380, <<"h", ":", "6380", "x">>), Tcp(<<"h">>, 6380, <<"h", ":", "6380", "/", "x">>),
           Tcp(<<"h">>, -1, <<"h", ":", "-1">>), Tcp(<<"h", "/", "x">>, 6379, <<"h", "/", "x">>),
           Tcp(<<"h", "/", "9000">>, 6379, <<"h", "/", "9000">>), Tcp(<<>>, 6379, <<>>)}
Places == {Here, Tcp(<<"h">>, 6380, <<"h", ":", "6380">>),
           Unix(<<"/", "tmp", "/", "sock">>), Unix(<<"/", "1", "/", "sock">>)}
Nowhere == {[Tcp(<<"h">>, 6379, <<"h", ":", "x">>) EXCEPT !.right = FALSE],
            [Tcp(<<"h">>, 6379, <<"h", ":", "9000">>) EXCEPT !.right = FALSE],
            [Here EXCEPT !.type = "http", !.right = FALSE]}

NoDb == [db |-> 0, text |-> <<>>]
Dbs  == {NoDb, [db |-> 0, text |-> <<"/", "0">>], [db |-> 2, text |-> <<"/", "2">>]}

Alive == <<"keep_alive", "=", "true">>
Lists == {<<>>, <<Alive, <<"socket_timeout", "=", "2050", "ms">>>>,
          <<<<"connect_timeout", "=", "1", "m">>, <<"socket_timeout", "=", "2", "s">>>>}
Strange == {<<<<"socket_timeout", "=", "-5", "ms">>>>, <<<<"socket_timeout", "=", " 50", "ms">>>>,
            <<<<"connect_timeout", "=", "9000", "m">>>>,
            <<Alive, <<"socket_timeout", "=", "2", "s">>, <<"keep_alive", "=", "false">>>>}
Refused == {<<<<"keep_alive">>>>, <<<<"keep_alive", "=", "yes">>>>, <<<<"db", "=", "2">>>>,
            <<<<"socket_timeout", "=", "50">>>>, <<<<"socket_timeout", "=", "300000", "ms">>>>,
            <<Alive, <<>>>>, <<<<"=", "yes">>, Alive>>}

From(auths, places, dbs, lists) ==
  {[auth |-> a, place |-> p, db |-> d, parameters |-> l] : a \in auths, p \in places, d \in dbs, l \in lists}
Nobody == {[text |-> <<>>, user |-> <<"default">>, password |-> <<>>]}
AllParts ==
  From(Auths, Places, Dbs, {<<>>}) \cup From(Auths, {Here}, {NoDb}, Lists)
    \cup From(Nobody, Places, Dbs, Lists) \cup From(Auths, Nowhere, {NoDb}, {<<>>})
    \cup From(Nobody, {Here}, {NoDb}, Strange \cup Refused)
    \cup From(Nobody, Odd, {NoDb, [db |-> 2, text |-> <<"/", "2">>]}, {<<>>})
    \cup From(Nobody, {Here, Unix(<<"/", "tmp">>)},
              {[db |-> 1, text |-> <<"/", "1", "socket">>], [db |-> -1, text |-> <<"/", "-1">>]}, {<<>>, <<Alive>>})

AllUris == {UriOf(p) : p \in AllParts} \cup {<<"h", ":", "6380">>}
HereUris == {<<"tcp", "://", "h">>}
=============================================================================
