--------------------------- MODULE ConnectionUris ---------------------------
(***************************************************************************)
(* What a URI is meant to say, as the application that writes one sees it: *)
(* who it is, where the server is, which database, and a list of settings. *)
(* It is put together from such parts, and the options a connection is     *)
(* made from have to be those parts again.                                 *)
(*                                                                         *)
(* The parts are what the code takes for them: a text that begins with a   *)
(* number is a port or a database, whatever follows the number.            *)
(***************************************************************************)
EXTENDS Connection

CONSTANT Parts  \* what URIs are put together from

Without(s, token) == \A i \in 1 .. Len(s) : s[i] # token
Text(s, tokens)   == s \in Seq(Tokens) /\ \A token \in tokens : Without(s, token)

-----------------------------------------------------------------------------
(* The parts: how each is written, and what it means.                      *)

\* Nothing, a password, or a user and a password.
Auth(a) ==
  \/ a.text = <<>> /\ a.user = <<"default">> /\ a.password = <<>>
  \/ /\ Text(a.password, {":", "@"}) /\ a.user = <<"default">>
     /\ a.text = a.password \o <<"@">>
  \/ /\ Text(a.user, {":", "@"}) /\ Text(a.password, {"@"})
     /\ a.text = a.user \o <<":">> \o a.password \o <<"@">>

\* What follows the host and a colon.
PortText(p) == SubSeq(p.text, Len(p.host) + 2, Len(p.text))

\* A host, a host and a port, or a host and what is no port.
HostOnly(p) == p.right /\ p.text = p.host /\ p.port = 6379
HostPort(p) ==
  /\ p.right /\ p.text = p.host \o <<":">> \o PortText(p)
  /\ IsInt(PortText(p)) /\ p.port = Number(PortText(p))
HostElse(p) ==
  ~p.right /\ p.text = p.host \o <<":">> \o PortText(p) /\ ~IsInt(PortText(p))
TcpPlace(p) ==
  /\ p.type = "tcp" /\ p.path = <<>> /\ Text(p.host, {":"})
  /\ HostOnly(p) \/ HostPort(p) \/ HostElse(p)

\* The name of a socket.
UnixPlace(p) ==
  p.type = "unix" /\ p.right /\ p.host = <<>> /\ p.port = 6379 /\ p.path = p.text

Place(p) ==
  /\ Text(p.text, {"?", "@"}) /\ p.type \in Tokens \ {"://"}
  /\ \/ TcpPlace(p)
     \/ UnixPlace(p)
     \/ p.type # "tcp" /\ p.type # "unix" /\ ~p.right

\* What follows a slash.
DbText(d) == After(d.text, 1)
Db(d) ==
  \/ d.text = <<>> /\ d.db = 0
  \/ /\ d.text = <<"/">> \o DbText(d) /\ Text(DbText(d), {"/", "?", "@"})
     /\ IsInt(DbText(d)) /\ d.db = Number(DbText(d))

\* No number after the last slash: it would be the database.
Unnumbered(t) == RFind(t, "/") # 0 => ~IsInt(After(t, RFind(t, "/")))

\* The settings there are.
Switches == {[key |-> "keepAlive", text |-> <<"keep_alive">> \o <<"=">> \o <<w>>, value |-> (w = "true")] :
               w \in {"true", "false"}}
Amounts == {t \in (DOMAIN Numerals) \X (DOMAIN Units) : IsUlong(t)}
Timeouts(key, name) ==
  {[key |-> key, text |-> <<name>> \o <<"=">> \o t, value |-> Wrap(Numerals[t[1]] * Units[t[2]])] :
     t \in Amounts}
Settings ==
  Switches \cup Timeouts("connectTimeout", "connect_timeout")
           \cup Timeouts("socketTimeout", "socket_timeout")

\* Any texts may stand where settings are expected.
Parameters(texts) ==
  /\ texts \in Seq(Seq(Tokens))
  /\ \A i \in 1 .. Len(texts) : Text(texts[i], {"&", "?", "/", "@"})
  /\ texts # <<>> => texts[1] # <<>>

ASSUME PartsAssumption ==
  \A p \in Parts :
    /\ Auth(p.auth) /\ Place(p.place) /\ Db(p.db) /\ Parameters(p.parameters)
    /\ p.db.text = <<>> => Unnumbered(p.place.text)

-----------------------------------------------------------------------------
(* The whole.                                                              *)

Query(texts) ==
  LET upTo[n \in 0 .. Len(texts)] ==
        IF n = 0 THEN <<>>
        ELSE upTo[n - 1] \o <<IF n = 1 THEN "?" ELSE "&">> \o texts[n]
  IN  upTo[Len(texts)]

UriOf(p) ==
  <<p.place.type>> \o <<"://">> \o p.auth.text \o p.place.text \o p.db.text
  \o Query(p.parameters)

Sets(text, key) == \E s \in Settings : s.text = text /\ s.key = key

\* The last setting of an option is the one that counts.
Says(texts, key, value, default) ==
  \/ value = default /\ \A i \in 1 .. Len(texts) : ~Sets(texts[i], key)
  \/ \E i \in 1 .. Len(texts), s \in Settings :
       /\ s.text = texts[i] /\ s.key = key /\ s.value = value
       /\ \A j \in i + 1 .. Len(texts) : ~Sets(texts[j], key)

\* Refused are an unknown type, a port that begins with no int, and a text among
\* the settings that is none.
Accepted(p) ==
  p.place.right /\ \A i \in 1 .. Len(p.parameters) : \E s \in Settings : s.text = p.parameters[i]

Means(p, o) ==
  /\ o.valid
  /\ o.type = p.place.type /\ o.host = p.place.host /\ o.port = p.place.port /\ o.path = p.place.path
  /\ o.user = p.auth.user /\ o.password = p.auth.password /\ o.db = p.db.db
  /\ Says(p.parameters, "keepAlive", o.keepAlive, FALSE)
  /\ Says(p.parameters, "connectTimeout", o.connectTimeout, 0)
  /\ Says(p.parameters, "socketTimeout", o.socketTimeout, 0)

(* connection.cpp:35: the options a URI is parsed into are the ones it was   *)
(* put together from, and a URI makes no connection if its type is unknown,  *)
(* its port begins with no int, one of its settings is none, or there is no  *)
(* "://" in it.  All else is accepted, sense or not: the port is the number  *)
(* its text begins with, so is the database, and a host is any text without  *)
(* a colon.                                                                  *)
OptionsRight ==
  /\ \A p \in Parts : stage # "start" /\ uri = UriOf(p) =>
       IF Accepted(p) THEN stage # "failed" /\ Means(p, opts) ELSE stage = "failed"
  /\ Without(uri, "://") => stage \in {"start", "failed"}
=============================================================================
