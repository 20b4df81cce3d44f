--------------------------- MODULE ConnectionPool ---------------------------
(***************************************************************************)
(* ConnectionPool: threads fetch a connection (waiting while all are in    *)
(* use), use it and release it, as SafeConnection does, or create one      *)
(* outside the pool.  A pool may have a sentinel: it then asks it for the  *)
(* master whenever it makes a connection, and remembers the host it got.   *)
(*                                                                         *)
(* A section under _mutex is one action.  _cv.wait() is two: a thread that *)
(* waits gives up the mutex, and looks at the pool again once it has been  *)
(* woken, by notify_one(), by its timeout or spuriously, and has the mutex *)
(* back.  notify_one() is called after the mutex is released, and is an    *)
(* action of its own; so is what happens between unlock() and the next     *)
(* lock().  A connection is its host and whether it is good: neither       *)
(* broken nor idle for longer than connection_lifetime.                    *)
(***************************************************************************)
EXTENDS Naturals, Sequences, FiniteSets

CONSTANTS
  Threads,      \* the threads that use the pools
  Size,         \* ConnectionPoolOptions::size
  WaitTimeout,  \* is wait_timeout > 0?
  Lifetime,     \* is connection_lifetime > 0?
  Hosts,        \* the hosts that may be master
  Seconds       \* how a second pool may come to be: by "move", by "clone"

\* The constructor without a sentinel throws for a size of 0, the one with a
\* sentinel accepts it, and every fetch() then waits for ever.
ASSUME PoolAssumption ==
  /\ IsFiniteSet(Threads)
  /\ Size \in Nat \ {0}
  /\ WaitTimeout \in BOOLEAN /\ Lifetime \in BOOLEAN
  /\ Hosts # {} /\ "" \notin Hosts
  /\ Seconds \subseteq {"move", "clone"}

Pools       == {"first", "second"}
Connections == [good : BOOLEAN, host : Hosts]
None        == [good |-> FALSE, host |-> ""]  \* a connection moved from
Fresh(h)    == [good |-> TRUE, host |-> h]

VARIABLES
  master,    \* the master, according to the sentinel
  sentinel,  \* _sentinel of each pool: does it have one?
  opts,      \* _opts.host of each pool
  pool,      \* _pool of each pool: idle connections
  used,      \* _used_connections of each pool
  second,    \* "none", or how the second pool came to be
  pc,        \* where each thread is
  at,        \* the pool each thread uses, "first" while it uses none
  conn,      \* the connection it holds
  known      \* the copy of _opts.host made by fetch()

vars    == <<master, sentinel, opts, pool, used, second, pc, at, conn, known>>
shared  == <<sentinel, opts, pool, used, second>>

PCs == {"idle", "waiting", "woken", "timedOut", "check", "update", "using",
        "notify", "created"}

\* The constructors: with a sentinel the host given is forgotten.
Init ==
  /\ master = CHOOSE h \in Hosts : TRUE
  /\ \E s \in BOOLEAN :
       /\ sentinel = [p \in Pools |-> s /\ p = "first"]
       /\ opts = [p \in Pools |-> IF s \/ p # "first" THEN "" ELSE master]
  /\ pool = [p \in Pools |-> <<>>]
  /\ used = [p \in Pools |-> 0]
  /\ second = "none"
  /\ pc = [t \in Threads |-> "idle"]
  /\ at = [t \in Threads |-> "first"]
  /\ conn = [t \in Threads |-> None]
  /\ known = [t \in Threads |-> ""]

Live == IF second = "none" THEN {"first"} ELSE Pools

-----------------------------------------------------------------------------
(* fetch().                                                                *)

\* The call of an operation on the pool p.
Calls(t, p) ==
  /\ pc[t] = "idle" /\ p \in Live
  /\ at' = [at EXCEPT ![t] = p]

\* _fetch(): take the first idle connection, copy the options and leave the
\* mutex.
Take(t, p) ==
  /\ pool[p] # <<>>
  /\ conn' = [conn EXCEPT ![t] = Head(pool[p])]
  /\ pool' = [pool EXCEPT ![p] = Tail(@)]
  /\ known' = [known EXCEPT ![t] = opts[p]]
  /\ pc' = [pc EXCEPT ![t] = "check"]

FetchIdle(t, p) ==
  /\ Calls(t, p)
  /\ Take(t, p)
  /\ UNCHANGED <<master, sentinel, opts, used, second>>

\* The host that _create() connects to: a pool that was moved has lost the
\* name of its host, and its connections fail.
Target(p) == IF sentinel[p] THEN master ELSE opts[p]

\* The operation ends.
Leave(t) ==
  /\ pc' = [pc EXCEPT ![t] = "idle"]
  /\ at' = [at EXCEPT ![t] = "first"]

\* Mutant: the number of connections is not limited.
FetchNewUnlimited(t, p) ==
  /\ Calls(t, p) /\ pool[p] = <<>> /\ Target(p) \in Hosts
  /\ used' = [used EXCEPT ![p] = @ + 1]
  /\ conn' = [conn EXCEPT ![t] = Fresh(Target(p))]
  /\ opts' = [opts EXCEPT ![p] = Target(p)]
  /\ pc' = [pc EXCEPT ![t] = "using"]
  /\ UNCHANGED <<master, sentinel, pool, second, known>>

\* Mutant: a new connection is not counted.
FetchNewUncounted(t, p) ==
  /\ Calls(t, p) /\ pool[p] = <<>> /\ used[p] # Size /\ Target(p) \in Hosts
  /\ conn' = [conn EXCEPT ![t] = Fresh(Target(p))]
  /\ opts' = [opts EXCEPT ![p] = Target(p)]
  /\ pc' = [pc EXCEPT ![t] = "using"]
  /\ UNCHANGED <<master, sentinel, pool, used, second, known>>

\* _create(), with the mutex: the connection is made and counted, and with a
\* sentinel the options follow its host.  (If it throws nothing has changed.)
FetchNew(t, p) ==
  /\ Calls(t, p)
  /\ pool[p] = <<>> /\ used[p] # Size
  /\ Target(p) \in Hosts
  /\ used' = [used EXCEPT ![p] = @ + 1]
  /\ conn' = [conn EXCEPT ![t] = Fresh(Target(p))]
  /\ opts' = [opts EXCEPT ![p] = Target(p)]
  /\ pc' = [pc EXCEPT ![t] = "using"]
  /\ UNCHANGED <<master, sentinel, pool, second, known>>

FetchWait(t, p) ==
  /\ Calls(t, p)
  /\ pool[p] = <<>> /\ used[p] = Size
  /\ pc' = [pc EXCEPT ![t] = "waiting"]
  /\ UNCHANGED <<master, shared, conn, known>>

\* A waiting thread is woken by something else than notify_one().
WakeUp(t) ==
  /\ pc[t] = "waiting"
  /\ \/ pc' = [pc EXCEPT ![t] = "woken"]
     \/ WaitTimeout /\ pc' = [pc EXCEPT ![t] = "timedOut"]
  /\ UNCHANGED <<master, shared, at, conn, known>>

\* _wait_for_connection() has the mutex back: the predicate decides.
Resume(t) ==
  /\ pc[t] \in {"woken", "timedOut"}
  /\ \/ Take(t, at[t]) /\ UNCHANGED at
     \/ /\ pool[at[t]] = <<>> /\ pc[t] = "woken"
        /\ pc' = [pc EXCEPT ![t] = "waiting"]
        /\ UNCHANGED <<pool, conn, known, at>>
     \/ /\ pool[at[t]] = <<>> /\ pc[t] = "timedOut"
        /\ Leave(t)
        /\ UNCHANGED <<pool, conn, known>>
  /\ UNCHANGED <<master, sentinel, opts, used, second>>

\* Mutant: nobody is notified.
ReleaseSilently(t) ==
  /\ pool' = [pool EXCEPT ![at[t]] = Append(@, conn[t])]
  /\ pc' = [pc EXCEPT ![t] = "idle"]
  /\ conn' = [conn EXCEPT ![t] = None]
  /\ known' = [known EXCEPT ![t] = ""]

\* release(): the connection is moved to the end of the pool, the mutex is
\* released, and notify_one() still to be called.
Release(t) ==
  /\ pool' = [pool EXCEPT ![at[t]] = Append(@, conn[t])]
  /\ pc' = [pc EXCEPT ![t] = "notify"]
  /\ conn' = [conn EXCEPT ![t] = None]
  /\ known' = [known EXCEPT ![t] = ""]

RoleChanged(t) == sentinel[at[t]] /\ conn[t].host # known[t]

\* Mutant: only a change of the master is noticed.
NeedsNewRole(t) == RoleChanged(t)

\* _need_reconnect(), and with a sentinel _role_changed().
NeedsNew(t) == ~conn[t].good \/ RoleChanged(t)

\* The rest of fetch(), without the mutex: a good connection is handed out.
HandOut(t) ==
  /\ pc[t] = "check" /\ ~NeedsNew(t)
  /\ pc' = [pc EXCEPT ![t] = "using"]
  /\ known' = [known EXCEPT ![t] = ""]
  /\ UNCHANGED <<master, shared, at, conn>>

\* Mutant: a connection that cannot be replaced is lost.
ReplaceLoses(t) ==
  /\ pc[t] = "check" /\ NeedsNew(t)
  /\ Leave(t)
  /\ conn' = [conn EXCEPT ![t] = None]
  /\ known' = [known EXCEPT ![t] = ""]
  /\ UNCHANGED <<master, shared>>

\* Otherwise it is reconnected to its host or, with a sentinel, replaced by a
\* connection to the master; if that fails it goes back to the pool.
Replace(t) ==
  /\ pc[t] = "check" /\ NeedsNew(t)
  /\ \/ /\ ~sentinel[at[t]]
        /\ conn' = [conn EXCEPT ![t].good = TRUE]
        /\ pc' = [pc EXCEPT ![t] = "using"]
        /\ known' = [known EXCEPT ![t] = ""]
        /\ UNCHANGED pool
     \/ /\ sentinel[at[t]]
        /\ conn' = [conn EXCEPT ![t] = Fresh(master)]
        /\ pc' = [pc EXCEPT ![t] = "update"]
        /\ known' = [known EXCEPT ![t] = ""]
        /\ UNCHANGED pool
     \/ Release(t)
  /\ UNCHANGED <<master, sentinel, opts, used, second, at>>

-----------------------------------------------------------------------------
(* create(), clone() and moves.                                            *)

\* create() without a sentinel leaves nothing behind.  With one it releases
\* the mutex and gets a connection to the master, or throws.
Create(t, p) ==
  /\ Calls(t, p) /\ sentinel[p]
  /\ conn' = [conn EXCEPT ![t] = Fresh(master)]
  /\ pc' = [pc EXCEPT ![t] = "created"]
  /\ UNCHANGED <<master, shared, known>>

\* _create() without the mutex takes it again to note the host.  By then the
\* host may be the master of before: the next fetch() will find out.
UpdateOpts(t) ==
  /\ pc[t] \in {"update", "created"}
  /\ opts' = [opts EXCEPT ![at[t]] = conn[t].host]
  /\ IF pc[t] = "update"
     THEN pc' = [pc EXCEPT ![t] = "using"] /\ UNCHANGED <<at, conn>>
     ELSE Leave(t) /\ conn' = [conn EXCEPT ![t] = None]
  /\ UNCHANGED <<master, sentinel, pool, used, second, known>>

\* clone(): an empty pool of the same options.
Clone ==
  /\ "clone" \in Seconds /\ second = "none"
  /\ second' = "cloned"
  /\ sentinel' = [sentinel EXCEPT !["second"] = sentinel["first"]]
  /\ opts' = [opts EXCEPT !["second"] = IF sentinel["first"] THEN "" ELSE opts["first"]]
  /\ UNCHANGED <<master, pool, used, pc, at, conn, known>>

\* The move constructor, and the move assignment to a new pool: _move() takes
\* everything but the count, which it copies.
Move ==
  /\ "move" \in Seconds /\ second = "none"
  /\ second' = "moved"
  /\ sentinel' = [sentinel EXCEPT !["first"] = FALSE, !["second"] = sentinel["first"]]
  /\ opts' = [opts EXCEPT !["first"] = "", !["second"] = opts["first"]]
  /\ pool' = [pool EXCEPT !["first"] = <<>>, !["second"] = pool["first"]]
  /\ used' = [used EXCEPT !["second"] = used["first"]]
  /\ UNCHANGED <<master, pc, at, conn, known>>

-----------------------------------------------------------------------------
(* The use of a connection and release().                                  *)

\* An I/O error marks the connection as broken.
Break(t) ==
  /\ pc[t] = "using" /\ conn[t].good
  /\ conn' = [conn EXCEPT ![t].good = FALSE]
  /\ UNCHANGED <<master, shared, pc, at, known>>

\* ~SafeConnection(), and ~GuardedConnection() unless it was moved.
EndUse(t) ==
  /\ pc[t] = "using"
  /\ Release(t)
  /\ UNCHANGED <<master, sentinel, opts, used, second, at>>

\* notify_one(): one waiting thread, if there is one, is woken.
Notify(t) ==
  /\ pc[t] = "notify"
  /\ LET waiting == {w \in Threads : pc[w] = "waiting" /\ at[w] = at[t]}
     IN  IF waiting = {}
         THEN pc' = [pc EXCEPT ![t] = "idle"]
         ELSE \E w \in waiting : pc' = [pc EXCEPT ![t] = "idle", ![w] = "woken"]
  /\ at' = [at EXCEPT ![t] = "first"]
  /\ UNCHANGED <<master, shared, conn, known>>

\* An idle connection is not used for connection_lifetime.
Expire(p) ==
  /\ Lifetime
  /\ \E i \in DOMAIN pool[p] :
       /\ pool[p][i].good
       /\ pool' = [pool EXCEPT ![p][i].good = FALSE]
  /\ UNCHANGED <<master, sentinel, opts, used, second, pc, at, conn, known>>

\* The sentinels promote another host.
Failover ==
  /\ \E p \in Pools : sentinel[p]
  /\ master' \in Hosts \ {master}
  /\ UNCHANGED <<shared, pc, at, conn, known>>

\* The application calls an operation.
Start(t) ==
  \E p \in Pools : FetchIdle(t, p) \/ FetchNew(t, p) \/ FetchWait(t, p) \/ Create(t, p)

\* A thread goes on with what it has begun.
GoOn(t) ==
  \/ Resume(t) \/ HandOut(t) \/ Replace(t) \/ UpdateOpts(t)
  \/ EndUse(t) \/ Notify(t)

Next ==
  \/ \E t \in Threads : Start(t) \/ GoOn(t) \/ WakeUp(t) \/ Break(t)
  \/ \E p \in Pools : Expire(p)
  \/ Clone \/ Move \/ Failover

Spec == Init /\ [][Next]_vars

\* Every thread goes on, and gives back the connection it uses.  Nobody has to
\* call anything, or to wake up without a reason.
FairSpec == Spec /\ \A t \in Threads : WF_vars(GoOn(t))

-----------------------------------------------------------------------------
(* Properties.                                                             *)

TypeOK ==
  /\ master \in Hosts
  /\ sentinel \in [Pools -> BOOLEAN]
  /\ opts \in [Pools -> Hosts \cup {""}]
  /\ pool \in [Pools -> Seq(Connections)]
  /\ used \in [Pools -> 0 .. Size]
  /\ second \in {"none", "moved", "cloned"}
  /\ pc \in [Threads -> PCs]
  /\ at \in [Threads -> Pools]
  /\ conn \in [Threads -> Connections \cup {None}]
  /\ known \in [Threads -> Hosts \cup {""}]
  /\ \A t \in Threads : conn[t] = None <=> pc[t] \notin {"check", "update", "using", "created"}

Those(p, pcs) == {t \in Threads : pc[t] \in pcs /\ at[t] = p}

Held(p)    == Those(p, {"check", "update", "using"})
Waiting(p) == Those(p, {"waiting"})
Waking(p)  == Those(p, {"woken", "timedOut", "notify"})

(* connectionpool.h:29 "Max number of connections, including both in-use    *)
(* and idle ones": idle and in-use connections of a pool are all counted,   *)
(* and at most Size; as long as the pool is not moved none is lost.         *)
WithinSize ==
  \A p \in Pools :
    /\ Len(pool[p]) + Cardinality(Held(p)) <= used[p]
    /\ used[p] <= Size
    /\ second # "moved" => Len(pool[p]) + Cardinality(Held(p)) = used[p]

(* While a thread waits, every idle connection has a thread of its own that *)
(* is on its way to look at the pool or to wake another.                    *)
NoLostWakeup ==
  \A p \in Pools :
    Waiting(p) # {} => Len(pool[p]) <= Cardinality(Waking(p))

(* connectionpool.h:114: fetch() returns no broken connection, nor one that *)
(* has outlived its lifetime; and, connectionpool.cpp:216 "Master/Slave has *)
(* been changed, reconnect all connections", an idle connection that is     *)
(* handed out as it is leads to the host the pool knew when it was taken.   *)
HandsOutGood ==
  [][\A t \in Threads :
       pc[t] # "using" /\ pc'[t] = "using" =>
         /\ conn'[t].good
         /\ pc[t] = "check" /\ sentinel[at[t]] => conn'[t].host = known[t]]_vars

(* If the threads at last call nothing new, then none waits for ever,       *)
(* unless the pool was moved.  (While others go on calling they may overtake *)
(* it: a condition variable is not a queue.)                                *)
WaitEnds ==
  <>[][\A t \in Threads : ~Start(t)]_vars =>
    []<>(second = "moved" \/ \A t \in Threads : pc[t] \notin {"waiting", "woken", "timedOut"})
=============================================================================
