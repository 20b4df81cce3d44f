------------------------ MODULE ConnectionPoolProofs ------------------------
(***************************************************************************)
(* Proofs about ConnectionPool, for any number of threads and connections: *)
(* its types, the size of the pool, and that no wake-up is lost.           *)
(***************************************************************************)
EXTENDS ConnectionPool, FiniteSetTheorems, SequenceTheorems, TLAPS

Handled == {"check", "update", "using"}
Waited  == {"waiting"}
Looking == {"woken", "timedOut", "notify"}

(* The threads at one of pcs that use pool p, where f says where each       *)
(* thread is and g which pool it uses.                                      *)
In(f, g, p, pcs)    == {u \in Threads : f[u] \in pcs /\ g[u] = p}
Count(f, g, p, pcs) == Cardinality(In(f, g, p, pcs))
One(c, q, p, pcs)   == IF c \in pcs /\ q = p THEN 1 ELSE 0

LEMMA SizeType == Size \in Nat /\ Size > 0
PROOF
  <1>1. Size \in Nat \ {0}
    BY PoolAssumption, Zenon DEF PoolAssumption
  <1> QED
    BY ONLY <1>1

LEMMA CountType ==
  ASSUME NEW f, NEW g, NEW p, NEW pcs
  PROVE  /\ IsFiniteSet(In(f, g, p, pcs))
         /\ Count(f, g, p, pcs) \in Nat
         /\ Count(f, g, p, pcs) = 0 <=> In(f, g, p, pcs) = {}
PROOF
  <1>1. In(f, g, p, pcs) \in SUBSET Threads
    BY DEF In
  <1>2. IsFiniteSet(In(f, g, p, pcs))
    BY <1>1, PoolAssumption, FS_Subset DEF PoolAssumption
  <1> QED
    BY <1>2, FS_CardinalityType, FS_EmptySet DEF Count

Moved(f, f2, g, g2, t) == \A u \in Threads \ {t} : f2[u] = f[u] /\ g2[u] = g[u]

(* One thread goes somewhere else: it is counted there and no longer here.  *)
LEMMA OneMoves ==
  ASSUME NEW f, NEW g, NEW f2, NEW g2, NEW t \in Threads, NEW c, NEW q, NEW p, NEW pcs,
         Moved(f, f2, g, g2, t), f2[t] = c, g2[t] = q
  PROVE  Count(f2, g2, p, pcs)
           = Count(f, g, p, pcs) - One(f[t], g[t], p, pcs) + One(c, q, p, pcs)
PROOF
  <1> DEFINE old  == In(f, g, p, pcs)
             left == old \ {t}
             new  == In(f2, g2, p, pcs)
  <1>1. t \in old <=> (f[t] \in pcs /\ g[t] = p)
    BY DEF In
  <1>2. new = IF c \in pcs /\ q = p THEN left \cup {t} ELSE left
    BY DEF In, Moved
  <1>3. IsFiniteSet(old) /\ Cardinality(old) \in Nat
    BY CountType DEF Count
  <1>4. t \notin left
    OBVIOUS
  <1> HIDE DEF old, left, new
  <1>5. IsFiniteSet(left) /\ Cardinality(left) = Cardinality(old) - One(f[t], g[t], p, pcs)
    BY <1>1, <1>3, FS_RemoveElement, SMTT(30) DEF left, One
  <1>6. Cardinality(left \cup {t}) = Cardinality(left) + 1
    BY <1>4, <1>5, FS_AddElement
  <1>7. Cardinality(new) = Cardinality(left) + One(c, q, p, pcs)
    <2>1. CASE c \in pcs /\ q = p
      BY <2>1, <1>2, <1>6 DEF One
    <2>2. CASE ~(c \in pcs /\ q = p)
      <3>1. Cardinality(left) \in Nat
        BY <1>5, FS_CardinalityType
      <3> QED
        BY <2>2, <1>2, <3>1 DEF One
    <2> QED
      BY <2>1, <2>2
  <1> QED
    BY <1>1, <1>5, <1>7 DEF Count, old, new

-----------------------------------------------------------------------------
(* The inductive invariant.                                                *)

(* Before there is a second pool nothing uses it.                           *)
Unborn ==
  second = "none" =>
    /\ pool["second"] = <<>> /\ used["second"] = 0
    /\ \A t \in Threads : at[t] = "first"

(* WithinSize and NoLostWakeup of the pool p, in numbers.                   *)
Fits(p) ==
  LET len     == Len(pool[p])
      held    == Count(pc, at, p, Handled)
      waiting == Count(pc, at, p, Waited)
      looking == Count(pc, at, p, Looking)
  IN  /\ len + held <= used[p]
      /\ second # "moved" => len + held = used[p]
      /\ waiting > 0 => len <= looking

IInv == TypeOK /\ Unborn /\ \A p \in Pools : Fits(p)

LEMMA FitsMeans ==
  ASSUME IInv
  PROVE  WithinSize /\ NoLostWakeup
PROOF
  <1> SUFFICES ASSUME NEW p \in Pools
               PROVE  /\ Len(pool[p]) + Cardinality(Held(p)) <= used[p]
                      /\ used[p] <= Size
                      /\ second # "moved" => Len(pool[p]) + Cardinality(Held(p)) = used[p]
                      /\ Waiting(p) # {} => Len(pool[p]) <= Cardinality(Waking(p))
    BY DEF WithinSize, NoLostWakeup
  <1>1. /\ Cardinality(Held(p)) = Count(pc, at, p, Handled)
        /\ Waiting(p) = In(pc, at, p, Waited)
        /\ Cardinality(Waking(p)) = Count(pc, at, p, Looking)
    BY DEF Held, Waiting, Waking, Those, Count, In, Handled, Waited, Looking
  <1>2. Fits(p)
    BY DEF IInv
  <1>4. used[p] \in 0 .. Size
    BY DEF IInv, TypeOK
  <1>5. used[p] <= Size
    BY <1>4, SizeType
  <1>3. Waiting(p) # {} => Count(pc, at, p, Waited) > 0
    BY <1>1, CountType
  <1> QED
    BY <1>1, <1>2, <1>3, <1>5 DEF Fits

LEMMA InitInv == Init => IInv
PROOF
  <1> SUFFICES ASSUME Init PROVE IInv
    OBVIOUS
  <1>1. TypeOK
    <2>1. master \in Hosts
      BY PoolAssumption DEF Init, PoolAssumption
    <2>2. <<>> \in Seq(Connections)
      OBVIOUS
    <2>3. 0 \in 0 .. Size
      BY SizeType
    <2> QED
      BY <2>1, <2>2, <2>3 DEF Init, TypeOK, Pools, PCs
  <1>2. Unborn
    BY DEF Init, Unborn, Pools
  <1>3. ASSUME NEW p \in Pools PROVE Fits(p)
    <2>1. In(pc, at, p, Handled) = {} /\ In(pc, at, p, Waited) = {}
      BY DEF Init, In, Handled, Waited
    <2>2. Count(pc, at, p, Handled) = 0 /\ Count(pc, at, p, Waited) = 0
      BY <2>1, CountType
    <2>3. Len(pool[p]) = 0 /\ used[p] = 0
      BY DEF Init
    <2> QED
      BY <2>2, <2>3 DEF Fits
  <1> QED
    BY <1>1, <1>2, <1>3 DEF IInv

-----------------------------------------------------------------------------
(* What one thread does.                                                   *)

LEMMA ConnectionFacts ==
  /\ None \notin Connections
  /\ \A h \in Hosts : Fresh(h) \in Connections
PROOF BY PoolAssumption DEF PoolAssumption, None, Connections, Fresh

(* One thread t goes to c, with the connection d and the copy k.            *)
LEMMA ThreadType ==
  ASSUME TypeOK, NEW t \in Threads, NEW c \in PCs, NEW q \in Pools,
         NEW d \in Connections \cup {None}, NEW k \in Hosts \cup {""},
         d = None <=> c \notin {"check", "update", "using", "created"},
         master' \in Hosts, sentinel' \in [Pools -> BOOLEAN],
         opts' \in [Pools -> Hosts \cup {""}], pool' \in [Pools -> Seq(Connections)],
         used' \in [Pools -> 0 .. Size], second' \in {"none", "moved", "cloned"},
         pc' = [pc EXCEPT ![t] = c], at' = [at EXCEPT ![t] = q],
         conn' = [conn EXCEPT ![t] = d], known' = [known EXCEPT ![t] = k]
  PROVE  TypeOK'
PROOF
  <1>1. pc' \in [Threads -> PCs] /\ at' \in [Threads -> Pools]
    BY DEF TypeOK
  <1>2. conn' \in [Threads -> Connections \cup {None}]
    BY DEF TypeOK
  <1>3. known' \in [Threads -> Hosts \cup {""}]
    BY DEF TypeOK
  <1>4. \A u \in Threads : conn'[u] = None <=> pc'[u] \notin {"check", "update", "using", "created"}
    BY DEF TypeOK
  <1> QED
    BY <1>1, <1>2, <1>3, <1>4 DEF TypeOK

(* By how much the count of the threads at pcs in pool p grows when the     *)
(* thread t goes to c in pool q.                                            *)
Gain(t, c, q, p, pcs) == One(c, q, p, pcs) - One(pc[t], at[t], p, pcs)

LEMMA OneType ==
  ASSUME NEW c, NEW q, NEW p, NEW pcs
  PROVE  One(c, q, p, pcs) \in 0 .. 1 /\ One(c, q, p, pcs) \in Int
PROOF BY DEF One

(* What t is not counted for before it cannot get less.                     *)
LEMMA GainBounds ==
  ASSUME NEW t, NEW c, NEW q, NEW p, NEW pcs
  PROVE  /\ One(c, q, p, pcs) = One(pc[t], at[t], p, pcs) => Gain(t, c, q, p, pcs) = 0
         /\ One(pc[t], at[t], p, pcs) = 0 => 0 <= Gain(t, c, q, p, pcs)
         /\ Gain(t, c, q, p, pcs) \in Int
PROOF
  <1>1. One(c, q, p, pcs) \in 0 .. 1 /\ One(pc[t], at[t], p, pcs) \in 0 .. 1
    BY OneType
  <1> QED
    BY <1>1 DEF Gain

LEMMA Gains ==
  ASSUME TypeOK, NEW t \in Threads, NEW c, NEW q, NEW p, NEW pcs,
         pc' = [pc EXCEPT ![t] = c], at' = [at EXCEPT ![t] = q]
  PROVE  /\ Count(pc', at', p, pcs) = Count(pc, at, p, pcs) + Gain(t, c, q, p, pcs)
         /\ Count(pc, at, p, pcs) \in Nat /\ Gain(t, c, q, p, pcs) \in Int
PROOF
  <1>1. /\ Moved(pc, pc', at, at', t)
        /\ pc'[t] = c /\ at'[t] = q
    BY DEF TypeOK, Moved
  <1>2. Count(pc', at', p, pcs) = Count(pc, at, p, pcs) - One(pc[t], at[t], p, pcs) + One(c, q, p, pcs)
    <2>1. \A f2, g2 : Moved(pc, f2, at, g2, t) /\ f2[t] = c /\ g2[t] = q
            => Count(f2, g2, p, pcs) = Count(pc, at, p, pcs) - One(pc[t], at[t], p, pcs) + One(c, q, p, pcs)
      BY OneMoves
    <2> QED
      BY <1>1, <2>1
  <1>3. Count(pc, at, p, pcs) \in Nat
    BY CountType
  <1>4. One(pc[t], at[t], p, pcs) \in 0 .. 1 /\ One(c, q, p, pcs) \in 0 .. 1
    BY DEF One
  <1> HIDE DEF One
  <1> QED
    BY <1>2, <1>3, <1>4 DEF Gain

(* The connections that t takes from the pool p or gives back are counted,  *)
(* and somebody looks after those it leaves there.                          *)
Counted(t, c, q, p) ==
  /\ Len(pool'[p]) - Len(pool[p]) + Gain(t, c, q, p, Handled) = used'[p] - used[p]
  /\ \/ Len(pool'[p]) = 0
     \/ Count(pc', at', p, Waited) = 0
     \/ /\ c # "waiting" \/ q # p
        /\ Len(pool'[p]) - Len(pool[p]) <= Gain(t, c, q, p, Looking)

LEMMA GoFits ==
  ASSUME TypeOK, NEW t \in Threads, NEW c, NEW q, NEW p \in Pools,
         pc' = [pc EXCEPT ![t] = c], at' = [at EXCEPT ![t] = q],
         second' = second, Fits(p),
         pool' \in [Pools -> Seq(Connections)], used' \in [Pools -> 0 .. Size],
         Counted(t, c, q, p)
  PROVE  Fits(p)'
PROOF
  <1> DEFINE held == Count(pc, at, p, Handled)
             waiting == Count(pc, at, p, Waited)
             looking == Count(pc, at, p, Looking)
             held2 == Count(pc', at', p, Handled)
             waiting2 == Count(pc', at', p, Waited)
             looking2 == Count(pc', at', p, Looking)
             gh == Gain(t, c, q, p, Handled)
             gw == Gain(t, c, q, p, Waited)
             gl == Gain(t, c, q, p, Looking)
  <1>12. ASSUME NEW pcs
         PROVE  /\ Count(pc, at, p, pcs) \in Nat /\ Gain(t, c, q, p, pcs) \in Int
                /\ Count(pc', at', p, pcs) = Count(pc, at, p, pcs) + Gain(t, c, q, p, pcs)
    BY Gains, ZenonT(60)
  <1>1. held \in Nat /\ gh \in Int /\ held2 = held + gh
    BY ONLY <1>12, Zenon
  <1>2. waiting \in Nat /\ gw \in Int /\ waiting2 = waiting + gw
    BY ONLY <1>12, Zenon
  <1>11. looking \in Nat /\ gl \in Int /\ looking2 = looking + gl
    BY ONLY <1>12, Zenon
  <1>3. looking2 \in Nat /\ waiting2 \in Nat
    BY CountType
  <1>4. c # "waiting" \/ q # p => gw <= 0
    BY DEF Gain, One, Waited
  <1>5. Len(pool[p]) \in Nat /\ Len(pool'[p]) \in Nat
    <2>1. pool[p] \in Seq(Connections) /\ pool'[p] \in Seq(Connections)
      BY DEF TypeOK
    <2> QED
      BY <2>1, LenProperties
  <1>6. used[p] \in Nat /\ used'[p] \in Nat
    <2>1. used[p] \in 0 .. Size /\ used'[p] \in 0 .. Size
      BY DEF TypeOK
    <2> QED
      BY <2>1, SizeType
  <1>7. /\ Len(pool[p]) + held <= used[p]
        /\ second # "moved" => Len(pool[p]) + held = used[p]
        /\ waiting > 0 => Len(pool[p]) <= looking
    BY DEF Fits
  <1>13. Len(pool'[p]) - Len(pool[p]) + gh = used'[p] - used[p]
    BY DEF Counted
  <1> HIDE DEF held, waiting, looking, held2, waiting2, looking2, gh, gw, gl
  <1>14. PICK l1 \in Nat, l2 \in Nat, u1 \in Nat, u2 \in Nat, h \in Nat, g \in Int :
           /\ l1 = Len(pool[p]) /\ l2 = Len(pool'[p]) /\ u1 = used[p] /\ u2 = used'[p]
           /\ h = held /\ g = gh
    BY <1>1, <1>5, <1>6, Zenon
  <1>15. held2 = h + g /\ l2 - l1 + g = u2 - u1
    BY <1>1, <1>13, <1>14, Zenon
  <1>8. Len(pool'[p]) + held2 <= used'[p]
    <2>1. l1 + h <= u1
      BY <1>7, <1>14, Zenon
    <2>2. l2 + (h + g) <= u2
      BY <1>15, <2>1
    <2> QED
      BY <1>14, <1>15, <2>2, Zenon
  <1>9. second # "moved" => Len(pool'[p]) + held2 = used'[p]
    <2>1. second # "moved" => l1 + h = u1
      BY <1>7, <1>14, Zenon
    <2>2. l1 + h = u1 => l2 + (h + g) = u2
      BY <1>15
    <2> QED
      BY <1>14, <1>15, <2>1, <2>2, Zenon
  <1>10. waiting2 > 0 => Len(pool'[p]) <= looking2
    BY <1>1, <1>2, <1>11, <1>3, <1>4, <1>5, <1>7 DEF gl, waiting2, Counted
  <1> QED
    BY <1>8, <1>9, <1>10 DEF Fits, held2, waiting2, looking2

(* A step of one thread keeps the invariant.                                *)
LEMMA Go ==
  ASSUME IInv, NEW t \in Threads, NEW c \in PCs, NEW q \in Pools,
         NEW d \in Connections \cup {None}, NEW k \in Hosts \cup {""},
         d = None <=> c \notin {"check", "update", "using", "created"},
         master' \in Hosts, sentinel' = sentinel, second' = second,
         opts' \in [Pools -> Hosts \cup {""}],
         pool' \in [Pools -> Seq(Connections)], used' \in [Pools -> 0 .. Size],
         pc' = [pc EXCEPT ![t] = c], at' = [at EXCEPT ![t] = q],
         conn' = [conn EXCEPT ![t] = d], known' = [known EXCEPT ![t] = k],
         second = "none" => /\ q = "first" /\ pool'["second"] = pool["second"]
                            /\ used'["second"] = used["second"],
         \A p \in Pools : Counted(t, c, q, p)
  PROVE  IInv'
PROOF
  <1>1. TypeOK'
    <2>1. sentinel' \in [Pools -> BOOLEAN]
      BY DEF IInv, TypeOK
    <2>2. second' \in {"none", "moved", "cloned"}
      BY DEF IInv, TypeOK
    <2> QED
      BY <2>1, <2>2, ThreadType DEF IInv
  <1>2. Unborn'
    <2>1. at \in [Threads -> Pools]
      BY DEF IInv, TypeOK
    <2> QED
      BY <2>1 DEF IInv, Unborn
  <1>3. ASSUME NEW p \in Pools PROVE Fits(p)'
    BY GoFits DEF IInv
  <1> QED
    BY <1>1, <1>2, <1>3 DEF IInv

-----------------------------------------------------------------------------
(* The actions.                                                            *)

LEMMA PoolFacts ==
  ASSUME IInv, NEW p \in Pools
  PROVE  /\ pool[p] \in Seq(Connections) /\ Len(pool[p]) \in Nat
         /\ used[p] \in 0 .. Size /\ used[p] \in Nat
PROOF
  <1>1. pool[p] \in Seq(Connections) /\ used[p] \in 0 .. Size
    BY DEF IInv, TypeOK
  <1> QED
    BY <1>1, LenProperties, SizeType

(* The pool that a call may use.                                            *)
LEMMA CallsFirst ==
  ASSUME NEW t, NEW p, Calls(t, p)
  PROVE  p \in Pools /\ (second = "none" => p = "first") /\ pc[t] = "idle"
PROOF BY DEF Calls, Live, Pools

LEMMA TakeInv ==
  ASSUME IInv, NEW t \in Threads, NEW p \in Pools, Take(t, p),
         at' = [at EXCEPT ![t] = p],
         pc[t] = "idle" \/ (pc[t] \in {"woken", "timedOut"} /\ at[t] = p),
         second = "none" => p = "first",
         UNCHANGED <<master, sentinel, opts, used, second>>
  PROVE  IInv'
PROOF
  <1>1. pool[p] \in Seq(Connections) /\ pool[p] # <<>>
    BY PoolFacts DEF Take
  <1>2. /\ Head(pool[p]) \in Connections /\ Tail(pool[p]) \in Seq(Connections)
        /\ Len(Tail(pool[p])) = Len(pool[p]) - 1
    BY <1>1, HeadTailProperties
  <1>3. pool' = [pool EXCEPT ![p] = Tail(pool[p])] /\ used' = used
    BY DEF Take
  <1>4. pool \in [Pools -> Seq(Connections)] /\ used \in [Pools -> 0 .. Size]
    BY DEF IInv, TypeOK
  <1>5. pool' \in [Pools -> Seq(Connections)] /\ used' \in [Pools -> 0 .. Size]
    BY <1>2, <1>3, <1>4
  <1>6. second = "none" => pool'["second"] = pool["second"] /\ used'["second"] = used["second"]
    BY <1>3, <1>4 DEF Pools
  <1>7. /\ pc' = [pc EXCEPT ![t] = "check"]
        /\ conn' = [conn EXCEPT ![t] = Head(pool[p])]
        /\ known' = [known EXCEPT ![t] = opts[p]]
    BY DEF Take
  <1>8. opts[p] \in Hosts \cup {""} /\ opts' \in [Pools -> Hosts \cup {""}] /\ master' \in Hosts
    BY DEF IInv, TypeOK
  <1>9. ASSUME NEW r \in Pools PROVE Counted(t, "check", p, r)
    <2>1. Len(pool[r]) \in Nat /\ used[r] \in Nat
      BY PoolFacts
    <2>2. CASE r = p
      <3>1. Len(pool'[r]) = Len(pool[r]) - 1
        BY <2>2, <1>2, <1>3, <1>4
      <3>2. Gain(t, "check", p, r, Handled) = 1
        BY <2>2 DEF Gain, One, Handled
      <3>3. Gain(t, "check", p, r, Looking) \in -1 .. 0
        BY <2>2 DEF Gain, One, Looking
      <3>4. used'[r] = used[r]
        BY <1>3
      <3> QED
        BY <3>1, <3>2, <3>3, <3>4, <2>1 DEF Counted
    <2>3. CASE r # p
      <3>1. pool'[r] = pool[r]
        BY <2>3, <1>3, <1>4
      <3> QED
        BY <3>1, <2>1, <2>3, <1>3 DEF Counted, Gain, One, Handled, Looking
    <2> QED
      BY <2>2, <2>3
  <1>10. Head(pool[p]) # None
    BY <1>2, ConnectionFacts
  <1> QED
    BY <1>2, <1>5, <1>6, <1>7, <1>8, <1>9, <1>10, Go DEF PCs

LEMMA ReleaseInv ==
  ASSUME IInv, NEW t \in Threads, Release(t), pc[t] \in {"using", "check"},
         UNCHANGED <<master, sentinel, opts, used, second, at>>
  PROVE  IInv'
PROOF
  <1> DEFINE p == at[t]
  <1>0. p \in Pools /\ (second = "none" => p = "first") /\ at' = [at EXCEPT ![t] = p]
    BY DEF IInv, TypeOK, Unborn
  <1>1. pool[p] \in Seq(Connections) /\ Len(pool[p]) \in Nat
    BY <1>0, PoolFacts
  <1>2. conn[t] \in Connections
    BY DEF IInv, TypeOK
  <1> HIDE DEF p
  <1>3. Append(pool[p], conn[t]) \in Seq(Connections) /\ Len(Append(pool[p], conn[t])) = Len(pool[p]) + 1
    BY <1>1, <1>2
  <1>4. pool' = [pool EXCEPT ![p] = Append(pool[p], conn[t])] /\ used' = used
    BY DEF Release, p
  <1>5. pool \in [Pools -> Seq(Connections)] /\ used \in [Pools -> 0 .. Size]
    BY DEF IInv, TypeOK
  <1>6. pool' \in [Pools -> Seq(Connections)] /\ used' \in [Pools -> 0 .. Size]
    BY <1>0, <1>3, <1>4, <1>5
  <1>7. second = "none" => pool'["second"] = pool["second"] /\ used'["second"] = used["second"]
    BY <1>0, <1>4, <1>5 DEF Pools
  <1>8. /\ pc' = [pc EXCEPT ![t] = "notify"]
        /\ conn' = [conn EXCEPT ![t] = None]
        /\ known' = [known EXCEPT ![t] = ""]
    BY DEF Release
  <1>9. opts' \in [Pools -> Hosts \cup {""}] /\ master' \in Hosts
    BY DEF IInv, TypeOK
  <1>10. ASSUME NEW r \in Pools PROVE Counted(t, "notify", p, r)
    <2>1. Len(pool[r]) \in Nat /\ used[r] \in Nat
      BY PoolFacts
    <2>2. CASE r = p
      <3>1. Len(pool'[r]) = Len(pool[r]) + 1
        BY <2>2, <1>3, <1>4, <1>5
      <3> QED
        BY <3>1, <2>1, <2>2, <1>4 DEF Counted, Gain, One, Handled, Looking, p
    <2>3. CASE r # p
      <3>1. pool'[r] = pool[r]
        BY <2>3, <1>4, <1>5
      <3> QED
        BY <3>1, <2>1, <2>3, <1>4 DEF Counted, Gain, One, Handled, Looking, p
    <2> QED
      BY <2>2, <2>3
  <1> QED
    BY <1>0, <1>6, <1>7, <1>8, <1>9, <1>10, Go DEF PCs

LEMMA SameCounted ==
  ASSUME NEW t, NEW c, NEW q, NEW p, Len(pool[p]) \in Nat, used[p] \in Nat,
         Len(pool'[p]) = Len(pool[p]), used'[p] = used[p],
         Gain(t, c, q, p, Handled) = 0,
         \/ Len(pool'[p]) = 0
         \/ Count(pc', at', p, Waited) = 0
         \/ (c # "waiting" \/ q # p) /\ 0 <= Gain(t, c, q, p, Looking)
  PROVE  Counted(t, c, q, p)
PROOF BY GainBounds DEF Counted

(* A step of one thread that leaves the pools alone.                        *)
LEMMA StayInv ==
  ASSUME IInv, NEW t \in Threads, NEW c \in PCs, NEW q \in Pools,
         NEW d \in Connections \cup {None}, NEW k \in Hosts \cup {""},
         d = None <=> c \notin {"check", "update", "using", "created"},
         opts' \in [Pools -> Hosts \cup {""}], second = "none" => q = "first",
         pc' = [pc EXCEPT ![t] = c], at' = [at EXCEPT ![t] = q],
         conn' = [conn EXCEPT ![t] = d], known' = [known EXCEPT ![t] = k],
         UNCHANGED <<master, sentinel, pool, used, second>>,
         c \in Handled <=> pc[t] \in Handled, c \in Handled => at[t] = q,
         c = "waiting" => pool[q] = <<>>,
         pc[t] \in Looking => pool[at[t]] = <<>>
  PROVE  IInv'
PROOF
  <1>1. /\ master' \in Hosts
        /\ pool' \in [Pools -> Seq(Connections)] /\ used' \in [Pools -> 0 .. Size]
    BY DEF IInv, TypeOK
  <1>2. ASSUME NEW r \in Pools PROVE Counted(t, c, q, r)
    <2>1. /\ Len(pool[r]) \in Nat /\ used[r] \in Nat
          /\ Len(pool'[r]) = Len(pool[r]) /\ used'[r] = used[r]
      BY PoolFacts
    <2>2. Gain(t, c, q, r, Handled) = 0
      <3>1. One(c, q, r, Handled) = One(pc[t], at[t], r, Handled)
        BY DEF One
      <3> QED
        BY <3>1, GainBounds
    <2>3. CASE pool[r] = <<>>
      <3>1. Len(pool'[r]) = 0
        BY <2>1, <2>3
      <3> QED
        BY <3>1, <2>1, <2>2, SameCounted
    <2>4. CASE pool[r] # <<>>
      <3>1. One(pc[t], at[t], r, Looking) = 0
        BY <2>4 DEF One
      <3>3. 0 <= Gain(t, c, q, r, Looking) /\ Gain(t, c, q, r, Looking) \in Int
        BY <3>1, GainBounds
      <3>4. c # "waiting" \/ q # r
        BY <2>4
      <3> QED
        BY <3>3, <3>4, <2>1, <2>2, SameCounted
    <2> QED
      BY <2>3, <2>4
  <1>3. second = "none" => pool'["second"] = pool["second"] /\ used'["second"] = used["second"]
    OBVIOUS
  <1> QED
    BY <1>1, <1>2, <1>3, Go

LEMMA FetchIdleInv ==
  ASSUME IInv, NEW t \in Threads, NEW p, FetchIdle(t, p)
  PROVE  IInv'
PROOF
  <1>1. p \in Pools /\ (second = "none" => p = "first") /\ pc[t] = "idle"
    BY CallsFirst DEF FetchIdle
  <1>2. at' = [at EXCEPT ![t] = p] /\ Take(t, p)
    BY DEF FetchIdle, Calls
  <1>3. UNCHANGED <<master, sentinel, opts, used, second>>
    BY DEF FetchIdle
  <1> QED
    BY <1>1, <1>2, <1>3, TakeInv

LEMMA FetchWaitInv ==
  ASSUME IInv, NEW t \in Threads, NEW p, FetchWait(t, p)
  PROVE  IInv'
PROOF
  <1>1. p \in Pools /\ (second = "none" => p = "first") /\ pc[t] = "idle"
    BY CallsFirst DEF FetchWait
  <1>2. /\ conn[t] \in Connections \cup {None} /\ conn[t] = None
        /\ known[t] \in Hosts \cup {""} /\ opts' \in [Pools -> Hosts \cup {""}]
    BY <1>1 DEF IInv, TypeOK, FetchWait, shared
  <1>3. conn' = [conn EXCEPT ![t] = conn[t]] /\ known' = [known EXCEPT ![t] = known[t]]
    BY DEF IInv, TypeOK, FetchWait
  <1>4. /\ pc' = [pc EXCEPT ![t] = "waiting"] /\ at' = [at EXCEPT ![t] = p]
        /\ UNCHANGED <<master, sentinel, pool, used, second>> /\ pool[p] = <<>>
    BY DEF FetchWait, Calls, shared
  <1>5. /\ "waiting" \in PCs /\ "waiting" \notin Handled /\ pc[t] \notin Handled
        /\ pc[t] \notin Looking /\ "waiting" \notin {"check", "update", "using", "created"}
    BY <1>1 DEF PCs, Handled, Looking
  <1> QED
    BY <1>1, <1>2, <1>3, <1>4, <1>5, StayInv

LEMMA CreateInv ==
  ASSUME IInv, NEW t \in Threads, NEW p, Create(t, p)
  PROVE  IInv'
PROOF
  <1>1. p \in Pools /\ (second = "none" => p = "first") /\ pc[t] = "idle"
    BY CallsFirst DEF Create
  <1>2. /\ Fresh(master) \in Connections \cup {None} /\ Fresh(master) # None
        /\ known[t] \in Hosts \cup {""} /\ opts' \in [Pools -> Hosts \cup {""}]
    BY ConnectionFacts DEF IInv, TypeOK, Create, shared
  <1>3. known' = [known EXCEPT ![t] = known[t]]
    BY DEF IInv, TypeOK, Create
  <1>4. /\ pc' = [pc EXCEPT ![t] = "created"] /\ at' = [at EXCEPT ![t] = p]
        /\ conn' = [conn EXCEPT ![t] = Fresh(master)]
        /\ UNCHANGED <<master, sentinel, pool, used, second>>
    BY DEF Create, Calls, shared
  <1> QED
    BY <1>1, <1>2, <1>3, <1>4, StayInv DEF PCs, Handled, Looking

(* The pool a thread uses, and what it holds there, stay the same.          *)
LEMMA SameThread ==
  ASSUME IInv, NEW t \in Threads
  PROVE  /\ at[t] \in Pools /\ (second = "none" => at[t] = "first")
         /\ at = [at EXCEPT ![t] = at[t]] /\ conn = [conn EXCEPT ![t] = conn[t]]
         /\ known = [known EXCEPT ![t] = known[t]]
         /\ conn[t] \in Connections \cup {None} /\ known[t] \in Hosts \cup {""}
         /\ conn[t] = None <=> pc[t] \notin {"check", "update", "using", "created"}
PROOF BY DEF IInv, TypeOK, Unborn

LEMMA WakeUpInv ==
  ASSUME IInv, NEW t \in Threads, WakeUp(t)
  PROVE  IInv'
PROOF
  <1>1. PICK c \in {"woken", "timedOut"} : pc' = [pc EXCEPT ![t] = c]
    BY DEF WakeUp
  <1>2. /\ UNCHANGED <<master, sentinel, opts, pool, used, second, at, conn, known>>
        /\ pc[t] = "waiting"
    BY DEF WakeUp, shared
  <1>3. opts' \in [Pools -> Hosts \cup {""}]
    BY <1>2 DEF IInv, TypeOK
  <1>4. /\ at' = [at EXCEPT ![t] = at[t]] /\ conn' = [conn EXCEPT ![t] = conn[t]]
        /\ known' = [known EXCEPT ![t] = known[t]]
    BY <1>2, SameThread
  <1>5. c \in PCs /\ c \notin Handled /\ pc[t] \notin Handled /\ pc[t] \notin Looking /\ c # "waiting"
    BY <1>2 DEF PCs, Handled, Looking
  <1>6. conn[t] = None <=> c \notin {"check", "update", "using", "created"}
    BY <1>2, SameThread
  <1>7. UNCHANGED <<master, sentinel, pool, used, second>>
    BY <1>2
  <1>8. /\ at[t] \in Pools /\ (second = "none" => at[t] = "first")
        /\ conn[t] \in Connections \cup {None} /\ known[t] \in Hosts \cup {""}
    BY SameThread
  <1> QED
    BY <1>1, <1>3, <1>4, <1>5, <1>6, <1>7, <1>8, StayInv

LEMMA ResumeInv ==
  ASSUME IInv, NEW t \in Threads, Resume(t)
  PROVE  IInv'
PROOF
  <1>1. /\ UNCHANGED <<master, sentinel, opts, used, second>>
        /\ pc[t] \in {"woken", "timedOut"}
    BY DEF Resume
  <1>2. /\ at[t] \in Pools /\ (second = "none" => at[t] = "first")
        /\ conn[t] = None /\ known[t] \in Hosts \cup {""}
    BY <1>1, SameThread
  <1>3. opts' \in [Pools -> Hosts \cup {""}]
    BY <1>1 DEF IInv, TypeOK
  <1>4. CASE Take(t, at[t]) /\ UNCHANGED at
    <2>1. at' = [at EXCEPT ![t] = at[t]]
      BY <1>4, SameThread
    <2> QED
      BY <2>1, <1>1, <1>2, <1>4, TakeInv
  <1>5. ASSUME pool[at[t]] = <<>>, UNCHANGED <<pool, conn, known>>,
               NEW c \in {"waiting", "idle"}, NEW q \in {at[t], "first"},
               pc' = [pc EXCEPT ![t] = c], at' = [at EXCEPT ![t] = q],
               c = "waiting" => q = at[t]
        PROVE  IInv'
    <2>1. conn' = [conn EXCEPT ![t] = conn[t]] /\ known' = [known EXCEPT ![t] = known[t]]
      BY <1>5, SameThread
    <2>2. c \in PCs /\ c \notin Handled /\ pc[t] \notin Handled
      BY <1>1 DEF PCs, Handled
    <2>3. q \in Pools /\ (second = "none" => q = "first")
      BY <1>2 DEF Pools
    <2>4. conn[t] = None <=> c \notin {"check", "update", "using", "created"}
      BY <1>2
    <2>5. c = "waiting" => pool[q] = <<>>
      BY <1>5
    <2>6. UNCHANGED <<master, sentinel, pool, used, second>>
      BY <1>1, <1>5
    <2>7. pc[t] \in Looking => pool[at[t]] = <<>>
      BY <1>5
    <2>8. conn[t] \in Connections \cup {None} /\ known[t] \in Hosts \cup {""}
      BY <1>2
    <2>9. pc' = [pc EXCEPT ![t] = c] /\ at' = [at EXCEPT ![t] = q]
      BY <1>5
    <2>10. (c \in Handled <=> pc[t] \in Handled) /\ (c \in Handled => at[t] = q)
      BY <2>2
    <2> QED
      BY <2>1, <2>2, <2>3, <2>4, <2>5, <2>6, <2>7, <2>8, <2>9, <2>10, <1>3, StayInv
  <1>6. CASE /\ pool[at[t]] = <<>> /\ pc[t] = "woken"
             /\ pc' = [pc EXCEPT ![t] = "waiting"] /\ UNCHANGED <<pool, conn, known, at>>
    <2>1. at' = [at EXCEPT ![t] = at[t]]
      BY <1>6, SameThread
    <2> QED
      BY <2>1, <1>6, <1>5
  <1>7. CASE pool[at[t]] = <<>> /\ pc[t] = "timedOut" /\ Leave(t) /\ UNCHANGED <<pool, conn, known>>
    BY <1>7, <1>5 DEF Leave
  <1> QED
    BY <1>4, <1>6, <1>7 DEF Resume

(* A thread that holds a connection goes on holding one, in the same pool.  *)
LEMMA HoldInv ==
  ASSUME IInv, NEW t \in Threads, NEW c \in {"using", "update"}, NEW d \in Connections,
         NEW k \in Hosts \cup {""},
         pc[t] \in Handled, opts' \in [Pools -> Hosts \cup {""}],
         pc' = [pc EXCEPT ![t] = c], conn' = [conn EXCEPT ![t] = d],
         known' = [known EXCEPT ![t] = k],
         UNCHANGED <<master, sentinel, pool, used, second, at>>
  PROVE  IInv'
PROOF
  <1>1. at[t] \in Pools /\ (second = "none" => at[t] = "first") /\ at' = [at EXCEPT ![t] = at[t]]
    BY SameThread
  <1>2. c \in PCs /\ c \in Handled /\ c # "waiting" /\ pc[t] \notin Looking
    BY DEF PCs, Handled, Looking
  <1>3. d = None <=> c \notin {"check", "update", "using", "created"}
    BY ConnectionFacts
  <1>4. d \in Connections \cup {None}
    OBVIOUS
  <1> QED
    BY <1>1, <1>2, <1>3, <1>4, StayInv

LEMMA HandOutInv ==
  ASSUME IInv, NEW t \in Threads, HandOut(t)
  PROVE  IInv'
PROOF
  <1>1. /\ UNCHANGED <<master, sentinel, opts, pool, used, second, at, conn>>
        /\ pc[t] = "check" /\ pc' = [pc EXCEPT ![t] = "using"]
        /\ known' = [known EXCEPT ![t] = ""]
    BY DEF HandOut, shared
  <1>2. conn[t] \in Connections /\ conn' = [conn EXCEPT ![t] = conn[t]]
    BY <1>1, SameThread
  <1>3. opts' \in [Pools -> Hosts \cup {""}] /\ pc[t] \in Handled
    BY <1>1 DEF IInv, TypeOK, Handled
  <1> QED
    BY <1>1, <1>2, <1>3, HoldInv

LEMMA ReplaceInv ==
  ASSUME IInv, NEW t \in Threads, Replace(t)
  PROVE  IInv'
PROOF
  <1>1. pc[t] = "check" /\ UNCHANGED <<master, sentinel, opts, used, second, at>>
    BY DEF Replace
  <1>2. opts' \in [Pools -> Hosts \cup {""}] /\ pc[t] \in Handled /\ master \in Hosts
    BY <1>1 DEF IInv, TypeOK, Handled
  <1>3. conn[t] \in Connections
    BY <1>1, SameThread
  <1>4. ASSUME NEW c \in {"using", "update"}, NEW d \in Connections,
               conn' = [conn EXCEPT ![t] = d], pc' = [pc EXCEPT ![t] = c],
               known' = [known EXCEPT ![t] = ""], UNCHANGED pool
        PROVE  IInv'
    BY <1>1, <1>2, <1>4, HoldInv
  <1>5. CASE /\ conn' = [conn EXCEPT ![t].good = TRUE] /\ pc' = [pc EXCEPT ![t] = "using"]
             /\ known' = [known EXCEPT ![t] = ""] /\ UNCHANGED pool
    <2>1. [conn[t] EXCEPT !.good = TRUE] \in Connections
      BY <1>3 DEF Connections
    <2>2. conn' = [conn EXCEPT ![t] = [conn[t] EXCEPT !.good = TRUE]]
      BY <1>5
    <2> QED
      BY <2>1, <2>2, <1>5, <1>4
  <1>6. CASE /\ conn' = [conn EXCEPT ![t] = Fresh(master)] /\ pc' = [pc EXCEPT ![t] = "update"]
             /\ known' = [known EXCEPT ![t] = ""] /\ UNCHANGED pool
    <2>1. Fresh(master) \in Connections
      BY <1>2, ConnectionFacts
    <2> QED
      BY <2>1, <1>6, <1>4
  <1>7. CASE Release(t)
    BY <1>1, <1>7, ReleaseInv
  <1> QED
    BY <1>5, <1>6, <1>7 DEF Replace

LEMMA BreakInv ==
  ASSUME IInv, NEW t \in Threads, Break(t)
  PROVE  IInv'
PROOF
  <1>1. /\ UNCHANGED <<master, sentinel, opts, pool, used, second, pc, at, known>>
        /\ pc[t] = "using" /\ conn' = [conn EXCEPT ![t] = [conn[t] EXCEPT !.good = FALSE]]
    BY DEF Break, shared
  <1>2. conn[t] \in Connections
    BY <1>1, SameThread
  <1>3. [conn[t] EXCEPT !.good = FALSE] \in Connections
    BY <1>2 DEF Connections
  <1>4. pc' = [pc EXCEPT ![t] = "using"] /\ known' = [known EXCEPT ![t] = known[t]]
    BY <1>1 DEF IInv, TypeOK
  <1>5. opts' \in [Pools -> Hosts \cup {""}] /\ pc[t] \in Handled /\ known[t] \in Hosts \cup {""}
    BY <1>1 DEF IInv, TypeOK, Handled
  <1> QED
    BY <1>1, <1>3, <1>4, <1>5, HoldInv

LEMMA EndUseInv ==
  ASSUME IInv, NEW t \in Threads, EndUse(t)
  PROVE  IInv'
PROOF BY ReleaseInv DEF EndUse

LEMMA UpdateOptsInv ==
  ASSUME IInv, NEW t \in Threads, UpdateOpts(t)
  PROVE  IInv'
PROOF
  <1>1. /\ UNCHANGED <<master, sentinel, pool, used, second, known>>
        /\ pc[t] \in {"update", "created"}
        /\ opts' = [opts EXCEPT ![at[t]] = conn[t].host]
    BY DEF UpdateOpts
  <1>2. conn[t] \in Connections /\ known[t] \in Hosts \cup {""}
    BY <1>1, SameThread
  <1>3. conn[t].host \in Hosts
    BY <1>2 DEF Connections
  <1>4. opts' \in [Pools -> Hosts \cup {""}]
    BY <1>1, <1>3 DEF IInv, TypeOK
  <1>5. known' = [known EXCEPT ![t] = known[t]]
    BY <1>1 DEF IInv, TypeOK
  <1>6. CASE pc[t] = "update"
    <2>1. pc' = [pc EXCEPT ![t] = "using"] /\ UNCHANGED <<at, conn>>
      BY <1>6 DEF UpdateOpts
    <2>2. conn' = [conn EXCEPT ![t] = conn[t]] /\ pc[t] \in Handled
      BY <2>1, <1>6 DEF IInv, TypeOK, Handled
    <2> QED
      BY <2>1, <2>2, <1>1, <1>2, <1>4, <1>5, HoldInv
  <1>7. CASE pc[t] = "created"
    <2>1. /\ pc' = [pc EXCEPT ![t] = "idle"] /\ at' = [at EXCEPT ![t] = "first"]
          /\ conn' = [conn EXCEPT ![t] = None]
      BY <1>7 DEF UpdateOpts, Leave
    <2>2. /\ "idle" \in PCs /\ "first" \in Pools /\ "idle" \notin Handled
          /\ pc[t] \notin Handled /\ pc[t] \notin Looking
      BY <1>7 DEF PCs, Pools, Handled, Looking
    <2>3. None \in Connections \cup {None} /\ "idle" \notin {"check", "update", "using", "created"}
      OBVIOUS
    <2> QED
      BY <2>1, <2>2, <2>3, <1>1, <1>2, <1>4, <1>5, StayInv
  <1> QED
    BY <1>1, <1>6, <1>7

LEMMA FetchNewInv ==
  ASSUME IInv, NEW t \in Threads, NEW p, FetchNew(t, p)
  PROVE  IInv'
PROOF
  <1>1. p \in Pools /\ (second = "none" => p = "first") /\ pc[t] = "idle"
    BY CallsFirst DEF FetchNew
  <1>2. /\ UNCHANGED <<master, sentinel, pool, second, known>>
        /\ pool[p] = <<>> /\ used[p] # Size /\ Target(p) \in Hosts
        /\ used' = [used EXCEPT ![p] = used[p] + 1]
        /\ conn' = [conn EXCEPT ![t] = Fresh(Target(p))]
        /\ opts' = [opts EXCEPT ![p] = Target(p)]
        /\ pc' = [pc EXCEPT ![t] = "using"] /\ at' = [at EXCEPT ![t] = p]
    BY DEF FetchNew, Calls
  <1>3. used[p] \in 0 .. Size /\ Size \in Nat
    BY <1>1, PoolFacts, SizeType
  <1>4. used[p] + 1 \in 0 .. Size
    BY <1>2, <1>3
  <1>5. used \in [Pools -> 0 .. Size]
    BY DEF IInv, TypeOK
  <1>6. used' \in [Pools -> 0 .. Size]
    BY <1>2, <1>4, <1>5
  <1>7. /\ opts' \in [Pools -> Hosts \cup {""}] /\ master' \in Hosts
        /\ pool' \in [Pools -> Seq(Connections)]
    BY <1>2 DEF IInv, TypeOK
  <1>8. Fresh(Target(p)) \in Connections /\ Fresh(Target(p)) # None
    BY <1>2, ConnectionFacts
  <1>9. known' = [known EXCEPT ![t] = known[t]] /\ known[t] \in Hosts \cup {""}
    BY <1>2, SameThread
  <1>10. second = "none" => pool'["second"] = pool["second"] /\ used'["second"] = used["second"]
    BY <1>1, <1>2, <1>5 DEF Pools
  <1>11. ASSUME NEW r \in Pools PROVE Counted(t, "using", p, r)
    <2>1. /\ Len(pool[r]) \in Nat /\ used[r] \in Nat
          /\ Len(pool'[r]) = Len(pool[r])
      BY <1>2, PoolFacts
    <2>2. CASE r = p
      <3>1. used'[r] = used[r] + 1
        BY <2>2, <1>2, <1>5
      <3>2. Len(pool'[r]) = 0
        BY <2>1, <2>2, <1>2
      <3>3. Gain(t, "using", p, r, Handled) = 1
        BY <2>2, <1>1 DEF Gain, One, Handled
      <3> QED
        BY <3>1, <3>2, <3>3, <2>1 DEF Counted
    <2>3. CASE r # p
      <3>1. used'[r] = used[r]
        BY <2>3, <1>2, <1>5
      <3>2. Gain(t, "using", p, r, Handled) = 0 /\ Gain(t, "using", p, r, Looking) = 0
        BY <2>3, <1>1 DEF Gain, One, Handled, Looking
      <3> QED
        BY <3>1, <3>2, <2>1, SameCounted
    <2> QED
      BY <2>2, <2>3
  <1>12. "using" \in PCs
    BY DEF PCs
  <1> QED
    BY <1>1, <1>2, <1>6, <1>7, <1>8, <1>9, <1>10, <1>11, <1>12, Go

(* notify_one() wakes nobody, or the thread w.                              *)
LEMMA NotifyNobodyInv ==
  ASSUME IInv, NEW t \in Threads, Notify(t),
         {w \in Threads : pc[w] = "waiting" /\ at[w] = at[t]} = {}
  PROVE  IInv'
PROOF
  <1>1. /\ UNCHANGED <<master, sentinel, opts, pool, used, second, conn, known>>
        /\ pc[t] = "notify" /\ pc' = [pc EXCEPT ![t] = "idle"]
        /\ at' = [at EXCEPT ![t] = "first"]
    BY DEF Notify, shared
  <1>2. /\ conn' = [conn EXCEPT ![t] = conn[t]] /\ known' = [known EXCEPT ![t] = known[t]]
        /\ conn[t] \in Connections \cup {None} /\ known[t] \in Hosts \cup {""}
        /\ conn[t] = None <=> "idle" \notin {"check", "update", "using", "created"}
    BY <1>1, SameThread
  <1>3. /\ opts' \in [Pools -> Hosts \cup {""}] /\ master' \in Hosts
        /\ pool' \in [Pools -> Seq(Connections)] /\ used' \in [Pools -> 0 .. Size]
    BY <1>1 DEF IInv, TypeOK
  <1>4. ASSUME NEW r \in Pools PROVE Counted(t, "idle", "first", r)
    <2>1. /\ Len(pool[r]) \in Nat /\ used[r] \in Nat
          /\ Len(pool'[r]) = Len(pool[r]) /\ used'[r] = used[r]
      BY <1>1, PoolFacts
    <2>2. Gain(t, "idle", "first", r, Handled) = 0
      BY <1>1 DEF Gain, One, Handled
    <2>3. CASE r = at[t]
      <3>1. pc \in [Threads -> PCs] /\ at \in [Threads -> Pools]
        BY DEF IInv, TypeOK
      <3>2. In(pc', at', r, Waited) = {}
        BY <2>3, <1>1, <3>1 DEF In, Waited
      <3>3. Count(pc', at', r, Waited) = 0
        BY <3>2, CountType
      <3> QED
        BY <3>3, <2>1, <2>2, SameCounted
    <2>4. CASE r # at[t]
      <3>1. Gain(t, "idle", "first", r, Looking) = 0
        BY <2>4 DEF Gain, One, Looking
      <3> QED
        BY <3>1, <2>1, <2>2, SameCounted
    <2> QED
      BY <2>3, <2>4
  <1>5. "idle" \in PCs /\ "first" \in Pools
    BY DEF PCs, Pools
  <1> QED
    BY <1>1, <1>2, <1>3, <1>4, <1>5, Go

LEMMA NotifyOneInv ==
  ASSUME IInv, NEW t \in Threads, Notify(t), NEW w \in Threads,
         pc[w] = "waiting", at[w] = at[t],
         pc' = [pc EXCEPT ![t] = "idle", ![w] = "woken"]
  PROVE  IInv'
PROOF
  <1> DEFINE f == [pc EXCEPT ![t] = "idle"]
             g == [at EXCEPT ![t] = "first"]
  <1>1. /\ UNCHANGED <<master, sentinel, opts, pool, used, second, conn, known>>
        /\ pc[t] = "notify" /\ at' = g
    BY DEF Notify, shared
  <1>2. pc \in [Threads -> PCs] /\ at \in [Threads -> Pools]
    BY DEF IInv, TypeOK
  <1>3. t # w
    BY <1>1
  <1>4. TypeOK'
    <2>1. pc' \in [Threads -> PCs] /\ at' \in [Threads -> Pools]
      BY <1>1, <1>2 DEF PCs, Pools
    <2>2. \A u \in Threads : pc[u] = pc'[u] \/ (u = t /\ pc'[u] = "idle") \/ (u = w /\ pc'[u] = "woken")
      BY <1>2
    <2>3. \A u \in Threads : conn'[u] = None <=> pc'[u] \notin {"check", "update", "using", "created"}
      <3>1. \A u \in Threads : conn[u] = None <=> pc[u] \notin {"check", "update", "using", "created"}
        BY DEF IInv, TypeOK
      <3> QED
        BY <3>1, <2>2, <1>1
    <2> QED
      BY <2>1, <2>3, <1>1 DEF IInv, TypeOK
  <1>5. Unborn'
    BY <1>1, <1>2 DEF IInv, Unborn
  <1>6. ASSUME NEW p \in Pools PROVE Fits(p)'
    <2>1. Moved(pc, f, at, g, t) /\ f[t] = "idle" /\ g[t] = "first"
      BY <1>2 DEF Moved
    <2>2. Moved(f, pc', g, at', w) /\ pc'[w] = "woken" /\ at'[w] = at[t] /\ f[w] = "waiting" /\ g[w] = at[t]
      BY <1>1, <1>2, <1>3 DEF Moved
    <2> HIDE DEF f, g
    <2>3. ASSUME NEW pcs,
                 One("idle", "first", p, pcs) = 0,
                 \/ One("notify", at[t], p, pcs) = 0 /\ One("woken", at[t], p, pcs) = 0
                 \/ /\ One("notify", at[t], p, pcs) = One("woken", at[t], p, pcs)
                    /\ One("waiting", at[t], p, pcs) = 0
          PROVE  /\ Count(pc', at', p, pcs) <= Count(pc, at, p, pcs)
                 /\ One("waiting", at[t], p, pcs) = 0
                      => Count(pc', at', p, pcs) = Count(pc, at, p, pcs)
      <3> DEFINE i == Count(pc, at, p, pcs)
                 j == Count(f, g, p, pcs)
                 k == Count(pc', at', p, pcs)
                 n == One("notify", at[t], p, pcs)
                 l == One("woken", at[t], p, pcs)
                 m == One("waiting", at[t], p, pcs)
                 z == One("idle", "first", p, pcs)
      <3>1. j = i - n + z
        <4>1. \A f2, g2 : Moved(pc, f2, at, g2, t) /\ f2[t] = "idle" /\ g2[t] = "first"
                => Count(f2, g2, p, pcs) = Count(pc, at, p, pcs) - One(pc[t], at[t], p, pcs)
                                            + One("idle", "first", p, pcs)
          BY OneMoves
        <4> QED
          BY <4>1, <2>1, <1>1
      <3>2. k = j - m + l
        <4>1. \A f2, g2 : Moved(f, f2, g, g2, w) /\ f2[w] = "woken" /\ g2[w] = at[t]
                => Count(f2, g2, p, pcs) = Count(f, g, p, pcs) - One(f[w], g[w], p, pcs)
                                            + One("woken", at[t], p, pcs)
          BY OneMoves
        <4> QED
          BY <4>1, <2>2
      <3>3. i \in Nat /\ j \in Nat /\ k \in Nat
        BY CountType
      <3>4. n \in 0 .. 1 /\ l \in 0 .. 1 /\ m \in 0 .. 1 /\ z \in 0 .. 1
        BY OneType
      <3>5. z = 0 /\ ((n = 0 /\ l = 0) \/ (n = l /\ m = 0))
        BY <2>3
      <3> HIDE DEF i, j, k, n, l, m, z
      <3>6. k <= i /\ (m = 0 => k = i)
        BY ONLY <3>1, <3>2, <3>3, <3>4, <3>5
      <3> QED
        BY <3>6 DEF i, k, m
    <2>4. Count(pc', at', p, Handled) = Count(pc, at, p, Handled)
      <3>1. /\ One("notify", at[t], p, Handled) = 0 /\ One("idle", "first", p, Handled) = 0
            /\ One("waiting", at[t], p, Handled) = 0 /\ One("woken", at[t], p, Handled) = 0
        BY DEF One, Handled
      <3> QED
        BY <2>3, <3>1
    <2>5. Count(pc', at', p, Waited) <= Count(pc, at, p, Waited)
      <3>1. /\ One("notify", at[t], p, Waited) = 0 /\ One("idle", "first", p, Waited) = 0
            /\ One("woken", at[t], p, Waited) = 0
        BY DEF One, Waited
      <3> QED
        BY <2>3, <3>1
    <2>6. Count(pc', at', p, Looking) = Count(pc, at, p, Looking)
      <3>1. One("idle", "first", p, Looking) = 0 /\ One("waiting", at[t], p, Looking) = 0
        BY DEF One, Looking
      <3>2. One("notify", at[t], p, Looking) = One("woken", at[t], p, Looking)
        BY DEF One, Looking
      <3> QED
        BY <2>3, <3>1, <3>2
    <2>7. Count(pc, at, p, Waited) \in Nat /\ Count(pc', at', p, Waited) \in Nat
      BY CountType
    <2>8. Fits(p) /\ pool' = pool /\ used' = used /\ second' = second
      BY <1>1 DEF IInv
    <2> QED
      BY <2>4, <2>5, <2>6, <2>7, <2>8 DEF Fits
  <1> QED
    BY <1>4, <1>5, <1>6 DEF IInv

LEMMA NotifyInv ==
  ASSUME IInv, NEW t \in Threads, Notify(t)
  PROVE  IInv'
PROOF
  <1> DEFINE waiting == {w \in Threads : pc[w] = "waiting" /\ at[w] = at[t]}
  <1>1. CASE waiting = {}
    BY <1>1, NotifyNobodyInv
  <1>2. CASE waiting # {}
    <2>1. PICK w \in waiting : pc' = [pc EXCEPT ![t] = "idle", ![w] = "woken"]
      BY <1>2 DEF Notify
    <2> QED
      BY <2>1, NotifyOneInv
  <1> QED
    BY <1>1, <1>2

-----------------------------------------------------------------------------
(* What is done to a pool, and the step of the specification.               *)

LEMMA CloneInv ==
  ASSUME IInv, Clone
  PROVE  IInv'
PROOF
  <1>1. /\ UNCHANGED <<master, pool, used, pc, at, conn, known>>
        /\ second = "none" /\ second' = "cloned"
        /\ sentinel' = [sentinel EXCEPT !["second"] = sentinel["first"]]
        /\ opts' = [opts EXCEPT !["second"] = IF sentinel["first"] THEN "" ELSE opts["first"]]
    BY DEF Clone
  <1>2. TypeOK'
    <2>1. sentinel' \in [Pools -> BOOLEAN] /\ opts' \in [Pools -> Hosts \cup {""}]
      BY <1>1 DEF IInv, TypeOK, Pools
    <2> QED
      BY <1>1, <2>1 DEF IInv, TypeOK
  <1>3. Unborn'
    BY <1>1 DEF Unborn
  <1>4. ASSUME NEW p \in Pools PROVE Fits(p)'
    <2>1. Fits(p)
      BY DEF IInv
    <2> QED
      BY <1>1, <2>1 DEF Fits
  <1> QED
    BY <1>2, <1>3, <1>4 DEF IInv

(* The idle connections are now in the second pool, and those in use are    *)
(* counted in both.                                                         *)
LEMMA MoveInv ==
  ASSUME IInv, Move
  PROVE  IInv'
PROOF
  <1>1. /\ UNCHANGED <<master, pc, at, conn, known>>
        /\ second = "none" /\ second' = "moved"
        /\ sentinel' = [sentinel EXCEPT !["first"] = FALSE, !["second"] = sentinel["first"]]
        /\ opts' = [opts EXCEPT !["first"] = "", !["second"] = opts["first"]]
        /\ pool' = [pool EXCEPT !["first"] = <<>>, !["second"] = pool["first"]]
        /\ used' = [used EXCEPT !["second"] = used["first"]]
    BY DEF Move
  <1>2. /\ pool \in [Pools -> Seq(Connections)] /\ used \in [Pools -> 0 .. Size]
        /\ pool["first"] \in Seq(Connections) /\ used["first"] \in 0 .. Size
    BY DEF IInv, TypeOK, Pools
  <1>3. TypeOK'
    <2>1. sentinel' \in [Pools -> BOOLEAN] /\ opts' \in [Pools -> Hosts \cup {""}]
      BY <1>1 DEF IInv, TypeOK, Pools
    <2>2. <<>> \in Seq(Connections)
      OBVIOUS
    <2>3. pool' \in [Pools -> Seq(Connections)]
      BY <1>1, <1>2, <2>2
    <2>4. used' \in [Pools -> 0 .. Size]
      BY <1>1, <1>2
    <2> QED
      BY <1>1, <2>1, <2>3, <2>4 DEF IInv, TypeOK
  <1>4. Unborn'
    BY <1>1 DEF Unborn
  <1>5. ASSUME NEW p \in Pools PROVE Fits(p)'
    <2>1. Fits("first") /\ "first" \in Pools
      BY DEF IInv, Pools
    <2>2. /\ Len(pool["first"]) \in Nat /\ used["first"] \in Nat
          /\ Count(pc, at, "first", Handled) \in Nat
      BY <2>1, PoolFacts, CountType
    <2>3. Len(pool["first"]) + Count(pc, at, "first", Handled) <= used["first"]
      BY <2>1 DEF Fits
    <2>4. CASE p = "first"
      <3>1. pool'[p] = <<>> /\ used'[p] = used["first"]
        BY <2>4, <1>1, <1>2 DEF Pools
      <3>2. Len(pool'[p]) = 0
        BY <3>1
      <3>3. Count(pc', at', p, Handled) = Count(pc, at, "first", Handled)
        BY <2>4, <1>1
      <3>4. Len(pool'[p]) + Count(pc', at', p, Handled) <= used'[p]
        <4>1. 0 + Count(pc, at, "first", Handled) <= used["first"]
          BY ONLY <2>2, <2>3
        <4> QED
          BY ONLY <4>1, <3>1, <3>2, <3>3
      <3>5. Count(pc', at', p, Looking) \in Nat
        BY CountType
      <3>6. Count(pc', at', p, Waited) > 0 => Len(pool'[p]) <= Count(pc', at', p, Looking)
        BY ONLY <3>2, <3>5
      <3> QED
        BY <3>4, <3>6, <1>1 DEF Fits
    <2>5. CASE p = "second"
      <3>1. pool'[p] = pool["first"] /\ used'[p] = used["first"]
        BY <2>5, <1>1, <1>2 DEF Pools
      <3>2. \A pcs : In(pc', at', p, pcs) = {}
        BY <2>5, <1>1 DEF IInv, Unborn, In
      <3>3. Count(pc', at', p, Handled) = 0 /\ Count(pc', at', p, Waited) = 0
        BY <3>2, CountType
      <3>4. Len(pool'[p]) + Count(pc', at', p, Handled) <= used'[p]
        <4>1. Len(pool["first"]) + 0 <= used["first"]
          BY ONLY <2>2, <2>3
        <4> QED
          BY ONLY <4>1, <3>1, <3>3
      <3>5. ~(Count(pc', at', p, Waited) > 0)
        BY ONLY <3>3
      <3> QED
        BY <3>4, <3>5, <1>1 DEF Fits
    <2> QED
      BY <2>4, <2>5 DEF Pools
  <1> QED
    BY <1>3, <1>4, <1>5 DEF IInv

LEMMA ExpireInv ==
  ASSUME IInv, NEW p \in Pools, Expire(p)
  PROVE  IInv'
PROOF
  <1>1. UNCHANGED <<master, sentinel, opts, used, second, pc, at, conn, known>>
    BY DEF Expire
  <1>2. PICK i \in DOMAIN pool[p] :
          pool' = [pool EXCEPT ![p] = [pool[p] EXCEPT ![i] = [pool[p][i] EXCEPT !.good = FALSE]]]
    BY DEF Expire
  <1> DEFINE s == [pool[p] EXCEPT ![i] = [pool[p][i] EXCEPT !.good = FALSE]]
  <1>3. pool \in [Pools -> Seq(Connections)] /\ pool[p] \in Seq(Connections)
    BY DEF IInv, TypeOK
  <1>4. pool[p][i] \in Connections
    BY <1>3, ElementOfSeq, LenProperties
  <1>5. [pool[p][i] EXCEPT !.good = FALSE] \in Connections
    BY <1>4 DEF Connections
  <1>6. s \in Seq(Connections) /\ Len(s) = Len(pool[p])
    BY <1>3, <1>5, ExceptSeq
  <1>7. pool' = [pool EXCEPT ![p] = s]
    BY <1>2
  <1> HIDE DEF s
  <1>8. pool' \in [Pools -> Seq(Connections)]
    BY <1>3, <1>6, <1>7
  <1>9. \A r \in Pools : Len(pool'[r]) = Len(pool[r])
    BY <1>3, <1>6, <1>7
  <1>10. TypeOK'
    BY <1>1, <1>8 DEF IInv, TypeOK
  <1>11. Unborn'
    <2>1. ASSUME second = "none" PROVE pool'["second"] = <<>>
      <3>1. "second" \in Pools /\ pool["second"] = <<>> /\ Len(pool["second"]) = 0
        BY <2>1 DEF IInv, Unborn, Pools
      <3>2. Len(pool'["second"]) = 0 /\ pool'["second"] \in Seq(Connections)
        BY <3>1, <1>8, <1>9
      <3> QED
        BY <3>2, EmptySeq
    <2> QED
      BY <1>1, <2>1 DEF IInv, Unborn
  <1>12. ASSUME NEW r \in Pools PROVE Fits(r)'
    <2>1. Fits(r) /\ Len(pool'[r]) = Len(pool[r])
      BY <1>9 DEF IInv
    <2> QED
      BY <1>1, <2>1 DEF Fits
  <1> QED
    BY <1>10, <1>11, <1>12 DEF IInv

LEMMA FailoverInv ==
  ASSUME IInv, Failover
  PROVE  IInv'
PROOF
  <1>1. /\ UNCHANGED <<sentinel, opts, pool, used, second, pc, at, conn, known>>
        /\ master' \in Hosts
    BY DEF Failover, shared
  <1>2. TypeOK' /\ Unborn'
    BY <1>1 DEF IInv, TypeOK, Unborn
  <1>3. ASSUME NEW p \in Pools PROVE Fits(p)'
    <2>1. Fits(p)
      BY DEF IInv
    <2> QED
      BY <1>1, <2>1 DEF Fits
  <1> QED
    BY <1>2, <1>3 DEF IInv

LEMMA StutterInv ==
  ASSUME IInv, UNCHANGED vars
  PROVE  IInv'
PROOF
  <1>1. UNCHANGED <<master, sentinel, opts, pool, used, second, pc, at, conn, known>>
    BY DEF vars
  <1>2. TypeOK' /\ Unborn'
    BY <1>1 DEF IInv, TypeOK, Unborn
  <1>3. ASSUME NEW p \in Pools PROVE Fits(p)'
    <2>1. Fits(p)
      BY DEF IInv
    <2> QED
      BY <1>1, <2>1 DEF Fits
  <1> QED
    BY <1>2, <1>3 DEF IInv

LEMMA StepInv == IInv /\ [Next]_vars => IInv'
PROOF
  <1> SUFFICES ASSUME IInv, [Next]_vars PROVE IInv'
    OBVIOUS
  <1>1. ASSUME NEW t \in Threads, Start(t) PROVE IInv'
    BY <1>1, FetchIdleInv, FetchNewInv, FetchWaitInv, CreateInv DEF Start
  <1>2. ASSUME NEW t \in Threads, GoOn(t) PROVE IInv'
    BY <1>2, ResumeInv, HandOutInv, ReplaceInv, UpdateOptsInv, EndUseInv, NotifyInv DEF GoOn
  <1>3. ASSUME NEW t \in Threads, WakeUp(t) \/ Break(t) PROVE IInv'
    BY <1>3, WakeUpInv, BreakInv
  <1>4. ASSUME NEW p \in Pools, Expire(p) PROVE IInv'
    BY <1>4, ExpireInv
  <1>5. CASE Clone \/ Move \/ Failover
    BY <1>5, CloneInv, MoveInv, FailoverInv
  <1>6. CASE UNCHANGED vars
    BY <1>6, StutterInv
  <1> QED
    BY <1>1, <1>2, <1>3, <1>4, <1>5, <1>6 DEF Next

LEMMA Invariant == Spec => []IInv
PROOF
  <1> QED
    BY InitInv, StepInv, PTL DEF Spec

-----------------------------------------------------------------------------

(* Each part of a pool has its type, and a thread holds a connection just   *)
(* while it is between getting it from fetch() or create() and giving it    *)
(* back.                                                                    *)
THEOREM PoolTypeCorrect == Spec => []TypeOK
PROOF
  <1>1. IInv => TypeOK
    BY DEF IInv
  <1> QED
    BY <1>1, Invariant, PTL

(* However many threads fetch, reconnect and release, whichever of them     *)
(* fail, a pool never has more connections than its size, and unless it is  *)
(* moved it never loses count of one.                                       *)
THEOREM PoolWithinSize == Spec => []WithinSize
PROOF
  <1>1. IInv => WithinSize
    BY FitsMeans
  <1> QED
    BY <1>1, Invariant, PTL

(* notify_one() after release() is enough: no connection lies idle in the   *)
(* pool while threads wait and nobody is on the way to look.                *)
THEOREM PoolNoLostWakeup == Spec => []NoLostWakeup
PROOF
  <1>1. IInv => NoLostWakeup
    BY FitsMeans
  <1> QED
    BY <1>1, Invariant, PTL

-----------------------------------------------------------------------------
(* What fetch() hands out.                                                 *)

\* The connection that takes the place of another is new.
UpdateGood == \A u \in Threads : pc[u] = "update" => conn[u].good

\* A step of HandsOutGood, which leaves UpdateGood true.
GoodStep ==
  \A u \in Threads :
    /\ pc'[u] = "update" => conn'[u].good
    /\ pc[u] # "using" /\ pc'[u] = "using" =>
         /\ conn'[u].good
         /\ pc[u] = "check" /\ sentinel[at[u]] => conn'[u].host = known[u]

(* One thread t goes to c with the connection d.                            *)
LEMMA OneHands ==
  ASSUME TypeOK, UpdateGood, NEW t \in Threads, NEW c, NEW d,
         pc' = [pc EXCEPT ![t] = c], conn' = [conn EXCEPT ![t] = d],
         c = "update" => d.good,
         c = "using" /\ pc[t] # "using" =>
           d.good /\ (pc[t] = "check" /\ sentinel[at[t]] => d.host = known[t])
  PROVE  GoodStep
PROOF
  <1> SUFFICES ASSUME NEW u \in Threads
               PROVE  /\ pc'[u] = "update" => conn'[u].good
                      /\ pc[u] # "using" /\ pc'[u] = "using" =>
                           /\ conn'[u].good
                           /\ pc[u] = "check" /\ sentinel[at[u]] => conn'[u].host = known[u]
    BY DEF GoodStep
  <1>1. CASE u = t
    <2>1. pc'[u] = c /\ conn'[u] = d
      BY <1>1 DEF TypeOK
    <2> QED
      BY <1>1, <2>1
  <1>2. CASE u # t
    <2>1. pc'[u] = pc[u] /\ conn'[u] = conn[u]
      BY <1>2 DEF TypeOK
    <2> QED
      BY <2>1 DEF UpdateGood
  <1> QED
    BY <1>1, <1>2

(* The same, with the connection it has.                                    *)
LEMMA SameHands ==
  ASSUME TypeOK, UpdateGood, NEW t \in Threads, NEW c, UNCHANGED conn,
         pc' = [pc EXCEPT ![t] = c], c # "update",
         c = "using" /\ pc[t] # "using" =>
           conn[t].good /\ (pc[t] = "check" /\ sentinel[at[t]] => conn[t].host = known[t])
  PROVE  GoodStep
PROOF
  <1> DEFINE d == conn[t]
  <1>1. conn' = [conn EXCEPT ![t] = d]
    BY DEF TypeOK
  <1>2. d = conn[t]
    OBVIOUS
  <1> HIDE DEF d
  <1> QED
    BY <1>1, <1>2, OneHands

(* No thread gets anything.                                                 *)
LEMMA NoneHands ==
  ASSUME UpdateGood, UNCHANGED <<pc, conn>>
  PROVE  GoodStep
PROOF
  BY DEF GoodStep, UpdateGood

LEMMA FreshGood == \A h : Fresh(h).good
PROOF
  BY DEF Fresh

LEMMA StartHands ==
  ASSUME TypeOK, UpdateGood, NEW t \in Threads, Start(t)
  PROVE  GoodStep
PROOF
  <1>1. PICK p \in Pools : FetchIdle(t, p) \/ FetchNew(t, p) \/ FetchWait(t, p) \/ Create(t, p)
    BY DEF Start
  <1>2. CASE FetchIdle(t, p)
    <2> DEFINE d == Head(pool[p])
    <2>1. pc' = [pc EXCEPT ![t] = "check"] /\ conn' = [conn EXCEPT ![t] = d]
      BY <1>2 DEF FetchIdle, Take
    <2> HIDE DEF d
    <2> QED
      BY <2>1, OneHands
  <1>3. CASE FetchNew(t, p)
    <2> DEFINE d == Fresh(Target(p))
    <2>1. /\ pc' = [pc EXCEPT ![t] = "using"] /\ conn' = [conn EXCEPT ![t] = d]
          /\ pc[t] = "idle" /\ d.good
      BY <1>3, FreshGood DEF FetchNew, Calls
    <2> HIDE DEF d
    <2> QED
      BY <2>1, OneHands
  <1>4. CASE FetchWait(t, p)
    BY <1>4, SameHands DEF FetchWait
  <1>5. CASE Create(t, p)
    <2> DEFINE d == Fresh(master)
    <2>1. pc' = [pc EXCEPT ![t] = "created"] /\ conn' = [conn EXCEPT ![t] = d]
      BY <1>5 DEF Create
    <2> HIDE DEF d
    <2> QED
      BY <2>1, OneHands
  <1> QED
    BY <1>1, <1>2, <1>3, <1>4, <1>5

LEMMA ReleaseHands ==
  ASSUME TypeOK, UpdateGood, NEW t \in Threads, Release(t)
  PROVE  GoodStep
PROOF
  BY OneHands DEF Release

LEMMA ResumeHands ==
  ASSUME TypeOK, UpdateGood, NEW t \in Threads, Resume(t)
  PROVE  GoodStep
PROOF
  <1>1. CASE Take(t, at[t])
    <2> DEFINE d == Head(pool[at[t]])
    <2>1. pc' = [pc EXCEPT ![t] = "check"] /\ conn' = [conn EXCEPT ![t] = d]
      BY <1>1 DEF Take
    <2> HIDE DEF d
    <2> QED
      BY <2>1, OneHands
  <1>2. CASE pc' = [pc EXCEPT ![t] = "waiting"] /\ UNCHANGED conn
    BY <1>2, SameHands
  <1>3. CASE Leave(t) /\ UNCHANGED conn
    BY <1>3, SameHands DEF Leave
  <1> QED
    BY <1>1, <1>2, <1>3 DEF Resume

(* A connection that is neither broken nor of another role is handed out.   *)
LEMMA HandOutHands ==
  ASSUME TypeOK, UpdateGood, NEW t \in Threads, HandOut(t)
  PROVE  GoodStep
PROOF
  <1>1. /\ pc' = [pc EXCEPT ![t] = "using"] /\ UNCHANGED conn
        /\ conn[t].good /\ (sentinel[at[t]] => conn[t].host = known[t])
    BY DEF HandOut, NeedsNew, RoleChanged
  <1> QED
    BY <1>1, SameHands

(* One that is reconnected is good, and its pool has no sentinel.           *)
LEMMA ReplaceHands ==
  ASSUME TypeOK, UpdateGood, NEW t \in Threads, Replace(t)
  PROVE  GoodStep
PROOF
  <1>1. CASE /\ ~sentinel[at[t]] /\ conn' = [conn EXCEPT ![t].good = TRUE]
             /\ pc' = [pc EXCEPT ![t] = "using"]
    <2> DEFINE d == [conn[t] EXCEPT !.good = TRUE]
    <2>1. conn' = [conn EXCEPT ![t] = d]
      BY <1>1
    <2>2. d.good
      <3>1. conn[t] \in Connections \cup {None}
        BY DEF TypeOK
      <3> QED
        BY <3>1 DEF Connections, None
    <2> HIDE DEF d
    <2> QED
      BY <1>1, <2>1, <2>2, OneHands
  <1>2. CASE conn' = [conn EXCEPT ![t] = Fresh(master)] /\ pc' = [pc EXCEPT ![t] = "update"]
    <2> DEFINE d == Fresh(master)
    <2>1. conn' = [conn EXCEPT ![t] = d] /\ d.good
      BY <1>2, FreshGood
    <2> HIDE DEF d
    <2> QED
      BY <1>2, <2>1, OneHands
  <1>3. CASE Release(t)
    BY <1>3, ReleaseHands
  <1> QED
    BY <1>1, <1>2, <1>3 DEF Replace

LEMMA UpdateOptsHands ==
  ASSUME TypeOK, UpdateGood, NEW t \in Threads, UpdateOpts(t)
  PROVE  GoodStep
PROOF
  <1>1. CASE pc[t] = "update"
    <2>1. pc' = [pc EXCEPT ![t] = "using"] /\ UNCHANGED conn /\ conn[t].good
      BY <1>1 DEF UpdateOpts, UpdateGood
    <2> QED
      BY <1>1, <2>1, SameHands
  <1>2. CASE pc[t] # "update"
    BY <1>2, OneHands DEF UpdateOpts, Leave
  <1> QED
    BY <1>1, <1>2

LEMMA NotifyHands ==
  ASSUME TypeOK, UpdateGood, NEW t \in Threads, Notify(t)
  PROVE  GoodStep
PROOF
  <1>1. UNCHANGED conn
    BY DEF Notify
  <1>2. CASE pc' = [pc EXCEPT ![t] = "idle"]
    BY <1>1, <1>2, SameHands
  <1>3. ASSUME NEW w \in Threads, pc' = [pc EXCEPT ![t] = "idle", ![w] = "woken"]
        PROVE  GoodStep
    <2>1. \A u \in Threads : pc'[u] \in {"idle", "woken", pc[u]}
      BY <1>3 DEF TypeOK
    <2> QED
      BY <1>1, <2>1 DEF GoodStep, UpdateGood
  <1> QED
    BY <1>2, <1>3 DEF Notify

LEMMA StepHands == TypeOK /\ UpdateGood /\ [Next]_vars => GoodStep
PROOF
  <1> SUFFICES ASSUME TypeOK, UpdateGood, [Next]_vars PROVE GoodStep
    OBVIOUS
  <1>1. ASSUME NEW t \in Threads, Start(t) PROVE GoodStep
    BY <1>1, StartHands
  <1>2. ASSUME NEW t \in Threads, GoOn(t) PROVE GoodStep
    BY <1>2, ResumeHands, HandOutHands, ReplaceHands, UpdateOptsHands, ReleaseHands, NotifyHands
       DEF GoOn, EndUse
  <1>3. ASSUME NEW t \in Threads, WakeUp(t) PROVE GoodStep
    BY <1>3, SameHands DEF WakeUp
  <1>4. ASSUME NEW t \in Threads, Break(t) PROVE GoodStep
    <2>1. \A u \in Threads : pc'[u] = pc[u] /\ (pc[u] # "using" => conn'[u] = conn[u])
      BY <1>4 DEF Break, TypeOK
    <2> QED
      BY <2>1 DEF GoodStep, UpdateGood
  <1>5. CASE \/ \E p \in Pools : Expire(p)
             \/ Clone \/ Move \/ Failover
             \/ UNCHANGED vars
    BY <1>5, NoneHands DEF Expire, Clone, Move, Failover, vars
  <1> QED
    BY <1>1, <1>2, <1>3, <1>4, <1>5 DEF Next

(* fetch() hands out no connection that is broken or has outlived its       *)
(* lifetime; and one that it hands out as it lay in the pool of a sentinel  *)
(* leads to the host the pool knew then.                                    *)
THEOREM PoolHandsOutGood == Spec => HandsOutGood
PROOF
  <1>1. Init => UpdateGood
    BY DEF Init, UpdateGood
  <1>2. TypeOK /\ UpdateGood /\ [Next]_vars => UpdateGood'
    BY StepHands DEF GoodStep, UpdateGood
  <1>3. TypeOK /\ UpdateGood /\ [Next]_vars =>
          [\A t \in Threads :
             pc[t] # "using" /\ pc'[t] = "using" =>
               /\ conn'[t].good
               /\ pc[t] = "check" /\ sentinel[at[t]] => conn'[t].host = known[t]]_vars
    BY StepHands DEF GoodStep
  <1> QED
    BY <1>1, <1>2, <1>3, PoolTypeCorrect, PTL DEF Spec, HandsOutGood
=============================================================================
