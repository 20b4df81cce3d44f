---------------------------- MODULE PubSubProofs ----------------------------
(***************************************************************************)
(* Proofs about PubSub, for any channels and patterns, which may share     *)
(* texts, any commands, messages and disconnects: callbacks get every      *)
(* message of their name, in order, confirmations find their own handlers, *)
(* and the server agrees with the client on what is subscribed.            *)
(***************************************************************************)
EXTENDS PubSub, SequenceTheorems, FiniteSetTheorems, TLAPS

-----------------------------------------------------------------------------
(* Induction on the natural numbers, for sets of them: the set of those for *)
(* which something holds.  That < is well-founded is a theorem about sets.  *)

LEMMA SetInduction ==
  ASSUME NEW T, 0 \in T, \A n \in Nat : n \in T => n + 1 \in T
  PROVE  Nat \subseteq T
PROOF
  <1> DEFINE R == {ss \in Nat \X Nat : ss[1] < ss[2]}
             U == Nat \ T
  <1>1. IsWellFoundedOn(R, Nat)
    BY NatLessThanWellFounded DEF OpToRel
  <1>2. SUFFICES ASSUME U # {} PROVE FALSE
    OBVIOUS
  <1>3. \E x \in U : \A y \in U : ~ (<<y, x>> \in R)
    <2> HIDE DEF R
    <2> QED
      BY <1>1, <1>2, WFMin
  <1>4. PICK x \in U : \A y \in U : ~ (<<y, x>> \in R)
    BY <1>3
  <1>5. x - 1 \in U /\ x - 1 \in Nat /\ x \in Nat
    OBVIOUS
  <1>6. <<x - 1, x>> \in R
    BY <1>5
  <1> QED
    BY <1>4, <1>5, <1>6

-----------------------------------------------------------------------------
(* Three sequences put together from either side: a name of its own keeps   *)
(* the equation from being rewritten over and over.                         *)
Regroup(r, s, t) == (r \o s) \o t = r \o (s \o t)

LEMMA Regrouped == \A S : \A r, s, t \in Seq(S) : Regroup(r, s, t)
PROOF
  <1> SUFFICES ASSUME NEW S, NEW r \in Seq(S), NEW s \in Seq(S), NEW t \in Seq(S)
               PROVE  (r \o s) \o t = r \o (s \o t)
    BY DEF Regroup
  <1> QED
    BY ConcatAssociative, SMTT(30)

-----------------------------------------------------------------------------
(* The recursion of Only: f[m] is what it keeps of the first m items.       *)

Keeps(f, s, T, n) ==
  f = [m \in 0 .. n |->
         IF m = 0 THEN <<>>
         ELSE IF s[m] \in T THEN Append(f[m - 1], s[m]) ELSE f[m - 1]]

LEMMA KeepsStep ==
  ASSUME NEW f, NEW s, NEW T, NEW n \in Nat, Keeps(f, s, T, n)
  PROVE  /\ f[0] = <<>>
         /\ \A m \in 1 .. n :
              f[m] = IF s[m] \in T THEN Append(f[m - 1], s[m]) ELSE f[m - 1]
PROOF
  <1>1. f[0] = <<>>
    BY DEF Keeps
  <1>2. ASSUME NEW m \in 1 .. n
        PROVE  f[m] = IF s[m] \in T THEN Append(f[m - 1], s[m]) ELSE f[m - 1]
    <2>1. m \in 0 .. n /\ m # 0
      OBVIOUS
    <2> QED
      BY <2>1 DEF Keeps
  <1> QED
    BY <1>1, <1>2

LEMMA KeepsExists ==
  ASSUME NEW s, NEW T, NEW n \in Nat
  PROVE  \E f : Keeps(f, s, T, n)
PROOF
  <1> DEFINE N == {k \in Nat : \E f : Keeps(f, s, T, k)}
  <1>1. 0 \in N
    <2>1. Keeps([m \in 0 .. 0 |-> <<>>], s, T, 0)
      BY DEF Keeps
    <2> QED
      BY <2>1
  <1>2. ASSUME NEW k \in Nat, k \in N PROVE k + 1 \in N
    <2>1. PICK f : Keeps(f, s, T, k)
      BY <1>2
    <2> DEFINE g == [m \in 0 .. k + 1 |->
                       IF m <= k THEN f[m]
                       ELSE IF s[k + 1] \in T THEN Append(f[k], s[k + 1]) ELSE f[k]]
    <2>2. Keeps(g, s, T, k + 1)
      <3> SUFFICES ASSUME NEW m \in 0 .. k + 1
                   PROVE  g[m] = IF m = 0 THEN <<>>
                                 ELSE IF s[m] \in T THEN Append(g[m - 1], s[m]) ELSE g[m - 1]
        BY DEF Keeps
      <3>1. CASE m <= k
        <4>1. m = 0 \/ (m \in 1 .. k /\ m - 1 \in 0 .. k + 1 /\ m - 1 <= k)
          BY <3>1
        <4>2. g[m] = f[m] /\ (m # 0 => g[m - 1] = f[m - 1])
          BY <3>1, <4>1
        <4> HIDE DEF g
        <4> QED
          BY <4>1, <4>2, <2>1, KeepsStep
      <3>2. CASE m = k + 1
        <4>1. m - 1 = k /\ k \in 0 .. k + 1 /\ m # 0 /\ ~(m <= k)
          BY <3>2
        <4>2. g[k] = f[k]
          BY <4>1
        <4>3. g[m] = IF s[m] \in T THEN Append(f[k], s[m]) ELSE f[k]
          BY <4>1, <3>2
        <4> HIDE DEF g
        <4> QED
          BY <4>1, <4>2, <4>3
      <3> QED
        BY <3>1, <3>2
    <2> QED
      BY <2>2
  <1>3. Nat \subseteq N
    <2> HIDE DEF N
    <2> QED
      BY <1>1, <1>2, SetInduction
  <1> QED
    BY <1>3

LEMMA OnlyKept ==
  ASSUME NEW S, NEW s \in Seq(S), NEW T
  PROVE  \E f : /\ Keeps(f, s, T, Len(s))
                /\ Only(s, T) = f[Len(s)]
PROOF
  <1> DEFINE K == CHOOSE f : Keeps(f, s, T, Len(s))
  <1>1. Keeps(K, s, T, Len(s))
    BY KeepsExists, LenProperties
  <1>2. Only(s, T) = K[Len(s)]
    BY DEF Only, Keeps
  <1> QED
    BY <1>1, <1>2

(* Nothing is kept of nothing.                                              *)
LEMMA OnlyEmpty == \A T : Only(<<>>, T) = <<>>
PROOF
  <1> TAKE T
  <1>1. <<>> \in Seq({})
    OBVIOUS
  <1>2. PICK f : Keeps(f, <<>>, T, 0) /\ Only(<<>>, T) = f[0]
    BY <1>1, OnlyKept, EmptySeq
  <1> QED
    BY <1>2, KeepsStep

(* One item more is kept, or not.                                           *)
LEMMA OnlyAppend ==
  ASSUME NEW S, NEW s \in Seq(S), NEW e \in S, NEW T
  PROVE  Only(Append(s, e), T) = IF e \in T THEN Append(Only(s, T), e) ELSE Only(s, T)
PROOF
  <1> DEFINE t == Append(s, e)
  <1>1. t \in Seq(S) /\ Len(t) = Len(s) + 1 /\ Len(s) \in Nat /\ t[Len(s) + 1] = e
        /\ \A i \in 1 .. Len(s) : t[i] = s[i]
    BY AppendProperties, LenProperties
  <1> HIDE DEF t
  <1>2. PICK f : Keeps(f, s, T, Len(s)) /\ Only(s, T) = f[Len(s)]
    BY OnlyKept
  <1>3. PICK g : Keeps(g, t, T, Len(t)) /\ Only(t, T) = g[Len(t)]
    BY <1>1, OnlyKept
  <1> DEFINE N == {k \in Nat : k <= Len(s) => f[k] = g[k]}
  <1>4. 0 \in N
    BY <1>1, <1>2, <1>3, KeepsStep
  <1>5. ASSUME NEW k \in Nat, k \in N PROVE k + 1 \in N
    <2>1. SUFFICES ASSUME k + 1 <= Len(s) PROVE f[k + 1] = g[k + 1]
      OBVIOUS
    <2>2. k + 1 \in 0 .. Len(s) /\ k + 1 \in 0 .. Len(t) /\ k + 1 # 0 /\ (k + 1) - 1 = k
          /\ k + 1 \in 1 .. Len(s)
      BY <1>1, <2>1
    <2>3. f[k + 1] = IF s[k + 1] \in T THEN Append(f[k], s[k + 1]) ELSE f[k]
      BY <1>1, <1>2, <2>1, <2>2, KeepsStep
    <2>4. g[k + 1] = IF t[k + 1] \in T THEN Append(g[k], t[k + 1]) ELSE g[k]
      BY <1>1, <1>3, <2>1, <2>2, KeepsStep
    <2>5. f[k] = g[k] /\ t[k + 1] = s[k + 1]
      BY <1>1, <1>5, <2>1, <2>2
    <2> QED
      BY <2>3, <2>4, <2>5
  <1>6. f[Len(s)] = g[Len(s)]
    <2>1. Nat \subseteq N
      <3> HIDE DEF N
      <3> QED
        BY <1>4, <1>5, SetInduction
    <2> QED
      BY <2>1, <1>1
  <1>7. g[Len(t)] = IF t[Len(t)] \in T THEN Append(g[Len(t) - 1], t[Len(t)]) ELSE g[Len(t) - 1]
    BY <1>1, <1>3, KeepsStep
  <1>8. Len(t) - 1 = Len(s) /\ t[Len(t)] = e
    BY <1>1
  <1> QED
    BY <1>2, <1>3, <1>6, <1>7, <1>8 DEF t

(* Induction on sequences, for a set of them.                               *)
LEMMA SeqInduction ==
  ASSUME NEW S, NEW P, <<>> \in P,
         \A s \in Seq(S), e \in S : s \in P => Append(s, e) \in P
  PROVE  Seq(S) \subseteq P
PROOF
  <1> DEFINE N == {n \in Nat : \A s \in Seq(S) : Len(s) = n => s \in P}
  <1>1. 0 \in N
    BY EmptySeq
  <1>2. ASSUME NEW n \in Nat, n \in N PROVE n + 1 \in N
    <2>1. SUFFICES ASSUME NEW s \in Seq(S), Len(s) = n + 1 PROVE s \in P
      OBVIOUS
    <2>2. s # <<>>
      BY <2>1, EmptySeq
    <2>3. PICK r \in Seq(S), e \in S : s = Append(r, e)
      BY <2>2, SequenceEmptyOrAppend
    <2>4. Len(r) = n
      BY <2>1, <2>3, AppendProperties, LenProperties
    <2>5. r \in P
      BY <1>2, <2>4
    <2> QED
      BY <2>3, <2>5
  <1>3. Nat \subseteq N
    <2> HIDE DEF N
    <2> QED
      BY <1>1, <1>2, SetInduction
  <1> QED
    BY <1>3, LenProperties

(* What is kept is in both sets.                                            *)
LEMMA OnlyType ==
  ASSUME NEW S, NEW s \in Seq(S), NEW T
  PROVE  Only(s, T) \in Seq(S \cap T)
PROOF
  <1> DEFINE P == {r \in Seq(S) : Only(r, T) \in Seq(S \cap T)}
  <1>1. <<>> \in P
    BY EmptySeq, OnlyEmpty
  <1>2. ASSUME NEW r \in Seq(S), NEW e \in S, r \in P PROVE Append(r, e) \in P
    <2>1. Append(r, e) \in Seq(S)
      BY AppendProperties
    <2>2. e \in T => Append(Only(r, T), e) \in Seq(S \cap T)
      BY <1>2, AppendProperties
    <2> QED
      BY <1>2, <2>1, <2>2, OnlyAppend, ZenonT(60)
  <1>3. Seq(S) \subseteq P
    <2> HIDE DEF P
    <2> QED
      BY <1>1, <1>2, SeqInduction
  <1> QED
    BY <1>3

(* Of two sequences in a row the kept items are in a row too.               *)
LEMMA OnlyConcat ==
  ASSUME NEW S, NEW s \in Seq(S), NEW t \in Seq(S), NEW T
  PROVE  Only(s \o t, T) = Only(s, T) \o Only(t, T)
PROOF
  <1> DEFINE P == {r \in Seq(S) : Only(s \o r, T) = Only(s, T) \o Only(r, T)}
  <1>1. <<>> \in P
    <2>1. Only(s, T) \in Seq(S \cap T)
      BY OnlyType
    <2> QED
      BY <2>1, ConcatEmptySeq, EmptySeq, OnlyEmpty
  <1>2. ASSUME NEW r \in Seq(S), NEW e \in S, r \in P PROVE Append(r, e) \in P
    <2>1. s \o r \in Seq(S) /\ Append(r, e) \in Seq(S)
      BY ConcatProperties, AppendProperties
    <2>2. s \o Append(r, e) = Append(s \o r, e)
      <3>1. Append(r, e) = r \o <<e>> /\ Append(s \o r, e) = (s \o r) \o <<e>> /\ <<e>> \in Seq(S)
        BY <2>1, AppendIsConcat
      <3>2. Regroup(s, r, <<e>>)
        BY <3>1, Regrouped
      <3> QED
        BY <3>1, <3>2 DEF Regroup
    <2>3. Only(s \o Append(r, e), T) =
            IF e \in T THEN Append(Only(s \o r, T), e) ELSE Only(s \o r, T)
      <3>1. PICK q \in Seq(S) : q = s \o r
        BY <2>1
      <3>2. Only(Append(q, e), T) = IF e \in T THEN Append(Only(q, T), e) ELSE Only(q, T)
        BY OnlyAppend
      <3> QED
        BY <2>2, <3>1, <3>2, Zenon
    <2>4. Only(Append(r, e), T) = IF e \in T THEN Append(Only(r, T), e) ELSE Only(r, T)
      BY OnlyAppend
    <2>5. Only(s \o r, T) = Only(s, T) \o Only(r, T)
      BY <1>2
    <2>6. e \in T => Append(Only(s, T) \o Only(r, T), e) = Only(s, T) \o Append(Only(r, T), e)
      <3>1. SUFFICES ASSUME e \in T
                     PROVE  Append(Only(s, T) \o Only(r, T), e) = Only(s, T) \o Append(Only(r, T), e)
        OBVIOUS
      <3> DEFINE a == Only(s, T)
                 b == Only(r, T)
      <3>2. a \in Seq(S \cap T) /\ b \in Seq(S \cap T) /\ e \in S \cap T
        BY <3>1, OnlyType
      <3> HIDE DEF a, b
      <3>3. a \o b \in Seq(S \cap T) /\ <<e>> \in Seq(S \cap T)
        BY <3>2, ConcatProperties
      <3>4. Append(a \o b, e) = (a \o b) \o <<e>> /\ Append(b, e) = b \o <<e>>
        BY <3>2, <3>3, AppendIsConcat
      <3>5. Append(a \o b, e) = a \o Append(b, e)
        <4>1. Regroup(a, b, <<e>>)
          BY <3>2, <3>3, Regrouped
        <4> QED
          BY <3>4, <4>1 DEF Regroup
      <3> QED
        BY <3>5 DEF a, b
    <2> QED
      BY <2>1, <2>3, <2>4, <2>5, <2>6
  <1>3. Seq(S) \subseteq P
    <2> HIDE DEF P
    <2> QED
      BY <1>1, <1>2, SeqInduction
  <1> QED
    BY <1>3

(* Nothing is kept of items none of which is wanted.                        *)
LEMMA OnlyNone ==
  ASSUME NEW S, NEW s \in Seq(S), NEW T, \A i \in DOMAIN s : s[i] \notin T
  PROVE  Only(s, T) = <<>>
PROOF
  <1> DEFINE P == {r \in Seq(S) : (\A i \in DOMAIN r : r[i] \notin T) => Only(r, T) = <<>>}
  <1>1. <<>> \in P
    BY EmptySeq, OnlyEmpty
  <1>2. ASSUME NEW r \in Seq(S), NEW e \in S, r \in P PROVE Append(r, e) \in P
    <2>1. SUFFICES ASSUME \A i \in DOMAIN Append(r, e) : Append(r, e)[i] \notin T
                   PROVE  Only(Append(r, e), T) = <<>>
      BY AppendProperties
    <2>2. e \notin T /\ \A i \in DOMAIN r : r[i] \notin T
      BY <2>1, AppendProperties, LenProperties
    <2> QED
      BY <1>2, <2>2, OnlyAppend
  <1>3. Seq(S) \subseteq P
    <2> HIDE DEF P
    <2> QED
      BY <1>1, <1>2, SeqInduction
  <1> QED
    BY <1>3

(* The only item that is wanted.                                            *)
LEMMA OnlyOne ==
  ASSUME NEW S, NEW s \in Seq(S), NEW T, NEW i \in DOMAIN s, s[i] \in T,
         \A j \in DOMAIN s : s[j] \in T => j = i
  PROVE  Only(s, T) = <<s[i]>>
PROOF
  <1> DEFINE One(r, k) == r[k] \in T /\ \A j \in DOMAIN r : r[j] \in T => j = k
             P == {r \in Seq(S) : \A k \in DOMAIN r : One(r, k) => Only(r, T) = <<r[k]>>}
  <1>1. <<>> \in P
    BY EmptySeq
  <1>2. ASSUME NEW r \in Seq(S), NEW e \in S, r \in P PROVE Append(r, e) \in P
    <2> DEFINE t == Append(r, e)
    <2>1. /\ t \in Seq(S) /\ DOMAIN t = 1 .. Len(r) + 1 /\ DOMAIN r = 1 .. Len(r)
          /\ Len(r) \in Nat /\ t[Len(r) + 1] = e /\ \A j \in DOMAIN r : t[j] = r[j]
      BY AppendProperties, LenProperties
    <2>2. SUFFICES ASSUME NEW k \in DOMAIN t, One(t, k)
                   PROVE  Only(t, T) = <<t[k]>>
      BY <2>1
    <2>3. CASE k = Len(r) + 1
      <3>1. e \in T /\ t[k] = e
        BY <2>1, <2>2, <2>3
      <3>2. \A j \in DOMAIN r : r[j] \notin T
        BY <2>1, <2>2, <2>3
      <3>3. Only(r, T) = <<>>
        BY <3>2, OnlyNone
      <3>4. Only(t, T) = Append(Only(r, T), e)
        BY <3>1, OnlyAppend
      <3> QED
        BY <3>1, <3>3, <3>4
    <2>4. CASE k \in DOMAIN r
      <3>1. e \notin T
        BY <2>1, <2>2, <2>4
      <3>2. One(r, k)
        BY <2>1, <2>2, <2>4
      <3> QED
        BY <1>2, <2>1, <2>4, <3>1, <3>2, OnlyAppend
    <2> QED
      BY <2>1, <2>3, <2>4
  <1>3. Seq(S) \subseteq P
    <2> HIDE DEF P
    <2> QED
      BY <1>1, <1>2, SeqInduction
  <1> QED
    BY <1>3

(* What is kept stands in the sequence, in the same order.                  *)
LEMMA OnlyEmbeds ==
  ASSUME NEW S, NEW s \in Seq(S), NEW T
  PROVE  \E at \in [DOMAIN Only(s, T) -> DOMAIN s] :
           /\ \A i \in DOMAIN Only(s, T) : Only(s, T)[i] = s[at[i]]
           /\ \A i, j \in DOMAIN Only(s, T) : i < j => at[i] < at[j]
PROOF
  <1> DEFINE Embeds(at, r) ==
               /\ at \in [DOMAIN Only(r, T) -> DOMAIN r]
               /\ \A i \in DOMAIN Only(r, T) : Only(r, T)[i] = r[at[i]]
               /\ \A i, j \in DOMAIN Only(r, T) : i < j => at[i] < at[j]
             P == {r \in Seq(S) : \E at : Embeds(at, r)}
  <1>1. <<>> \in P
    <2>1. Only(<<>>, T) = <<>> /\ <<>> \in Seq(S) /\ DOMAIN Only(<<>>, T) = {}
      BY EmptySeq, OnlyEmpty
    <2>2. Embeds(<<>>, <<>>)
      BY <2>1
    <2> QED
      BY <2>1, <2>2
  <1>2. ASSUME NEW r \in Seq(S), NEW e \in S, r \in P PROVE Append(r, e) \in P
    <2> DEFINE t == Append(r, e)
               a == Only(r, T)
               b == Only(t, T)
    <2>1. /\ t \in Seq(S) /\ DOMAIN t = 1 .. Len(r) + 1 /\ DOMAIN r = 1 .. Len(r)
          /\ Len(r) \in Nat /\ t[Len(r) + 1] = e /\ \A j \in DOMAIN r : t[j] = r[j]
      BY AppendProperties, LenProperties
    <2>2. a \in Seq(S \cap T) /\ DOMAIN a = 1 .. Len(a) /\ Len(a) \in Nat
      BY OnlyType, LenProperties
    <2>3. PICK at : Embeds(at, r)
      BY <1>2
    <2>4. b = IF e \in T THEN Append(a, e) ELSE a
      BY OnlyAppend
    <2>5. CASE e \notin T
      <3>1. Embeds(at, t)
        BY <2>1, <2>2, <2>3, <2>4, <2>5
      <3> QED
        BY <2>1, <3>1
    <2>6. CASE e \in T
      <3>1. /\ DOMAIN b = 1 .. Len(a) + 1 /\ b[Len(a) + 1] = e
            /\ \A j \in DOMAIN a : b[j] = a[j]
        <4>1. e \in S \cap T
          BY <2>6
        <4> HIDE DEF a, b, t
        <4>2. b = Append(a, e)
          BY <2>4, <2>6
        <4> QED
          BY <2>2, <4>1, <4>2, AppendProperties, LenProperties
      <3> DEFINE new == [i \in 1 .. Len(a) + 1 |-> IF i \in DOMAIN a THEN at[i] ELSE Len(r) + 1]
      <3> HIDE DEF a, b, t
      <3>2. /\ at \in [DOMAIN a -> DOMAIN r]
            /\ \A i \in DOMAIN a : a[i] = r[at[i]]
            /\ \A i, j \in DOMAIN a : i < j => at[i] < at[j]
        BY <2>3 DEF a
      <3>3. /\ new \in [DOMAIN b -> DOMAIN t]
            /\ \A i \in DOMAIN b : b[i] = t[new[i]]
            /\ \A i, j \in DOMAIN b : i < j => new[i] < new[j]
        BY <2>1, <2>2, <3>1, <3>2
      <3>4. Embeds(new, t)
        BY <3>3 DEF b
      <3> HIDE DEF new
      <3> QED
        BY <2>1, <3>4 DEF t
    <2> QED
      BY <2>5, <2>6
  <1>3. Seq(S) \subseteq P
    <2> HIDE DEF P
    <2> QED
      BY <1>1, <1>2, SeqInduction
  <1> QED
    BY <1>3

-----------------------------------------------------------------------------
(* The messages of some items.                                              *)

LEMMA MsgsType ==
  ASSUME NEW S, NEW s \in Seq(S), NEW T, \A x \in T : x.msg \in Msg
  PROVE  /\ MsgsOf(s, T) \in Seq(Msg)
         /\ Len(MsgsOf(s, T)) = Len(Only(s, T))
         /\ \A i \in 1 .. Len(Only(s, T)) : MsgsOf(s, T)[i] = Only(s, T)[i].msg
PROOF
  <1> DEFINE of == Only(s, T)
             r  == [i \in 1 .. Len(of) |-> of[i].msg]
  <1>1. of \in Seq(S \cap T)
    BY OnlyType
  <1> HIDE DEF of
  <1>2. Len(of) \in Nat /\ DOMAIN of = 1 .. Len(of) /\ \A i \in 1 .. Len(of) : of[i] \in T
    BY <1>1, LenProperties, ElementOfSeq
  <1>3. r \in [1 .. Len(of) -> Msg]
    BY <1>2
  <1>4. r \in Seq(Msg)
    BY <1>2, <1>3, SeqDef
  <1>5. Len(r) = Len(of)
    BY <1>2, <1>3, <1>4, LenProperties
  <1>6. MsgsOf(s, T) = r
    BY <1>2 DEF MsgsOf, of
  <1> QED
    BY <1>4, <1>5, <1>6 DEF of

(* No items, or none that is wanted.                                        *)
LEMMA MsgsNone ==
  ASSUME NEW S, NEW s \in Seq(S), NEW T, \A i \in DOMAIN s : s[i] \notin T
  PROVE  MsgsOf(s, T) = <<>>
PROOF
  <1>1. Only(s, T) = <<>>
    BY OnlyNone
  <1> QED
    BY <1>1 DEF MsgsOf

LEMMA MsgsEmpty == \A T : MsgsOf(<<>>, T) = <<>>
PROOF
  BY OnlyEmpty DEF MsgsOf

(* One of the items is wanted.                                              *)
LEMMA MsgsOne ==
  ASSUME NEW S, NEW s \in Seq(S), NEW T, NEW x, Only(s, T) = <<x>>
  PROVE  MsgsOf(s, T) = <<x.msg>>
PROOF
  <1> DEFINE one == <<x>>
  <1>1. DOMAIN one = 1 .. 1 /\ one[1] = x
    OBVIOUS
  <1> HIDE DEF one
  <1>2. MsgsOf(s, T) = [i \in 1 .. 1 |-> one[i].msg]
    BY <1>1 DEF MsgsOf, one
  <1>3. \A i \in 1 .. 1 : one[i].msg = x.msg
    BY <1>1
  <1> QED
    BY <1>2, <1>3

LEMMA MsgsConcat ==
  ASSUME NEW S, NEW s \in Seq(S), NEW t \in Seq(S), NEW T, \A x \in T : x.msg \in Msg
  PROVE  MsgsOf(s \o t, T) = MsgsOf(s, T) \o MsgsOf(t, T)
PROOF
  <1> DEFINE a == Only(s, T)
             b == Only(t, T)
             l == MsgsOf(s \o t, T)
             p == MsgsOf(s, T)
             q == MsgsOf(t, T)
             r == p \o q
  <1>1. s \o t \in Seq(S) /\ Only(s \o t, T) = a \o b
    BY ConcatProperties, OnlyConcat
  <1>2. a \in Seq(S \cap T) /\ b \in Seq(S \cap T)
    BY OnlyType
  <1>3. /\ l \in Seq(Msg) /\ Len(l) = Len(a \o b)
        /\ \A i \in 1 .. Len(a \o b) : l[i] = (a \o b)[i].msg
    BY <1>1, MsgsType, ZenonT(60)
  <1>4. /\ p \in Seq(Msg) /\ Len(p) = Len(a) /\ \A i \in 1 .. Len(a) : p[i] = a[i].msg
        /\ q \in Seq(Msg) /\ Len(q) = Len(b) /\ \A i \in 1 .. Len(b) : q[i] = b[i].msg
    BY MsgsType
  <1> HIDE DEF a, b, l, p, q
  <1>5. /\ Len(a) \in Nat /\ Len(b) \in Nat /\ Len(a \o b) = Len(a) + Len(b)
        /\ \A i \in 1 .. Len(a) + Len(b) : (a \o b)[i] = IF i <= Len(a) THEN a[i] ELSE b[i - Len(a)]
    BY <1>2, ConcatProperties, LenProperties
  <1>6. /\ r \in Seq(Msg) /\ Len(r) = Len(a) + Len(b)
        /\ \A i \in 1 .. Len(a) + Len(b) :
             r[i] = IF i <= Len(a) THEN p[i] ELSE q[i - Len(a)]
    <2>4. p \in Seq(Msg) /\ q \in Seq(Msg)
      BY <1>4
    <2>1. /\ r \in Seq(Msg) /\ Len(r) = Len(p) + Len(q)
          /\ \A i \in 1 .. Len(p) + Len(q) : r[i] = IF i <= Len(p) THEN p[i] ELSE q[i - Len(p)]
      BY <2>4, ConcatProperties
    <2> HIDE DEF r
    <2> QED
      BY <1>4, <2>1
  <1> HIDE DEF r
  <1>7. \A i \in 1 .. Len(l) : l[i] = r[i]
    <2> SUFFICES ASSUME NEW i \in 1 .. Len(a) + Len(b) PROVE l[i] = r[i]
      BY <1>3, <1>5
    <2>1. CASE i <= Len(a)
      <3>1. i \in 1 .. Len(a) /\ i \in 1 .. Len(a \o b)
        BY <2>1, <1>5
      <3>2. l[i] = (a \o b)[i].msg /\ (a \o b)[i] = a[i]
        BY <3>1, <2>1, <1>3, <1>5
      <3>3. r[i] = p[i] /\ p[i] = a[i].msg
        BY <3>1, <2>1, <1>4, <1>6
      <3> QED
        BY <3>2, <3>3
    <2>2. CASE i > Len(a)
      <3>1. i - Len(a) \in 1 .. Len(b) /\ ~(i <= Len(a))
        BY <2>2, <1>5
      <3> QED
        BY <3>1, <1>3, <1>4, <1>5, <1>6
    <2> QED
      BY <2>1, <2>2, <1>5
  <1>8. l = r
    BY <1>3, <1>5, <1>6, <1>7, SeqEqual
  <1> QED
    BY <1>8 DEF l, r, p, q

(* The first of the items, and the last.                                    *)
LEMMA MsgsSingle ==
  ASSUME NEW x, NEW T
  PROVE  MsgsOf(<<x>>, T) = IF x \in T THEN <<x.msg>> ELSE <<>>
PROOF
  <1>1. <<x>> \in Seq({x}) /\ DOMAIN <<x>> = {1} /\ <<x>>[1] = x
    OBVIOUS
  <1> DEFINE s == <<x>>
  <1>2. CASE x \in T
    <2> HIDE DEF s
    <2>1. Only(s, T) = <<s[1]>>
      BY <1>1, <1>2, OnlyOne DEF s
    <2> QED
      BY <2>1, <1>1, <1>2, MsgsOne, ZenonT(60) DEF s
  <1>3. CASE x \notin T
    BY <1>1, <1>3, MsgsNone
  <1> QED
    BY <1>2, <1>3

LEMMA MsgsAppend ==
  ASSUME NEW S, NEW s \in Seq(S), NEW x \in S, NEW T, \A y \in T : y.msg \in Msg
  PROVE  MsgsOf(Append(s, x), T) = IF x \in T THEN Append(MsgsOf(s, T), x.msg) ELSE MsgsOf(s, T)
PROOF
  <1>1. <<x>> \in Seq(S) /\ Append(s, x) = s \o <<x>>
    BY AppendIsConcat
  <1>2. MsgsOf(Append(s, x), T) = MsgsOf(s, T) \o MsgsOf(<<x>>, T)
    <2> DEFINE one == <<x>>
    <2> HIDE DEF one
    <2>1. one \in Seq(S) /\ Append(s, x) = s \o one
      BY <1>1 DEF one
    <2>2. MsgsOf(s \o one, T) = MsgsOf(s, T) \o MsgsOf(one, T)
      BY <2>1, MsgsConcat
    <2> QED
      BY <2>1, <2>2 DEF one
  <1>3. MsgsOf(s, T) \in Seq(Msg)
    BY MsgsType
  <1>4. x \in T => MsgsOf(s, T) \o <<x.msg>> = Append(MsgsOf(s, T), x.msg)
    BY <1>3, AppendIsConcat
  <1> QED
    BY <1>2, <1>3, <1>4, MsgsSingle, ConcatEmptySeq

LEMMA MsgsHead ==
  ASSUME NEW S, NEW s \in Seq(S), s # <<>>, NEW T, \A y \in T : y.msg \in Msg
  PROVE  MsgsOf(s, T) = IF Head(s) \in T THEN <<Head(s).msg>> \o MsgsOf(Tail(s), T)
                        ELSE MsgsOf(Tail(s), T)
PROOF
  <1>1. Head(s) \in S /\ Tail(s) \in Seq(S) /\ <<Head(s)>> \in Seq(S)
    BY HeadTailProperties
  <1>2. s = <<Head(s)>> \o Tail(s)
    BY <1>1, HeadTailProperties, ConcatProperties, SeqEqual
  <1> DEFINE x == Head(s)
             rest == Tail(s)
  <1>3. MsgsOf(s, T) = MsgsOf(<<x>>, T) \o MsgsOf(rest, T)
    <2> DEFINE one == <<x>>
    <2>1. one \in Seq(S) /\ rest \in Seq(S) /\ s = one \o rest
      BY <1>1, <1>2
    <2> HIDE DEF one, rest
    <2>2. MsgsOf(one \o rest, T) = MsgsOf(one, T) \o MsgsOf(rest, T)
      BY <2>1, MsgsConcat
    <2> QED
      BY <2>1, <2>2 DEF one
  <1>4. rest \in Seq(S)
    BY <1>1
  <1> HIDE DEF x, rest
  <1>5. MsgsOf(rest, T) \in Seq(Msg)
    BY <1>4, MsgsType
  <1>6. MsgsOf(<<x>>, T) = IF x \in T THEN <<x.msg>> ELSE <<>>
    BY MsgsSingle
  <1>7. <<>> \o MsgsOf(rest, T) = MsgsOf(rest, T)
    BY <1>5, ConcatEmptySeq
  <1>8. MsgsOf(s, T) = IF x \in T THEN <<x.msg>> \o MsgsOf(rest, T) ELSE MsgsOf(rest, T)
    BY <1>3, <1>6, <1>7
  <1> QED
    BY <1>8 DEF x, rest

LEMMA FramesMsg == \A n : \A x \in FramesOf(n) : x.msg \in Msg
PROOF
  BY DEF FramesOf

-----------------------------------------------------------------------------
(* The types.                                                               *)

Item  == SendItem \cup CallItem    \* what the strand holds
Frame == SendItem \cup FrameItem   \* what the server sends

(* The ids of handles are counted, once for each command at the most, and   *)
(* the server has as many topics at the most.                               *)
TInv == TypeOK /\ subscribeSeq <= cmds /\ IsFiniteSet(subs)

LEMMA TopicName == \A t \in Topics : t.name \in Names
PROOF
  BY DEF Topics, Names

LEMMA CommandType ==
  ASSUME NEW op \in Sends, NEW t \in Topics, NEW c \in Cmd
  PROVE  Command(op, t, c) \in SendItem
PROOF
  BY DEF Command, SendItem

LEMMA MessageType ==
  ASSUME NEW cb \in Cmd, NEW msg \in Msg
  PROVE  Message(cb, msg) \in CallItem
PROOF
  BY DEF Message, CallItem

(* A new command is counted, and is the last on the strand.                 *)
LEMMA IssueType ==
  ASSUME TInv, NEW op \in Sends, NEW t \in Topics, Issue(op, t)
  PROVE  /\ cmds' = cmds + 1 /\ cmds' \in Cmd /\ cmds' \in 0 .. MaxCmds
         /\ strandq' \in Seq(Item)
         /\ Command(op, t, cmds') \in SendItem
PROOF
  <1>1. cmds' = cmds + 1 /\ cmds' \in Cmd /\ cmds' \in 0 .. MaxCmds
    BY PubSubAssumption DEF TInv, TypeOK, Issue, Cmd
  <1>2. Command(op, t, cmds') \in SendItem
    BY <1>1, CommandType
  <1>3. strandq' \in Seq(Item)
    BY <1>2, AppendProperties DEF TInv, TypeOK, Issue, Item
  <1> QED
    BY <1>1, <1>2, <1>3

(* Some of the handlers are handlers too, and still distinct.               *)
LEMMA HandlersKept ==
  ASSUME TInv, NEW T
  PROVE  /\ Only(msgHandlers, T) \in Seq([id : 0 .. MaxCmds, name : Names, cb : Cmd])
         /\ \A i \in DOMAIN Only(msgHandlers, T) : Only(msgHandlers, T)[i].id < subscribeSeq
         /\ \A i, j \in DOMAIN Only(msgHandlers, T) :
              Only(msgHandlers, T)[i].id = Only(msgHandlers, T)[j].id => i = j
PROOF
  <1> DEFINE H == [id : 0 .. MaxCmds, name : Names, cb : Cmd]
             kept == Only(msgHandlers, T)
  <1>1. /\ msgHandlers \in Seq(H)
        /\ \A i \in DOMAIN msgHandlers : msgHandlers[i].id < subscribeSeq
        /\ \A i, j \in DOMAIN msgHandlers : msgHandlers[i].id = msgHandlers[j].id => i = j
    BY DEF TInv, TypeOK, HandlesOK
  <1>2. kept \in Seq(H)
    <2>1. kept \in Seq(H \cap T) /\ H \cap T \subseteq H
      BY <1>1, OnlyType
    <2> HIDE DEF kept, H
    <2> QED
      BY <2>1, SeqMonotonic
  <1>3. PICK at \in [DOMAIN kept -> DOMAIN msgHandlers] :
           /\ \A i \in DOMAIN kept : kept[i] = msgHandlers[at[i]]
           /\ \A i, j \in DOMAIN kept : i < j => at[i] < at[j]
    BY <1>1, OnlyEmbeds
  <1> HIDE DEF kept
  <1>4. \A i \in DOMAIN kept : kept[i].id < subscribeSeq
    BY <1>1, <1>3
  <1>5. ASSUME NEW i \in DOMAIN kept, NEW j \in DOMAIN kept, kept[i].id = kept[j].id
        PROVE  i = j
    <2>1. at[i] = at[j] /\ at[i] \in 1 .. Len(msgHandlers) /\ Len(msgHandlers) \in Nat
      BY <1>1, <1>3, <1>5, LenProperties
    <2>2. i \in Nat /\ j \in Nat
      BY <1>2, LenProperties
    <2> QED
      BY <1>3, <2>1, <2>2
  <1> QED
    BY <1>2, <1>4, <1>5 DEF kept

LEMMA SubscribeType ==
  ASSUME TInv, NEW t \in Topics, Subscribe(t)
  PROVE  TInv'
PROOF
  <1>1. Issue("subscribe", t) /\ "subscribe" \in Sends
    BY DEF Subscribe, Sends
  <1>2. /\ cmds' = cmds + 1 /\ cmds' \in Cmd /\ cmds' \in 0 .. MaxCmds
        /\ strandq' \in Seq(Item)
    BY <1>1, IssueType
  <1>3. subscribeSeq \in 0 .. MaxCmds /\ subscribeSeq + 1 \in 0 .. MaxCmds /\ subscribeSeq + 1 <= cmds'
        /\ subscribeSeq \in Nat
    BY <1>2, PubSubAssumption DEF TInv, TypeOK
  <1> DEFINE new == [id |-> subscribeSeq, name |-> t.name, cb |-> cmds']
             H   == [id : 0 .. MaxCmds, name : Names, cb : Cmd]
  <1>8. t.name \in Names
    BY TopicName
  <1>4. new \in H
    BY <1>2, <1>3, <1>8
  <1>5. (HandlesOK /\ subscribeSeq <= cmds /\ given \subseteq [id : 0 .. MaxCmds, name : Names]
         /\ singleShots \subseteq [name : Names, cb : Cmd] /\ subscribeSeq \in 0 .. MaxCmds)'
    <2>1. CASE Install(t.name)
      <3>1. msgHandlers \in Seq(H) /\ Len(msgHandlers) \in Nat
        BY LenProperties DEF TInv, TypeOK, HandlesOK
      <3>8. \A i \in DOMAIN msgHandlers : msgHandlers[i].id < subscribeSeq /\ msgHandlers[i].id \in Nat
        <4> SUFFICES ASSUME NEW i \in DOMAIN msgHandlers
                     PROVE  msgHandlers[i].id < subscribeSeq /\ msgHandlers[i].id \in Nat
          OBVIOUS
        <4>1. msgHandlers[i] \in H
          BY <3>1, ElementOfSeq, LenProperties
        <4>2. msgHandlers[i].id \in 0 .. MaxCmds
          BY <4>1
        <4>3. msgHandlers[i].id \in Nat
          BY <4>2, PubSubAssumption
        <4>4. msgHandlers[i].id < subscribeSeq
          BY DEF TInv, TypeOK, HandlesOK
        <4> QED
          BY <4>3, <4>4
      <3>2. msgHandlers' = Append(msgHandlers, new) /\ subscribeSeq' = subscribeSeq + 1
        BY <2>1 DEF Install
      <3> HIDE DEF new
      <3>3. /\ msgHandlers' \in Seq(H) /\ DOMAIN msgHandlers' = 1 .. Len(msgHandlers) + 1
            /\ DOMAIN msgHandlers = 1 .. Len(msgHandlers)
            /\ msgHandlers'[Len(msgHandlers) + 1] = new
            /\ \A i \in DOMAIN msgHandlers : msgHandlers'[i] = msgHandlers[i]
        BY <3>1, <3>2, <1>4, AppendProperties, LenProperties
      <3>4. new.id = subscribeSeq
        BY DEF new
      <3>5. \A i \in DOMAIN msgHandlers' : msgHandlers'[i].id < subscribeSeq'
        <4> SUFFICES ASSUME NEW i \in DOMAIN msgHandlers' PROVE msgHandlers'[i].id < subscribeSeq + 1
          BY <3>2
        <4>1. CASE i = Len(msgHandlers) + 1
          BY <4>1, <3>3, <3>4, <1>3
        <4>2. CASE i \in DOMAIN msgHandlers
          <5>1. msgHandlers[i].id < subscribeSeq /\ msgHandlers[i].id \in Nat
            BY <4>2, <3>8
          <5> QED
            BY <5>1, <4>2, <3>3, <1>3
        <4> QED
          BY <4>1, <4>2, <3>1, <3>3
      <3>6. \A i, j \in DOMAIN msgHandlers' : msgHandlers'[i].id = msgHandlers'[j].id => i = j
        <4>1. \A i, j \in DOMAIN msgHandlers : msgHandlers[i].id = msgHandlers[j].id => i = j
          BY DEF TInv, TypeOK, HandlesOK
        <4>2. \A i \in DOMAIN msgHandlers : msgHandlers'[i].id # subscribeSeq
          BY <3>8, <3>3, <1>3
        <4>3. DOMAIN msgHandlers' = DOMAIN msgHandlers \cup {Len(msgHandlers) + 1}
          BY <3>1, <3>3
        <4>4. msgHandlers'[Len(msgHandlers) + 1].id = subscribeSeq
          BY <3>3, <3>4
        <4>5. \A i \in DOMAIN msgHandlers : msgHandlers'[i] = msgHandlers[i]
          BY <3>3
        <4> QED
          BY <4>1, <4>2, <4>3, <4>4, <4>5
      <3>7. given' \subseteq [id : 0 .. MaxCmds, name : Names] /\ singleShots' = singleShots
        BY <2>1, <1>3, <1>8 DEF Install, TInv, TypeOK
      <3> QED
        BY <3>2, <3>3, <3>5, <3>6, <3>7, <1>3 DEF HandlesOK, TInv, TypeOK
    <2>2. CASE InstallShot(t.name)
      BY <2>2, <1>2, <1>3, <1>8, SMTT(30) DEF InstallShot, TInv, TypeOK, HandlesOK
    <2> QED
      BY <2>1, <2>2 DEF Subscribe
  <1>6. mixed' \in BOOLEAN
    BY DEF Subscribe, TInv, TypeOK, Pipelined
  <1>7. (state \in {"Connected", "Subscribed", "Closed"})' /\ asked' \subseteq Topics
    BY DEF Subscribe, TInv, TypeOK
  <1> QED
    BY <1>2, <1>5, <1>6, <1>7 DEF Subscribe, TInv, TypeOK, wire, Item

LEMMA SubscribeRefusedType ==
  ASSUME TInv, NEW t \in Topics, SubscribeRefused(t)
  PROVE  TInv'
PROOF
  <1>1. given' \subseteq [id : 0 .. MaxCmds, name : Names]
    BY TopicName, PubSubAssumption DEF SubscribeRefused, TInv, TypeOK
  <1> QED
    BY <1>1 DEF SubscribeRefused, TInv, TypeOK, HandlesOK, client, wire, counts

LEMMA UnsubscribeType ==
  ASSUME TInv, NEW handle \in given, NEW t \in Topics, Unsubscribe(handle, t)
  PROVE  TInv'
PROOF
  <1>2. Issue("unsubscribe", t) /\ "unsubscribe" \in Sends
    BY DEF Unsubscribe, Sends
  <1>3. /\ cmds' = cmds + 1 /\ cmds' \in 0 .. MaxCmds
        /\ strandq' \in Seq(Item)
    BY <1>2, IssueType
  <1>4. HandlesOK'
    BY HandlersKept DEF Unsubscribe, HandlesOK
  <1>5. (subscribeSeq <= cmds)'
    BY <1>3 DEF Unsubscribe, TInv, TypeOK
  <1> QED
    BY <1>3, <1>4, <1>5 DEF Unsubscribe, TInv, TypeOK, wire, Item

LEMMA TopicsNotEmpty == \E t \in Topics : TRUE
PROOF
  <1>1. PICK n : n \in Channels \/ n \in Patterns
    BY PubSubAssumption
  <1>2. n \in Channels => [kind |-> "channel", name |-> n] \in Topics
    BY DEF Topics
  <1>3. n \in Patterns => [kind |-> "pattern", name |-> n] \in Topics
    BY DEF Topics
  <1> QED
    BY <1>1, <1>2, <1>3

LEMMA PlainCommandType ==
  ASSUME TInv, PlainCommand
  PROVE  TInv'
PROOF
  <1>1. PICK t \in Topics : Issue("command", t)
    BY TopicsNotEmpty DEF PlainCommand
  <1>2. "command" \in Sends
    BY DEF Sends
  <1>3. /\ cmds' = cmds + 1 /\ cmds' \in 0 .. MaxCmds
        /\ strandq' \in Seq(Item)
    BY <1>1, <1>2, IssueType
  <1>4. (subscribeSeq <= cmds)'
    BY <1>3 DEF PlainCommand, TInv, TypeOK
  <1> QED
    BY <1>3, <1>4 DEF PlainCommand, TInv, TypeOK, HandlesOK, wire, history, Item

LEMMA DisconnectType ==
  ASSUME TInv, Disconnect
  PROVE  TInv'
PROOF
  <1>1. closes' \in 0 .. MaxCloses
    BY PubSubAssumption DEF Disconnect, TInv, TypeOK
  <1>2. dirty' \in BOOLEAN
    BY DEF Disconnect, TInv, TypeOK
  <1>3. HandlesOK' /\ IsFiniteSet(subs')
    BY FS_EmptySet DEF Disconnect, HandlesOK
  <1>4. (handlers \in Seq(Cmd) /\ toServer \in Seq(SendItem) /\ toClient \in Seq(SendItem \cup FrameItem))'
    BY DEF Disconnect
  <1> QED
    BY <1>1, <1>2, <1>3, <1>4 DEF Disconnect, TInv, TypeOK

LEMMA ConnectType ==
  ASSUME TInv, Connect
  PROVE  TInv'
PROOF
  BY DEF Connect, TInv, TypeOK, HandlesOK, wire, counts, history

(* What the strand runs has the type of what it holds.                      *)
LEMMA HeadType ==
  ASSUME TInv, strandq # <<>>
  PROVE  /\ Head(strandq) \in Item /\ Tail(strandq) \in Seq(Item)
         /\ Head(strandq).op = "message" => Head(strandq) \in CallItem
         /\ Head(strandq).op # "message" => Head(strandq) \in SendItem
PROOF
  <1>1. Head(strandq) \in Item /\ Tail(strandq) \in Seq(Item)
    BY HeadTailProperties DEF TInv, TypeOK, Item
  <1> QED
    BY <1>1 DEF Item, SendItem, CallItem, Sends

LEMMA RunStrandType ==
  ASSUME TInv, RunStrand
  PROVE  TInv'
PROOF
  <1>1. /\ strandq' \in Seq(Item)
        /\ Head(strandq).op = "message" => Head(strandq) \in CallItem
        /\ Head(strandq).op # "message" => Head(strandq) \in SendItem
    BY HeadType DEF RunStrand
  <1> DEFINE item == Head(strandq)
  <1>2. (handlers \in Seq(Cmd) /\ toServer \in Seq(SendItem) /\ seen \in [Cmd -> Seq(Msg)])'
    <2>1. CASE item.op = "message"
      <3>1. item.cb \in Cmd /\ item.msg \in Msg
        BY <1>1, <2>1 DEF CallItem
      <3>2. seen' = [seen EXCEPT ![item.cb] = Append(@, item.msg)] /\ UNCHANGED <<handlers, toServer>>
        BY <2>1 DEF RunStrand, Run
      <3>3. Append(seen[item.cb], item.msg) \in Seq(Msg)
        BY <3>1, AppendProperties DEF TInv, TypeOK
      <3> HIDE DEF item
      <3> QED
        BY <3>1, <3>2, <3>3 DEF TInv, TypeOK
    <2>2. CASE item.op # "message"
      <3>1. item \in SendItem /\ item.cmd \in Cmd
        BY <1>1, <2>2 DEF SendItem
      <3>2. /\ handlers' = Append(handlers, item.cmd)
            /\ toServer' = IF state = "Closed" THEN toServer ELSE Append(toServer, item)
            /\ UNCHANGED seen
        BY <2>2 DEF RunStrand, Run
      <3> HIDE DEF item
      <3> QED
        BY <3>1, <3>2, AppendProperties DEF TInv, TypeOK
    <2> QED
      BY <2>1, <2>2
  <1> QED
    BY <1>1, <1>2 DEF RunStrand, TInv, TypeOK, HandlesOK, counts, Item

(* The calls for a message: one for each handler of the name.               *)
LEMMA CallsType ==
  ASSUME TInv, NEW n \in Names, NEW msg \in Msg
  PROVE  Calls(n, msg) \in Seq(CallItem)
PROOF
  <1> DEFINE mine == Only(msgHandlers, {h \in ToSet(msgHandlers) : h.name = n})
  <1>1. mine \in Seq([id : 0 .. MaxCmds, name : Names, cb : Cmd])
    BY HandlersKept
  <1> HIDE DEF mine
  <1>2. \A i \in DOMAIN mine : Message(mine[i].cb, msg) \in CallItem
    <2> SUFFICES ASSUME NEW i \in DOMAIN mine PROVE Message(mine[i].cb, msg) \in CallItem
      OBVIOUS
    <2>1. mine[i] \in [id : 0 .. MaxCmds, name : Names, cb : Cmd]
      BY <1>1, ElementOfSeq, LenProperties
    <2>2. mine[i].cb \in Cmd
      BY <2>1
    <2> QED
      BY <2>2, MessageType
  <1>3. [i \in DOMAIN mine |-> Message(mine[i].cb, msg)] \in Seq(CallItem)
    BY <1>1, <1>2, LenProperties, SeqDef, SMTT(30)
  <1> QED
    BY <1>3 DEF Calls, mine

LEMMA DispatchType ==
  ASSUME TInv, NEW n \in Names, NEW msg \in Msg, Dispatch(n, msg)
  PROVE  /\ strandq' \in Seq(Item)
         /\ singleShots' \subseteq [name : Names, cb : Cmd]
PROOF
  <1>1. Calls(n, msg) \in Seq(Item) /\ strandq \in Seq(Item)
    <2>1. Calls(n, msg) \in Seq(CallItem)
      BY CallsType
    <2> QED
      BY <2>1, SeqMonotonic DEF TInv, TypeOK, Item
  <1>2. CASE strandq' = strandq \o Calls(n, msg) /\ UNCHANGED singleShots
    BY <1>1, <1>2, ConcatProperties DEF TInv, TypeOK
  <1>3. ASSUME NEW shot \in ShotsFor(n),
               singleShots' = singleShots \ {shot},
               strandq' = Append(strandq, Message(shot.cb, msg)) \o Calls(n, msg)
        PROVE  /\ strandq' \in Seq(Item)
               /\ singleShots' \subseteq [name : Names, cb : Cmd]
    <2>1. shot.cb \in Cmd
      BY DEF ShotsFor, TInv, TypeOK
    <2>2. Message(shot.cb, msg) \in Item
      BY <2>1, MessageType DEF Item
    <2>3. Append(strandq, Message(shot.cb, msg)) \in Seq(Item)
      BY <1>1, <2>2, AppendProperties
    <2> QED
      BY <1>1, <1>3, <2>3, ConcatProperties DEF TInv, TypeOK
  <1> QED
    BY <1>2, <1>3 DEF Dispatch

LEMMA CallHandlerType ==
  ASSUME TInv, NEW frame \in Frame, CallHandler(frame)
  PROVE  (handlers \in Seq(Cmd) /\ answers \in [Cmd -> 0 .. Foreign])'
PROOF
  <1>1. Head(handlers) \in Cmd /\ Tail(handlers) \in Seq(Cmd)
    BY HeadTailProperties DEF CallHandler, TInv, TypeOK
  <1>2. (IF frame.op = "message" THEN Foreign ELSE frame.cmd) \in 0 .. Foreign
    BY PubSubAssumption DEF Frame, SendItem, FrameItem, Sends, Cmd, Foreign
  <1> QED
    BY <1>1, <1>2 DEF CallHandler, TInv, TypeOK

LEMMA FrameType ==
  ASSUME TInv, toClient # <<>>
  PROVE  /\ Head(toClient) \in Frame /\ Tail(toClient) \in Seq(Frame)
         /\ Head(toClient).op = "message" => Head(toClient) \in FrameItem
         /\ Head(toClient).op # "message" => Head(toClient) \in SendItem
PROOF
  <1>1. Head(toClient) \in Frame /\ Tail(toClient) \in Seq(Frame)
    BY HeadTailProperties DEF TInv, TypeOK, Frame
  <1> QED
    BY <1>1 DEF Frame, SendItem, FrameItem, Sends

(* The three things that can happen to a frame.                             *)
LEMMA FrameCases ==
  ASSUME TInv, DoProcessMessage
  PROVE  LET frame == Head(toClient)
         IN  \/ /\ state = "Subscribed" /\ frame.op = "message"
                /\ Dispatch(frame.topic.name, frame.msg) /\ UNCHANGED <<handlers, answers>>
             \/ /\ state = "Subscribed" => frame.op \in {"subscribe", "unsubscribe"}
                /\ CallHandler(frame)
             \/ /\ state = "Subscribed" => /\ frame.op # "message"
                                           /\ frame.op = "command" \/ handlers = <<>>
                /\ state # "Subscribed" => handlers = <<>>
                /\ Complain
PROOF
  <1> DEFINE frame == Head(toClient)
  <1>1. frame.op \in {"message", "command", "subscribe", "unsubscribe"}
    BY FrameType DEF DoProcessMessage, FrameItem, SendItem, Sends
  <1>2. IF state = "Subscribed" THEN DispatchSubscribed(frame)
        ELSE IF handlers # <<>> THEN CallHandler(frame)
        ELSE Complain
    BY DEF DoProcessMessage
  <1> HIDE DEF frame
  <1>3. CASE state # "Subscribed"
    BY <1>2, <1>3 DEF frame
  <1>4. CASE state = "Subscribed" /\ frame.op = "message"
    BY <1>2, <1>4 DEF DispatchSubscribed, frame
  <1>5. CASE state = "Subscribed" /\ frame.op \in {"subscribe", "unsubscribe"} /\ handlers # <<>>
    BY <1>2, <1>5 DEF DispatchSubscribed, frame
  <1>6. CASE /\ state = "Subscribed" /\ frame.op # "message"
             /\ ~(frame.op \in {"subscribe", "unsubscribe"} /\ handlers # <<>>)
    <2>1. Complain
      BY <1>2, <1>6 DEF DispatchSubscribed
    <2> QED
      BY <2>1, <1>1, <1>6 DEF frame
  <1> QED
    BY <1>3, <1>4, <1>5, <1>6

LEMMA DoProcessMessageType ==
  ASSUME TInv, DoProcessMessage
  PROVE  TInv'
PROOF
  <1> DEFINE frame == Head(toClient)
  <1>1. /\ frame \in Frame /\ toClient' \in Seq(Frame)
        /\ frame.op = "message" => frame.topic \in Topics /\ frame.msg \in Msg
    BY FrameType DEF DoProcessMessage, FrameItem
  <1>2. /\ handlers' \in Seq(Cmd) /\ answers' \in [Cmd -> 0 .. Foreign]
        /\ strandq' \in Seq(Item) /\ singleShots' \subseteq [name : Names, cb : Cmd]
    <2>1. CASE frame.op = "message" /\ Dispatch(frame.topic.name, frame.msg) /\ UNCHANGED <<handlers, answers>>
      BY <2>1, <1>1, TopicName, DispatchType DEF TInv, TypeOK
    <2>2. CASE CallHandler(frame)
      <3>1. (handlers \in Seq(Cmd) /\ answers \in [Cmd -> 0 .. Foreign])'
        BY <2>2, <1>1, CallHandlerType
      <3> QED
        BY <3>1, <2>2 DEF CallHandler, TInv, TypeOK, Item
    <2>3. CASE Complain
      BY <2>3 DEF Complain, TInv, TypeOK, Item
    <2> QED
      BY <2>1, <2>2, <2>3, FrameCases
  <1> HIDE DEF frame
  <1> QED
    BY <1>1, <1>2 DEF DoProcessMessage, TInv, TypeOK, HandlesOK, counts, Item, Frame

LEMMA ServeType ==
  ASSUME TInv, Serve
  PROVE  TInv'
PROOF
  <1> DEFINE command == Head(toServer)
  <1>1. command \in SendItem /\ toServer' \in Seq(SendItem)
    BY HeadTailProperties DEF Serve, TInv, TypeOK
  <1>2. toClient' \in Seq(SendItem \cup FrameItem)
    BY <1>1, AppendProperties DEF Serve, TInv, TypeOK
  <1>3. subs' \subseteq Topics /\ IsFiniteSet(subs')
    BY <1>1, FS_AddElement, FS_RemoveElement DEF Serve, TInv, TypeOK, SendItem, Sends
  <1> QED
    BY <1>1, <1>2, <1>3 DEF Serve, TInv, TypeOK, HandlesOK, client, counts, history

(* A set, written as a sequence without repetition.                         *)
LEMMA SetToSeqFacts ==
  ASSUME NEW S, IsFiniteSet(S)
  PROVE  /\ SetToSeq(S) \in Seq(S)
         /\ \A x \in S : \E i \in DOMAIN SetToSeq(S) : SetToSeq(S)[i] = x
         /\ \A i, j \in DOMAIN SetToSeq(S) : SetToSeq(S)[i] = SetToSeq(S)[j] => i = j
PROOF
  <1> DEFINE n == Cardinality(S)
             s == SetToSeq(S)
  <1>1. n \in Nat /\ ExistsBijection(1 .. n, S)
    BY FS_CardinalityType
  <1>2. PICK f \in [1 .. n -> S] : IsInjective(f)
    BY <1>1 DEF ExistsBijection, Bijection, Injection
  <1>3. s \in [1 .. n -> S] /\ IsInjective(s)
    BY <1>2 DEF SetToSeq
  <1> HIDE DEF s
  <1>4. s \in Injection(1 .. n, S)
    BY <1>3 DEF Injection
  <1>5. s \in Surjection(1 .. n, S)
    <2>1. IsFiniteSet(1 .. n) /\ Cardinality(1 .. n) = n
      BY <1>1, FS_Interval
    <2> QED
      BY <1>4, <2>1, FS_Injection
  <1>6. s \in Seq(S)
    BY <1>1, <1>3, SeqDef
  <1>7. \A x \in S : \E i \in DOMAIN s : s[i] = x
    BY <1>3, <1>5 DEF Surjection
  <1>8. \A i, j \in DOMAIN s : s[i] = s[j] => i = j
    BY <1>3 DEF IsInjective
  <1> QED
    BY <1>6, <1>7, <1>8 DEF s

(* What a published message adds to the wire, and to what has been sent: one *)
(* frame for each topic that matches, which is one for a name at the most    *)
(* unless a channel and a pattern share it.                                  *)
LEMMA PublishFrames ==
  ASSUME TInv, NEW channel \in Channels, Publish(channel)
  PROVE  \E frames \in Seq(FrameItem) :
           /\ toClient' = toClient \o frames
           /\ \A n \in Names : sent'[n] = sent[n] \o MsgsOf(frames, FramesOf(n))
           /\ \A i \in DOMAIN frames : frames[i].msg = msgs'
           /\ \A n \in Names \ Shared : \/ Only(frames, FramesOf(n)) = <<>>
                                        \/ \E x \in FrameItem : /\ x.msg = msgs'
                                                                /\ Only(frames, FramesOf(n)) = <<x>>
PROOF
  <1> DEFINE matching == {t \in subs : t.kind = "pattern" \/ t.name = channel}
             frame(t) == [op |-> "message", topic |-> t, msg |-> msgs']
             F        == {frame(t) : t \in matching}
             frames   == SetToSeq(F)
  <1>1. /\ toClient' = toClient \o frames
        /\ sent' = [n \in Names |-> sent[n] \o MsgsOf(frames, FramesOf(n))]
    BY DEF Publish
  <1>2. msgs' \in Msg /\ matching \subseteq Topics
    BY PubSubAssumption DEF Publish, TInv, TypeOK, Msg
  <1>3. F \subseteq FrameItem /\ \A x \in F : x.msg = msgs' /\ x = frame(x.topic) /\ x.topic \in Topics
    BY <1>2 DEF FrameItem
  <1>4. IsFiniteSet(F)
    <2>1. IsFiniteSet(matching)
      BY FS_Subset DEF TInv
    <2> DEFINE g == [t \in matching |-> frame(t)]
    <2>2. g \in Surjection(matching, F)
      BY DEF Surjection
    <2> HIDE DEF g, F, matching
    <2> QED
      BY <2>1, <2>2, FS_Surjection
  <1>5. /\ frames \in Seq(F)
        /\ \A i, j \in DOMAIN frames : frames[i] = frames[j] => i = j
    <2> HIDE DEF F
    <2> QED
      BY <1>4, SetToSeqFacts
  <1> HIDE DEF frames
  <1>6. frames \in Seq(FrameItem)
    <2> HIDE DEF F
    <2> QED
      BY <1>3, <1>5, SeqMonotonic
  <1>7. \A i \in DOMAIN frames : frames[i] \in F
    <2> HIDE DEF F
    <2> QED
      BY <1>5, ElementOfSeq, LenProperties
  <1> HIDE DEF F
  <1>8. ASSUME NEW n \in Names \ Shared
        PROVE  \/ Only(frames, FramesOf(n)) = <<>>
               \/ \E x \in FrameItem : x.msg = msgs' /\ Only(frames, FramesOf(n)) = <<x>>
    <2>1. CASE \A i \in DOMAIN frames : frames[i] \notin FramesOf(n)
      BY <1>6, <2>1, OnlyNone
    <2>2. ASSUME NEW i \in DOMAIN frames, frames[i] \in FramesOf(n)
          PROVE  Only(frames, FramesOf(n)) = <<frames[i]>>
      <3>1. ASSUME NEW j \in DOMAIN frames, frames[j] \in FramesOf(n) PROVE j = i
        <4>1. /\ frames[i].topic \in Topics /\ frames[i].topic.name = n
              /\ frames[j].topic \in Topics /\ frames[j].topic.name = n
          BY <2>2, <3>1 DEF FramesOf
        <4>2. \A s, t \in Topics : s.name = n /\ t.name = n => s = t
          BY DEF Topics, Names, Shared
        <4>3. frames[i].topic = frames[j].topic
          BY <4>1, <4>2
        <4>4. frames[i] = frames[j]
          BY <1>3, <1>7, <4>3
        <4> QED
          BY <1>5, <4>4
      <3> QED
        BY <1>6, <2>2, <3>1, OnlyOne
    <2>3. \A i \in DOMAIN frames : frames[i] \in FrameItem /\ frames[i].msg = msgs'
      BY <1>3, <1>7
    <2> QED
      BY <2>1, <2>2, <2>3
  <1> QED
    BY <1>1, <1>3, <1>6, <1>7, <1>8

LEMMA PublishType ==
  ASSUME TInv, NEW channel \in Channels, Publish(channel)
  PROVE  TInv'
PROOF
  <1>1. PICK frames \in Seq(FrameItem) :
          /\ toClient' = toClient \o frames
          /\ \A n \in Names : sent'[n] = sent[n] \o MsgsOf(frames, FramesOf(n))
    BY PublishFrames
  <1>2. toClient' \in Seq(Frame)
    <2>1. frames \in Seq(Frame) /\ toClient \in Seq(Frame)
      BY SeqMonotonic DEF Frame, TInv, TypeOK
    <2> QED
      BY <1>1, <2>1, ConcatProperties
  <1>3. msgs' \in 0 .. MaxMsgs /\ msgs' \in Msg
    BY PubSubAssumption DEF Publish, TInv, TypeOK, Msg
  <1>4. sent' \in [Names -> Seq(Msg)]
    <2>1. ASSUME NEW n \in Names PROVE sent'[n] \in Seq(Msg)
      <3> DEFINE more == MsgsOf(frames, FramesOf(n))
      <3>1. sent[n] \in Seq(Msg) /\ more \in Seq(Msg) /\ sent'[n] = sent[n] \o more
        BY <1>1, MsgsType, FramesMsg DEF TInv, TypeOK
      <3> HIDE DEF more
      <3> QED
        BY <3>1, ConcatProperties
    <2>2. sent' = [n \in Names |-> sent'[n]]
      BY DEF Publish
    <2> QED
      BY <2>1, <2>2
  <1> QED
    BY <1>2, <1>3, <1>4 DEF Publish, TInv, TypeOK, HandlesOK, client, Frame

LEMMA InitType == Init => TInv
PROOF
  <1> SUFFICES ASSUME Init PROVE TInv
    OBVIOUS
  <1>1. HandlesOK
    BY DEF Init, HandlesOK
  <1>2. IsFiniteSet(subs)
    BY FS_EmptySet DEF Init
  <1>3. handlers \in Seq(Cmd) /\ strandq \in Seq(SendItem \cup CallItem)
        /\ toServer \in Seq(SendItem) /\ toClient \in Seq(SendItem \cup FrameItem)
    BY DEF Init
  <1>4. answers \in [Cmd -> 0 .. Foreign] /\ seen \in [Cmd -> Seq(Msg)] /\ sent \in [Names -> Seq(Msg)]
    BY PubSubAssumption DEF Init, Foreign
  <1>5. /\ subscribeSeq \in 0 .. MaxCmds /\ cmds \in 0 .. MaxCmds /\ msgs \in 0 .. MaxMsgs
        /\ closes \in 0 .. MaxCloses /\ subscribeSeq <= cmds
    BY PubSubAssumption DEF Init
  <1>6. /\ singleShots \subseteq [name : Names, cb : Cmd] /\ subs \subseteq Topics
        /\ asked \subseteq Topics /\ given \subseteq [id : 0 .. MaxCmds, name : Names]
        /\ mixed \in BOOLEAN /\ dirty \in BOOLEAN /\ state \in {"Connected", "Subscribed", "Closed"}
    BY DEF Init
  <1> QED
    BY <1>1, <1>2, <1>3, <1>4, <1>5, <1>6 DEF TInv, TypeOK

LEMMA NextType == TInv /\ [Next]_vars => TInv'
PROOF
  <1> SUFFICES ASSUME TInv, [Next]_vars PROVE TInv'
    OBVIOUS
  <1>1. ASSUME NEW t \in Topics, Subscribe(t) PROVE TInv'
    BY <1>1, SubscribeType
  <1>2. ASSUME NEW t \in Topics, SubscribeRefused(t) PROVE TInv'
    BY <1>2, SubscribeRefusedType
  <1>3. ASSUME NEW handle \in given, NEW t \in Topics, Unsubscribe(handle, t) PROVE TInv'
    BY <1>3, UnsubscribeType
  <1>4. CASE PlainCommand
    BY <1>4, PlainCommandType
  <1>5. CASE Disconnect
    BY <1>5, DisconnectType
  <1>6. CASE Connect
    BY <1>6, ConnectType
  <1>7. CASE RunStrand
    BY <1>7, RunStrandType
  <1>8. CASE DoProcessMessage
    BY <1>8, DoProcessMessageType
  <1>9. CASE Serve
    BY <1>9, ServeType
  <1>10. ASSUME NEW channel \in Channels, Publish(channel) PROVE TInv'
    BY <1>10, PublishType
  <1>11. CASE UNCHANGED vars
    BY <1>11 DEF vars, client, wire, counts, history, TInv, TypeOK, HandlesOK
  <1> QED
    BY <1>1, <1>2, <1>3, <1>4, <1>5, <1>6, <1>7, <1>8, <1>9, <1>10, <1>11 DEF Next, App

(* Every variable has its type, and no two subscriptions the same id.       *)
THEOREM PubSubTypeCorrect == Spec => []TypeOK
PROOF
  <1>1. TInv => TypeOK
    BY DEF TInv
  <1> QED
    BY <1>1, InitType, NextType, PTL DEF Spec

-----------------------------------------------------------------------------
(* Ends and parts of a sequence of messages, and sequences that increase.   *)

Ends(s, t) == \E u \in Seq(Msg) : t = u \o s
Part(s, t) == \E u, v \in Seq(Msg) : t = (u \o s) \o v

LEMMA EndsEmpty ==
  ASSUME NEW t \in Seq(Msg)
  PROVE  Ends(<<>>, t)
PROOF
  BY ConcatEmptySeq DEF Ends

LEMMA EndsConcat ==
  ASSUME NEW s \in Seq(Msg), NEW t \in Seq(Msg), NEW a \in Seq(Msg), Ends(s, t)
  PROVE  Ends(s \o a, t \o a)
PROOF
  <1>1. PICK u \in Seq(Msg) : t = u \o s
    BY DEF Ends
  <1>2. t \o a = u \o (s \o a)
    <2>1. Regroup(u, s, a)
      BY Regrouped
    <2> QED
      BY <1>1, <2>1 DEF Regroup
  <1> QED
    BY <1>2 DEF Ends

LEMMA EndsDrop ==
  ASSUME NEW s \in Seq(Msg), NEW t \in Seq(Msg), NEW a \in Seq(Msg), Ends(a \o s, t)
  PROVE  Ends(s, t)
PROOF
  <1>1. PICK u \in Seq(Msg) : t = u \o (a \o s)
    BY DEF Ends
  <1>2. t = (u \o a) \o s /\ u \o a \in Seq(Msg)
    <2>1. Regroup(u, a, s)
      BY Regrouped
    <2>2. u \o a \in Seq(Msg)
      BY ConcatProperties
    <2> QED
      BY <1>1, <2>1, <2>2 DEF Regroup
  <1> QED
    BY <1>2 DEF Ends

LEMMA IncreasesConcat ==
  ASSUME NEW s \in Seq(Msg), NEW t \in Seq(Msg), Increases(s \o t)
  PROVE  /\ Increases(s) /\ Increases(t)
         /\ \A i \in DOMAIN s, j \in DOMAIN t : s[i] < t[j]
PROOF
  <1>1. /\ Len(s) \in Nat /\ Len(t) \in Nat /\ DOMAIN s = 1 .. Len(s) /\ DOMAIN t = 1 .. Len(t)
        /\ DOMAIN (s \o t) = 1 .. Len(s) + Len(t)
        /\ \A i \in 1 .. Len(s) + Len(t) : (s \o t)[i] = IF i <= Len(s) THEN s[i] ELSE t[i - Len(s)]
    BY ConcatProperties, LenProperties
  <1>2. \A i \in DOMAIN s : i \in DOMAIN (s \o t) /\ (s \o t)[i] = s[i]
    BY <1>1
  <1>3. \A j \in DOMAIN t : Len(s) + j \in DOMAIN (s \o t) /\ (s \o t)[Len(s) + j] = t[j]
    BY <1>1
  <1>4. Increases(s)
    BY <1>2 DEF Increases
  <1>5. Increases(t)
    <2> SUFFICES ASSUME NEW i \in DOMAIN t, NEW j \in DOMAIN t, i < j PROVE t[i] < t[j]
      BY DEF Increases
    <2>1. Len(s) + i < Len(s) + j
      BY <1>1
    <2> QED
      BY <1>3, <2>1 DEF Increases
  <1>6. ASSUME NEW i \in DOMAIN s, NEW j \in DOMAIN t PROVE s[i] < t[j]
    <2>1. i < Len(s) + j
      BY <1>1
    <2> QED
      BY <1>2, <1>3, <2>1 DEF Increases
  <1> QED
    BY <1>4, <1>5, <1>6

(* The beginning of an end is a part.                                       *)
LEMMA EndsPart ==
  ASSUME NEW s \in Seq(Msg), NEW r \in Seq(Msg), NEW t \in Seq(Msg), Ends(s \o r, t)
  PROVE  Part(s, t)
PROOF
  <1>1. PICK u \in Seq(Msg) : t = u \o (s \o r)
    BY DEF Ends
  <1>2. Regroup(u, s, r)
    BY Regrouped
  <1> QED
    BY <1>1, <1>2 DEF Part, Regroup

LEMMA PartOfItself ==
  ASSUME NEW t \in Seq(Msg)
  PROVE  Part(t, t)
PROOF
  <1>1. <<>> \o t = t /\ t \o <<>> = t /\ <<>> \in Seq(Msg)
    BY ConcatEmptySeq, EmptySeq
  <1> QED
    BY <1>1 DEF Part

(* It stays one of what grows at the end.                                   *)
LEMMA PartGrows ==
  ASSUME NEW s \in Seq(Msg), NEW t \in Seq(Msg), NEW a \in Seq(Msg), Part(s, t)
  PROVE  Part(s, t \o a)
PROOF
  <1>1. PICK u \in Seq(Msg), v \in Seq(Msg) : t = (u \o s) \o v
    BY DEF Part
  <1>2. PICK w \in Seq(Msg) : w = u \o s
    BY ConcatProperties
  <1>3. PICK x \in Seq(Msg) : x = v \o a
    BY ConcatProperties
  <1>4. Regroup(w, v, a)
    BY Regrouped
  <1>5. t \o a = w \o x
    BY <1>1, <1>2, <1>3, <1>4 DEF Regroup
  <1> QED
    BY <1>2, <1>5 DEF Part

LEMMA PartIncreases ==
  ASSUME NEW s \in Seq(Msg), NEW t \in Seq(Msg), Part(s, t), Increases(t)
  PROVE  Increases(s)
PROOF
  <1>1. PICK u \in Seq(Msg), v \in Seq(Msg) : t = (u \o s) \o v
    BY DEF Part
  <1>2. PICK w \in Seq(Msg) : w = u \o s
    BY ConcatProperties
  <1>3. Increases(w)
    BY <1>1, <1>2, IncreasesConcat
  <1> QED
    BY <1>2, <1>3, IncreasesConcat

(* Parts as the library has them.                                           *)
LEMMA PartIsSubSeq ==
  ASSUME NEW s \in Seq(Msg), NEW t \in Seq(Msg), Part(s, t)
  PROVE  s \in SubSeqs(t)
PROOF
  <1>1. PICK u \in Seq(Msg), v \in Seq(Msg) : t = (u \o s) \o v
    BY DEF Part
  <1>2. PICK w \in Seq(Msg) : w = u \o s
    BY ConcatProperties
  <1>3. /\ Len(u) \in Nat /\ Len(s) \in Nat /\ Len(v) \in Nat
        /\ Len(w) = Len(u) + Len(s) /\ Len(t) = Len(w) + Len(v) /\ Len(t) \in Nat
    BY <1>1, <1>2, ConcatProperties, LenProperties
  <1>4. \A i \in 1 .. Len(s) : /\ Len(u) + i \in 1 .. Len(w) /\ Len(u) + i \in 1 .. Len(t)
                               /\ w[Len(u) + i] = s[i]
    BY <1>2, <1>3, ConcatProperties
  <1>5. \A i \in 1 .. Len(w) : t[i] = w[i]
    BY <1>1, <1>2, <1>3, ConcatProperties
  <1> DEFINE first == Len(u) + 1
             last  == Len(u) + Len(s)
             part  == SubSeq(t, first, last)
  <1>6. first \in 1 .. Len(t) + 1 /\ last \in first - 1 .. Len(t) /\ last - first + 1 = Len(s)
    BY <1>3
  <1>7. \A i \in first .. last : t[i] \in Msg
    BY <1>3, ElementOfSeq
  <1>8. /\ part \in Seq(Msg) /\ Len(part) = Len(s)
        /\ \A i \in 1 .. Len(s) : part[i] = t[Len(u) + i]
    BY <1>3, <1>6, <1>7, SubSeqProperties
  <1>9. part = s
    <2> HIDE DEF part
    <2> QED
      BY <1>4, <1>5, <1>8, SeqEqual
  <1>10. PICK i \in 0 .. Len(t), j \in 0 .. Len(t) : s = SubSeq(t, i + 1, j)
    <2>1. Len(u) \in 0 .. Len(t) /\ last \in 0 .. Len(t)
      BY <1>3
    <2> QED
      BY <1>9, <2>1
  <1>11. SubSeq(t, i + 1, j) \in SubSeqs(t)
    BY DEF SubSeqs
  <1> QED
    BY <1>10, <1>11

LEMMA IncreasesAppend ==
  ASSUME NEW s \in Seq(Msg), NEW m \in Msg, Increases(s), \A i \in DOMAIN s : s[i] < m
  PROVE  Increases(Append(s, m))
PROOF
  <1>1. /\ Len(s) \in Nat /\ DOMAIN s = 1 .. Len(s) /\ DOMAIN Append(s, m) = 1 .. Len(s) + 1
        /\ \A i \in DOMAIN s : Append(s, m)[i] = s[i]
        /\ Append(s, m)[Len(s) + 1] = m
    BY AppendProperties, LenProperties
  <1> SUFFICES ASSUME NEW i \in 1 .. Len(s) + 1, NEW j \in 1 .. Len(s) + 1, i < j
               PROVE  Append(s, m)[i] < Append(s, m)[j]
    BY <1>1 DEF Increases
  <1>2. i \in DOMAIN s
    BY <1>1
  <1>3. CASE j = Len(s) + 1
    BY <1>1, <1>2, <1>3
  <1>4. CASE j \in DOMAIN s
    BY <1>1, <1>2, <1>4 DEF Increases
  <1> QED
    BY <1>1, <1>3, <1>4

(* Ends as the library has them.                                            *)
LEMMA EndsIsSuffix ==
  ASSUME NEW s \in Seq(Msg), NEW t \in Seq(Msg), Ends(s, t)
  PROVE  IsSuffix(s, t)
PROOF
  <1>1. PICK u \in Seq(Msg) : t = u \o s
    BY DEF Ends
  <1>2. /\ Len(s) \in Nat /\ Len(u) \in Nat /\ Len(t) = Len(u) + Len(s) /\ Len(t) \in Nat
        /\ \A i \in 1 .. Len(s) : t[Len(u) + i] = s[i]
    BY <1>1, ConcatProperties, LenProperties
  <1> DEFINE rs == Reverse(s)
             rt == Reverse(t)
  <1>3. rs = [i \in 1 .. Len(s) |-> s[(Len(s) - i) + 1]] /\ rt = [i \in 1 .. Len(t) |-> t[(Len(t) - i) + 1]]
    BY DEF Reverse
  <1>4. rs \in [1 .. Len(s) -> Msg] /\ rt \in [1 .. Len(t) -> Msg]
    <2>1. \A i \in 1 .. Len(s) : (Len(s) - i) + 1 \in 1 .. Len(s)
      BY <1>2
    <2>2. \A i \in 1 .. Len(t) : (Len(t) - i) + 1 \in 1 .. Len(t)
      BY <1>2
    <2> QED
      BY <1>3, <2>1, <2>2, ElementOfSeq
  <1> HIDE DEF rs, rt
  <1>5. rs \in Seq(Msg) /\ rt \in Seq(Msg) /\ Len(rs) = Len(s) /\ Len(rt) = Len(t)
    <2>1. rs \in Seq(Msg) /\ rt \in Seq(Msg)
      BY <1>2, <1>4, SeqDef, ZenonT(60)
    <2>2. DOMAIN rs = 1 .. Len(rs) /\ DOMAIN rt = 1 .. Len(rt) /\ Len(rs) \in Nat /\ Len(rt) \in Nat
      BY <2>1, LenProperties
    <2>3. DOMAIN rs = 1 .. Len(s) /\ DOMAIN rt = 1 .. Len(t)
      BY <1>4
    <2>4. ASSUME NEW m \in Nat, NEW n \in Nat, 1 .. m = 1 .. n PROVE m = n
      <3>1. m # 0 => m \in 1 .. n
        BY <2>4
      <3>2. n # 0 => n \in 1 .. m
        BY <2>4
      <3> QED
        BY <3>1, <3>2
    <2>5. Len(rs) = Len(s) /\ Len(rt) = Len(t)
      BY <1>2, <2>2, <2>3, <2>4
    <2> QED
      BY <2>1, <2>5
  <1>6. \A i \in 1 .. Len(s) : rs[i] = rt[i]
    <2> SUFFICES ASSUME NEW i \in 1 .. Len(s) PROVE rs[i] = rt[i]
      OBVIOUS
    <2>1. (Len(s) - i) + 1 \in 1 .. Len(s) /\ (Len(t) - i) + 1 = Len(u) + ((Len(s) - i) + 1)
          /\ i \in 1 .. Len(t)
      BY <1>2
    <2> QED
      BY <1>2, <1>3, <2>1
  <1>7. /\ SubSeq(rs, 1, Len(s)) \in Seq(Msg) /\ SubSeq(rt, 1, Len(s)) \in Seq(Msg)
        /\ Len(SubSeq(rs, 1, Len(s))) = Len(s) /\ Len(SubSeq(rt, 1, Len(s))) = Len(s)
        /\ \A i \in 1 .. Len(s) : SubSeq(rs, 1, Len(s))[i] = rs[i] /\ SubSeq(rt, 1, Len(s))[i] = rt[i]
    <2>1. \A i \in 1 .. Len(s) : rs[i] \in Msg /\ rt[i] \in Msg
      BY <1>2, <1>4, SMTT(30)
    <2> QED
      BY <1>2, <2>1, SubSeqProperties
  <1>8. SubSeq(rs, 1, Len(s)) = SubSeq(rt, 1, Len(s))
    BY <1>6, <1>7, SeqEqual
  <1>9. IsPrefix(rs, rt)
    BY <1>2, <1>5, <1>8 DEF IsPrefix
  <1> QED
    BY <1>9 DEF IsSuffix, rs, rt

-----------------------------------------------------------------------------
(* Messages reach the callbacks.                                            *)

\* No callback is installed twice.
Apart ==
  /\ \A i, j \in DOMAIN msgHandlers : msgHandlers[i].cb = msgHandlers[j].cb => i = j
  /\ \A x, y \in singleShots : x.cb = y.cb => x = y
  /\ \A x \in singleShots, i \in DOMAIN msgHandlers : x.cb # msgHandlers[i].cb

\* The callback of the next command is not installed, and has been given nothing.
Fresh ==
  \A c \in Cmd : c > cmds =>
    /\ Handed(c) = <<>>
    /\ \A i \in DOMAIN msgHandlers : msgHandlers[i].cb # c
    /\ \A x \in singleShots : x.cb # c

\* Messages are sent in the order they are published in, each once for a name that
\* is not shared, and arrive in it.
Published ==
  \A n \in Names :
    /\ n \notin Shared => Increases(sent[n])
    /\ \A i \in DOMAIN sent[n] : sent[n][i] <= msgs
    /\ Ends(InFlight(n), sent[n])

\* A client that does not look for messages has no message handlers.
Listening == state # "Subscribed" => msgHandlers = <<>>

\* NoMessageLost, by index.
Gets ==
  \A i \in DOMAIN msgHandlers, cb \in Cmd, n \in Names :
    msgHandlers[i].cb = cb /\ msgHandlers[i].name = n =>
      Ends(Handed(cb) \o InFlight(n), sent[n])

\* What a callback is given is a stretch of what is sent for one name.
InOrder ==
  \A cb \in Cmd :
    /\ \E n \in Names : Part(Handed(cb), sent[n])
    /\ (\E x \in singleShots : x.cb = cb) => Handed(cb) = <<>>

DInv == TInv /\ Apart /\ Fresh /\ Published /\ Listening /\ Gets /\ InOrder

LEMMA PostedMsg == \A cb : \A x \in PostedTo(cb) : x.msg \in Msg
PROOF
  BY DEF PostedTo

LEMMA StreamTypes ==
  ASSUME TInv
  PROVE  /\ \A cb \in Cmd : /\ seen[cb] \in Seq(Msg) /\ MsgsOf(strandq, PostedTo(cb)) \in Seq(Msg)
                            /\ Handed(cb) \in Seq(Msg)
         /\ \A n \in Names : InFlight(n) \in Seq(Msg) /\ sent[n] \in Seq(Msg)
PROOF
  <1>1. ASSUME NEW cb \in Cmd
        PROVE  /\ seen[cb] \in Seq(Msg) /\ MsgsOf(strandq, PostedTo(cb)) \in Seq(Msg)
               /\ Handed(cb) \in Seq(Msg)
    <2>1. MsgsOf(strandq, PostedTo(cb)) \in Seq(Msg)
      BY MsgsType, PostedMsg DEF TInv, TypeOK
    <2>2. seen[cb] \in Seq(Msg)
      BY DEF TInv, TypeOK
    <2> QED
      BY <2>1, <2>2, ConcatProperties DEF Handed
  <1>2. ASSUME NEW n \in Names
        PROVE  InFlight(n) \in Seq(Msg) /\ sent[n] \in Seq(Msg)
    <2>1. InFlight(n) \in Seq(Msg)
      BY MsgsType, FramesMsg DEF TInv, TypeOK, InFlight
    <2> QED
      BY <2>1 DEF TInv, TypeOK
  <1> QED
    BY <1>1, <1>2

LEMMA HandlerType ==
  ASSUME TInv, NEW i \in DOMAIN msgHandlers
  PROVE  msgHandlers[i].cb \in Cmd /\ msgHandlers[i].name \in Names
PROOF
  <1> DEFINE H == [id : 0 .. MaxCmds, name : Names, cb : Cmd]
  <1>1. msgHandlers \in Seq(H)
    BY DEF TInv, TypeOK, HandlesOK
  <1> HIDE DEF H
  <1>2. msgHandlers[i] \in H
    BY <1>1, ElementOfSeq, LenProperties
  <1> QED
    BY <1>2 DEF H

(* A new command is no message.                                             *)
LEMMA HandedIssue ==
  ASSUME TInv, NEW op \in Sends, NEW t \in Topics, Issue(op, t), UNCHANGED seen
  PROVE  \A cb \in Cmd : Handed(cb)' = Handed(cb)
PROOF
  <1> SUFFICES ASSUME NEW cb \in Cmd PROVE Handed(cb)' = Handed(cb)
    OBVIOUS
  <1> DEFINE item == Command(op, t, cmds')
  <1>1. item \in Item
    BY IssueType DEF Item
  <1>2. item \notin PostedTo(cb)
    BY DEF Command, PostedTo, Sends
  <1>3. strandq \in Seq(Item) /\ strandq' = Append(strandq, item)
    BY DEF TInv, TypeOK, Item, Issue
  <1> HIDE DEF item
  <1>4. MsgsOf(strandq', PostedTo(cb)) = MsgsOf(strandq, PostedTo(cb))
    BY <1>1, <1>2, <1>3, MsgsAppend, PostedMsg
  <1> QED
    BY <1>4 DEF Handed, PostedTo

(* What has been posted for a callback stays to be handed to it.            *)
LEMMA HandedRun ==
  ASSUME TInv, RunStrand
  PROVE  \A cb \in Cmd : Handed(cb)' = Handed(cb)
PROOF
  <1> SUFFICES ASSUME NEW cb \in Cmd PROVE Handed(cb)' = Handed(cb)
    OBVIOUS
  <1> DEFINE item == Head(strandq)
             rest == MsgsOf(Tail(strandq), PostedTo(cb))
  <1>1. strandq \in Seq(Item) /\ strandq # <<>> /\ strandq' = Tail(strandq)
    BY DEF RunStrand, TInv, TypeOK, Item
  <1>2. MsgsOf(strandq, PostedTo(cb)) = IF item \in PostedTo(cb) THEN <<item.msg>> \o rest ELSE rest
    BY <1>1, MsgsHead, PostedMsg
  <1>3. rest \in Seq(Msg) /\ seen[cb] \in Seq(Msg)
    <2>1. Tail(strandq) \in Seq(Item)
      BY <1>1, HeadTailProperties
    <2> QED
      BY <2>1, MsgsType, PostedMsg, StreamTypes
  <1>4. Handed(cb)' = seen'[cb] \o rest
    BY <1>1 DEF Handed, PostedTo
  <1>5. item.op = "message" => item \in CallItem
    BY <1>1, HeadType
  <1>6. Run(item)
    BY DEF RunStrand
  <1> HIDE DEF item, rest
  <1>7. CASE item \in PostedTo(cb)
    <2>1. item.op = "message" /\ item.cb = cb /\ item.msg \in Msg
      BY <1>7 DEF PostedTo
    <2>2. seen'[cb] = Append(seen[cb], item.msg)
      BY <2>1, <1>6 DEF Run, TInv, TypeOK
    <2> DEFINE one == <<item.msg>>
    <2>3. Append(seen[cb], item.msg) = seen[cb] \o one /\ one \in Seq(Msg)
      BY <2>1, <1>3, AppendIsConcat
    <2>4. MsgsOf(strandq, PostedTo(cb)) = one \o rest
      BY <1>2, <1>7
    <2> HIDE DEF one
    <2> DEFINE was == seen[cb]
    <2>5. was \in Seq(Msg) /\ one \in Seq(Msg) /\ rest \in Seq(Msg)
      BY <2>3, <1>3
    <2> HIDE DEF was
    <2>6. (was \o one) \o rest = was \o (one \o rest)
      <3>1. Regroup(was, one, rest)
        BY <2>5, Regrouped
      <3> QED
        BY <3>1 DEF Regroup
    <2>7. (seen[cb] \o one) \o rest = seen[cb] \o (one \o rest)
      BY <2>6 DEF was
    <2> QED
      BY <1>4, <2>2, <2>3, <2>4, <2>7 DEF Handed
  <1>8. CASE item \notin PostedTo(cb)
    <2>1. item.op = "message" => item.cb # cb /\ item.cb \in Cmd
      BY <1>5, <1>8 DEF PostedTo, CallItem
    <2>2. seen'[cb] = seen[cb]
      BY <2>1, <1>6 DEF Run, TInv, TypeOK
    <2> QED
      BY <1>2, <1>4, <1>8, <2>2 DEF Handed
  <1> QED
    BY <1>7, <1>8

(* The answer to a command is no message.                                   *)
LEMMA InFlightServe ==
  ASSUME TInv, Serve
  PROVE  \A n \in Names : InFlight(n)' = InFlight(n)
PROOF
  <1> SUFFICES ASSUME NEW n \in Names PROVE InFlight(n)' = InFlight(n)
    OBVIOUS
  <1> DEFINE command == Head(toServer)
  <1>1. command \in SendItem /\ toClient \in Seq(Frame) /\ toClient' = Append(toClient, command)
    BY HeadTailProperties DEF Serve, TInv, TypeOK, Frame
  <1> HIDE DEF command
  <1>2. command \in Frame /\ command \notin FramesOf(n)
    BY <1>1 DEF Frame, SendItem, Sends, FramesOf
  <1>3. MsgsOf(toClient', FramesOf(n)) = MsgsOf(toClient, FramesOf(n))
    BY <1>1, <1>2, MsgsAppend, FramesMsg
  <1> QED
    BY <1>3 DEF InFlight, FramesOf, Topics

(* The next frame is the first of the messages of its name.                 *)
LEMMA InFlightNext ==
  ASSUME TInv, DoProcessMessage
  PROVE  LET frame == Head(toClient)
         IN  \A n \in Names :
               /\ InFlight(n)' \in Seq(Msg)
               /\ InFlight(n) = IF frame.op = "message" /\ frame.topic.name = n
                                  THEN <<frame.msg>> \o InFlight(n)' ELSE InFlight(n)'
PROOF
  <1> DEFINE frame == Head(toClient)
  <1>1. /\ toClient \in Seq(Frame) /\ toClient # <<>> /\ toClient' = Tail(toClient)
        /\ Tail(toClient) \in Seq(Frame)
        /\ frame.op = "message" => frame \in FrameItem
    BY FrameType DEF DoProcessMessage, TInv, TypeOK, Frame
  <1> SUFFICES ASSUME NEW n \in Names
               PROVE  /\ InFlight(n)' \in Seq(Msg)
                      /\ InFlight(n) = IF frame.op = "message" /\ frame.topic.name = n
                                         THEN <<frame.msg>> \o InFlight(n)' ELSE InFlight(n)'
    OBVIOUS
  <1>2. InFlight(n)' = MsgsOf(Tail(toClient), FramesOf(n))
    BY <1>1 DEF InFlight, FramesOf, Topics
  <1>3. MsgsOf(Tail(toClient), FramesOf(n)) \in Seq(Msg)
    BY <1>1, MsgsType, FramesMsg
  <1>4. InFlight(n) = IF frame \in FramesOf(n) THEN <<frame.msg>> \o MsgsOf(Tail(toClient), FramesOf(n))
                      ELSE MsgsOf(Tail(toClient), FramesOf(n))
    BY <1>1, MsgsHead, FramesMsg DEF InFlight
  <1> HIDE DEF frame
  <1>5. frame \in FramesOf(n) <=> frame.op = "message" /\ frame.topic.name = n
    BY <1>1 DEF FramesOf, FrameItem
  <1> QED
    BY <1>2, <1>3, <1>4, <1>5

(* What is then on its way is still the end of what was sent.               *)
LEMMA InFlightSuffix ==
  ASSUME TInv, Published, DoProcessMessage
  PROVE  \A n \in Names : Ends(InFlight(n)', sent[n])
PROOF
  <1> SUFFICES ASSUME NEW n \in Names PROVE Ends(InFlight(n)', sent[n])
    OBVIOUS
  <1> DEFINE one  == <<Head(toClient).msg>>
             mine == Head(toClient).op = "message" /\ Head(toClient).topic.name = n
  <1>1. InFlight(n)' \in Seq(Msg) /\ InFlight(n) = IF mine THEN one \o InFlight(n)' ELSE InFlight(n)'
    BY InFlightNext
  <1>2. Ends(InFlight(n), sent[n]) /\ sent[n] \in Seq(Msg)
    BY StreamTypes DEF Published
  <1>3. mine => one \in Seq(Msg)
    <2>1. mine => Head(toClient).msg \in Msg
      BY FrameType DEF DoProcessMessage, FrameItem
    <2> QED
      BY <2>1
  <1> HIDE DEF one, mine
  <1> QED
    BY <1>1, <1>2, <1>3, EndsDrop

(* A step after which all handlers are old ones, and that hands over        *)
(* nothing and sends nothing.                                               *)
LEMMA DeliveryKept ==
  ASSUME DInv, TInv', UNCHANGED <<singleShots, sent, msgs>>, cmds <= cmds',
         \A cb \in Cmd : Handed(cb)' = Handed(cb),
         \A n \in Names : InFlight(n)' = InFlight(n),
         (state # "Subscribed")' => state # "Subscribed" \/ msgHandlers' = <<>>,
         NEW at \in [DOMAIN msgHandlers' -> DOMAIN msgHandlers],
         \A i \in DOMAIN msgHandlers' : msgHandlers'[i] = msgHandlers[at[i]],
         \A i, j \in DOMAIN msgHandlers' : at[i] = at[j] => i = j
  PROVE  DInv'
PROOF
  <1>1. Apart'
    BY DEF DInv, Apart
  <1>2. Fresh'
    <2> SUFFICES ASSUME NEW c \in Cmd, c > cmds'
                 PROVE  /\ Handed(c)' = <<>>
                        /\ \A i \in DOMAIN msgHandlers' : msgHandlers'[i].cb # c
                        /\ \A x \in singleShots' : x.cb # c
      BY DEF Fresh
    <2>1. c > cmds
      BY PubSubAssumption DEF Cmd, DInv, TInv, TypeOK
    <2> QED
      BY <2>1 DEF DInv, Fresh
  <1>3. Published'
    BY DEF DInv, Published
  <1>4. Listening'
    <2>1. msgHandlers = <<>> => msgHandlers' = <<>>
      <3>1. SUFFICES ASSUME msgHandlers = <<>> PROVE msgHandlers' = <<>>
        OBVIOUS
      <3>2. DOMAIN msgHandlers' = {}
        BY <3>1
      <3>3. msgHandlers' \in Seq([id : 0 .. MaxCmds, name : Names, cb : Cmd])
        BY DEF TInv, TypeOK, HandlesOK
      <3> QED
        BY <3>2, <3>3, EmptySeq, LenProperties
    <2> QED
      BY <2>1 DEF DInv, Listening
  <1>5. Gets'
    <2> SUFFICES ASSUME NEW i \in DOMAIN msgHandlers', NEW cb \in Cmd, NEW n \in Names,
                        msgHandlers'[i].cb = cb, msgHandlers'[i].name = n
                 PROVE  Ends(Handed(cb)' \o InFlight(n)', sent'[n])
      BY DEF Gets
    <2>1. at[i] \in DOMAIN msgHandlers /\ msgHandlers'[i] = msgHandlers[at[i]]
      OBVIOUS
    <2>2. Ends(Handed(cb) \o InFlight(n), sent[n])
      BY <2>1 DEF DInv, Gets
    <2> QED
      BY <2>2
  <1>6. InOrder'
    BY DEF DInv, InOrder
  <1> QED
    BY <1>1, <1>2, <1>3, <1>4, <1>5, <1>6 DEF DInv

(* The number of a new command is the next.                                 *)
LEMMA IssueCounts ==
  ASSUME TInv, NEW op \in Sends, NEW t \in Topics, Issue(op, t)
  PROVE  /\ cmds \in Nat /\ cmds' = cmds + 1 /\ cmds' \in Cmd
         /\ cmds <= cmds' /\ cmds' > cmds
         /\ \A c \in Cmd : c > cmds' => c > cmds /\ c # cmds'
PROOF
  <1>1. cmds \in Nat /\ cmds' = cmds + 1 /\ cmds' \in Cmd
    <2>1. cmds \in Nat
      BY PubSubAssumption DEF TInv, TypeOK
    <2> QED
      BY <2>1, IssueType
  <1> QED
    BY <1>1, PubSubAssumption DEF Cmd

(* The same when the handlers are what they were.                           *)
LEMMA DeliveryStill ==
  ASSUME DInv, TInv', UNCHANGED <<msgHandlers, singleShots, sent, msgs>>, cmds <= cmds',
         \A cb \in Cmd : Handed(cb)' = Handed(cb),
         \A n \in Names : InFlight(n)' = InFlight(n),
         (state # "Subscribed")' => state # "Subscribed"
  PROVE  DInv'
PROOF
  <1> DEFINE at == [i \in DOMAIN msgHandlers |-> i]
  <1>1. /\ at \in [DOMAIN msgHandlers' -> DOMAIN msgHandlers]
        /\ \A i \in DOMAIN msgHandlers' : msgHandlers'[i] = msgHandlers[at[i]]
        /\ \A i, j \in DOMAIN msgHandlers' : at[i] = at[j] => i = j
    OBVIOUS
  <1> HIDE DEF at
  <1> QED
    BY <1>1, DeliveryKept

LEMMA SubscribeRefusedDelivers ==
  ASSUME DInv, NEW t \in Topics, SubscribeRefused(t)
  PROVE  DInv'
PROOF
  <1>1. TInv'
    BY SubscribeRefusedType DEF DInv
  <1>2. UNCHANGED <<state, strandq, seen, toClient, msgHandlers, singleShots, sent, msgs, cmds>>
    BY DEF SubscribeRefused, client, wire, counts
  <1>3. /\ \A cb \in Cmd : Handed(cb)' = Handed(cb)
        /\ \A u \in Names : InFlight(u)' = InFlight(u)
    BY <1>2 DEF Handed, InFlight, PostedTo, FramesOf, Topics
  <1>4. cmds <= cmds'
    BY <1>2 DEF DInv, TInv, TypeOK
  <1> QED
    BY <1>1, <1>2, <1>3, <1>4, DeliveryStill

LEMMA UnsubscribeDelivers ==
  ASSUME DInv, NEW handle \in given, NEW t \in Topics, Unsubscribe(handle, t)
  PROVE  DInv'
PROOF
  <1> DEFINE H    == [id : 0 .. MaxCmds, name : Names, cb : Cmd]
             kept == {h \in ToSet(msgHandlers) : h.name # handle.name \/ h.id # handle.id}
  <1>1. /\ TInv /\ TInv'
        /\ Issue("unsubscribe", t) /\ "unsubscribe" \in Sends
    BY UnsubscribeType DEF DInv, TInv, TypeOK, Unsubscribe, Sends
  <1>2. UNCHANGED <<state, seen, toClient, singleShots, sent, msgs>>
    BY DEF Unsubscribe, wire
  <1>3. /\ \A cb \in Cmd : Handed(cb)' = Handed(cb)
        /\ \A n \in Names : InFlight(n)' = InFlight(n)
    BY <1>1, <1>2, HandedIssue DEF InFlight, FramesOf, Topics
  <1>4. cmds <= cmds'
    BY <1>1, IssueCounts
  <1>5. msgHandlers \in Seq(H) /\ msgHandlers' = Only(msgHandlers, kept)
    BY DEF DInv, TInv, TypeOK, HandlesOK, Unsubscribe
  <1>6. msgHandlers' \in Seq(H)
    BY <1>1 DEF TInv, TypeOK, HandlesOK
  <1> HIDE DEF H, kept
  <1>7. PICK at \in [DOMAIN msgHandlers' -> DOMAIN msgHandlers] :
          /\ \A i \in DOMAIN msgHandlers' : msgHandlers'[i] = msgHandlers[at[i]]
          /\ \A i, j \in DOMAIN msgHandlers' : i < j => at[i] < at[j]
    BY <1>5, OnlyEmbeds
  <1>8. \A i, j \in DOMAIN msgHandlers' : at[i] = at[j] => i = j
    <2>1. \A i \in DOMAIN msgHandlers' : i \in Nat /\ at[i] \in Nat
      BY <1>5, <1>6, LenProperties
    <2> QED
      BY <1>7, <2>1
  <1> QED
    BY <1>1, <1>2, <1>3, <1>4, <1>7, <1>8, DeliveryKept

LEMMA PlainCommandDelivers ==
  ASSUME DInv, PlainCommand
  PROVE  DInv'
PROOF
  <1> DEFINE t == CHOOSE t \in Topics : TRUE
  <1>1. /\ TInv /\ TInv' /\ t \in Topics
        /\ Issue("command", t) /\ "command" \in Sends
    BY PlainCommandType, TopicsNotEmpty DEF DInv, PlainCommand, Sends
  <1>2. UNCHANGED <<state, seen, toClient, msgHandlers, singleShots, sent, msgs>>
    BY DEF PlainCommand, wire, history
  <1> HIDE DEF t
  <1>3. /\ \A cb \in Cmd : Handed(cb)' = Handed(cb)
        /\ \A u \in Names : InFlight(u)' = InFlight(u)
    BY <1>1, <1>2, HandedIssue DEF InFlight, FramesOf, Topics
  <1>4. cmds <= cmds'
    BY <1>1, IssueCounts
  <1> QED
    BY <1>1, <1>2, <1>3, <1>4, DeliveryStill

LEMMA ConnectDelivers ==
  ASSUME DInv, Connect
  PROVE  DInv'
PROOF
  <1>1. TInv'
    BY ConnectType DEF DInv
  <1>2. UNCHANGED <<strandq, seen, toClient, msgHandlers, singleShots, sent, msgs, cmds>>
    BY DEF Connect, wire, counts, history
  <1>3. /\ \A cb \in Cmd : Handed(cb)' = Handed(cb)
        /\ \A u \in Names : InFlight(u)' = InFlight(u)
    BY <1>2 DEF Handed, InFlight, PostedTo, FramesOf, Topics
  <1>4. cmds <= cmds' /\ state # "Subscribed"
    BY <1>2 DEF DInv, TInv, TypeOK, Connect
  <1> QED
    BY <1>1, <1>2, <1>3, <1>4, DeliveryStill

LEMMA RunStrandDelivers ==
  ASSUME DInv, RunStrand
  PROVE  DInv'
PROOF
  <1>1. TInv /\ TInv'
    BY RunStrandType DEF DInv
  <1>2. UNCHANGED <<state, toClient, msgHandlers, singleShots, sent, msgs, cmds>>
    BY DEF RunStrand, counts
  <1>3. /\ \A cb \in Cmd : Handed(cb)' = Handed(cb)
        /\ \A u \in Names : InFlight(u)' = InFlight(u)
    BY <1>1, <1>2, HandedRun DEF InFlight, FramesOf, Topics
  <1>4. cmds <= cmds'
    BY <1>2 DEF DInv, TInv, TypeOK
  <1> QED
    BY <1>1, <1>2, <1>3, <1>4, DeliveryStill

LEMMA ServeDelivers ==
  ASSUME DInv, Serve
  PROVE  DInv'
PROOF
  <1>1. TInv /\ TInv'
    BY ServeType DEF DInv
  <1>2. UNCHANGED <<state, strandq, seen, msgHandlers, singleShots, sent, msgs, cmds>>
    BY DEF Serve, client, counts, history
  <1>3. /\ \A cb \in Cmd : Handed(cb)' = Handed(cb)
        /\ \A u \in Names : InFlight(u)' = InFlight(u)
    BY <1>1, <1>2, InFlightServe DEF Handed, PostedTo
  <1>4. cmds <= cmds'
    BY <1>2 DEF DInv, TInv, TypeOK
  <1> QED
    BY <1>1, <1>2, <1>3, <1>4, DeliveryStill

(* disconnect() leaves no handler, and loses what is on its way.            *)
LEMMA DisconnectDelivers ==
  ASSUME DInv, Disconnect
  PROVE  DInv'
PROOF
  <1>1. TInv /\ TInv'
    BY DisconnectType DEF DInv
  <1>2. /\ UNCHANGED <<strandq, seen, singleShots, sent, msgs, cmds>>
        /\ msgHandlers' = <<>> /\ toClient' = <<>>
    BY DEF Disconnect
  <1>3. \A cb \in Cmd : Handed(cb)' = Handed(cb)
    BY <1>2 DEF Handed, PostedTo
  <1>4. \A n \in Names : InFlight(n)' = <<>>
    BY <1>2, MsgsEmpty DEF InFlight, FramesOf, Topics
  <1>5. DOMAIN msgHandlers' = {}
    BY <1>2
  <1>6. Apart'
    BY <1>2, <1>5 DEF DInv, Apart
  <1>7. Fresh'
    BY <1>2, <1>3, <1>5 DEF DInv, Fresh
  <1>8. Published'
    <2>1. \A n \in Names : Ends(<<>>, sent[n])
      BY <1>1, StreamTypes, EndsEmpty
    <2> QED
      BY <1>2, <1>4, <2>1 DEF DInv, Published
  <1>9. Listening' /\ Gets'
    BY <1>2, <1>5 DEF Listening, Gets
  <1>10. InOrder'
    BY <1>2, <1>3 DEF DInv, InOrder
  <1> QED
    BY <1>1, <1>6, <1>7, <1>8, <1>9, <1>10 DEF DInv

(* A new handler has its own callback, and waits for what is still to come. *)
LEMMA SubscribeDelivers ==
  ASSUME DInv, NEW t \in Topics, Subscribe(t)
  PROVE  DInv'
PROOF
  <1>1. TInv /\ TInv' /\ Issue("subscribe", t) /\ "subscribe" \in Sends
    BY SubscribeType DEF DInv, Subscribe, Sends
  <1>2. /\ UNCHANGED <<seen, toClient, sent, msgs>> /\ state' = "Subscribed"
        /\ Install(t.name) \/ InstallShot(t.name)
    BY DEF Subscribe, wire
  <1>3. /\ \A cb \in Cmd : Handed(cb)' = Handed(cb)
        /\ \A u \in Names : InFlight(u)' = InFlight(u)
    BY <1>1, <1>2, HandedIssue DEF InFlight, FramesOf, Topics
  <1>4. /\ cmds' \in Cmd /\ cmds' > cmds
        /\ \A c \in Cmd : c > cmds' => c > cmds /\ c # cmds'
    BY <1>1, IssueCounts
  <1>5. /\ Handed(cmds') = <<>>
        /\ \A i \in DOMAIN msgHandlers : msgHandlers[i].cb # cmds'
        /\ \A x \in singleShots : x.cb # cmds'
    <2>1. \A c \in Cmd : c > cmds => /\ Handed(c) = <<>>
                                     /\ \A i \in DOMAIN msgHandlers : msgHandlers[i].cb # c
                                     /\ \A x \in singleShots : x.cb # c
      BY DEF DInv, Fresh
    <2> QED
      BY <1>4, <2>1
  <1>6. Published' /\ Listening'
    BY <1>2, <1>3 DEF DInv, Published, Listening
  <1>7. CASE Install(t.name)
    <2> DEFINE H == [id : 0 .. MaxCmds, name : Names, cb : Cmd]
               h == [id |-> subscribeSeq, name |-> t.name, cb |-> cmds']
    <2>1. msgHandlers \in Seq(H) /\ msgHandlers' = Append(msgHandlers, h) /\ UNCHANGED singleShots
      BY <1>7 DEF DInv, TInv, TypeOK, HandlesOK, Install
    <2>2. h \in H /\ h.cb = cmds' /\ h.name = t.name
      BY <1>1, <1>4, TopicName, PubSubAssumption DEF TInv, TypeOK, Issue
    <2> HIDE DEF H, h
    <2>3. /\ Len(msgHandlers) \in Nat
          /\ DOMAIN msgHandlers = 1 .. Len(msgHandlers)
          /\ DOMAIN msgHandlers' = 1 .. Len(msgHandlers) + 1
          /\ \A i \in 1 .. Len(msgHandlers) : msgHandlers'[i] = msgHandlers[i]
          /\ msgHandlers'[Len(msgHandlers) + 1] = h
      BY <2>1, <2>2, AppendProperties, LenProperties
    <2>4. \A i \in DOMAIN msgHandlers' :
            \/ i \in DOMAIN msgHandlers /\ msgHandlers'[i] = msgHandlers[i]
            \/ i = Len(msgHandlers) + 1 /\ msgHandlers'[i] = h
      BY <2>3
    <2>5. Apart'
      BY <1>5, <2>1, <2>2, <2>4 DEF DInv, Apart
    <2>6. Fresh'
      <3> SUFFICES ASSUME NEW c \in Cmd, c > cmds'
                   PROVE  /\ Handed(c)' = <<>>
                          /\ \A i \in DOMAIN msgHandlers' : msgHandlers'[i].cb # c
                          /\ \A x \in singleShots' : x.cb # c
        BY DEF Fresh
      <3>1. c > cmds /\ c # cmds'
        BY <1>4
      <3>2. /\ Handed(c) = <<>>
            /\ \A i \in DOMAIN msgHandlers : msgHandlers[i].cb # c
            /\ \A x \in singleShots : x.cb # c
        BY <3>1 DEF DInv, Fresh
      <3> QED
        BY <1>3, <2>1, <2>2, <2>4, <3>1, <3>2
    <2>7. Gets'
      <3> SUFFICES ASSUME NEW i \in DOMAIN msgHandlers', NEW cb \in Cmd, NEW u \in Names,
                          msgHandlers'[i].cb = cb, msgHandlers'[i].name = u
                   PROVE  Ends(Handed(cb)' \o InFlight(u)', sent'[u])
        BY DEF Gets
      <3>1. Ends(Handed(cb) \o InFlight(u), sent[u])
        <4>1. CASE i \in DOMAIN msgHandlers /\ msgHandlers'[i] = msgHandlers[i]
          BY <4>1 DEF DInv, Gets
        <4>2. CASE msgHandlers'[i] = h
          <5>1. cb = cmds' /\ u = t.name
            BY <2>2, <4>2
          <5>2. Handed(cb) = <<>>
            BY <1>5, <5>1
          <5>3. InFlight(u) \in Seq(Msg)
            BY <1>1, StreamTypes
          <5>4. Handed(cb) \o InFlight(u) = InFlight(u)
            BY <5>2, <5>3, ConcatEmptySeq
          <5>5. Ends(InFlight(u), sent[u])
            BY DEF DInv, Published
          <5> QED
            BY <5>4, <5>5
        <4> QED
          BY <2>4, <4>1, <4>2
      <3> QED
        BY <1>2, <1>3, <3>1
    <2>8. InOrder'
      BY <1>2, <1>3, <2>1 DEF DInv, InOrder
    <2> QED
      BY <1>1, <1>6, <2>5, <2>6, <2>7, <2>8 DEF DInv
  <1>8. CASE InstallShot(t.name)
    <2>1. UNCHANGED msgHandlers /\ singleShots' = singleShots \cup {[name |-> t.name, cb |-> cmds']}
      BY <1>8 DEF InstallShot
    <2>2. Apart'
      BY <1>5, <2>1 DEF DInv, Apart
    <2>3. Fresh'
      <3> SUFFICES ASSUME NEW c \in Cmd, c > cmds'
                   PROVE  /\ Handed(c)' = <<>>
                          /\ \A i \in DOMAIN msgHandlers' : msgHandlers'[i].cb # c
                          /\ \A x \in singleShots' : x.cb # c
        BY DEF Fresh
      <3>1. c > cmds /\ c # cmds'
        BY <1>4
      <3> QED
        BY <1>3, <2>1, <3>1 DEF DInv, Fresh
    <2>4. Gets'
      BY <1>2, <1>3, <2>1 DEF DInv, Gets
    <2>5. InOrder'
      <3> SUFFICES ASSUME NEW cb \in Cmd
                   PROVE  /\ \E n \in Names : Part(Handed(cb)', sent'[n])
                          /\ (\E x \in singleShots' : x.cb = cb) => Handed(cb)' = <<>>
        BY DEF InOrder
      <3>1. cb = cmds' => Handed(cb) = <<>>
        BY <1>5
      <3> QED
        BY <1>2, <1>3, <2>1, <3>1 DEF DInv, InOrder
    <2> QED
      BY <1>1, <1>6, <2>2, <2>3, <2>4, <2>5 DEF DInv
  <1> QED
    BY <1>2, <1>7, <1>8

(* Nothing that is wanted is left out.                                      *)
LEMMA OnlyCovers ==
  ASSUME NEW S, NEW s \in Seq(S), NEW T
  PROVE  \A i \in DOMAIN s : s[i] \in T =>
           \E j \in DOMAIN Only(s, T) : Only(s, T)[j] = s[i]
PROOF
  <1> DEFINE Covers(r) == \A i \in DOMAIN r : r[i] \in T =>
                            \E j \in DOMAIN Only(r, T) : Only(r, T)[j] = r[i]
             P == {r \in Seq(S) : Covers(r)}
  <1>1. <<>> \in P
    BY EmptySeq
  <1>2. ASSUME NEW r \in Seq(S), NEW e \in S, r \in P PROVE Append(r, e) \in P
    <2> DEFINE t == Append(r, e)
               o == Only(r, T)
    <2>1. /\ t \in Seq(S) /\ DOMAIN t = 1 .. Len(r) + 1 /\ DOMAIN r = 1 .. Len(r)
          /\ Len(r) \in Nat /\ t[Len(r) + 1] = e /\ \A i \in DOMAIN r : t[i] = r[i]
      BY AppendProperties, LenProperties
    <2>2. o \in Seq(S \cap T)
      BY OnlyType
    <2>3. Only(t, T) = IF e \in T THEN Append(o, e) ELSE o
      BY OnlyAppend
    <2>4. Covers(r)
      BY <1>2
    <2> SUFFICES ASSUME NEW i \in DOMAIN t, t[i] \in T
                 PROVE  \E j \in DOMAIN Only(t, T) : Only(t, T)[j] = t[i]
      BY <2>1
    <2> HIDE DEF t
    <2>5. e \in T => /\ DOMAIN Append(o, e) = 1 .. Len(o) + 1 /\ DOMAIN o = 1 .. Len(o) /\ Len(o) \in Nat
                     /\ Append(o, e)[Len(o) + 1] = e
                     /\ \A j \in DOMAIN o : Append(o, e)[j] = o[j]
      <3>1. SUFFICES ASSUME e \in T PROVE /\ DOMAIN Append(o, e) = 1 .. Len(o) + 1 /\ DOMAIN o = 1 .. Len(o)
                     /\ Len(o) \in Nat /\ Append(o, e)[Len(o) + 1] = e
                     /\ \A j \in DOMAIN o : Append(o, e)[j] = o[j]
        OBVIOUS
      <3> HIDE DEF o
      <3> QED
        BY <2>2, <3>1, AppendProperties, LenProperties
    <2>6. CASE i \in DOMAIN r
      <3>1. r[i] \in T /\ t[i] = r[i]
        BY <2>1, <2>6
      <3>2. PICK j \in DOMAIN o : o[j] = r[i]
        BY <2>4, <2>6, <3>1
      <3> HIDE DEF o
      <3>3. CASE e \in T
        <4>1. j \in DOMAIN Append(o, e) /\ Append(o, e)[j] = t[i]
          BY <2>5, <3>1, <3>2, <3>3
        <4> QED
          BY <2>3, <3>3, <4>1
      <3>4. CASE e \notin T
        BY <2>3, <3>1, <3>2, <3>4
      <3> QED
        BY <3>3, <3>4
    <2>7. CASE i = Len(r) + 1
      <3>1. e \in T /\ t[i] = e
        BY <2>1, <2>7
      <3> HIDE DEF o
      <3>2. Len(o) + 1 \in DOMAIN Append(o, e) /\ Append(o, e)[Len(o) + 1] = t[i]
        BY <2>5, <3>1
      <3> QED
        BY <2>3, <3>1, <3>2
    <2> QED
      BY <2>1, <2>6, <2>7
  <1> HIDE DEF P
  <1>3. Seq(S) \subseteq P
    BY <1>1, <1>2, SeqInduction
  <1>4. s \in P
    BY <1>3
  <1> QED
    BY <1>4 DEF P

\* A handler of the name calls back cb.
Called(cb, n) == \E i \in DOMAIN msgHandlers : msgHandlers[i].cb = cb /\ msgHandlers[i].name = n

(* A message is posted to a callback once, or not at all.                   *)
LEMMA CallsMsgs ==
  ASSUME TInv, Apart, NEW n \in Names, NEW msg \in Msg, NEW cb \in Cmd
  PROVE  MsgsOf(Calls(n, msg), PostedTo(cb)) = IF Called(cb, n) THEN <<msg>> ELSE <<>>
PROOF
  <1> DEFINE H     == [id : 0 .. MaxCmds, name : Names, cb : Cmd]
             ofN   == {h \in ToSet(msgHandlers) : h.name = n}
             mine  == Only(msgHandlers, ofN)
             calls == Calls(n, msg)
  <1>1. msgHandlers \in Seq(H)
    BY DEF TInv, TypeOK, HandlesOK
  <1>2. calls = [i \in DOMAIN mine |-> Message(mine[i].cb, msg)] /\ calls \in Seq(CallItem)
    BY CallsType DEF Calls
  <1>3. \A i \in DOMAIN msgHandlers : msgHandlers[i] \in ofN <=> msgHandlers[i].name = n
    BY DEF ToSet
  <1> HIDE DEF H, ofN
  <1>4. PICK at \in [DOMAIN mine -> DOMAIN msgHandlers] :
          /\ \A i \in DOMAIN mine : mine[i] = msgHandlers[at[i]]
          /\ \A i, j \in DOMAIN mine : i < j => at[i] < at[j]
    BY <1>1, OnlyEmbeds
  <1>5. \A i \in DOMAIN msgHandlers : msgHandlers[i].name = n =>
          \E j \in DOMAIN mine : mine[j] = msgHandlers[i]
    BY <1>1, <1>3, OnlyCovers
  <1>6. \A i \in DOMAIN mine : mine[i] \in ofN
    <2>1. mine \in Seq(H \cap ofN)
      BY <1>1, OnlyType
    <2> HIDE DEF mine
    <2> QED
      BY <2>1, ElementOfSeq, LenProperties
  <1>7. \A i, j \in DOMAIN mine : at[i] = at[j] => i = j
    <2>1. mine \in Seq(H \cap ofN)
      BY <1>1, OnlyType
    <2> HIDE DEF mine
    <2>2. \A i \in DOMAIN mine : i \in Nat /\ at[i] \in Nat
      BY <1>1, <2>1, LenProperties
    <2> QED
      BY <1>4, <2>2
  <1> HIDE DEF mine
  <1>8. DOMAIN calls = DOMAIN mine /\ \A i \in DOMAIN mine :
          calls[i] \in PostedTo(cb) <=> mine[i].cb = cb
    BY <1>2 DEF Message, PostedTo
  <1>9. \A i \in DOMAIN mine : calls[i].msg = msg
    BY <1>2 DEF Message
  <1> HIDE DEF calls
  <1>10. CASE Called(cb, n)
    <2>1. PICK i \in DOMAIN msgHandlers : msgHandlers[i].cb = cb /\ msgHandlers[i].name = n
      BY <1>10 DEF Called
    <2>2. PICK j \in DOMAIN mine : mine[j] = msgHandlers[i]
      BY <1>5, <2>1
    <2>3. \A k \in DOMAIN mine : mine[k].cb = cb => k = j
      <3> SUFFICES ASSUME NEW k \in DOMAIN mine, mine[k].cb = cb PROVE k = j
        OBVIOUS
      <3>1. msgHandlers[at[k]].cb = cb /\ msgHandlers[at[j]].cb = cb
        BY <1>4, <2>1, <2>2
      <3>2. at[k] = at[j]
        BY <1>4, <3>1 DEF Apart
      <3> QED
        BY <1>7, <3>2
    <2>4. calls[j] \in PostedTo(cb) /\ \A k \in DOMAIN calls : calls[k] \in PostedTo(cb) => k = j
      BY <1>8, <2>1, <2>2, <2>3
    <2>5. Only(calls, PostedTo(cb)) = <<calls[j]>>
      BY <1>2, <1>8, <2>4, OnlyOne
    <2>6. MsgsOf(calls, PostedTo(cb)) = <<calls[j].msg>>
      BY <1>2, <2>5, MsgsOne
    <2> QED
      BY <1>9, <1>10, <2>6 DEF calls
  <1>11. CASE ~Called(cb, n)
    <2>1. \A i \in DOMAIN calls : calls[i] \notin PostedTo(cb)
      <3> SUFFICES ASSUME NEW i \in DOMAIN mine PROVE mine[i].cb # cb
        BY <1>8
      <3>1. mine[i] = msgHandlers[at[i]] /\ msgHandlers[at[i]].name = n
        BY <1>3, <1>4, <1>6
      <3> QED
        BY <1>4, <1>11, <3>1 DEF Called
    <2>2. MsgsOf(calls, PostedTo(cb)) = <<>>
      BY <1>2, <2>1, MsgsNone
    <2> QED
      BY <1>11, <2>2 DEF calls
  <1> QED
    BY <1>10, <1>11

(* A message is handed to the handlers of its name and  to the single-shot  *)
(* handler that goes, and to nobody else.                                   *)
LEMMA DispatchHands ==
  ASSUME TInv, Apart, NEW n \in Names, NEW msg \in Msg, Dispatch(n, msg), UNCHANGED seen
  PROVE  /\ singleShots' \subseteq singleShots
         /\ \A x \in singleShots \ singleShots' : x.name = n
         /\ \A cb \in Cmd :
              Handed(cb)' = IF Called(cb, n) \/ \E x \in singleShots \ singleShots' : x.cb = cb
                              THEN Handed(cb) \o <<msg>> ELSE Handed(cb)
PROOF
  <1> DEFINE one == <<msg>>
  <1>1. one \in Seq(Msg)
    OBVIOUS
  <1>2. strandq \in Seq(Item) /\ Calls(n, msg) \in Seq(Item)
    BY CallsType, SeqMonotonic DEF TInv, TypeOK, Item
  <1>3. ASSUME NEW cb \in Cmd
        PROVE  /\ seen[cb] \in Seq(Msg) /\ MsgsOf(strandq, PostedTo(cb)) \in Seq(Msg)
               /\ Handed(cb) \in Seq(Msg)
               /\ Handed(cb)' = seen[cb] \o MsgsOf(strandq', PostedTo(cb))
    BY StreamTypes DEF Handed, PostedTo
  <1>4. ASSUME NEW cb \in Cmd
        PROVE  MsgsOf(Calls(n, msg), PostedTo(cb)) = IF Called(cb, n) THEN one ELSE <<>>
    BY CallsMsgs
  <1> HIDE DEF one
  <1>5. CASE ShotsFor(n) = {} /\ strandq' = strandq \o Calls(n, msg) /\ UNCHANGED singleShots
    <2>1. \A x \in singleShots \ singleShots' : FALSE
      BY <1>5
    <2>2. ASSUME NEW cb \in Cmd
          PROVE  Handed(cb)' = IF Called(cb, n) THEN Handed(cb) \o one ELSE Handed(cb)
      <3> DEFINE a == seen[cb]
                 b == MsgsOf(strandq, PostedTo(cb))
                 c == MsgsOf(Calls(n, msg), PostedTo(cb))
      <3>1. MsgsOf(strandq', PostedTo(cb)) = b \o c
        BY <1>2, <1>5, MsgsConcat, PostedMsg, SMTT(30)
      <3>2. a \in Seq(Msg) /\ b \in Seq(Msg) /\ Handed(cb)' = a \o (b \o c) /\ Handed(cb) = a \o b
        BY <1>3, <3>1 DEF Handed
      <3>3. c = IF Called(cb, n) THEN one ELSE <<>>
        BY <1>4
      <3> HIDE DEF a, b, c
      <3>4. CASE Called(cb, n)
        <4>1. (a \o b) \o one = a \o (b \o one)
          <5>1. Regroup(a, b, one)
            BY <1>1, <3>2, Regrouped
          <5> QED
            BY <5>1 DEF Regroup
        <4> QED
          BY <3>2, <3>3, <3>4, <4>1
      <3>5. CASE ~Called(cb, n)
        BY <3>2, <3>3, <3>5, ConcatEmptySeq
      <3> QED
        BY <3>4, <3>5
    <2> QED
      BY <1>5, <2>1, <2>2 DEF one
  <1>6. ASSUME NEW shot \in ShotsFor(n), singleShots' = singleShots \ {shot},
               strandq' = Append(strandq, Message(shot.cb, msg)) \o Calls(n, msg)
        PROVE  /\ singleShots' \subseteq singleShots
               /\ \A x \in singleShots \ singleShots' : x.name = n
               /\ \A cb \in Cmd :
                    Handed(cb)' = IF Called(cb, n) \/ \E x \in singleShots \ singleShots' : x.cb = cb
                                    THEN Handed(cb) \o one ELSE Handed(cb)
    <2>1. shot \in singleShots /\ shot.name = n /\ shot.cb \in Cmd
      BY DEF ShotsFor, TInv, TypeOK
    <2>2. \A x : x \in singleShots \ singleShots' <=> x = shot
      BY <1>6, <2>1
    <2> DEFINE m == Message(shot.cb, msg)
    <2>3. m \in Item /\ m.msg = msg /\ \A cb \in Cmd : m \in PostedTo(cb) <=> cb = shot.cb
      BY <2>1, MessageType DEF Message, Item, PostedTo
    <2>5. strandq' = Append(strandq, m) \o Calls(n, msg)
      BY <1>6
    <2> HIDE DEF m
    <2>4. ASSUME NEW cb \in Cmd
          PROVE  Handed(cb)' = IF Called(cb, n) \/ cb = shot.cb THEN Handed(cb) \o one ELSE Handed(cb)
      <3> DEFINE a == seen[cb]
                 b == MsgsOf(strandq, PostedTo(cb))
                 b2 == MsgsOf(Append(strandq, m), PostedTo(cb))
                 c == MsgsOf(Calls(n, msg), PostedTo(cb))
      <3>1. MsgsOf(strandq', PostedTo(cb)) = b2 \o c
        <4> DEFINE first == Append(strandq, m)
                   calls == Calls(n, msg)
        <4>1. first \in Seq(Item) /\ calls \in Seq(Item) /\ strandq' = first \o calls
          BY <1>2, <2>3, <2>5, AppendProperties
        <4> HIDE DEF first, calls
        <4>2. MsgsOf(first \o calls, PostedTo(cb)) = MsgsOf(first, PostedTo(cb)) \o MsgsOf(calls, PostedTo(cb))
          BY <4>1, MsgsConcat, PostedMsg
        <4> QED
          BY <4>1, <4>2 DEF first, calls
      <3>2. b2 = IF cb = shot.cb THEN b \o one ELSE b
        <4>1. b2 = IF m \in PostedTo(cb) THEN Append(b, m.msg) ELSE b
          BY <1>2, <2>3, MsgsAppend, PostedMsg
        <4>2. b \in Seq(Msg)
          BY <1>3
        <4> HIDE DEF b, b2
        <4>3. Append(b, msg) = b \o one
          BY <4>2, AppendIsConcat DEF one
        <4> QED
          BY <2>3, <4>1, <4>3
      <3>3. a \in Seq(Msg) /\ b \in Seq(Msg) /\ Handed(cb)' = a \o (b2 \o c) /\ Handed(cb) = a \o b
        BY <1>3, <3>1 DEF Handed
      <3>4. c = IF Called(cb, n) THEN one ELSE <<>>
        BY <1>4
      <3>5. ~(Called(cb, n) /\ cb = shot.cb)
        BY <2>1 DEF Apart, Called
      <3> HIDE DEF a, b, b2, c
      <3>6. CASE Called(cb, n)
        <4>1. (a \o b) \o one = a \o (b \o one)
          <5>1. Regroup(a, b, one)
            BY <1>1, <3>3, Regrouped
          <5> QED
            BY <5>1 DEF Regroup
        <4> QED
          BY <3>2, <3>3, <3>4, <3>5, <3>6, <4>1
      <3>7. CASE ~Called(cb, n)
        <4>1. c = <<>> /\ b2 \in Seq(Msg)
          BY <1>1, <3>2, <3>3, <3>4, <3>7, ConcatProperties
        <4>2. Handed(cb)' = a \o b2
          BY <3>3, <4>1, ConcatEmptySeq
        <4>3. cb = shot.cb => a \o b2 = (a \o b) \o one
          <5>1. Regroup(a, b, one)
            BY <1>1, <3>3, Regrouped
          <5> QED
            BY <3>2, <5>1 DEF Regroup
        <4> QED
          BY <3>2, <3>3, <3>7, <4>2, <4>3
      <3> QED
        BY <3>6, <3>7
    <2> QED
      BY <1>6, <2>1, <2>2, <2>4
  <1> QED
    BY <1>5, <1>6 DEF Dispatch, one

(* A frame that is no message, or that nobody waits for.                    *)
LEMMA DeliverySkipped ==
  ASSUME DInv, TInv', DoProcessMessage, UNCHANGED <<strandq, singleShots>>,
         Head(toClient).op = "message" => state # "Subscribed"
  PROVE  DInv'
PROOF
  <1>1. /\ TInv
        /\ UNCHANGED <<state, seen, msgHandlers, singleShots, sent, msgs, cmds>>
    BY DEF DInv, DoProcessMessage, counts
  <1>2. \A cb \in Cmd : Handed(cb)' = Handed(cb)
    BY <1>1 DEF Handed, PostedTo
  <1>3. CASE Head(toClient).op # "message"
    <2>1. \A n \in Names : InFlight(n)' = InFlight(n)
      BY <1>1, <1>3, InFlightNext
    <2>2. cmds <= cmds'
      BY <1>1 DEF TInv, TypeOK
    <2> QED
      BY <1>1, <1>2, <2>1, <2>2, DeliveryStill
  <1>4. CASE Head(toClient).op = "message"
    <2>1. msgHandlers = <<>> /\ msgHandlers' = <<>> /\ DOMAIN msgHandlers = {} /\ DOMAIN msgHandlers' = {}
      BY <1>1, <1>4 DEF DInv, Listening
    <2>2. Apart' /\ Fresh' /\ InOrder'
      BY <1>1, <1>2 DEF DInv, Apart, Fresh, InOrder
    <2>3. Listening' /\ Gets'
      BY <2>1 DEF Listening, Gets
    <2>4. ASSUME NEW n \in Names PROVE Ends(InFlight(n)', sent[n])
      BY <1>1, InFlightSuffix DEF DInv
    <2>5. Published'
      BY <1>1, <2>4 DEF DInv, Published
    <2> QED
      BY <2>2, <2>3, <2>5 DEF DInv
  <1> QED
    BY <1>3, <1>4

(* A message goes from the connection to the strand, for all its handlers.  *)
LEMMA DeliveryDispatched ==
  ASSUME DInv, TInv', DoProcessMessage, Head(toClient).op = "message",
         Dispatch(Head(toClient).topic.name, Head(toClient).msg)
  PROVE  DInv'
PROOF
  <1>0. Head(toClient).topic.name \in Names /\ Head(toClient).msg \in Msg
    BY FrameType, TopicName DEF DInv, DoProcessMessage, FrameItem
  <1> SUFFICES ASSUME NEW n \in Names, NEW m \in Msg,
                      n = Head(toClient).topic.name, m = Head(toClient).msg
               PROVE  DInv'
    BY <1>0
  <1> DEFINE one == <<m>>
             Gone(cb) == \E x \in singleShots \ singleShots' : x.cb = cb
  <1>1. /\ TInv /\ Apart /\ one \in Seq(Msg) /\ Dispatch(n, m)
        /\ UNCHANGED <<state, seen, msgHandlers, sent, msgs, cmds>>
    BY DEF DInv, DoProcessMessage, counts
  <1>2. /\ singleShots' \subseteq singleShots
        /\ \A x \in singleShots \ singleShots' : x.name = n
        /\ \A cb \in Cmd :
             Handed(cb)' = IF Called(cb, n) \/ Gone(cb) THEN Handed(cb) \o one ELSE Handed(cb)
    BY <1>1, DispatchHands
  <1>3. /\ InFlight(n) = one \o InFlight(n)'
        /\ \A u \in Names : u # n => InFlight(u) = InFlight(u)'
        /\ \A u \in Names : InFlight(u)' \in Seq(Msg)
    BY <1>1, InFlightNext
  <1>4. \A cb \in Cmd : Handed(cb) \in Seq(Msg)
    BY <1>1, StreamTypes
  <1> HIDE DEF one
  <1>6. Apart'
    BY <1>1, <1>2 DEF Apart
  <1>7. Fresh'
    BY <1>1, <1>2 DEF DInv, Fresh, Called
  <1>8. Published'
    <2>1. ASSUME NEW u \in Names PROVE Ends(InFlight(u)', sent[u])
      BY <1>1, InFlightSuffix DEF DInv
    <2> QED
      BY <1>1, <2>1 DEF DInv, Published
  <1>9. Listening'
    BY <1>1 DEF DInv, Listening
  <1>10. ASSUME NEW i \in DOMAIN msgHandlers, NEW cb \in Cmd, NEW u \in Names,
                msgHandlers[i].cb = cb, msgHandlers[i].name = u
         PROVE  Handed(cb)' \o InFlight(u)' = Handed(cb) \o InFlight(u)
    <2>1. ~Gone(cb)
      BY <1>10, <1>1 DEF Apart
    <2>2. CASE u = n
      <3>1. Called(cb, n)
        BY <1>10, <2>2 DEF Called
      <3>2. Handed(cb)' = Handed(cb) \o one
        BY <1>2, <3>1
      <3>3. (Handed(cb) \o one) \o InFlight(n)' = Handed(cb) \o (one \o InFlight(n)')
        <4>1. Regroup(Handed(cb), one, InFlight(n)')
          BY <1>1, <1>3, <1>4, Regrouped
        <4> QED
          BY <4>1 DEF Regroup
      <3> QED
        BY <1>3, <2>2, <3>2, <3>3
    <2>3. CASE u # n
      <3>1. ~Called(cb, n)
        BY <1>10, <1>1, <2>3 DEF Apart, Called
      <3> QED
        BY <1>2, <1>3, <2>1, <2>3, <3>1
    <2> QED
      BY <2>2, <2>3
  <1>11. Gets'
    BY <1>1, <1>10, ZenonT(60) DEF DInv, Gets
  <1>12. InOrder'
    <2> SUFFICES ASSUME NEW cb \in Cmd
                 PROVE  /\ \E u \in Names : Part(Handed(cb)', sent[u])
                        /\ (\E x \in singleShots' : x.cb = cb) => Handed(cb)' = <<>>
      BY <1>1 DEF InOrder
    <2>1. /\ \E u \in Names : Part(Handed(cb), sent[u])
          /\ (\E x \in singleShots : x.cb = cb) => Handed(cb) = <<>>
      BY DEF DInv, InOrder
    <2>5. InFlight(n)' \in Seq(Msg) /\ sent[n] \in Seq(Msg)
      BY <1>1, <1>3, StreamTypes
    <2>2. CASE Called(cb, n)
      <3>1. PICK i \in DOMAIN msgHandlers : msgHandlers[i].cb = cb /\ msgHandlers[i].name = n
        BY <2>2 DEF Called
      <3>2. Ends(Handed(cb) \o InFlight(n), sent[n])
        BY <3>1 DEF DInv, Gets
      <3>3. Ends(Handed(cb)' \o InFlight(n)', sent[n])
        BY <1>10, <3>1, <3>2
      <3>4. Handed(cb)' \in Seq(Msg)
        <4>1. Handed(cb)' = Handed(cb) \o one
          BY <1>2, <2>2
        <4> QED
          BY <1>1, <1>4, <4>1, ConcatProperties
      <3>5. Part(Handed(cb)', sent[n])
        BY <2>5, <3>3, <3>4, EndsPart
      <3>6. \A x \in singleShots' : x.cb # cb
        BY <1>1, <1>2, <3>1 DEF Apart
      <3> QED
        BY <3>5, <3>6
    <2>3. CASE ~Called(cb, n) /\ Gone(cb)
      <3>1. Handed(cb)' = Handed(cb) \o one /\ Handed(cb) = <<>>
        BY <1>2, <2>1, <2>3
      <3>2. Handed(cb)' = one
        BY <1>1, <3>1, ConcatEmptySeq
      <3>3. Ends(one \o InFlight(n)', sent[n])
        BY <1>3 DEF DInv, Published
      <3>4. Part(one, sent[n])
        BY <1>1, <2>5, <3>3, EndsPart
      <3>5. \A x \in singleShots' : x.cb # cb
        BY <1>1, <1>2, <2>3 DEF Apart
      <3> QED
        BY <3>2, <3>4, <3>5
    <2>4. CASE ~Called(cb, n) /\ ~Gone(cb)
      BY <1>2, <2>1, <2>4
    <2> QED
      BY <2>2, <2>3, <2>4
  <1> QED
    BY <1>6, <1>7, <1>8, <1>9, <1>11, <1>12 DEF DInv

LEMMA DoProcessMessageDelivers ==
  ASSUME DInv, DoProcessMessage
  PROVE  DInv'
PROOF
  <1>1. TInv /\ TInv'
    BY DoProcessMessageType DEF DInv
  <1> QED
    BY <1>1, FrameCases, DeliverySkipped, DeliveryDispatched DEF CallHandler, Complain

(* A message is the last of its name, and on its way to all its handlers.   *)
LEMMA PublishDelivers ==
  ASSUME DInv, NEW channel \in Channels, Publish(channel)
  PROVE  DInv'
PROOF
  <1> DEFINE m == msgs'
  <1>1. /\ TInv /\ TInv'
        /\ UNCHANGED <<state, strandq, seen, msgHandlers, singleShots, cmds>>
    BY PublishType DEF DInv, Publish, client
  <1>2. msgs \in Nat /\ m = msgs + 1 /\ m \in Msg
    <2>1. msgs \in Nat /\ msgs < MaxMsgs /\ msgs' = msgs + 1
      BY DEF DInv, TInv, TypeOK, Publish
    <2> QED
      BY <2>1, PubSubAssumption DEF Msg
  <1>3. PICK frames \in Seq(FrameItem) :
          /\ toClient' = toClient \o frames
          /\ \A n \in Names : sent'[n] = sent[n] \o MsgsOf(frames, FramesOf(n))
          /\ \A i \in DOMAIN frames : frames[i].msg = m
          /\ \A n \in Names \ Shared : \/ Only(frames, FramesOf(n)) = <<>>
                                       \/ \E x \in FrameItem : /\ x.msg = m
                                                               /\ Only(frames, FramesOf(n)) = <<x>>
    BY <1>1, PublishFrames
  <1> DEFINE more(n) == MsgsOf(frames, FramesOf(n))
  <1>4. ASSUME NEW n \in Names
        PROVE  /\ more(n) \in Seq(Msg) /\ InFlight(n) \in Seq(Msg) /\ sent[n] \in Seq(Msg)
               /\ InFlight(n)' = InFlight(n) \o more(n) /\ sent'[n] = sent[n] \o more(n)
    <2>1. more(n) \in Seq(Msg) /\ InFlight(n) \in Seq(Msg) /\ sent[n] \in Seq(Msg)
      BY <1>1, MsgsType, FramesMsg, StreamTypes
    <2>2. InFlight(n)' = MsgsOf(toClient \o frames, FramesOf(n))
      BY <1>3 DEF InFlight, FramesOf, Topics
    <2>3. toClient \in Seq(Frame) /\ frames \in Seq(Frame)
      BY <1>1, SeqMonotonic DEF TInv, TypeOK, Frame
    <2>4. MsgsOf(toClient \o frames, FramesOf(n)) = InFlight(n) \o more(n)
      BY <2>3, MsgsConcat, FramesMsg DEF InFlight
    <2> QED
      BY <1>3, <2>1, <2>2, <2>4
  <1>5. ASSUME NEW n \in Names
        PROVE  \A i \in DOMAIN more(n) : more(n)[i] = m
    <2> DEFINE of == Only(frames, FramesOf(n))
    <2>1. PICK at \in [DOMAIN of -> DOMAIN frames] : \A i \in DOMAIN of : of[i] = frames[at[i]]
      BY OnlyEmbeds
    <2>2. DOMAIN more(n) = DOMAIN of /\ \A i \in DOMAIN of : more(n)[i] = of[i].msg
      BY DEF MsgsOf
    <2> HIDE DEF of, m, more
    <2> QED
      BY <1>3, <2>1, <2>2
  <1>6. ASSUME NEW n \in Names \ Shared
        PROVE  more(n) = <<>> \/ more(n) = <<m>>
    <2>1. CASE Only(frames, FramesOf(n)) = <<>>
      BY <2>1 DEF MsgsOf
    <2>2. ASSUME NEW x \in FrameItem, x.msg = m, Only(frames, FramesOf(n)) = <<x>>
          PROVE  more(n) = <<m>>
      <3>1. more(n) = <<x.msg>>
        BY <2>2, MsgsOne
      <3> QED
        BY <2>2, <3>1
    <2> QED
      BY <1>3, <2>1, <2>2
  <1> HIDE DEF more, m
  <1>7. \A cb \in Cmd : Handed(cb)' = Handed(cb) /\ Handed(cb) \in Seq(Msg)
    BY <1>1, StreamTypes DEF Handed, PostedTo
  <1>8. Apart' /\ Fresh' /\ Listening'
    BY <1>1, <1>7 DEF DInv, Apart, Fresh, Listening
  <1>9. InOrder'
    <2> SUFFICES ASSUME NEW cb \in Cmd
                 PROVE  /\ \E n \in Names : Part(Handed(cb), sent'[n])
                        /\ (\E x \in singleShots : x.cb = cb) => Handed(cb) = <<>>
      BY <1>1, <1>7 DEF InOrder
    <2>1. PICK n \in Names : Part(Handed(cb), sent[n])
      BY DEF DInv, InOrder
    <2>2. Part(Handed(cb), sent[n] \o more(n))
      BY <1>4, <1>7, <2>1, PartGrows
    <2> QED
      BY <1>4, <2>2 DEF DInv, InOrder
  <1>10. Published'
    <2> SUFFICES ASSUME NEW n \in Names
                 PROVE  /\ n \notin Shared => Increases(sent'[n])
                        /\ \A i \in DOMAIN sent'[n] : sent'[n][i] <= m
                        /\ Ends(InFlight(n)', sent'[n])
      BY DEF Published, Increases, m
    <2>1. /\ n \notin Shared => Increases(sent[n])
          /\ Ends(InFlight(n), sent[n])
          /\ \A i \in DOMAIN sent[n] : sent[n][i] <= msgs /\ sent[n][i] \in Nat
      <3>1. \A i \in DOMAIN sent[n] : sent[n][i] \in Msg
        BY <1>4, ElementOfSeq, LenProperties
      <3> QED
        BY <3>1 DEF DInv, Published, Msg
    <2>2. n \notin Shared => Increases(sent'[n])
      <3>1. SUFFICES ASSUME n \notin Shared PROVE Increases(sent'[n])
        OBVIOUS
      <3>2. CASE more(n) = <<>>
        BY <1>4, <2>1, <3>1, <3>2, ConcatEmptySeq
      <3>3. CASE more(n) = <<m>>
        <4>1. sent'[n] = Append(sent[n], m)
          BY <1>2, <1>4, <3>3, AppendIsConcat
        <4>2. \A i \in DOMAIN sent[n] : sent[n][i] < m
          BY <1>2, <2>1
        <4> QED
          BY <1>2, <1>4, <2>1, <3>1, <4>1, <4>2, IncreasesAppend
      <3> QED
        BY <1>6, <3>1, <3>2, <3>3
    <2>3. \A i \in DOMAIN sent'[n] : sent'[n][i] <= m
      <3> DEFINE a == sent[n]
                 b == more(n)
      <3>1. a \in Seq(Msg) /\ b \in Seq(Msg) /\ sent'[n] = a \o b
        BY <1>4
      <3>2. /\ \A i \in DOMAIN a : a[i] <= msgs /\ a[i] \in Nat
            /\ \A i \in DOMAIN b : b[i] = m
        BY <1>5, <2>1
      <3> HIDE DEF a, b
      <3>3. /\ Len(a) \in Nat /\ Len(b) \in Nat /\ DOMAIN a = 1 .. Len(a) /\ DOMAIN b = 1 .. Len(b)
            /\ DOMAIN (a \o b) = 1 .. Len(a) + Len(b)
            /\ \A i \in 1 .. Len(a) + Len(b) : (a \o b)[i] = IF i <= Len(a) THEN a[i] ELSE b[i - Len(a)]
        BY <3>1, ConcatProperties, LenProperties
      <3>4. \A i \in 1 .. Len(a) + Len(b) : (a \o b)[i] <= m
        BY <1>2, <3>2, <3>3, SMTT(30)
      <3> QED
        BY <3>1, <3>3, <3>4
    <2>4. Ends(InFlight(n)', sent'[n])
      BY <1>4, <2>1, EndsConcat
    <2> QED
      BY <2>2, <2>3, <2>4
  <1>11. Gets'
    <2> SUFFICES ASSUME NEW i \in DOMAIN msgHandlers, NEW cb \in Cmd, NEW n \in Names,
                        msgHandlers[i].cb = cb, msgHandlers[i].name = n
                 PROVE  Ends(Handed(cb) \o InFlight(n)', sent'[n])
      BY <1>1, <1>7 DEF Gets
    <2>1. Ends(Handed(cb) \o InFlight(n), sent[n])
      BY DEF DInv, Gets
    <2>2. PICK s \in Seq(Msg) : s = Handed(cb) \o InFlight(n)
      BY <1>4, <1>7, ConcatProperties
    <2>3. Handed(cb) \o (InFlight(n) \o more(n)) = s \o more(n)
      <3>1. Regroup(Handed(cb), InFlight(n), more(n))
        BY <1>4, <1>7, Regrouped
      <3> QED
        BY <2>2, <3>1 DEF Regroup
    <2>4. Ends(s \o more(n), sent[n] \o more(n))
      BY <1>4, <2>1, <2>2, EndsConcat
    <2> QED
      BY <1>4, <2>3, <2>4
  <1> QED
    BY <1>1, <1>8, <1>9, <1>10, <1>11 DEF DInv

LEMMA InitDelivers == Init => DInv
PROOF
  <1> SUFFICES ASSUME Init PROVE DInv
    OBVIOUS
  <1>1. TInv
    BY InitType
  <1>2. /\ msgHandlers = <<>> /\ DOMAIN msgHandlers = {} /\ singleShots = {} /\ state = "Connected"
        /\ strandq = <<>> /\ toClient = <<>> /\ seen = [c \in Cmd |-> <<>>] /\ sent = [n \in Names |-> <<>>]
    BY DEF Init
  <1>3. \A cb \in Cmd : Handed(cb) = <<>>
    BY <1>2, MsgsEmpty, ConcatEmptySeq, EmptySeq DEF Handed
  <1>4. \A n \in Names : InFlight(n) = <<>> /\ sent[n] = <<>>
    BY <1>2, MsgsEmpty DEF InFlight
  <1>5. Increases(<<>>) /\ Ends(<<>>, <<>>) /\ Part(<<>>, <<>>)
    <2> DEFINE e == <<>>
    <2>1. e \in Seq(Msg) /\ Increases(e)
      BY EmptySeq DEF Increases
    <2> HIDE DEF e
    <2>2. Ends(<<>>, e)
      BY <2>1, EndsEmpty
    <2>3. Part(e, e)
      BY <2>1, PartOfItself
    <2> QED
      BY <2>1, <2>2, <2>3 DEF e
  <1>6. Apart /\ Fresh /\ Listening /\ Gets
    BY <1>2, <1>3 DEF Apart, Fresh, Listening, Gets
  <1>7. Published /\ InOrder
    BY <1>2, <1>3, <1>4, <1>5, PubSubAssumption DEF Published, InOrder, Names
  <1> QED
    BY <1>1, <1>6, <1>7 DEF DInv

LEMMA NextDelivers == DInv /\ [Next]_vars => DInv'
PROOF
  <1> SUFFICES ASSUME DInv, [Next]_vars PROVE DInv'
    OBVIOUS
  <1>1. CASE App
    BY <1>1, SubscribeDelivers, SubscribeRefusedDelivers, UnsubscribeDelivers, PlainCommandDelivers,
       DisconnectDelivers, ConnectDelivers DEF App
  <1>2. CASE RunStrand
    BY <1>2, RunStrandDelivers
  <1>3. CASE DoProcessMessage
    BY <1>3, DoProcessMessageDelivers
  <1>4. CASE Serve
    BY <1>4, ServeDelivers
  <1>5. CASE \E channel \in Channels : Publish(channel)
    BY <1>5, PublishDelivers
  <1>6. CASE UNCHANGED vars
    <2>1. TInv'
      BY <1>6, NextType DEF DInv
    <2>2. UNCHANGED <<state, strandq, seen, toClient, msgHandlers, singleShots, sent, msgs, cmds>>
      BY <1>6 DEF vars, client, wire, counts, history
    <2>3. /\ \A cb \in Cmd : Handed(cb)' = Handed(cb)
          /\ \A u \in Names : InFlight(u)' = InFlight(u)
      BY <2>2 DEF Handed, InFlight, PostedTo, FramesOf, Topics
    <2>4. cmds <= cmds'
      BY <2>2 DEF DInv, TInv, TypeOK
    <2> QED
      BY <2>1, <2>2, <2>3, <2>4, DeliveryStill
  <1> QED
    BY <1>1, <1>2, <1>3, <1>4, <1>5, <1>6 DEF Next

(* What a message handler is called with is a part of what the server sent  *)
(* for one name: no message is left out in between, none comes before an    *)
(* earlier one, and none comes twice unless the name is shared by a channel *)
(* and a pattern.  A single-shot handler that is still installed has never  *)
(* been called.                                                             *)
THEOREM PubSubInOrder == Spec => []MessagesInOrder
PROOF
  <1>1. DInv => MessagesInOrder
    <2> SUFFICES ASSUME DInv PROVE MessagesInOrder
      OBVIOUS
    <2>1. \A x \in singleShots : x.cb \in Cmd
      BY DEF DInv, TInv, TypeOK
    <2>2. \A x \in singleShots : Handed(x.cb) = <<>>
      BY <2>1 DEF DInv, InOrder
    <2>3. ASSUME NEW cb \in Cmd
          PROVE  \E n \in Names : /\ Handed(cb) \in SubSeqs(sent[n])
                                  /\ n \notin Shared => Increases(Handed(cb))
      <3>1. PICK n \in Names : Part(Handed(cb), sent[n])
        BY DEF DInv, InOrder
      <3>2. Handed(cb) \in Seq(Msg) /\ sent[n] \in Seq(Msg)
        BY StreamTypes DEF DInv
      <3>3. Handed(cb) \in SubSeqs(sent[n])
        BY <3>1, <3>2, PartIsSubSeq
      <3>4. n \notin Shared => Increases(Handed(cb))
        BY <3>1, <3>2, PartIncreases DEF DInv, Published
      <3> QED
        BY <3>3, <3>4
    <2> QED
      BY <2>2, <2>3 DEF MessagesInOrder
  <1> QED
    BY <1>1, InitDelivers, NextDelivers, PTL DEF Spec

(* What a handler has been given, what is on the strand for it and what is  *)
(* on its way make up the last messages the server has sent for its name:   *)
(* from the first it gets, it misses none.                                  *)
THEOREM PubSubNoneLost == Spec => []NoMessageLost
PROOF
  <1>1. DInv => NoMessageLost
    <2> SUFFICES ASSUME DInv, NEW i \in DOMAIN msgHandlers
                 PROVE  IsSuffix(Handed(msgHandlers[i].cb) \o InFlight(msgHandlers[i].name),
                                 sent[msgHandlers[i].name])
      BY DEF NoMessageLost, ToSet
    <2>1. TInv /\ msgHandlers[i].cb \in Cmd /\ msgHandlers[i].name \in Names
      BY HandlerType DEF DInv
    <2> DEFINE cb == msgHandlers[i].cb
               n  == msgHandlers[i].name
    <2>2. Ends(Handed(cb) \o InFlight(n), sent[n])
      BY <2>1 DEF DInv, Gets
    <2>3. Handed(cb) \o InFlight(n) \in Seq(Msg) /\ sent[n] \in Seq(Msg)
      BY <2>1, StreamTypes, ConcatProperties
    <2> QED
      BY <2>2, <2>3, EndsIsSuffix
  <1> QED
    BY <1>1, InitDelivers, NextDelivers, PTL DEF Spec

-----------------------------------------------------------------------------
(* Commands reach the server, and their answers come back.                  *)

\* Nothing in s is one of these.
NoneOf(s, ops) == \A i \in DOMAIN s : s[i].op \notin ops

\* The changes of what is subscribed to that the server has not seen.
ChangeOf(t) == [op : {"subscribe", "unsubscribe"}, topic : {t}, cmd : Cmd]
Pending(t)  == Only(toServer, ChangeOf(t)) \o Only(strandq, ChangeOf(t))

\* Whether t is in S after them.
Final(s, t, S) == IF s = <<>> THEN t \in S ELSE s[Len(s)].op = "subscribe"

\* The commands that are sent and not answered, the oldest first.
Waiting      == Only(toClient, SendItem) \o toServer
Awaits(h, w) == Len(h) = Len(w) /\ \A i \in 1 .. Len(w) : h[i] = w[i].cmd

\* A closed client has nothing under way.
WhenClosed ==
  state = "Closed" =>
    /\ NoneOf(strandq, Sends)
    /\ toServer = <<>> /\ toClient = <<>> /\ subs = {} /\ handlers = <<>>

\* Before subscribe() nothing comes that is no answer to a command.
WhenConnected ==
  state = "Connected" =>
    /\ subs = {}
    /\ NoneOf(strandq, {"subscribe"}) /\ NoneOf(toServer, {"subscribe"})
    /\ NoneOf(toClient, {"subscribe", "message"})

\* After it no plain command is under way.
WhenSubscribed ==
  ~mixed /\ state = "Subscribed" =>
    /\ NoneOf(strandq, {"command"}) /\ NoneOf(toServer, {"command"})
    /\ NoneOf(toClient, {"command"})

\* The handlers are those of the commands that wait for an answer.
InLine == ~mixed => Awaits(handlers, Waiting)

\* The answers are those of the commands.
Confirmed == ~mixed => \A c \in Cmd : answers[c] \in {0, c}

\* ServerAgrees, with commands still under way.
Agreed == \A t \in Topics : t \in asked <=> Final(Pending(t), t, subs)

\* All this holds until a disconnect() leaves commands on the strand.
Clean == WhenClosed /\ WhenConnected /\ WhenSubscribed /\ InLine /\ Confirmed /\ Agreed

CInv == TInv /\ (~dirty => Clean)

LEMMA NoneAppend ==
  ASSUME NEW S, NEW s \in Seq(S), NEW x \in S, NEW ops
  PROVE  NoneOf(Append(s, x), ops) <=> NoneOf(s, ops) /\ x.op \notin ops
PROOF
  <1>1. /\ DOMAIN Append(s, x) = 1 .. Len(s) + 1 /\ DOMAIN s = 1 .. Len(s) /\ Len(s) \in Nat
        /\ \A i \in 1 .. Len(s) : Append(s, x)[i] = s[i]
        /\ Append(s, x)[Len(s) + 1] = x
    BY AppendProperties, LenProperties
  <1>2. ASSUME NoneOf(Append(s, x), ops) PROVE NoneOf(s, ops) /\ x.op \notin ops
    BY <1>1, <1>2 DEF NoneOf
  <1>3. ASSUME NoneOf(s, ops), x.op \notin ops PROVE NoneOf(Append(s, x), ops)
    <2> SUFFICES ASSUME NEW i \in 1 .. Len(s) + 1 PROVE Append(s, x)[i].op \notin ops
      BY <1>1 DEF NoneOf
    <2>1. i \in 1 .. Len(s) \/ i = Len(s) + 1
      BY <1>1
    <2> QED
      BY <1>1, <1>3, <2>1 DEF NoneOf
  <1> QED
    BY <1>2, <1>3

LEMMA NoneConcat ==
  ASSUME NEW S, NEW s \in Seq(S), NEW t \in Seq(S), NEW ops, NoneOf(s, ops), NoneOf(t, ops)
  PROVE  NoneOf(s \o t, ops)
PROOF
  <1>1. /\ DOMAIN (s \o t) = 1 .. Len(s) + Len(t) /\ Len(s) \in Nat /\ Len(t) \in Nat
        /\ DOMAIN s = 1 .. Len(s) /\ DOMAIN t = 1 .. Len(t)
        /\ \A i \in 1 .. Len(s) + Len(t) : (s \o t)[i] = IF i <= Len(s) THEN s[i] ELSE t[i - Len(s)]
    BY ConcatProperties, LenProperties
  <1> SUFFICES ASSUME NEW i \in 1 .. Len(s) + Len(t) PROVE (s \o t)[i].op \notin ops
    BY <1>1 DEF NoneOf
  <1>2. CASE i <= Len(s)
    BY <1>1, <1>2 DEF NoneOf
  <1>3. CASE ~(i <= Len(s))
    <2>1. i - Len(s) \in DOMAIN t
      BY <1>1, <1>3
    <2> QED
      BY <1>1, <1>3, <2>1 DEF NoneOf
  <1> QED
    BY <1>2, <1>3

LEMMA NoneTail ==
  ASSUME NEW S, NEW s \in Seq(S), s # <<>>, NEW ops, NoneOf(s, ops)
  PROVE  NoneOf(Tail(s), ops) /\ Head(s).op \notin ops
PROOF
  <1>1. /\ Len(s) \in Nat /\ Len(s) # 0 /\ DOMAIN s = 1 .. Len(s) /\ Head(s) = s[1]
        /\ DOMAIN Tail(s) = 1 .. Len(s) - 1
        /\ \A i \in 1 .. Len(s) - 1 : Tail(s)[i] = s[i + 1]
    BY HeadTailProperties, LenProperties, EmptySeq
  <1>2. \A i \in 1 .. Len(s) - 1 : i + 1 \in DOMAIN s
    BY <1>1
  <1>3. 1 \in DOMAIN s
    BY <1>1
  <1> QED
    BY <1>1, <1>2, <1>3 DEF NoneOf

LEMMA NoneEmpty == \A ops : NoneOf(<<>>, ops)
PROOF
  BY DEF NoneOf

(* The first item is kept, or not.                                          *)
LEMMA OnlyHead ==
  ASSUME NEW S, NEW s \in Seq(S), s # <<>>, NEW T
  PROVE  Only(s, T) = IF Head(s) \in T THEN <<Head(s)>> \o Only(Tail(s), T) ELSE Only(Tail(s), T)
PROOF
  <1> DEFINE x    == Head(s)
             rest == Tail(s)
             one  == <<x>>
  <1>1. x \in S /\ rest \in Seq(S) /\ one \in Seq(S)
    BY HeadTailProperties
  <1>2. s = one \o rest
    BY HeadTailProperties
  <1>3. one = Append(<<>>, x)
    OBVIOUS
  <1> HIDE DEF one, x, rest
  <1>4. Only(one, T) = IF x \in T THEN Append(<<>>, x) ELSE <<>>
    <2>1. PICK e \in Seq(S) : e = <<>>
      BY EmptySeq
    <2>2. Only(Append(e, x), T) = IF x \in T THEN Append(Only(e, T), x) ELSE Only(e, T)
      BY <1>1, OnlyAppend
    <2>3. Only(e, T) = <<>>
      BY <2>1, OnlyEmpty, Zenon
    <2> QED
      BY <1>3, <2>1, <2>2, <2>3, Zenon
  <1>5. Only(s, T) = Only(one, T) \o Only(rest, T)
    BY <1>1, <1>2, OnlyConcat
  <1>6. Only(rest, T) \in Seq(S \cap T)
    BY <1>1, OnlyType
  <1>7. CASE x \in T
    BY <1>3, <1>4, <1>5, <1>7 DEF x, rest, one
  <1>8. CASE x \notin T
    <2>1. Only(s, T) = Only(rest, T)
      BY <1>4, <1>5, <1>6, <1>8, ConcatEmptySeq
    <2> QED
      BY <2>1, <1>8 DEF x, rest
  <1> QED
    BY <1>7, <1>8

LEMMA PendingNext == \A t : Pending(t)' = Only(toServer', ChangeOf(t)) \o Only(strandq', ChangeOf(t))
PROOF
  BY DEF Pending, ChangeOf, Cmd

LEMMA WaitingNext == Waiting' = Only(toClient', SendItem) \o toServer'
PROOF
  BY DEF Waiting, SendItem, Sends, Topics, Cmd

LEMMA QueueTypes ==
  ASSUME TInv
  PROVE  /\ strandq \in Seq(Item) /\ toServer \in Seq(SendItem) /\ toClient \in Seq(Frame)
         /\ handlers \in Seq(Cmd)
         /\ \A t : /\ Only(toServer, ChangeOf(t)) \in Seq(SendItem)
                   /\ Only(strandq, ChangeOf(t)) \in Seq(SendItem)
         /\ Only(toClient, SendItem) \in Seq(SendItem)
PROOF
  <1>1. /\ strandq \in Seq(Item) /\ toServer \in Seq(SendItem) /\ toClient \in Seq(Frame)
        /\ handlers \in Seq(Cmd)
    BY DEF TInv, TypeOK, Item, Frame
  <1>2. ASSUME NEW t
        PROVE  /\ Only(toServer, ChangeOf(t)) \in Seq(SendItem)
               /\ Only(strandq, ChangeOf(t)) \in Seq(SendItem)
    <2>1. Item \cap ChangeOf(t) \subseteq SendItem
      BY DEF Item, ChangeOf, SendItem, CallItem
    <2>2. SendItem \cap ChangeOf(t) \subseteq SendItem
      OBVIOUS
    <2>3. Only(toServer, ChangeOf(t)) \in Seq(SendItem \cap ChangeOf(t))
      BY <1>1, OnlyType
    <2>4. Only(strandq, ChangeOf(t)) \in Seq(Item \cap ChangeOf(t))
      BY <1>1, OnlyType
    <2> QED
      BY <2>1, <2>2, <2>3, <2>4, SeqMonotonic
  <1>3. Only(toClient, SendItem) \in Seq(SendItem)
    <2>1. Only(toClient, SendItem) \in Seq(Frame \cap SendItem)
      BY <1>1, OnlyType
    <2>2. Frame \cap SendItem \subseteq SendItem
      OBVIOUS
    <2> QED
      BY <2>1, <2>2, SeqMonotonic
  <1> QED
    BY <1>1, <1>2, <1>3

(* A new subscribe() or unsubscribe() has the last word on its topic.       *)
LEMMA PendingIssue ==
  ASSUME TInv, NEW op \in Sends, NEW t \in Topics, Issue(op, t), UNCHANGED toServer,
         NEW u \in Topics, NEW S
  PROVE  IF op # "command" /\ u = t THEN Final(Pending(u)', u, S) <=> op = "subscribe"
         ELSE Pending(u)' = Pending(u)
PROOF
  <1> DEFINE x == Command(op, t, cmds')
             a == Only(toServer, ChangeOf(u))
             b == Only(strandq, ChangeOf(u))
  <1>1. x \in Item /\ x \in SendItem /\ strandq' = Append(strandq, x)
    BY IssueType DEF Item, Issue
  <1>2. x.op = op /\ (x \in ChangeOf(u) <=> op # "command" /\ u = t)
    BY IssueType DEF Command, ChangeOf, Sends
  <1>3. a \in Seq(SendItem) /\ b \in Seq(SendItem) /\ strandq \in Seq(Item) /\ Pending(u) = a \o b
    BY QueueTypes DEF Pending
  <1> HIDE DEF x
  <1>4. Only(strandq', ChangeOf(u)) = IF x \in ChangeOf(u) THEN Append(b, x) ELSE b
    BY <1>1, <1>3, OnlyAppend
  <1>5. Pending(u)' = a \o Only(strandq', ChangeOf(u))
    BY PendingNext
  <1> HIDE DEF a, b
  <1>6. CASE x \in ChangeOf(u)
    <2>1. Pending(u)' = a \o Append(b, x)
      BY <1>4, <1>5, <1>6
    <2> DEFINE c == Append(b, x)
    <2>2. c \in Seq(SendItem) /\ Len(c) = Len(b) + 1 /\ c[Len(b) + 1] = x
      BY <1>1, <1>3, AppendProperties
    <2> HIDE DEF c
    <2>3. /\ Len(a \o c) = Len(a) + Len(c) /\ Len(a) \in Nat /\ Len(b) \in Nat
          /\ \A i \in 1 .. Len(a) + Len(c) : (a \o c)[i] = IF i <= Len(a) THEN a[i] ELSE c[i - Len(a)]
      BY <1>3, <2>2, ConcatProperties, LenProperties
    <2>4. (a \o c)[Len(a \o c)] = c[Len(c)]
      BY <2>2, <2>3
    <2>5. (a \o c)[Len(a \o c)].op = op /\ Len(a \o c) # 0
      BY <1>2, <2>2, <2>3, <2>4
    <2>6. a \o c # <<>>
      BY <2>5, EmptySeq
    <2>7. Final(a \o c, u, S) <=> op = "subscribe"
      BY <2>5, <2>6 DEF Final
    <2>8. Final(Pending(u)', u, S) <=> op = "subscribe"
      BY <2>1, <2>7 DEF c
    <2> QED
      BY <1>2, <1>6, <2>8
  <1>7. CASE x \notin ChangeOf(u)
    BY <1>2, <1>3, <1>4, <1>5, <1>7
  <1> QED
    BY <1>6, <1>7

(* Nothing changes when all that is posted are messages.                    *)
LEMMA PendingPosted ==
  ASSUME TInv, UNCHANGED toServer, NEW calls \in Seq(CallItem), strandq' = strandq \o calls
  PROVE  \A u \in Topics : Pending(u)' = Pending(u)
PROOF
  <1> SUFFICES ASSUME NEW u \in Topics PROVE Pending(u)' = Pending(u)
    OBVIOUS
  <1> DEFINE b == Only(strandq, ChangeOf(u))
  <1>1. calls \in Seq(Item) /\ strandq \in Seq(Item) /\ b \in Seq(SendItem)
    BY QueueTypes, SeqMonotonic DEF Item
  <1>2. \A i \in DOMAIN calls : calls[i] \notin ChangeOf(u)
    <2>1. \A i \in DOMAIN calls : calls[i] \in CallItem
      BY ElementOfSeq, LenProperties
    <2> QED
      BY <2>1 DEF CallItem, ChangeOf
  <1>3. Only(calls, ChangeOf(u)) = <<>>
    BY <1>1, <1>2, OnlyNone
  <1>4. Only(strandq \o calls, ChangeOf(u)) = b \o Only(calls, ChangeOf(u))
    BY <1>1, OnlyConcat
  <1> HIDE DEF b
  <1>5. Only(strandq', ChangeOf(u)) = b
    BY <1>1, <1>3, <1>4, ConcatEmptySeq
  <1> QED
    BY <1>5, PendingNext DEF Pending, b

(* What the strand sends is still to be seen.                               *)
LEMMA PendingRun ==
  ASSUME TInv, RunStrand, Head(strandq).op # "message" => state # "Closed"
  PROVE  \A u \in Topics : Pending(u)' = Pending(u)
PROOF
  <1> SUFFICES ASSUME NEW u \in Topics PROVE Pending(u)' = Pending(u)
    OBVIOUS
  <1> DEFINE x == Head(strandq)
             T == ChangeOf(u)
             a == Only(toServer, T)
             b == Only(Tail(strandq), T)
             one == <<x>>
  <1>1. /\ strandq \in Seq(Item) /\ strandq # <<>> /\ strandq' = Tail(strandq)
        /\ x.op = "message" => x \in CallItem /\ toServer' = toServer
        /\ x.op # "message" => x \in SendItem /\ toServer' = Append(toServer, x)
    BY HeadType, QueueTypes DEF RunStrand, Run
  <1>2. Only(strandq, T) = IF x \in T THEN one \o b ELSE b
    BY <1>1, OnlyHead
  <1>3. a \in Seq(SendItem) /\ toServer \in Seq(SendItem)
    BY QueueTypes
  <1>4. b \in Seq(SendItem)
    <2>1. Item \cap T \subseteq SendItem
      BY DEF Item, ChangeOf, SendItem, CallItem
    <2>2. Tail(strandq) \in Seq(Item)
      BY <1>1, HeadTailProperties
    <2>3. b \in Seq(Item \cap T)
      BY <2>2, OnlyType
    <2> QED
      BY <2>1, <2>3, SeqMonotonic
  <1>5. Pending(u) = a \o Only(strandq, T) /\ Pending(u)' = Only(toServer', T) \o b
    BY <1>1, PendingNext DEF Pending
  <1>6. x \in T => x.op # "message"
    BY DEF ChangeOf
  <1> HIDE DEF x, T, b
  <1>7. x.op # "message" => Only(toServer', T) = IF x \in T THEN Append(a, x) ELSE a
    <2> SUFFICES ASSUME x.op # "message"
                 PROVE  Only(toServer', T) = IF x \in T THEN Append(a, x) ELSE a
      OBVIOUS
    <2>1. x \in SendItem /\ toServer' = Append(toServer, x)
      BY <1>1
    <2>2. Only(Append(toServer, x), T) = IF x \in T THEN Append(a, x) ELSE a
      BY <1>3, <2>1, OnlyAppend
    <2> QED
      BY <2>1, <2>2
  <1>8. CASE x \in T
    <2>1. one \in Seq(SendItem) /\ Append(a, x) = a \o one
      <3>1. x \in SendItem
        BY <1>1, <1>6, <1>8
      <3> HIDE DEF a
      <3> QED
        BY <3>1, <1>3, AppendIsConcat
    <2> HIDE DEF a, one
    <2>2. (a \o one) \o b = a \o (one \o b)
      <3>1. Regroup(a, one, b)
        BY <1>3, <1>4, <2>1, Regrouped
      <3> QED
        BY <3>1 DEF Regroup
    <2> QED
      BY <1>2, <1>5, <1>6, <1>7, <1>8, <2>1, <2>2
  <1>9. CASE x \notin T
    BY <1>1, <1>2, <1>5, <1>7, <1>9
  <1> QED
    BY <1>8, <1>9

(* A change that the server has seen is made.                               *)
LEMMA PendingServe ==
  ASSUME TInv, Serve
  PROVE  \A u \in Topics : Final(Pending(u)', u, subs') <=> Final(Pending(u), u, subs)
PROOF
  <1> SUFFICES ASSUME NEW u \in Topics
               PROVE  Final(Pending(u)', u, subs') <=> Final(Pending(u), u, subs)
    OBVIOUS
  <1> DEFINE x == Head(toServer)
             T == ChangeOf(u)
             a == Only(Tail(toServer), T)
             b == Only(strandq, T)
             one == <<x>>
             p == a \o b
  <1>1. /\ toServer \in Seq(SendItem) /\ toServer # <<>> /\ toServer' = Tail(toServer)
        /\ x \in SendItem /\ Tail(toServer) \in Seq(SendItem) /\ strandq' = strandq
        /\ subs' = CASE x.op = "subscribe"   -> subs \cup {x.topic}
                     [] x.op = "unsubscribe" -> subs \ {x.topic}
                     [] OTHER                -> subs
    BY HeadTailProperties, QueueTypes DEF Serve, client
  <1>2. Only(toServer, T) = IF x \in T THEN one \o a ELSE a
    BY <1>1, OnlyHead
  <1>3. a \in Seq(SendItem) /\ b \in Seq(SendItem)
    <2>1. SendItem \cap T \subseteq SendItem
      OBVIOUS
    <2>2. a \in Seq(SendItem \cap T)
      BY <1>1, OnlyType
    <2> QED
      BY <2>1, <2>2, SeqMonotonic, QueueTypes
  <1>4. Pending(u) = Only(toServer, T) \o b /\ Pending(u)' = p
    BY <1>1, PendingNext DEF Pending
  <1>5. /\ x \in T <=> x.op \in {"subscribe", "unsubscribe"} /\ x.topic = u
        /\ x.op \in {"command", "subscribe", "unsubscribe"}
    BY <1>1 DEF ChangeOf, SendItem, Sends
  <1> HIDE DEF x, T, a, b
  <1>6. p \in Seq(SendItem)
    BY <1>3, ConcatProperties
  <1>7. CASE x \in T
    <2>1. one \in Seq(SendItem)
      BY <1>1
    <2>2. one # <<>> /\ Len(one) = 1 /\ one[1] = x
      OBVIOUS
    <2> HIDE DEF one
    <2>3. (one \o a) \o b = one \o p
      <3>1. Regroup(one, a, b)
        BY <1>3, <2>1, Regrouped
      <3> QED
        BY <3>1 DEF Regroup
    <2>4. Pending(u) = one \o p
      BY <1>2, <1>4, <1>7, <2>3
    <2> HIDE DEF p
    <2>5. /\ Len(one \o p) = 1 + Len(p) /\ Len(p) \in Nat
          /\ \A i \in 1 .. 1 + Len(p) : (one \o p)[i] = IF i <= 1 THEN one[i] ELSE p[i - 1]
      <3>1. /\ Len(one \o p) = Len(one) + Len(p) /\ Len(p) \in Nat
            /\ \A i \in 1 .. Len(one) + Len(p) :
                 (one \o p)[i] = IF i <= Len(one) THEN one[i] ELSE p[i - Len(one)]
        BY <1>6, <2>1, ConcatProperties, LenProperties
      <3> QED
        BY <2>2, <3>1
    <2>6. one \o p # <<>>
      BY <2>5, EmptySeq
    <2>7. Final(one \o p, u, subs) <=> (one \o p)[1 + Len(p)].op = "subscribe"
      BY <2>5, <2>6 DEF Final
    <2>8. CASE p = <<>>
      <3>1. (one \o p)[1 + Len(p)] = x
        BY <2>2, <2>5, <2>8
      <3>2. u \in subs' <=> x.op = "subscribe"
        BY <1>1, <1>5, <1>7
      <3>3. Final(p, u, subs') <=> u \in subs'
        BY <2>8 DEF Final
      <3> QED
        BY <1>4, <2>4, <2>7, <3>1, <3>2, <3>3
    <2>9. CASE p # <<>>
      <3>1. Len(p) # 0
        BY <1>6, <2>9, EmptySeq
      <3>2. (one \o p)[1 + Len(p)] = p[Len(p)]
        BY <2>5, <3>1
      <3>3. Final(p, u, subs') <=> p[Len(p)].op = "subscribe"
        BY <2>9 DEF Final
      <3> QED
        BY <1>4, <2>4, <2>7, <3>2, <3>3
    <2> QED
      BY <2>8, <2>9
  <1>8. CASE x \notin T
    <2>1. u \in subs' <=> u \in subs
      BY <1>1, <1>5, <1>8
    <2>2. Pending(u) = p
      BY <1>2, <1>4, <1>8
    <2> QED
      BY <1>4, <2>1, <2>2 DEF Final
  <1> QED
    BY <1>7, <1>8

LEMMA AwaitsAppend ==
  ASSUME NEW h \in Seq(Cmd), NEW w \in Seq(SendItem), NEW x \in SendItem, Awaits(h, w)
  PROVE  Awaits(Append(h, x.cmd), Append(w, x))
PROOF
  <1> DEFINE c == x.cmd
  <1>1. c \in Cmd
    BY DEF SendItem
  <1> HIDE DEF c
  <1>2. /\ Len(w) \in Nat /\ Len(Append(w, x)) = Len(w) + 1
        /\ Append(w, x)[Len(w) + 1] = x /\ \A i \in 1 .. Len(w) : Append(w, x)[i] = w[i]
    BY AppendProperties, LenProperties
  <1>3. /\ Len(h) = Len(w) /\ Len(Append(h, c)) = Len(h) + 1
        /\ Append(h, c)[Len(h) + 1] = c /\ \A i \in 1 .. Len(h) : Append(h, c)[i] = h[i]
    BY <1>1, AppendProperties, LenProperties DEF Awaits
  <1>4. ASSUME NEW i \in 1 .. Len(w) + 1 PROVE Append(h, c)[i] = Append(w, x)[i].cmd
    <2>1. CASE i \in 1 .. Len(w)
      BY <1>2, <1>3, <2>1 DEF Awaits
    <2>2. CASE i = Len(w) + 1
      BY <1>2, <1>3, <2>2 DEF c
    <2>3. i \in 1 .. Len(w) \/ i = Len(w) + 1
      BY <1>2
    <2> QED
      BY <2>1, <2>2, <2>3
  <1> QED
    BY <1>2, <1>3, <1>4 DEF Awaits, c

LEMMA AwaitsFirst ==
  ASSUME NEW h \in Seq(Cmd), NEW w \in Seq(SendItem), NEW x \in SendItem, Awaits(h, <<x>> \o w)
  PROVE  h # <<>> /\ Head(h) = x.cmd /\ Awaits(Tail(h), w)
PROOF
  <1> DEFINE one == <<x>>
  <1>1. one \in Seq(SendItem) /\ Len(one) = 1 /\ one[1] = x
    OBVIOUS
  <1> HIDE DEF one
  <1>2. /\ Len(one \o w) = Len(one) + Len(w) /\ Len(w) \in Nat
        /\ \A i \in 1 .. Len(one) + Len(w) :
             (one \o w)[i] = IF i <= Len(one) THEN one[i] ELSE w[i - Len(one)]
    BY <1>1, ConcatProperties, LenProperties
  <1>3. Awaits(h, one \o w)
    BY DEF one
  <1>4. Len(h) = 1 + Len(w) /\ \A i \in 1 .. 1 + Len(w) : h[i] = (one \o w)[i].cmd
    BY <1>1, <1>2, <1>3 DEF Awaits
  <1>5. h # <<>>
    BY <1>2, <1>4, EmptySeq
  <1>6. /\ Head(h) = h[1] /\ Len(Tail(h)) = Len(h) - 1
        /\ \A i \in 1 .. Len(h) - 1 : Tail(h)[i] = h[i + 1]
    BY <1>5, HeadTailProperties
  <1>7. Head(h) = x.cmd
    BY <1>1, <1>2, <1>4, <1>6
  <1>8. ASSUME NEW i \in 1 .. Len(w) PROVE Tail(h)[i] = w[i].cmd
    <2>1. i + 1 \in 1 .. 1 + Len(w) /\ i \in 1 .. Len(h) - 1 /\ ~(i + 1 <= 1) /\ (i + 1) - 1 = i
      BY <1>2, <1>4
    <2>2. h[i + 1] = (one \o w)[i + 1].cmd
      BY <1>4, <2>1
    <2>3. (one \o w)[i + 1] = w[i]
      BY <1>1, <1>2, <2>1
    <2> QED
      BY <1>6, <2>1, <2>2, <2>3
  <1> QED
    BY <1>2, <1>4, <1>5, <1>6, <1>7, <1>8 DEF Awaits

LEMMA WaitingType == TInv => Waiting \in Seq(SendItem)
PROOF
  BY QueueTypes, ConcatProperties DEF Waiting

(* An answer takes the place of its command.                                *)
LEMMA WaitingServe ==
  ASSUME TInv, Serve
  PROVE  Waiting' = Waiting
PROOF
  <1> DEFINE x    == Head(toServer)
             rest == Tail(toServer)
             of   == Only(toClient, SendItem)
             one  == <<x>>
  <1>1. /\ toServer \in Seq(SendItem) /\ x \in SendItem /\ rest \in Seq(SendItem)
        /\ toServer = one \o rest /\ one \in Seq(SendItem)
        /\ toServer' = rest /\ toClient' = Append(toClient, x) /\ toClient \in Seq(Frame)
    BY HeadTailProperties, QueueTypes DEF Serve
  <1>2. of \in Seq(SendItem)
    BY QueueTypes
  <1> HIDE DEF rest, x
  <1>3. Only(Append(toClient, x), SendItem) = Append(of, x)
    <2>1. x \in Frame
      BY <1>1 DEF Frame
    <2> QED
      BY <1>1, <2>1, OnlyAppend
  <1> HIDE DEF of
  <1>4. Append(of, x) = of \o one
    BY <1>1, <1>2, AppendIsConcat
  <1> HIDE DEF one
  <1>5. (of \o one) \o rest = of \o (one \o rest)
    <2>1. one \in Seq(SendItem) /\ rest \in Seq(SendItem)
      BY <1>1
    <2>2. Regroup(of, one, rest)
      BY <1>2, <2>1, Regrouped
    <2> QED
      BY <2>2 DEF Regroup
  <1>6. Waiting' = (of \o one) \o rest
    BY <1>1, <1>3, <1>4, WaitingNext
  <1> QED
    BY <1>1, <1>5, <1>6 DEF Waiting, of

(* Messages do not wait for an answer.                                      *)
LEMMA WaitingPublish ==
  ASSUME TInv, UNCHANGED toServer, NEW frames \in Seq(FrameItem), toClient' = toClient \o frames
  PROVE  Waiting' = Waiting
PROOF
  <1> DEFINE of == Only(toClient, SendItem)
  <1>1. frames \in Seq(Frame) /\ toClient \in Seq(Frame) /\ of \in Seq(SendItem)
    BY QueueTypes, SeqMonotonic DEF Frame
  <1>2. \A i \in DOMAIN frames : frames[i] \notin SendItem
    <2>1. \A i \in DOMAIN frames : frames[i] \in FrameItem
      BY ElementOfSeq, LenProperties
    <2> QED
      BY <2>1 DEF FrameItem, SendItem, Sends
  <1>3. Only(frames, SendItem) = <<>>
    BY <1>1, <1>2, OnlyNone
  <1>4. Only(toClient \o frames, SendItem) = of \o Only(frames, SendItem)
    BY <1>1, OnlyConcat
  <1> HIDE DEF of
  <1>5. Only(toClient \o frames, SendItem) = of
    BY <1>1, <1>3, <1>4, ConcatEmptySeq
  <1> QED
    BY <1>5, WaitingNext DEF Waiting, of

(* The next frame answers the first command, or is a message.               *)
LEMMA WaitingProcess ==
  ASSUME TInv, DoProcessMessage
  PROVE  /\ Waiting' \in Seq(SendItem)
         /\ IF Head(toClient) \in SendItem THEN Waiting = <<Head(toClient)>> \o Waiting'
            ELSE Waiting = Waiting'
PROOF
  <1> DEFINE x    == Head(toClient)
             rest == Only(Tail(toClient), SendItem)
             one  == <<x>>
  <1>1. /\ toClient \in Seq(Frame) /\ toClient # <<>> /\ Tail(toClient) \in Seq(Frame)
        /\ toClient' = Tail(toClient) /\ toServer' = toServer /\ toServer \in Seq(SendItem)
    BY QueueTypes, HeadTailProperties DEF DoProcessMessage
  <1>2. rest \in Seq(SendItem)
    <2>1. rest \in Seq(Frame \cap SendItem)
      BY <1>1, OnlyType
    <2>2. Frame \cap SendItem \subseteq SendItem
      OBVIOUS
    <2> QED
      BY <2>1, <2>2, SeqMonotonic
  <1>3. Only(toClient, SendItem) = IF x \in SendItem THEN one \o rest ELSE rest
    BY <1>1, OnlyHead
  <1>4. Waiting' = rest \o toServer
    BY <1>1, WaitingNext
  <1>5. Waiting' \in Seq(SendItem)
    <2> HIDE DEF rest
    <2> QED
      BY <1>1, <1>2, <1>4, ConcatProperties
  <1>6. x \in SendItem => one \in Seq(SendItem)
    OBVIOUS
  <1>7. CASE x \in SendItem
    <2> HIDE DEF one, rest
    <2>1. (one \o rest) \o toServer = one \o (rest \o toServer)
      <3>1. Regroup(one, rest, toServer)
        BY <1>1, <1>2, <1>6, <1>7, Regrouped
      <3> QED
        BY <3>1 DEF Regroup
    <2>2. Waiting = one \o Waiting'
      BY <1>3, <1>4, <1>7, <2>1 DEF Waiting
    <2> QED
      BY <1>5, <1>7, <2>2 DEF one
  <1>8. CASE x \notin SendItem
    BY <1>3, <1>4, <1>5, <1>8 DEF Waiting
  <1> QED
    BY <1>7, <1>8

(* What the strand sends waits from then on.                                *)
LEMMA WaitingRun ==
  ASSUME TInv, RunStrand, Head(strandq) \in SendItem, state # "Closed"
  PROVE  Waiting' = Append(Waiting, Head(strandq))
PROOF
  <1> DEFINE x   == Head(strandq)
             of  == Only(toClient, SendItem)
             one == <<x>>
  <1>1. /\ toServer' = Append(toServer, x) /\ toClient' = toClient
        /\ toServer \in Seq(SendItem) /\ of \in Seq(SendItem)
        /\ one \in Seq(SendItem) /\ Waiting \in Seq(SendItem) /\ x \in SendItem
    <2>1. x.op # "message"
      BY DEF SendItem, Sends
    <2> QED
      BY <2>1, QueueTypes, WaitingType DEF RunStrand, Run
  <1> HIDE DEF x
  <1>2. Waiting' = of \o Append(toServer, x)
    BY <1>1, WaitingNext
  <1>3. Waiting = of \o toServer
    BY DEF Waiting
  <1> HIDE DEF of
  <1>4. Append(toServer, x) = toServer \o one /\ Append(Waiting, x) = Waiting \o one
    BY <1>1, AppendIsConcat
  <1> HIDE DEF one
  <1>5. (of \o toServer) \o one = of \o (toServer \o one)
    <2>1. Regroup(of, toServer, one)
      BY <1>1, Regrouped
    <2> QED
      BY <2>1 DEF Regroup
  <1> QED
    BY <1>2, <1>3, <1>4, <1>5 DEF x

(* All a message puts on the strand are calls.                              *)
LEMMA DispatchPosts ==
  ASSUME TInv, NEW n \in Names, NEW msg \in Msg, Dispatch(n, msg)
  PROVE  \E calls \in Seq(CallItem) : strandq' = strandq \o calls
PROOF
  <1> DEFINE calls == Calls(n, msg)
  <1>1. calls \in Seq(CallItem)
    BY CallsType
  <1> HIDE DEF calls
  <1>2. CASE strandq' = strandq \o calls
    BY <1>1, <1>2
  <1>3. ASSUME NEW shot \in ShotsFor(n), strandq' = Append(strandq, Message(shot.cb, msg)) \o calls
        PROVE  \E c \in Seq(CallItem) : strandq' = strandq \o c
    <2> DEFINE m   == Message(shot.cb, msg)
               one == <<m>>
    <2>1. shot.cb \in Cmd
      BY DEF ShotsFor, TInv, TypeOK
    <2>2. m \in CallItem /\ m \in Item
      BY <2>1, MessageType DEF Item
    <2>3. strandq' = Append(strandq, m) \o calls
      BY <1>3
    <2> HIDE DEF m
    <2>4. one \in Seq(CallItem) /\ one \in Seq(Item) /\ strandq \in Seq(Item) /\ calls \in Seq(Item)
      <3>1. calls \in Seq(Item)
        BY <1>1, SeqMonotonic DEF Item
      <3> QED
        BY <2>2, <3>1, QueueTypes
    <2>5. Append(strandq, m) = strandq \o one
      BY <2>2, <2>4, AppendIsConcat
    <2> HIDE DEF one
    <2>6. (strandq \o one) \o calls = strandq \o (one \o calls)
      <3>1. Regroup(strandq, one, calls)
        BY <2>4, Regrouped
      <3> QED
        BY <3>1 DEF Regroup
    <2>7. one \o calls \in Seq(CallItem)
      BY <1>1, <2>4, ConcatProperties
    <2> QED
      BY <2>3, <2>5, <2>6, <2>7
  <1> QED
    BY <1>2, <1>3 DEF Dispatch, calls

-----------------------------------------------------------------------------
(* The steps.                                                               *)

LEMMA AgreedIssue ==
  ASSUME TInv, Agreed, NEW op \in Sends, NEW t \in Topics, Issue(op, t), UNCHANGED <<toServer, subs>>,
         asked' = CASE op = "subscribe"   -> asked \cup {t}
                    [] op = "unsubscribe" -> asked \ {t}
                    [] OTHER              -> asked
  PROVE  Agreed'
PROOF
  <1> SUFFICES ASSUME NEW u \in Topics PROVE u \in asked' <=> Final(Pending(u)', u, subs)
    BY DEF Agreed, Final
  <1>1. u \in asked <=> Final(Pending(u), u, subs)
    BY DEF Agreed
  <1>2. IF op # "command" /\ u = t THEN Final(Pending(u)', u, subs) <=> op = "subscribe"
        ELSE Pending(u)' = Pending(u)
    BY PendingIssue
  <1>3. CASE op # "command" /\ u = t
    BY <1>2, <1>3 DEF Sends
  <1>4. CASE ~(op # "command" /\ u = t)
    <2>1. u \in asked' <=> u \in asked
      BY <1>4 DEF Sends
    <2> QED
      BY <1>1, <1>2, <1>4, <2>1
  <1> QED
    BY <1>3, <1>4

(* The topics agree as long as nothing changes for any.                     *)
LEMMA AgreedKept ==
  ASSUME Agreed, UNCHANGED <<asked, subs>>, \A u \in Topics : Pending(u)' = Pending(u)
  PROVE  Agreed'
PROOF
  <1> SUFFICES ASSUME NEW u \in Topics PROVE u \in asked <=> Final(Pending(u)', u, subs)
    BY DEF Agreed, Final
  <1> QED
    BY DEF Agreed

(* Nothing the answers are about changes.                                   *)
LEMMA CleanStill ==
  ASSUME CInv, TInv', UNCHANGED <<state, handlers, strandq, wire, answers, asked, mixed, dirty>>
  PROVE  CInv'
PROOF
  <1> SUFFICES ASSUME ~dirty PROVE Clean'
    BY DEF CInv
  <1>1. Clean /\ UNCHANGED <<toServer, subs, toClient>>
    BY DEF CInv, wire
  <1>2. \A u \in Topics : Pending(u)' = Pending(u)
    BY <1>1, PendingNext DEF Pending
  <1>3. Waiting' = Waiting
    BY <1>1, WaitingNext DEF Waiting
  <1>4. Agreed'
    BY <1>1, <1>2, AgreedKept DEF Clean
  <1> QED
    BY <1>1, <1>3, <1>4 DEF Clean, WhenClosed, WhenConnected, WhenSubscribed, InLine, Confirmed, Sends

(* A command of a client that is not closed, but no subscribe().            *)
LEMMA CleanIssue ==
  ASSUME CInv, TInv', NEW op \in Sends, NEW t \in Topics, Issue(op, t),
         UNCHANGED <<state, handlers, wire, answers, mixed, dirty>>,
         state # "Closed", op # "subscribe", op = "command" => state # "Subscribed",
         asked' = IF op = "unsubscribe" THEN asked \ {t} ELSE asked
  PROVE  CInv'
PROOF
  <1> SUFFICES ASSUME ~dirty PROVE Clean'
    BY DEF CInv
  <1>1. Clean /\ TInv /\ UNCHANGED <<toServer, subs, toClient>>
    BY DEF CInv, wire
  <1>2. Agreed'
    BY <1>1, AgreedIssue DEF Clean
  <1>3. Waiting' = Waiting
    BY <1>1, WaitingNext DEF Waiting
  <1>4. \A ops : NoneOf(strandq, ops) /\ op \notin ops => NoneOf(strandq', ops)
    <2> DEFINE x == Command(op, t, cmds')
    <2>1. strandq' = Append(strandq, x) /\ x \in Item /\ x.op = op /\ strandq \in Seq(Item)
      BY <1>1, IssueType, QueueTypes DEF Issue, Item, Command
    <2> HIDE DEF x
    <2> QED
      BY <2>1, NoneAppend
  <1>5. WhenClosed' /\ WhenConnected'
    BY <1>1, <1>4 DEF Clean, WhenClosed, WhenConnected
  <1>6. WhenSubscribed'
    BY <1>1, <1>4 DEF Clean, WhenSubscribed
  <1>7. InLine' /\ Confirmed'
    BY <1>1, <1>3 DEF Clean, InLine, Confirmed
  <1> QED
    BY <1>2, <1>5, <1>6, <1>7 DEF Clean

LEMMA SubscribeConfirms ==
  ASSUME CInv, NEW t \in Topics, Subscribe(t)
  PROVE  CInv'
PROOF
  <1>1. /\ TInv /\ TInv' /\ Issue("subscribe", t) /\ "subscribe" \in Sends
        /\ state' = "Subscribed" /\ asked' = asked \cup {t} /\ mixed' = (mixed \/ Pipelined)
        /\ UNCHANGED <<handlers, toServer, subs, toClient, answers, dirty>>
    BY SubscribeType DEF CInv, Subscribe, wire, Sends
  <1> SUFFICES ASSUME ~dirty PROVE Clean'
    BY <1>1 DEF CInv
  <1>2. Clean
    BY DEF CInv
  <1>3. Agreed'
    BY <1>1, <1>2, AgreedIssue DEF Clean
  <1>4. Waiting' = Waiting
    BY <1>1, WaitingNext DEF Waiting
  <1>5. WhenClosed' /\ WhenConnected'
    BY <1>1 DEF WhenClosed, WhenConnected
  <1>6. WhenSubscribed'
    <2> SUFFICES ASSUME ~mixed'
                 PROVE  /\ NoneOf(strandq', {"command"}) /\ NoneOf(toServer, {"command"})
                        /\ NoneOf(toClient, {"command"})
      BY <1>1 DEF WhenSubscribed
    <2> DEFINE x == Command("subscribe", t, cmds')
    <2>1. /\ NoneOf(strandq, {"command"}) /\ NoneOf(toServer, {"command"})
          /\ NoneOf(toClient, {"command"})
      BY <1>1 DEF Pipelined, NoneOf
    <2>2. strandq' = Append(strandq, x) /\ x \in Item /\ x.op = "subscribe" /\ strandq \in Seq(Item)
      BY <1>1, IssueType, QueueTypes DEF Issue, Item, Command
    <2> HIDE DEF x
    <2>3. NoneOf(Append(strandq, x), {"command"})
      BY <2>1, <2>2, NoneAppend
    <2> QED
      BY <2>1, <2>2, <2>3
  <1>7. InLine' /\ Confirmed'
    BY <1>1, <1>2, <1>4 DEF Clean, InLine, Confirmed
  <1> QED
    BY <1>3, <1>5, <1>6, <1>7 DEF Clean

LEMMA SubscribeRefusedConfirms ==
  ASSUME CInv, NEW t \in Topics, SubscribeRefused(t)
  PROVE  CInv'
PROOF
  BY SubscribeRefusedType, CleanStill DEF CInv, SubscribeRefused, client

LEMMA UnsubscribeConfirms ==
  ASSUME CInv, NEW handle \in given, NEW t \in Topics, Unsubscribe(handle, t)
  PROVE  CInv'
PROOF
  <1>1. /\ TInv' /\ "unsubscribe" \in Sends
        /\ Issue("unsubscribe", t)
        /\ asked' = asked \ {t} /\ state # "Closed"
        /\ UNCHANGED <<state, handlers, wire, answers, mixed, dirty>>
    BY UnsubscribeType DEF CInv, Unsubscribe, Sends
  <1> QED
    BY <1>1, CleanIssue

LEMMA PlainCommandConfirms ==
  ASSUME CInv, PlainCommand
  PROVE  CInv'
PROOF
  <1> DEFINE t == CHOOSE t \in Topics : TRUE
  <1>1. /\ TInv' /\ t \in Topics /\ "command" \in Sends /\ Issue("command", t)
        /\ asked' = asked /\ state = "Connected"
        /\ UNCHANGED <<state, handlers, wire, answers, mixed, dirty>>
    BY PlainCommandType, TopicsNotEmpty DEF CInv, PlainCommand, Sends, history
  <1> HIDE DEF t
  <1> QED
    BY <1>1, CleanIssue

LEMMA ConnectConfirms ==
  ASSUME CInv, Connect
  PROVE  CInv'
PROOF
  <1>1. /\ TInv /\ TInv' /\ state = "Closed" /\ state' = "Connected"
        /\ UNCHANGED <<handlers, strandq, toServer, subs, toClient, answers, asked, mixed, dirty>>
    BY ConnectType DEF CInv, Connect, wire, history
  <1> SUFFICES ASSUME ~dirty PROVE Clean'
    BY <1>1 DEF CInv
  <1>2. Clean
    BY DEF CInv
  <1>3. Agreed'
    <2>1. \A u \in Topics : Pending(u)' = Pending(u)
      BY <1>1, PendingNext DEF Pending
    <2> QED
      BY <1>1, <1>2, <2>1, AgreedKept DEF Clean
  <1>4. Waiting' = Waiting
    BY <1>1, WaitingNext DEF Waiting
  <1>5. WhenConnected'
    <2>1. NoneOf(strandq, Sends) /\ toServer = <<>> /\ toClient = <<>> /\ subs = {}
      BY <1>1, <1>2 DEF Clean, WhenClosed
    <2>2. NoneOf(strandq, {"subscribe"})
      BY <2>1 DEF NoneOf, Sends
    <2> QED
      BY <1>1, <2>1, <2>2, NoneEmpty DEF WhenConnected
  <1>6. WhenClosed' /\ WhenSubscribed'
    BY <1>1 DEF WhenClosed, WhenSubscribed
  <1>7. InLine' /\ Confirmed'
    BY <1>1, <1>2, <1>4 DEF Clean, InLine, Confirmed
  <1> QED
    BY <1>3, <1>5, <1>6, <1>7 DEF Clean

LEMMA DisconnectConfirms ==
  ASSUME CInv, Disconnect
  PROVE  CInv'
PROOF
  <1>1. /\ TInv /\ TInv'
        /\ state' = "Closed" /\ handlers' = <<>> /\ toServer' = <<>> /\ subs' = {} /\ toClient' = <<>>
        /\ asked' = {} /\ dirty' = (dirty \/ \E i \in DOMAIN strandq : strandq[i].op \in Sends)
        /\ UNCHANGED <<strandq, answers, mixed>>
    BY DisconnectType DEF CInv, Disconnect
  <1> SUFFICES ASSUME ~dirty' PROVE Clean'
    BY <1>1 DEF CInv
  <1>2. Clean /\ NoneOf(strandq, Sends)
    BY <1>1 DEF CInv, NoneOf
  <1>3. Waiting' = <<>>
    BY <1>1, WaitingNext, OnlyEmpty
  <1>4. WhenClosed' /\ WhenConnected' /\ WhenSubscribed'
    BY <1>1, <1>2 DEF WhenClosed, WhenConnected, WhenSubscribed, Sends
  <1>5. InLine'
    BY <1>1, <1>3 DEF InLine, Awaits
  <1>6. Confirmed'
    BY <1>1, <1>2 DEF Clean, Confirmed
  <1>7. Agreed'
    <2> SUFFICES ASSUME NEW u \in Topics PROVE Pending(u)' = <<>>
      BY <1>1 DEF Agreed, Final
    <2>1. \A i \in DOMAIN strandq : strandq[i] \notin ChangeOf(u)
      BY <1>2 DEF NoneOf, ChangeOf, Sends
    <2>2. Only(strandq, ChangeOf(u)) = <<>>
      BY <1>1, <2>1, QueueTypes, OnlyNone
    <2>3. Only(<<>>, ChangeOf(u)) = <<>>
      BY OnlyEmpty
    <2> QED
      BY <1>1, <2>2, <2>3, PendingNext
  <1> QED
    BY <1>4, <1>5, <1>6, <1>7 DEF Clean

LEMMA RunStrandConfirms ==
  ASSUME CInv, RunStrand
  PROVE  CInv'
PROOF
  <1> DEFINE x == Head(strandq)
  <1>1. /\ TInv /\ TInv' /\ strandq # <<>> /\ strandq' = Tail(strandq) /\ strandq \in Seq(Item)
        /\ UNCHANGED <<state, subs, toClient, answers, asked, mixed, dirty>> /\ Run(x)
        /\ x.op = "message" => x \in CallItem
        /\ x.op # "message" => x \in SendItem
    BY RunStrandType, HeadType, QueueTypes DEF CInv, RunStrand
  <1> SUFFICES ASSUME ~dirty PROVE Clean'
    BY <1>1 DEF CInv
  <1>2. Clean
    BY DEF CInv
  <1>3. \A ops : NoneOf(strandq, ops) => NoneOf(strandq', ops) /\ x.op \notin ops
    BY <1>1, NoneTail
  <1>4. x.op # "message" => state # "Closed"
    BY <1>1, <1>2, <1>3 DEF Clean, WhenClosed, SendItem
  <1>5. Agreed'
    BY <1>1, <1>2, <1>4, PendingRun, AgreedKept DEF Clean
  <1>6. Confirmed'
    BY <1>1, <1>2 DEF Clean, Confirmed
  <1> HIDE DEF x
  <1>7. CASE x.op = "message"
    <2>1. UNCHANGED <<handlers, toServer>>
      BY <1>1, <1>7 DEF Run
    <2>2. Waiting' = Waiting
      BY <1>1, <2>1, WaitingNext DEF Waiting
    <2>3. InLine'
      BY <1>1, <1>2, <2>1, <2>2 DEF Clean, InLine
    <2>4. WhenClosed' /\ WhenConnected' /\ WhenSubscribed'
      BY <1>1, <1>2, <1>3, <2>1 DEF Clean, WhenClosed, WhenConnected, WhenSubscribed, Sends
    <2> QED
      BY <1>5, <1>6, <2>3, <2>4 DEF Clean
  <1>8. CASE x.op # "message"
    <2>1. /\ handlers' = Append(handlers, x.cmd) /\ toServer' = Append(toServer, x)
          /\ x \in SendItem /\ state # "Closed"
      BY <1>1, <1>4, <1>8 DEF Run
    <2>2. Waiting' = Append(Waiting, x)
      BY <1>1, <2>1, WaitingRun DEF x
    <2>3. InLine'
      <3>1. handlers \in Seq(Cmd) /\ Waiting \in Seq(SendItem)
        BY <1>1, QueueTypes, WaitingType
      <3> QED
        BY <1>1, <1>2, <2>1, <2>2, <3>1, AwaitsAppend DEF Clean, InLine
    <2>4. \A ops : NoneOf(toServer, ops) /\ x.op \notin ops => NoneOf(toServer', ops)
      BY <1>1, <2>1, QueueTypes, NoneAppend
    <2>5. WhenClosed' /\ WhenConnected' /\ WhenSubscribed'
      BY <1>1, <1>2, <1>3, <2>1, <2>4 DEF Clean, WhenClosed, WhenConnected, WhenSubscribed
    <2> QED
      BY <1>5, <1>6, <2>3, <2>5 DEF Clean
  <1> QED
    BY <1>7, <1>8

LEMMA ServeConfirms ==
  ASSUME CInv, Serve
  PROVE  CInv'
PROOF
  <1> DEFINE x == Head(toServer)
  <1>1. /\ TInv /\ TInv' /\ toServer # <<>> /\ toServer' = Tail(toServer) /\ toServer \in Seq(SendItem)
        /\ toClient' = Append(toClient, x) /\ toClient \in Seq(Frame) /\ x \in Frame /\ x \in SendItem
        /\ subs' = CASE x.op = "subscribe"   -> subs \cup {x.topic}
                     [] x.op = "unsubscribe" -> subs \ {x.topic}
                     [] OTHER                -> subs
        /\ UNCHANGED <<state, handlers, strandq, answers, asked, mixed, dirty>>
    BY ServeType, QueueTypes, HeadTailProperties DEF CInv, Serve, client, history, Frame
  <1> SUFFICES ASSUME ~dirty PROVE Clean'
    BY <1>1 DEF CInv
  <1>2. Clean
    BY DEF CInv
  <1>3. \A ops : NoneOf(toServer, ops) => NoneOf(toServer', ops) /\ x.op \notin ops
    BY <1>1, NoneTail
  <1>4. Agreed'
    <2> SUFFICES ASSUME NEW u \in Topics PROVE u \in asked <=> Final(Pending(u)', u, subs')
      BY <1>1 DEF Agreed, Final
    <2>1. u \in asked <=> Final(Pending(u), u, subs)
      BY <1>2 DEF Clean, Agreed
    <2> QED
      BY <1>1, <2>1, PendingServe
  <1>5. InLine' /\ Confirmed'
    BY <1>1, <1>2, WaitingServe DEF Clean, InLine, Confirmed
  <1> HIDE DEF x
  <1>6. \A ops : NoneOf(toClient, ops) /\ x.op \notin ops => NoneOf(toClient', ops)
    BY <1>1, NoneAppend
  <1>7. WhenClosed'
    BY <1>1, <1>2 DEF Clean, WhenClosed
  <1>8. WhenConnected'
    <2> SUFFICES ASSUME state = "Connected"
                 PROVE  /\ subs' = {}
                        /\ NoneOf(strandq, {"subscribe"}) /\ NoneOf(toServer', {"subscribe"})
                        /\ NoneOf(toClient', {"subscribe", "message"})
      BY <1>1 DEF WhenConnected
    <2>1. /\ subs = {} /\ NoneOf(strandq, {"subscribe"}) /\ NoneOf(toServer, {"subscribe"})
          /\ NoneOf(toClient, {"subscribe", "message"})
      BY <1>2 DEF Clean, WhenConnected
    <2>2. NoneOf(toServer', {"subscribe"}) /\ x.op # "subscribe"
      BY <1>3, <2>1
    <2>3. x.op # "message"
      BY <1>1 DEF SendItem, Sends
    <2>4. subs' = {}
      BY <1>1, <2>1, <2>2
    <2> QED
      BY <1>6, <2>1, <2>2, <2>3, <2>4
  <1>9. WhenSubscribed'
    BY <1>1, <1>2, <1>3, <1>6 DEF Clean, WhenSubscribed
  <1> QED
    BY <1>4, <1>5, <1>7, <1>8, <1>9 DEF Clean

LEMMA PublishConfirms ==
  ASSUME CInv, NEW channel \in Channels, Publish(channel)
  PROVE  CInv'
PROOF
  <1>1. /\ TInv /\ TInv' /\ subs # {}
        /\ UNCHANGED <<state, handlers, strandq, toServer, subs, answers, asked, mixed, dirty>>
    BY PublishType DEF CInv, Publish, client
  <1> SUFFICES ASSUME ~dirty PROVE Clean'
    BY <1>1 DEF CInv
  <1>2. Clean
    BY DEF CInv
  <1>3. PICK frames \in Seq(FrameItem) : toClient' = toClient \o frames
    BY <1>1, PublishFrames
  <1>4. Waiting' = Waiting
    BY <1>1, <1>3, WaitingPublish
  <1>5. Agreed'
    <2>1. \A u \in Topics : Pending(u)' = Pending(u)
      BY <1>1, PendingNext DEF Pending
    <2> QED
      BY <1>1, <1>2, <2>1, AgreedKept DEF Clean
  <1>6. InLine' /\ Confirmed'
    BY <1>1, <1>2, <1>4 DEF Clean, InLine, Confirmed
  <1>7. WhenClosed' /\ WhenConnected'
    BY <1>1, <1>2 DEF Clean, WhenClosed, WhenConnected
  <1>8. NoneOf(toClient, {"command"}) => NoneOf(toClient', {"command"})
    <2>1. frames \in Seq(Frame) /\ toClient \in Seq(Frame)
      BY <1>1, QueueTypes, SeqMonotonic DEF Frame
    <2>2. NoneOf(frames, {"command"})
      <3>1. \A i \in DOMAIN frames : frames[i] \in FrameItem
        BY ElementOfSeq, LenProperties
      <3> QED
        BY <3>1 DEF NoneOf, FrameItem
    <2> QED
      BY <1>3, <2>1, <2>2, NoneConcat
  <1>9. WhenSubscribed'
    BY <1>1, <1>2, <1>8 DEF Clean, WhenSubscribed
  <1> QED
    BY <1>5, <1>6, <1>7, <1>9 DEF Clean

(* The next answer is the one the first handler waits for.                  *)
LEMMA FirstAnswer ==
  ASSUME TInv, InLine, ~mixed, DoProcessMessage, Head(toClient) \in SendItem
  PROVE  handlers # <<>> /\ Head(handlers) = Head(toClient).cmd /\ Awaits(Tail(handlers), Waiting')
PROOF
  <1> DEFINE x == Head(toClient)
             w == Waiting'
  <1>1. handlers \in Seq(Cmd) /\ w \in Seq(SendItem) /\ x \in SendItem /\ Waiting = <<x>> \o w
    BY QueueTypes, WaitingProcess
  <1>2. Awaits(handlers, <<x>> \o w)
    BY <1>1 DEF InLine
  <1> HIDE DEF x, w
  <1>3. handlers # <<>> /\ Head(handlers) = x.cmd /\ Awaits(Tail(handlers), w)
    BY <1>1, <1>2, AwaitsFirst
  <1> QED
    BY <1>3 DEF x, w

LEMMA DoProcessMessageConfirms ==
  ASSUME CInv, DoProcessMessage
  PROVE  CInv'
PROOF
  <1> DEFINE x == Head(toClient)
  <1>1. /\ TInv /\ TInv' /\ toClient # <<>> /\ toClient' = Tail(toClient) /\ toClient \in Seq(Frame)
        /\ UNCHANGED <<state, toServer, subs, asked, mixed, dirty>>
        /\ x.op = "message" => x \in FrameItem
        /\ x.op # "message" => x \in SendItem
    BY DoProcessMessageType, FrameType, QueueTypes DEF CInv, DoProcessMessage
  <1> SUFFICES ASSUME ~dirty PROVE Clean'
    BY <1>1 DEF CInv
  <1>2. Clean
    BY DEF CInv
  <1>3. \A ops : NoneOf(toClient, ops) => NoneOf(toClient', ops) /\ x.op \notin ops
    BY <1>1, NoneTail
  <1>4. state # "Closed" /\ (x.op = "message" => state = "Subscribed")
    <2>1. state # "Closed"
      BY <1>1, <1>2 DEF Clean, WhenClosed
    <2>2. state = "Connected" => x.op # "message"
      BY <1>2, <1>3 DEF Clean, WhenConnected
    <2> QED
      BY <1>1, <2>1, <2>2 DEF TInv, TypeOK
  <1>5. \/ /\ state = "Subscribed" /\ x.op = "message"
           /\ Dispatch(x.topic.name, x.msg) /\ UNCHANGED <<handlers, answers>>
        \/ x.op # "message" /\ CallHandler(x)
        \/ /\ x.op # "message" /\ Complain
           /\ \/ handlers = <<>>
              \/ state = "Subscribed" /\ x.op = "command"
    BY <1>1, <1>4, FrameCases
  <1>6. \E calls \in Seq(CallItem) : strandq' = strandq \o calls
    <2>1. CASE x.op = "message" /\ Dispatch(x.topic.name, x.msg)
      <3>1. x.topic.name \in Names /\ x.msg \in Msg
        BY <1>1, <2>1, TopicName DEF FrameItem
      <3> QED
        BY <1>1, <2>1, <3>1, DispatchPosts
    <2>2. CASE strandq' = strandq
      <3>1. strandq' = strandq \o <<>>
        BY <1>1, <2>2, QueueTypes, ConcatEmptySeq
      <3> QED
        BY <3>1, EmptySeq
    <2> QED
      BY <1>5, <2>1, <2>2 DEF CallHandler, Complain
  <1>7. PICK calls \in Seq(CallItem) : strandq' = strandq \o calls
    BY <1>6
  <1>8. Agreed'
    BY <1>1, <1>2, <1>7, PendingPosted, AgreedKept DEF Clean
  <1>9. \A ops : NoneOf(strandq, ops) /\ "message" \notin ops => NoneOf(strandq', ops)
    <2> SUFFICES ASSUME NEW ops, NoneOf(strandq, ops), "message" \notin ops PROVE NoneOf(strandq', ops)
      OBVIOUS
    <2>1. calls \in Seq(Item) /\ strandq \in Seq(Item)
      BY <1>1, QueueTypes, SeqMonotonic DEF Item
    <2>2. NoneOf(calls, ops)
      <3>1. \A i \in DOMAIN calls : calls[i] \in CallItem
        BY ElementOfSeq, LenProperties
      <3> QED
        BY <3>1 DEF NoneOf, CallItem
    <2> QED
      BY <1>7, <2>1, <2>2, NoneConcat
  <1>10. WhenClosed'
    BY <1>1, <1>4 DEF WhenClosed
  <1>11. WhenConnected' /\ WhenSubscribed'
    BY <1>1, <1>2, <1>3, <1>9 DEF Clean, WhenConnected, WhenSubscribed
  <1>12. InLine' /\ Confirmed'
    <2> SUFFICES ASSUME ~mixed
                 PROVE  Awaits(handlers', Waiting') /\ \A c \in Cmd : answers'[c] \in {0, c}
      BY <1>1 DEF InLine, Confirmed
    <2>1. InLine /\ Confirmed /\ Awaits(handlers, Waiting) /\ \A c \in Cmd : answers[c] \in {0, c}
      BY <1>2 DEF Clean, InLine, Confirmed
    <2>2. CASE x.op = "message"
      <3>1. x \notin SendItem
        BY <2>2 DEF SendItem, Sends
      <3>2. Waiting' = Waiting
        BY <1>1, <3>1, WaitingProcess
      <3> QED
        BY <1>5, <2>1, <2>2, <3>2
    <2>3. CASE x.op # "message"
      <3>1. handlers # <<>> /\ Head(handlers) = x.cmd /\ Awaits(Tail(handlers), Waiting')
        BY <1>1, <2>1, <2>3, FirstAnswer
      <3>2. state = "Subscribed" => x.op # "command"
        BY <1>2, <1>3 DEF Clean, WhenSubscribed
      <3>3. CallHandler(x)
        BY <1>5, <2>3, <3>1, <3>2
      <3>4. handlers' = Tail(handlers) /\ answers' = [answers EXCEPT ![x.cmd] = x.cmd]
        BY <2>3, <3>1, <3>3 DEF CallHandler
      <3> HIDE DEF x
      <3>5. \A c \in Cmd : answers'[c] \in {0, c}
        BY <1>1, <2>1, <3>4 DEF TInv, TypeOK
      <3> QED
        BY <3>1, <3>4, <3>5
    <2> QED
      BY <2>2, <2>3
  <1> QED
    BY <1>8, <1>10, <1>11, <1>12 DEF Clean

LEMMA InitConfirms == Init => CInv
PROOF
  <1> SUFFICES ASSUME Init PROVE CInv
    OBVIOUS
  <1>1. TInv
    BY InitType
  <1>2. /\ state = "Connected" /\ strandq = <<>> /\ toServer = <<>> /\ toClient = <<>>
        /\ handlers = <<>> /\ subs = {} /\ asked = {} /\ answers = [c \in Cmd |-> 0]
    BY DEF Init
  <1>3. Waiting = <<>> /\ \A u \in Topics : Pending(u) = <<>>
    BY <1>2, OnlyEmpty DEF Waiting, Pending
  <1>4. WhenClosed /\ WhenConnected /\ WhenSubscribed
    BY <1>2, NoneEmpty DEF WhenClosed, WhenConnected, WhenSubscribed
  <1>5. InLine /\ Confirmed /\ Agreed
    BY <1>2, <1>3 DEF InLine, Awaits, Confirmed, Agreed, Final
  <1> QED
    BY <1>1, <1>4, <1>5 DEF CInv, Clean

LEMMA NextConfirms == CInv /\ [Next]_vars => CInv'
PROOF
  <1> SUFFICES ASSUME CInv, [Next]_vars PROVE CInv'
    OBVIOUS
  <1>1. CASE App
    BY <1>1, SubscribeConfirms, SubscribeRefusedConfirms, UnsubscribeConfirms, PlainCommandConfirms,
       DisconnectConfirms, ConnectConfirms DEF App
  <1>2. CASE RunStrand
    BY <1>2, RunStrandConfirms
  <1>3. CASE DoProcessMessage
    BY <1>3, DoProcessMessageConfirms
  <1>4. CASE Serve
    BY <1>4, ServeConfirms
  <1>5. CASE \E channel \in Channels : Publish(channel)
    BY <1>5, PublishConfirms
  <1>6. CASE UNCHANGED vars
    <2>1. TInv'
      BY <1>6, NextType DEF CInv
    <2> QED
      BY <1>6, <2>1, CleanStill DEF vars, client, history
  <1> QED
    BY <1>1, <1>2, <1>3, <1>4, <1>5, <1>6 DEF Next

(* The handler of a command is called with the answer to that command, as   *)
(* long as no plain command was unanswered when the client subscribed and   *)
(* no disconnect() left commands on the strand.                             *)
THEOREM PubSubOwnConfirmation == Spec => []OwnConfirmation
PROOF
  <1>1. CInv => OwnConfirmation
    BY DEF CInv, Clean, Confirmed, OwnConfirmation
  <1> QED
    BY <1>1, InitConfirms, NextConfirms, PTL DEF Spec

(* When no command is under way the server has those topics subscribed for  *)
(* which the last command issued was to subscribe.                          *)
THEOREM PubSubServerAgrees == Spec => []ServerAgrees
PROOF
  <1>1. CInv => ServerAgrees
    <2> SUFFICES ASSUME CInv, ~dirty, toServer = <<>>,
                        \A i \in DOMAIN strandq : strandq[i].op \notin Sends
                 PROVE  subs = asked
      BY DEF ServerAgrees, Arrived
    <2>1. TInv /\ Agreed
      BY DEF CInv, Clean
    <2>2. ASSUME NEW u \in Topics PROVE Pending(u) = <<>>
      <3>1. \A i \in DOMAIN strandq : strandq[i] \notin ChangeOf(u)
        BY DEF ChangeOf, Sends
      <3>2. Only(strandq, ChangeOf(u)) = <<>>
        BY <2>1, <3>1, QueueTypes, OnlyNone
      <3>3. Only(<<>>, ChangeOf(u)) = <<>>
        BY OnlyEmpty
      <3> QED
        BY <3>2, <3>3 DEF Pending
    <2>3. \A u \in Topics : u \in asked <=> u \in subs
      BY <2>1, <2>2 DEF Agreed, Final
    <2> QED
      BY <2>1, <2>3 DEF TInv, TypeOK
  <1> QED
    BY <1>1, InitConfirms, NextConfirms, PTL DEF Spec
=============================================================================
