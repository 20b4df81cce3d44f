-------------------------- MODULE ConnectionProofs --------------------------
(***************************************************************************)
(* Proofs about Connection, for any URIs, any depth of a pipeline and any  *)
(* circle of commands that is long enough: what a URI is parsed into, the  *)
(* types, the session of the connection in use, and whose replies it       *)
(* carries.                                                                *)
(***************************************************************************)
EXTENDS ConnectionUris, SequenceTheorems, WellFoundedInduction, TLAPS

-----------------------------------------------------------------------------
(* Natural numbers.                                                        *)

(* The least of a set of natural numbers, and induction for sets of them.   *)
LEMMA NatLeast ==
  ASSUME NEW U, U \subseteq Nat, U # {}
  PROVE  \E x \in U : \A y \in U : x <= y
PROOF
  <1> DEFINE R == {ss \in Nat \X Nat : ss[1] < ss[2]}
  <1>1. IsWellFoundedOn(R, Nat)
    BY NatLessThanWellFounded DEF OpToRel
  <1>2. \E x \in U : \A y \in U : ~ (<<y, x>> \in R)
    <2> HIDE DEF R
    <2> QED
      BY <1>1, WFMin
  <1>3. PICK x \in U : \A y \in U : ~ (<<y, x>> \in R)
    BY <1>2
  <1>4. ASSUME NEW y \in U PROVE x <= y
    <2>1. x \in Nat /\ y \in Nat /\ ~ (<<y, x>> \in R)
      BY <1>3
    <2> QED
      BY <2>1
  <1> QED
    BY <1>4

(* Induction for sets of natural numbers.                                   *)
LEMMA SetInduction ==
  ASSUME NEW T, 0 \in T, \A n \in Nat : n \in T => n + 1 \in T
  PROVE  Nat \subseteq T
PROOF
  <1> DEFINE U == Nat \ T
  <1>1. SUFFICES ASSUME U # {} PROVE FALSE
    OBVIOUS
  <1>2. PICK x \in U : \A y \in U : x <= y
    <2> HIDE DEF U
    <2>1. U \subseteq Nat
      BY DEF U
    <2> QED
      BY <1>1, <2>1, NatLeast
  <1>3. x - 1 \in Nat /\ x - 1 \in U
    OBVIOUS
  <1> QED
    BY <1>2, <1>3

(* The greatest of a set of natural numbers that has a bound.               *)
LEMMA NatGreatest ==
  ASSUME NEW n \in Nat, NEW U, U \subseteq 0 .. n, U # {}
  PROVE  \E x \in U : \A y \in U : x >= y
PROOF
  <1> DEFINE V == {v \in 0 .. n : n - v \in U}
  <1>1. V \subseteq Nat
    OBVIOUS
  <1>2. V # {}
    <2>1. PICK u \in U : u \in 0 .. n
      OBVIOUS
    <2>2. n - u \in 0 .. n /\ n - (n - u) = u
      BY <2>1
    <2> QED
      BY <2>1, <2>2
  <1>3. PICK x \in V : \A y \in V : x <= y
    <2> HIDE DEF V
    <2> QED
      BY <1>1, <1>2, NatLeast
  <1>4. x \in 0 .. n /\ n - x \in U
    BY <1>3
  <1>5. ASSUME NEW y \in U PROVE n - x >= y
    <2>1. y \in 0 .. n
      OBVIOUS
    <2>2. n - y \in 0 .. n /\ n - (n - y) = y
      BY <2>1
    <2>3. n - y \in V
      BY <2>1, <2>2
    <2> QED
      BY <1>3, <1>4, <2>1, <2>3
  <1> QED
    BY <1>4, <1>5

(* std::string::find().                                                     *)
LEMMA FindIs ==
  ASSUME NEW S, NEW s \in Seq(S), NEW t
  PROVE  /\ Find(s, t) \in 0 .. Len(s)
         /\ Find(s, t) = 0 => \A i \in 1 .. Len(s) : s[i] # t
         /\ Find(s, t) # 0 => s[Find(s, t)] = t /\ \A i \in 1 .. Find(s, t) - 1 : s[i] # t
PROOF
  <1> DEFINE I == {i \in 1 .. Len(s) : s[i] = t}
  <1>1. Find(s, t) = IF I # {} THEN Min(I) ELSE 0
    BY DEF Find, SelectInSeq
  <1>2. Len(s) \in Nat
    OBVIOUS
  <1>3. CASE I = {}
    <2>1. Find(s, t) = 0
      BY <1>1, <1>3
    <2> QED
      BY <1>2, <1>3, <2>1
  <1>4. CASE I # {}
    <2>1. I \subseteq Nat
      OBVIOUS
    <2>2. \E x \in I : \A y \in I : x <= y
      <3> HIDE DEF I
      <3> QED
        BY <1>4, <2>1, NatLeast
    <2>3. Min(I) \in I /\ \A y \in I : Min(I) <= y
      <3> HIDE DEF I
      <3> QED
        BY <2>2 DEF Min
    <2> DEFINE m == Min(I)
    <2>4. m \in I /\ (\A y \in I : m <= y) /\ Find(s, t) = m
      BY <1>1, <1>4, <2>3
    <2> HIDE DEF m
    <2>5. m \in 1 .. Len(s) /\ s[m] = t
      BY <2>4
    <2>6. \A i \in 1 .. m - 1 : s[i] # t
      BY <1>2, <2>4, <2>5
    <2> QED
      BY <1>2, <2>4, <2>5, <2>6
  <1> QED
    BY <1>3, <1>4

(* std::string::rfind().                                                    *)
LEMMA RFindIs ==
  ASSUME NEW S, NEW s \in Seq(S), NEW t
  PROVE  /\ RFind(s, t) \in 0 .. Len(s)
         /\ RFind(s, t) = 0 => \A i \in 1 .. Len(s) : s[i] # t
         /\ RFind(s, t) # 0 =>
              s[RFind(s, t)] = t /\ \A i \in 1 .. Len(s) : i > RFind(s, t) => s[i] # t
PROOF
  <1> DEFINE I == {i \in 1 .. Len(s) : s[i] = t}
  <1>1. RFind(s, t) = IF I # {} THEN Max(I) ELSE 0
    BY DEF RFind, SelectLastInSeq
  <1>2. Len(s) \in Nat
    OBVIOUS
  <1>3. CASE I = {}
    <2>1. RFind(s, t) = 0
      BY <1>1, <1>3
    <2> QED
      BY <1>2, <1>3, <2>1
  <1>4. CASE I # {}
    <2>1. I \subseteq 0 .. Len(s)
      OBVIOUS
    <2>2. \E x \in I : \A y \in I : x >= y
      <3> HIDE DEF I
      <3> QED
        BY <1>2, <1>4, <2>1, NatGreatest
    <2>3. Max(I) \in I /\ \A y \in I : Max(I) >= y
      <3> HIDE DEF I
      <3> QED
        BY <2>2 DEF Max
    <2> DEFINE m == Max(I)
    <2>4. m \in I /\ (\A y \in I : m >= y) /\ RFind(s, t) = m
      BY <1>1, <1>4, <2>3
    <2> HIDE DEF m
    <2>5. m \in 1 .. Len(s) /\ s[m] = t
      BY <2>4
    <2>6. \A i \in 1 .. Len(s) : i > m => s[i] # t
      BY <1>2, <2>4, <2>5
    <2> QED
      BY <1>2, <2>4, <2>5, <2>6
  <1> QED
    BY <1>3, <1>4

(* std::string::substr(), at a place that was found or at none.             *)
LEMMA CutIs ==
  ASSUME NEW S, NEW s \in Seq(S), NEW i \in 0 .. Len(s)
  PROVE  /\ Before(s, i) \in Seq(S)
         /\ After(s, i) \in Seq(S) /\ Len(After(s, i)) = Len(s) - i
         /\ \A j \in 1 .. Len(s) - i : After(s, i)[j] = s[i + j]
         /\ i = 0 => Before(s, i) = <<>> /\ After(s, i) = s
         /\ i # 0 => Len(Before(s, i)) = i - 1 /\ \A j \in 1 .. i - 1 : Before(s, i)[j] = s[j]
PROOF
  BY DEF Before, After

Steps(f, V, base, step, n) ==
  f \in [0 .. n -> V] /\ f[0] = base /\ \A k \in 1 .. n : f[k] = step[<<k, f[k - 1]>>]

(* A function that computes each of its values from the one before exists,  *)
(* and all its values are of the kind of the first.                         *)
LEMMA StepByStep ==
  ASSUME NEW V, NEW base \in V, NEW step \in [Nat \X V -> V], NEW n \in Nat
  PROVE  \E f : Steps(f, V, base, step, n)
PROOF
  <1> DEFINE Good(f, m) == Steps(f, V, base, step, m)
             N == {m \in Nat : \E f : Good(f, m)}
  <1> USE DEF Steps
  <1>1. 0 \in N
    <2> DEFINE g == [k \in 0 .. 0 |-> base]
    <2>1. g \in [0 .. 0 -> V] /\ g[0] = base
      OBVIOUS
    <2>2. \A k \in 1 .. 0 : FALSE
      OBVIOUS
    <2> HIDE DEF g
    <2>3. Good(g, 0)
      BY <2>1, <2>2
    <2> HIDE DEF Good
    <2> QED
      BY <2>3
  <1>2. ASSUME NEW m \in Nat, m \in N PROVE m + 1 \in N
    <2>1. PICK f : Good(f, m)
      BY <1>2
    <2> DEFINE g == [k \in 0 .. m + 1 |-> IF k <= m THEN f[k] ELSE step[<<m + 1, f[m]>>]]
    <2>2. f[m] \in V /\ step[<<m + 1, f[m]>>] \in V
      BY <2>1
    <2>3. g \in [0 .. m + 1 -> V] /\ g[0] = base
      BY <2>1, <2>2
    <2>4. ASSUME NEW k \in 1 .. m + 1 PROVE g[k] = step[<<k, g[k - 1]>>]
      <3>1. CASE k \in 1 .. m
        <4>1. g[k] = f[k] /\ g[k - 1] = f[k - 1]
          BY <3>1
        <4>2. f[k] = step[<<k, f[k - 1]>>]
          BY <2>1, <3>1
        <4> QED
          BY <4>1, <4>2
      <3>2. CASE k = m + 1
        <4>1. k - 1 = m /\ k \in 0 .. m + 1 /\ m \in 0 .. m + 1 /\ ~(k <= m)
          BY <3>2
        <4>2. g[k] = step[<<m + 1, f[m]>>] /\ g[m] = f[m]
          BY <4>1
        <4> QED
          BY <3>2, <4>1, <4>2
      <3> QED
        BY <3>1, <3>2
    <2> HIDE DEF g
    <2>5. Good(g, m + 1)
      BY <2>3, <2>4
    <2> HIDE DEF Good
    <2> QED
      BY <2>5
  <1>3. Nat \subseteq N
    <2> HIDE DEF N, Steps
    <2> QED
      BY <1>1, <1>2, SetInduction
  <1> HIDE DEF Steps
  <1> QED
    BY <1>3

(* The fields of a string: at least one, if it is not empty.                *)
FieldsOf(f, s, delimiter) ==
  f = [n \in 0 .. Len(s) |->
         IF n = 0 THEN <<<<>>>>
         ELSE LET before == f[n - 1]
              IN  IF s[n] = delimiter THEN Append(before, <<>>)
                  ELSE [before EXCEPT ![Len(before)] = Append(@, s[n])]]

(* Split() is the last of the lists of fields, one for each token read.     *)
LEMMA FieldsAre ==
  ASSUME NEW S, NEW s \in Seq(S), s # <<>>, NEW delimiter
  PROVE  \E f \in [0 .. Len(s) -> Seq(Seq(S)) \ {<<>>}] :
           FieldsOf(f, s, delimiter) /\ Split(s, delimiter) = f[Len(s)]
PROOF
  <1> DEFINE V == Seq(Seq(S)) \ {<<>>}
             n == Len(s)
             item(k) == IF k \in 1 .. n THEN s[k] ELSE s[1]
             after(k, x) == IF item(k) = delimiter THEN Append(x, <<>>)
                            ELSE [x EXCEPT ![Len(x)] = Append(@, item(k))]
             step == [p \in Nat \X V |-> after(p[1], p[2])]
  <1>1. n \in Nat /\ n # 0 /\ \A k \in Nat : item(k) \in S
    OBVIOUS
  <1>2. <<<<>>>> \in V
    OBVIOUS
  <1>3. ASSUME NEW y \in S, NEW x \in V
        PROVE  Append(x, <<>>) \in V /\ [x EXCEPT ![Len(x)] = Append(@, y)] \in V
    <2>1. x \in Seq(Seq(S)) /\ Len(x) \in Nat \ {0} /\ x[Len(x)] \in Seq(S)
      BY EmptySeq
    <2>2. Append(x[Len(x)], y) \in Seq(S)
      BY <2>1
    <2> DEFINE z == Append(x[Len(x)], y)
    <2>3. z \in Seq(S) /\ [x EXCEPT ![Len(x)] = Append(@, y)] = [x EXCEPT ![Len(x)] = z]
      BY <2>2
    <2> HIDE DEF z
    <2>4. [x EXCEPT ![Len(x)] = z] \in Seq(Seq(S)) /\ Len([x EXCEPT ![Len(x)] = z]) = Len(x)
      BY <2>1, <2>3, ExceptSeq
    <2>5. Append(x, <<>>) \in Seq(Seq(S)) /\ Len(Append(x, <<>>)) = Len(x) + 1
      BY <2>1
    <2> QED
      BY <2>1, <2>3, <2>4, <2>5, SMTT(30)
  <1>4. \A k \in Nat : \A x \in V : after(k, x) \in V
    BY <1>1, <1>3
  <1>5. step \in [Nat \X V -> V]
    <2> HIDE DEF V, after
    <2> QED
      BY <1>4
  <1>6. PICK f \in [0 .. n -> V] :
          f[0] = <<<<>>>> /\ \A k \in 1 .. n : f[k] = step[<<k, f[k - 1]>>]
    <2> HIDE DEF V, step, n
    <2>1. \E f : Steps(f, V, <<<<>>>>, step, n)
      BY <1>1, <1>2, <1>5, StepByStep
    <2> QED
      BY <2>1 DEF Steps
  <1>7. ASSUME NEW k \in 1 .. n
        PROVE  f[k] = IF s[k] = delimiter THEN Append(f[k - 1], <<>>)
                      ELSE [f[k - 1] EXCEPT ![Len(f[k - 1])] = Append(@, s[k])]
    <2>1. k \in Nat /\ f[k - 1] \in V /\ item(k) = s[k]
      <3>1. k \in Nat /\ k - 1 \in 0 .. n
        BY <1>1
      <3>2. item(k) = s[k]
        OBVIOUS
      <3> HIDE DEF V, item, step, n
      <3> QED
        BY <3>1, <3>2
    <2>2. step[<<k, f[k - 1]>>] = after(k, f[k - 1])
      <3> HIDE DEF V, after
      <3> QED
        BY <2>1, SMTT(30)
    <2> QED
      BY <1>6, <2>1, <2>2
  <1>8. FieldsOf(f, s, delimiter)
    <2>1. f = [k \in 0 .. n |-> f[k]]
      <3> HIDE DEF V
      <3> QED
        BY <1>6
    <2> DEFINE body(k) ==
          IF k = 0 THEN <<<<>>>>
          ELSE LET before == f[k - 1]
               IN  IF s[k] = delimiter THEN Append(before, <<>>)
                   ELSE [before EXCEPT ![Len(before)] = Append(@, s[k])]
    <2>2. ASSUME NEW k \in 0 .. n PROVE f[k] = body(k)
      <3>1. k = 0 \/ k \in 1 .. n
        BY <1>1
      <3>2. k = 0 => f[k] = body(k)
        BY <1>6
      <3>3. k \in 1 .. n => k # 0
        OBVIOUS
      <3> QED
        BY <1>7, <3>1, <3>2, <3>3
    <2>3. f = [k \in 0 .. n |-> body(k)]
      <3> HIDE DEF body, V
      <3> QED
        BY <2>1, <2>2
    <2> QED
      BY <2>3 DEF FieldsOf
  <1> DEFINE g == CHOOSE h : FieldsOf(h, s, delimiter)
  <1>9. Split(s, delimiter) = g[n]
    BY DEF Split, FieldsOf
  <1>10. FieldsOf(g, s, delimiter)
    BY <1>8
  <1> HIDE DEF g
  <1> DEFINE N == {k \in Nat : k <= n => g[k] \in V}
  <1>11. 0 \in N
    <2>1. 0 \in 0 .. Len(s)
      OBVIOUS
    <2>2. g[0] = <<<<>>>>
      BY <1>10, <2>1 DEF FieldsOf
    <2> QED
      BY <1>2, <2>2
  <1>12. ASSUME NEW k \in Nat, k \in N PROVE k + 1 \in N
    <2>1. CASE k + 1 <= n
      <3>1. k + 1 \in 0 .. Len(s) /\ k + 1 # 0 /\ (k + 1) - 1 = k /\ g[k] \in V /\ s[k + 1] \in S
        BY <1>1, <1>12, <2>1
      <3>2. g[k + 1] = IF s[k + 1] = delimiter THEN Append(g[k], <<>>)
                       ELSE [g[k] EXCEPT ![Len(g[k])] = Append(@, s[k + 1])]
        BY <1>10, <3>1 DEF FieldsOf
      <3>3. g[k + 1] \in V
        <4> HIDE DEF V
        <4> QED
          BY <1>3, <3>1, <3>2
      <3> QED
        BY <3>3
    <2>2. CASE ~(k + 1 <= n)
      BY <2>2
    <2> QED
      BY <2>1, <2>2
  <1>13. Nat \subseteq N
    <2> HIDE DEF N
    <2> QED
      BY <1>11, <1>12, SetInduction
  <1>14. g \in [0 .. n -> V]
    <2>1. \A k \in 0 .. n : g[k] \in V
      BY <1>1, <1>13
    <2>2. g = [k \in 0 .. n |-> g[k]]
      <3>1. \E F : g = [k \in 0 .. n |-> F[k]]
        <4> DEFINE F == [k \in 0 .. n |->
              IF k = 0 THEN <<<<>>>>
              ELSE LET before == g[k - 1]
                   IN  IF s[k] = delimiter THEN Append(before, <<>>)
                       ELSE [before EXCEPT ![Len(before)] = Append(@, s[k])]]
        <4>1. g = F
          BY <1>10 DEF FieldsOf
        <4>2. F = [k \in 0 .. n |-> F[k]]
          OBVIOUS
        <4> HIDE DEF F
        <4> QED
          BY <4>1, <4>2, SMTT(30)
      <3> QED
        BY <3>1
    <2> HIDE DEF V
    <2> QED
      BY <2>1, <2>2
  <1> HIDE DEF V
  <1>15. \E h \in [0 .. n -> V] : FieldsOf(h, s, delimiter) /\ Split(s, delimiter) = h[n]
    BY <1>9, <1>10, <1>14
  <1> QED
    BY <1>15 DEF V

(* The fields of a string are strings.                                      *)
LEMMA SplitIs ==
  ASSUME NEW S, NEW s \in Seq(S), NEW delimiter
  PROVE  Split(s, delimiter) \in Seq(Seq(S))
PROOF
  <1>1. CASE s = <<>>
    BY <1>1 DEF Split
  <1>2. CASE s # <<>>
    <2>1. PICK f \in [0 .. Len(s) -> Seq(Seq(S)) \ {<<>>}] : Split(s, delimiter) = f[Len(s)]
      BY <1>2, FieldsAre
    <2> QED
      BY <2>1
  <1> QED
    BY <1>1, <1>2

-----------------------------------------------------------------------------
(* The types of the options.                                               *)

(* Options whose strings have tokens in S.                                  *)
OptionsOf(S) ==
  [valid : BOOLEAN, type : {"tcp", "unix"}, host : Seq(S), port : Int, path : Seq(S),
   user : Seq(S), password : Seq(S), db : Int, keepAlive : BOOLEAN,
   connectTimeout : Int, socketTimeout : Int, readonly : BOOLEAN]

(* What the numerals stand for.                                             *)
LEMMA NumeralsInt == \A x \in DOMAIN Numerals : Numerals[x] \in Int
PROOF BY NumeralsAssumption

(* A number that is read is one.                                            *)
LEMMA NumberInt == ASSUME NEW s, IsNumber(s) PROVE Number(s) \in Int
PROOF BY NumeralsInt DEF IsNumber, Number

(* What a long holds is an integer.                                         *)
LEMMA WrapInt == ASSUME NEW n \in Int PROVE Wrap(n) \in Int
PROOF
  <1> DEFINE whole == UlongMax + 1
             half == whole \div 2
  <1>1. whole \in Nat \ {0} /\ half \in Int
    BY NumeralsAssumption
  <1> HIDE DEF whole, half
  <1>2. (n + half) % whole \in Int
    BY <1>1
  <1> HIDE <1>2
  <1>3. ((n + half) % whole) - half \in Int
    BY <1>1, <1>2
  <1> QED
    BY <1>3 DEF Wrap, whole, half

(* A timeout is a number of milliseconds.                                   *)
LEMMA TimeoutInt == ASSUME NEW s, IsTimeout(s) PROVE Timeout(s) \in Int
PROOF
  <1>1. Units[s[2]] \in Int
    BY DEF IsTimeout, Units
  <1>2. Number(s) \in Int
    BY NumberInt DEF IsTimeout, IsUlong
  <1>3. \A a, b \in Int : a * b \in Int
    OBVIOUS
  <1>4. Number(s) * Units[s[2]] \in Int
    BY <1>1, <1>2, <1>3
  <1> QED
    BY <1>4, WrapInt DEF Timeout

(* Each member that a URI sets keeps its type.                              *)
LEMMA MembersSet ==
  ASSUME NEW S, NEW o \in OptionsOf(S)
  PROVE  /\ \A b \in BOOLEAN : [o EXCEPT !.keepAlive = b] \in OptionsOf(S)
         /\ \A n \in Int : [o EXCEPT !.connectTimeout = n] \in OptionsOf(S)
         /\ \A n \in Int : [o EXCEPT !.socketTimeout = n] \in OptionsOf(S)
         /\ \A n \in Int : [o EXCEPT !.db = n] \in OptionsOf(S)
         /\ \A s \in Seq(S) : [o EXCEPT !.password = s] \in OptionsOf(S)
         /\ \A s, t \in Seq(S) : [o EXCEPT !.user = s, !.password = t] \in OptionsOf(S)
         /\ \A s \in Seq(S) : [o EXCEPT !.type = "tcp", !.host = s] \in OptionsOf(S)
         /\ \A s \in Seq(S) : \A n \in Int :
              [o EXCEPT !.type = "tcp", !.host = s, !.port = n] \in OptionsOf(S)
         /\ \A s \in Seq(S) : [o EXCEPT !.type = "unix", !.path = s] \in OptionsOf(S)
PROOF BY DEF OptionsOf

(* The defaults have the types of the members.                              *)
LEMMA DefaultTypes ==
  ASSUME NEW S, "default" \in S
  PROVE  DefaultOptions \in OptionsOf(S) /\ Invalid \in OptionsOf(S)
PROOF
  <1>1. <<>> \in Seq(S) /\ <<"default">> \in Seq(S)
    OBVIOUS
  <1>2. DefaultOptions \in OptionsOf(S)
    BY <1>1 DEF DefaultOptions, OptionsOf
  <1>3. \A o \in OptionsOf(S) : [o EXCEPT !.valid = FALSE] \in OptionsOf(S)
    BY DEF OptionsOf
  <1> QED
    BY <1>2, <1>3 DEF Invalid

(* An option is set or refused.                                             *)
LEMMA OptionSet ==
  ASSUME NEW S, "default" \in S, NEW key, NEW val, NEW o \in OptionsOf(S)
  PROVE  SetOption(key, val, o) \in OptionsOf(S)
PROOF
  <1> DEFINE t == Timeout(val)
  <1>1. IsTimeout(val) => t \in Int
    BY TimeoutInt
  <1>2. (val = <<"true">>) \in BOOLEAN
    OBVIOUS
  <1>3. [o EXCEPT !.keepAlive = (val = <<"true">>)] \in OptionsOf(S)
    BY <1>2, MembersSet
  <1> HIDE DEF t
  <1>4. IsTimeout(val) => /\ [o EXCEPT !.connectTimeout = t] \in OptionsOf(S)
                          /\ [o EXCEPT !.socketTimeout = t] \in OptionsOf(S)
    BY <1>1, MembersSet
  <1>5. Invalid \in OptionsOf(S)
    BY DefaultTypes
  <1> QED
    BY <1>3, <1>4, <1>5 DEF SetOption, t

(* So is a parameter.                                                       *)
LEMMA ParameterSet ==
  ASSUME NEW S, "default" \in S, NEW p, NEW o \in OptionsOf(S)
  PROVE  SetParameter(p, o) \in OptionsOf(S)
PROOF
  <1> DEFINE pair == Split(p, "=")
  <1>1. SetOption(pair[1], pair[2], o) \in OptionsOf(S)
    BY OptionSet
  <1>2. Invalid \in OptionsOf(S)
    BY DefaultTypes
  <1> HIDE DEF pair
  <1> QED
    BY <1>1, <1>2 DEF SetParameter, pair

(* The parameters, one after the other.                                     *)
UpTo(g, each, o) ==
  g = [n \in 0 .. Len(each) |-> IF n = 0 THEN o ELSE SetParameter(each[n], g[n - 1])]

(* The parameters are taken in order, each from what the ones before made.  *)
LEMMA ParametersAre ==
  ASSUME NEW S, "default" \in S, NEW ps \in Seq(S), NEW o \in OptionsOf(S)
  PROVE  \E g : /\ UpTo(g, Split(ps, "&"), o)
                /\ ParseParameters(ps, o) = g[Len(Split(ps, "&"))]
                /\ \A k \in 0 .. Len(Split(ps, "&")) : g[k] \in OptionsOf(S)
PROOF
  <1> DEFINE each == Split(ps, "&")
             n == Len(each)
             V == OptionsOf(S)
             step == [p \in Nat \X V |-> SetParameter(each[p[1]], p[2])]
  <1>1. each \in Seq(Seq(S)) /\ n \in Nat
    BY SplitIs
  <1>2. step \in [Nat \X V -> V]
    <2> HIDE DEF each
    <2> SUFFICES ASSUME NEW p \in Nat \X V PROVE SetParameter(each[p[1]], p[2]) \in V
      OBVIOUS
    <2>1. p[2] \in V
      OBVIOUS
    <2> QED
      BY <2>1, ParameterSet
  <1>3. PICK f : Steps(f, V, o, step, n)
    <2> HIDE DEF V, step, each, n
    <2>1. o \in V
      BY DEF V
    <2> QED
      BY <1>1, <1>2, <2>1, StepByStep
  <1>4. UpTo(f, each, o)
    <2> HIDE DEF V, each, n
    <2>1. f \in [0 .. n -> V] /\ f[0] = o /\ \A k \in 1 .. n : f[k] = step[<<k, f[k - 1]>>]
      BY <1>3 DEF Steps
    <2>2. ASSUME NEW k \in 1 .. n PROVE f[k] = SetParameter(each[k], f[k - 1])
      <3>1. f[k - 1] \in V /\ <<k, f[k - 1]>> \in Nat \X V
        BY <1>1, <2>1
      <3> QED
        BY <2>1, <3>1
    <2> HIDE DEF step
    <2>3. \A k \in 0 .. n : f[k] = IF k = 0 THEN o ELSE SetParameter(each[k], f[k - 1])
      <3> TAKE k \in 0 .. n
      <3>1. k = 0 \/ (k # 0 /\ k \in 1 .. n)
        BY <1>1
      <3> QED
        BY <2>1, <2>2, <3>1
    <2>4. f = [k \in 0 .. n |-> f[k]]
      BY <2>1
    <2>5. f = [k \in 0 .. n |-> IF k = 0 THEN o ELSE SetParameter(each[k], f[k - 1])]
      BY <2>3, <2>4
    <2> QED
      BY <2>5 DEF UpTo, n
  <1> DEFINE g == CHOOSE h : UpTo(h, each, o)
  <1>5. ParseParameters(ps, o) = g[n]
    BY DEF ParseParameters, UpTo
  <1>6. UpTo(g, each, o)
    BY <1>4
  <1> HIDE DEF g, each
  <1>10. g = [k \in 0 .. n |-> IF k = 0 THEN o ELSE SetParameter(each[k], g[k - 1])]
    BY <1>6 DEF UpTo
  <1> HIDE DEF n
  <1> DEFINE N == {k \in Nat : k <= n => g[k] \in V}
  <1>7. 0 \in N
    BY <1>1, <1>10
  <1>8. ASSUME NEW k \in Nat, k \in N PROVE k + 1 \in N
    <2>1. CASE k + 1 <= n
      <3>1. k + 1 \in 0 .. n /\ k + 1 # 0 /\ (k + 1) - 1 = k /\ g[k] \in V
        BY <1>1, <1>8, <2>1
      <3>2. g[k + 1] = SetParameter(each[k + 1], g[k])
        BY <1>10, <3>1
      <3> QED
        BY <3>1, <3>2, ParameterSet
    <2> QED
      BY <2>1
  <1>9. Nat \subseteq N
    <2> HIDE DEF N
    <2> QED
      BY <1>7, <1>8, SetInduction
  <1>11. \A k \in 0 .. n : g[k] \in V
    BY <1>1, <1>9
  <1> QED
    BY <1>5, <1>6, <1>11 DEF each, n

(* So the types are kept by all of them.                                    *)
LEMMA ParametersSet ==
  ASSUME NEW S, "default" \in S, NEW ps \in Seq(S), NEW o \in OptionsOf(S)
  PROVE  ParseParameters(ps, o) \in OptionsOf(S)
PROOF
  <1>1. Len(Split(ps, "&")) \in 0 .. Len(Split(ps, "&"))
    <2>1. Split(ps, "&") \in Seq(Seq(S))
      BY SplitIs
    <2> QED
      BY <2>1
  <1> QED
    BY <1>1, ParametersAre

(* One parameter more is set after the others.                              *)
LEMMA OneMore ==
  ASSUME NEW T, NEW e \in Seq(T), NEW x \in T, NEW o,
         NEW g, UpTo(g, e, o), NEW h, UpTo(h, Append(e, x), o)
  PROVE  h[Len(e) + 1] = SetParameter(x, g[Len(e)])
PROOF
  <1> DEFINE n == Len(e)
             t == Append(e, x)
  <1>1. /\ t \in Seq(T) /\ Len(t) = n + 1 /\ n \in Nat /\ t[n + 1] = x
        /\ \A k \in 1 .. n : t[k] = e[k]
    OBVIOUS
  <1> HIDE DEF t
  <1>2. g = [k \in 0 .. n |-> IF k = 0 THEN o ELSE SetParameter(e[k], g[k - 1])]
    BY DEF UpTo
  <1>3. h = [k \in 0 .. n + 1 |-> IF k = 0 THEN o ELSE SetParameter(t[k], h[k - 1])]
    BY <1>1 DEF UpTo, t
  <1> HIDE DEF n
  <1> DEFINE N == {k \in Nat : k <= n => g[k] = h[k]}
  <1>4. 0 \in N
    BY <1>1, <1>2, <1>3
  <1>5. ASSUME NEW k \in Nat, k \in N PROVE k + 1 \in N
    <2>1. CASE k + 1 <= n
      <3>1. k + 1 \in 0 .. n /\ k + 1 \in 1 .. n /\ k + 1 \in 0 .. n + 1 /\ k + 1 # 0 /\ (k + 1) - 1 = k
        BY <1>1, <2>1
      <3>2. g[k + 1] = SetParameter(e[k + 1], g[k])
        BY <1>2, <3>1
      <3>3. h[k + 1] = SetParameter(t[k + 1], h[k])
        BY <1>3, <3>1
      <3>4. t[k + 1] = e[k + 1] /\ g[k] = h[k]
        BY <1>1, <1>5, <2>1, <3>1
      <3>5. g[k + 1] = h[k + 1]
        BY <3>2, <3>3, <3>4
      <3> QED
        BY <3>5
    <2> QED
      BY <2>1
  <1>6. Nat \subseteq N
    <2> HIDE DEF N
    <2> QED
      BY <1>4, <1>5, SetInduction
  <1>7. g[n] = h[n]
    BY <1>1, <1>6
  <1>8. h[n + 1] = SetParameter(t[n + 1], h[n])
    <2>1. n + 1 \in 0 .. n + 1 /\ n + 1 # 0 /\ (n + 1) - 1 = n
      BY <1>1
    <2> QED
      BY <1>3, <2>1
  <1> QED
    BY <1>1, <1>7, <1>8 DEF n

-----------------------------------------------------------------------------
(* The type of what a URI is parsed into.                                   *)

(* The pieces of a string are strings.                                      *)
LEMMA PiecesTypes ==
  ASSUME NEW S, NEW u \in Seq(S)
  PROVE  SplitUri(u) \in [type : Seq(S), auth : Seq(S), path : Seq(S)]
PROOF
  <1> DEFINE rest == After(u, Find(u, "://"))
  <1>1. Find(u, "://") \in 0 .. Len(u)
    BY FindIs
  <1>2. Before(u, Find(u, "://")) \in Seq(S) /\ rest \in Seq(S)
    BY <1>1, CutIs
  <1> HIDE DEF rest
  <1>3. Find(rest, "@") \in 0 .. Len(rest)
    BY <1>2, FindIs
  <1>4. Before(rest, Find(rest, "@")) \in Seq(S) /\ After(rest, Find(rest, "@")) \in Seq(S)
    BY <1>2, <1>3, CutIs
  <1> QED
    BY <1>2, <1>4 DEF SplitUri, rest

(* The parts of a path are strings and a number.                            *)
LEMMA PathTypes ==
  ASSUME NEW S, NEW p \in Seq(S)
  PROVE  SplitPath(p) \in [path : Seq(S), db : Int, parameters : Seq(S)]
PROOF
  <1> DEFINE mark == RFind(p, "?")
             slash == RFind(p, "/")
  <1>1. mark \in 0 .. Len(p) /\ slash \in 0 .. Len(p)
    BY RFindIs
  <1> HIDE DEF mark, slash
  <1>2. Before(p, mark) \in Seq(S) /\ After(p, mark) \in Seq(S) /\ Before(p, slash) \in Seq(S)
    BY <1>1, CutIs
  <1>3. IsInt(After(p, slash)) => Number(After(p, slash)) \in Int
    BY NumberInt DEF IsInt
  <1>4. <<>> \in Seq(S) /\ 0 \in Int
    OBVIOUS
  <1> QED
    BY <1>2, <1>3, <1>4 DEF SplitPath, mark, slash

(* The user and the password are strings.                                   *)
LEMMA AuthSet ==
  ASSUME NEW S, NEW a \in Seq(S), NEW o \in OptionsOf(S)
  PROVE  SetAuthOpts(a, o) \in OptionsOf(S)
PROOF
  <1> DEFINE colon == Find(a, ":")
  <1>1. colon \in 0 .. Len(a)
    BY FindIs
  <1> HIDE DEF colon
  <1>2. Before(a, colon) \in Seq(S) /\ After(a, colon) \in Seq(S)
    BY <1>1, CutIs
  <1>3. /\ [o EXCEPT !.password = a] \in OptionsOf(S)
        /\ [o EXCEPT !.user = Before(a, colon), !.password = After(a, colon)] \in OptionsOf(S)
    BY <1>2, MembersSet
  <1> QED
    BY <1>3 DEF SetAuthOpts, colon

(* A host and a port are set, or the port is refused.                       *)
LEMMA TcpSet ==
  ASSUME NEW S, "default" \in S, NEW p \in Seq(S), NEW o \in OptionsOf(S)
  PROVE  SetTcpOpts(p, o) \in OptionsOf(S)
PROOF
  <1> DEFINE colon == Find(p, ":")
  <1>1. colon \in 0 .. Len(p)
    BY FindIs
  <1> HIDE DEF colon
  <1>2. Before(p, colon) \in Seq(S)
    BY <1>1, CutIs
  <1>3. IsInt(After(p, colon)) => Number(After(p, colon)) \in Int
    BY NumberInt DEF IsInt
  <1>4. /\ [o EXCEPT !.type = "tcp", !.host = p] \in OptionsOf(S)
        /\ IsInt(After(p, colon)) =>
             [o EXCEPT !.type = "tcp", !.host = Before(p, colon),
                       !.port = Number(After(p, colon))] \in OptionsOf(S)
    BY <1>2, <1>3, MembersSet
  <1>5. Invalid \in OptionsOf(S)
    BY DefaultTypes
  <1> QED
    BY <1>4, <1>5 DEF SetTcpOpts, colon

(* Any string is parsed into options of the right types.                    *)
LEMMA UriTypes ==
  ASSUME NEW S, "default" \in S, NEW u \in Seq(S)
  PROVE  ParseUri(u) \in OptionsOf(S)
PROOF
  <1> DEFINE pieces == SplitUri(u)
             split == SplitPath(pieces.path)
             auth == SetAuthOpts(pieces.auth, DefaultOptions)
             opt == ParseParameters(split.parameters, auth)
             set == [opt EXCEPT !.db = split.db]
  <1>1. pieces.path \in Seq(S) /\ pieces.auth \in Seq(S)
    <2> HIDE DEF pieces
    <2> QED
      BY PiecesTypes DEF pieces
  <1>2. split.path \in Seq(S) /\ split.db \in Int /\ split.parameters \in Seq(S)
    <2>1. split \in [path : Seq(S), db : Int, parameters : Seq(S)]
      <3> HIDE DEF pieces
      <3> QED
        BY <1>1, PathTypes
    <2> HIDE DEF split
    <2> QED
      BY <2>1
  <1>3. auth \in OptionsOf(S) /\ Invalid \in OptionsOf(S)
    <2> HIDE DEF pieces
    <2> QED
      BY <1>1, AuthSet, DefaultTypes
  <1>4. opt \in OptionsOf(S)
    <2> HIDE DEF auth, split
    <2> QED
      BY <1>2, <1>3, ParametersSet
  <1>5. set \in OptionsOf(S)
    <2> HIDE DEF opt, split
    <2> QED
      BY <1>2, <1>4, MembersSet
  <1>6. SetTcpOpts(split.path, set) \in OptionsOf(S) /\ SetUnixOpts(split.path, set) \in OptionsOf(S)
    <2> HIDE DEF set, split
    <2>1. SetTcpOpts(split.path, set) \in OptionsOf(S)
      BY <1>2, <1>5, TcpSet
    <2>2. SetUnixOpts(split.path, set) \in OptionsOf(S)
      BY <1>2, <1>5, MembersSet DEF SetUnixOpts
    <2> QED
      BY <2>1, <2>2
  <1> DEFINE place == CASE pieces.type = <<"tcp">>  -> SetTcpOpts(split.path, set)
                        [] pieces.type = <<"unix">> -> SetUnixOpts(split.path, set)
                        [] OTHER -> Invalid
  <1>7. place \in OptionsOf(S)
    <2> HIDE DEF pieces, split, set
    <2> QED
      BY <1>3, <1>6
  <1>8. ParseUri(u) = IF Find(u, "://") = 0 \/ ~opt.valid THEN Invalid ELSE place
    BY DEF ParseUri
  <1> HIDE DEF place, opt
  <1> QED
    BY <1>3, <1>7, <1>8

(* In particular those the application may use.                             *)
LEMMA UrisParsed == Invalid \in Options /\ \A u \in Uris : ParseUri(u) \in Options
PROOF
  <1> DEFINE S == Tokens
  <1>1. "default" \in S
    BY DEF Tokens
  <1>2. \A u \in Uris : u \in Seq(S)
    BY UriAssumption
  <1>3. OptionsOf(S) = Options
    BY DEF OptionsOf, Options
  <1> HIDE DEF S
  <1>4. Invalid \in OptionsOf(S)
    BY <1>1, DefaultTypes
  <1>5. \A u \in Uris : ParseUri(u) \in OptionsOf(S)
    BY <1>1, <1>2, UriTypes
  <1> QED
    BY <1>3, <1>4, <1>5

(* The fields of a string, of which the empty one has one too.              *)
Fields(s, delimiter) == IF s = <<>> THEN <<<<>>>> ELSE Split(s, delimiter)

(* One token more is one field more, or makes the last one longer.          *)
Longer(fields, x) == [fields EXCEPT ![Len(fields)] = Append(@, x)]

(* One token more: it begins a new field or makes the last one longer.      *)
LEMMA FieldsStep ==
  ASSUME NEW S, NEW s \in Seq(S), NEW x \in S, NEW d
  PROVE  /\ Fields(s, d) \in Seq(Seq(S)) \ {<<>>}
         /\ Fields(Append(s, x), d) =
              IF x = d THEN Append(Fields(s, d), <<>>) ELSE Longer(Fields(s, d), x)
PROOF
  <1> DEFINE V == Seq(Seq(S)) \ {<<>>}
             t == Append(s, x)
             n == Len(s)
  <1>1. /\ t \in Seq(S) /\ t # <<>> /\ Len(t) = n + 1 /\ n \in Nat
        /\ \A k \in 1 .. n : t[k] = s[k]
        /\ t[n + 1] = x
    OBVIOUS
  <1>2. <<<<>>>> \in V
    OBVIOUS
  <1> HIDE DEF t, V
  <1>3. PICK g \in [0 .. n + 1 -> V] : FieldsOf(g, t, d) /\ Split(t, d) = g[n + 1]
    BY <1>1, FieldsAre, ZenonT(60) DEF V
  <1>4. g[0] = <<<<>>>>
        /\ \A k \in 1 .. n + 1 :
             g[k] = IF t[k] = d THEN Append(g[k - 1], <<>>)
                    ELSE [g[k - 1] EXCEPT ![Len(g[k - 1])] = Append(@, t[k])]
    <2>1. 0 \in 0 .. n + 1 /\ \A k \in 1 .. n + 1 : k \in 0 .. n + 1 /\ k # 0
      BY <1>1
    <2> QED
      BY <1>1, <1>3, <2>1 DEF FieldsOf
  <1>5. g[n] = Fields(s, d) /\ g[n] \in V
    <2>1. g[n] \in V
      BY <1>1, <1>3
    <2>2. CASE s = <<>>
      BY <1>4, <2>1, <2>2 DEF Fields
    <2>3. CASE s # <<>>
      <3>1. PICK f \in [0 .. n -> V] : FieldsOf(f, s, d) /\ Split(s, d) = f[n]
        BY <2>3, FieldsAre DEF V
      <3>2. f[0] = <<<<>>>>
            /\ \A k \in 1 .. n :
                 f[k] = IF s[k] = d THEN Append(f[k - 1], <<>>)
                        ELSE [f[k - 1] EXCEPT ![Len(f[k - 1])] = Append(@, s[k])]
        <4>1. 0 \in 0 .. n /\ \A k \in 1 .. n : k \in 0 .. n /\ k # 0
          BY <1>1
        <4> QED
          BY <3>1, <4>1 DEF FieldsOf
      <3> DEFINE N == {k \in Nat : k <= n => f[k] = g[k]}
      <3>3. 0 \in N
        BY <1>4, <3>2
      <3>4. ASSUME NEW k \in Nat, k \in N PROVE k + 1 \in N
        <4>1. CASE k + 1 <= n
          <5>1. k + 1 \in 1 .. n /\ k + 1 \in 1 .. n + 1 /\ (k + 1) - 1 = k /\ f[k] = g[k]
            BY <1>1, <3>4, <4>1
          <5>2. f[k + 1] = IF s[k + 1] = d THEN Append(f[k], <<>>)
                           ELSE [f[k] EXCEPT ![Len(f[k])] = Append(@, s[k + 1])]
            BY <3>2, <5>1
          <5>3. g[k + 1] = IF t[k + 1] = d THEN Append(g[k], <<>>)
                           ELSE [g[k] EXCEPT ![Len(g[k])] = Append(@, t[k + 1])]
            BY <1>4, <5>1
          <5>4. t[k + 1] = s[k + 1]
            BY <1>1, <5>1
          <5> QED
            BY <5>1, <5>2, <5>3, <5>4
        <4> QED
          BY <4>1
      <3>5. Nat \subseteq N
        <4> HIDE DEF N
        <4> QED
          BY <3>3, <3>4, SetInduction
      <3>6. f[n] = g[n]
        BY <1>1, <3>5
      <3> QED
        BY <2>1, <2>3, <3>1, <3>6 DEF Fields
    <2> QED
      BY <2>2, <2>3
  <1>6. g[n + 1] = IF x = d THEN Append(g[n], <<>>) ELSE Longer(g[n], x)
    <2>1. n + 1 \in 1 .. n + 1 /\ (n + 1) - 1 = n
      BY <1>1
    <2> QED
      BY <1>1, <1>4, <2>1 DEF Longer
  <1>7. Fields(t, d) = g[n + 1]
    BY <1>1, <1>3 DEF Fields
  <1> QED
    BY <1>5, <1>6, <1>7 DEF t, V

(* The last field grows by a token.                                         *)
LEMMA LongerLast ==
  ASSUME NEW S, NEW F \in Seq(Seq(S)), NEW p \in Seq(S), NEW y \in S
  PROVE  Longer(Append(F, p), y) = Append(F, Append(p, y))
PROOF
  <1> DEFINE G == Append(F, p)
             z == Append(p, y)
             m == Len(F) + 1
  <1>1. G \in Seq(Seq(S)) /\ Len(G) = m /\ m \in Nat /\ m >= 1 /\ G[m] = p
        /\ \A i \in 1 .. m - 1 : G[i] = F[i]
    OBVIOUS
  <1>2. z \in Seq(S)
    OBVIOUS
  <1> HIDE DEF z
  <1>3. /\ Append(F, z) \in Seq(Seq(S)) /\ Len(Append(F, z)) = m /\ Append(F, z)[m] = z
        /\ \A i \in 1 .. m - 1 : Append(F, z)[i] = F[i]
    BY <1>2
  <1> HIDE DEF G, m
  <1>4. Longer(G, y) = [G EXCEPT ![m] = z]
    BY <1>1 DEF Longer, z
  <1> DEFINE L == [G EXCEPT ![m] = z]
             R == Append(F, z)
  <1>5. /\ L \in Seq(Seq(S)) /\ Len(L) = m /\ L[m] = z
        /\ \A i \in 1 .. m - 1 : L[i] = G[i]
    <2>1. m \in 1 .. Len(G)
      BY <1>1
    <2> QED
      BY <1>1, <1>2, <2>1, ExceptSeq
  <1>6. \A i \in 1 .. m : L[i] = R[i]
    <2> HIDE DEF L, R
    <2> TAKE i \in 1 .. m
    <2>1. i = m \/ i \in 1 .. m - 1
      BY <1>1
    <2> QED
      BY <1>1, <1>3, <1>5, <2>1 DEF R
  <1> HIDE DEF L, R
  <1>7. L = R
    BY <1>3, <1>5, <1>6, SeqEqual DEF R
  <1> QED
    BY <1>4, <1>7 DEF L, R, G, z

(* Appending to a part is appending to the whole.                           *)
LEMMA ConcatAppend ==
  ASSUME NEW S, NEW s \in Seq(S), NEW p \in Seq(S), NEW y \in S
  PROVE  s \o Append(p, y) = Append(s \o p, y)
PROOF
  <1>1. /\ Append(p, y) = p \o <<y>> /\ <<y>> \in Seq(S) /\ s \o p \in Seq(S)
        /\ Append(s \o p, y) = (s \o p) \o <<y>>
    BY AppendIsConcat
  <1>2. (s \o p) \o <<y>> = s \o (p \o <<y>>)
    BY <1>1, ConcatAssociative
  <1> QED
    BY <1>1, <1>2

(* What contains no delimiter makes the last field longer.                  *)
LEMMA FieldGrows ==
  ASSUME NEW S, NEW t \in Seq(S), NEW d, NEW F \in Seq(Seq(S)), Fields(t, d) = Append(F, <<>>),
         NEW b \in Seq(S), \A i \in 1 .. Len(b) : b[i] # d
  PROVE  Fields(t \o b, d) = Append(F, b)
PROOF
  <1> DEFINE pre(k) == SubSeq(b, 1, k)
             N == {k \in Nat : k <= Len(b) => Fields(t \o pre(k), d) = Append(F, pre(k))}
  <1>4. \A k \in 0 .. Len(b) : pre(k) \in Seq(S)
    OBVIOUS
  <1>5. pre(0) = <<>> /\ pre(Len(b)) = b
    OBVIOUS
  <1>6. \A k \in 0 .. Len(b) - 1 : pre(k + 1) = Append(pre(k), b[k + 1])
    <2> TAKE k \in 0 .. Len(b) - 1
    <2>1. Len(b) \in Nat /\ k + 1 \in 1 .. Len(b) /\ k \in Nat
      OBVIOUS
    <2>2. pre(k) \in Seq(S) /\ Len(pre(k)) = k /\ \A i \in 1 .. k : pre(k)[i] = b[i]
      BY <2>1
    <2>3. pre(k + 1) \in Seq(S) /\ Len(pre(k + 1)) = k + 1 /\ \A i \in 1 .. k + 1 : pre(k + 1)[i] = b[i]
      BY <2>1
    <2>4. b[k + 1] \in S
      BY <2>1
    <2> HIDE DEF pre
    <2>5. /\ Append(pre(k), b[k + 1]) \in Seq(S) /\ Len(Append(pre(k), b[k + 1])) = k + 1
          /\ \A i \in 1 .. k + 1 : Append(pre(k), b[k + 1])[i] = b[i]
      BY <2>1, <2>2, <2>4
    <2> DEFINE q == Append(pre(k), b[k + 1])
               r == pre(k + 1)
    <2> HIDE DEF q, r
    <2>6. q \in Seq(S) /\ r \in Seq(S) /\ Len(q) = Len(r) /\ \A i \in 1 .. Len(q) : q[i] = r[i]
      BY <2>3, <2>5 DEF q, r
    <2>7. q = r
      BY <2>6, SeqEqual
    <2> QED
      BY <2>7 DEF q, r
  <1> HIDE DEF pre
  <1>7. 0 \in N
    <2>1. t \o <<>> = t
      OBVIOUS
    <2> QED
      BY <1>5, <2>1
  <1>8. ASSUME NEW k \in Nat, k \in N PROVE k + 1 \in N
    <2>1. CASE k + 1 <= Len(b)
      <3>1. Len(b) \in Nat /\ k \in 0 .. Len(b) /\ k \in 0 .. Len(b) - 1 /\ k + 1 \in 1 .. Len(b)
        BY <2>1
      <3>2. Fields(t \o pre(k), d) = Append(F, pre(k)) /\ pre(k) \in Seq(S)
        BY <1>4, <1>8, <3>1
      <3>3. b[k + 1] \in S /\ b[k + 1] # d
        BY <3>1
      <3> DEFINE y == b[k + 1]
                 p == pre(k)
                 T == t \o p
      <3>4. pre(k + 1) = Append(p, y)
        BY <1>6, <3>1
      <3> HIDE DEF y
      <3>5. p \in Seq(S) /\ y \in S /\ y # d
        BY <3>2, <3>3 DEF y
      <3> HIDE DEF p
      <3>6. T \in Seq(S) /\ t \o Append(p, y) = Append(T, y)
        BY <3>5, ConcatAppend
      <3> HIDE DEF T
      <3>7. Fields(Append(T, y), d) = Longer(Fields(T, d), y)
        BY <3>5, <3>6, FieldsStep
      <3>8. Fields(T, d) = Append(F, p)
        BY <3>2 DEF T, p
      <3>9. Longer(Append(F, p), y) = Append(F, Append(p, y))
        BY <3>5, LongerLast
      <3>10. Fields(t \o pre(k + 1), d) = Append(F, pre(k + 1))
        BY <3>4, <3>6, <3>7, <3>8, <3>9
      <3> QED
        BY <3>10
    <2> QED
      BY <2>1
  <1>9. Nat \subseteq N
    <2> HIDE DEF N
    <2> QED
      BY <1>7, <1>8, SetInduction
  <1>10. Fields(t \o pre(Len(b)), d) = Append(F, pre(Len(b)))
    BY <1>9
  <1> QED
    BY <1>5, <1>10

(* What follows the last delimiter is the last field, and the only one if   *)
(* there is no delimiter.                                                   *)
LEMMA LastField ==
  ASSUME NEW S, NEW d, NEW b \in Seq(S), \A i \in 1 .. Len(b) : b[i] # d
  PROVE  /\ Fields(b, d) = <<b>>
         /\ \A s \in Seq(S) : d \in S => Fields(s \o <<d>> \o b, d) = Append(Fields(s, d), b)
PROOF
  <1>1. Fields(b, d) = <<b>>
    <2>1. Fields(<<>>, d) = Append(<<>>, <<>>)
      BY DEF Fields
    <2>2. <<>> \in Seq(S) /\ <<>> \in Seq(Seq(S))
      OBVIOUS
    <2>3. Fields(<<>> \o b, d) = Append(<<>>, b)
      BY <2>1, <2>2, FieldGrows, ZenonT(60)
    <2> QED
      BY <2>3
  <1>2. ASSUME NEW s \in Seq(S), d \in S
        PROVE  Fields(s \o <<d>> \o b, d) = Append(Fields(s, d), b)
    <2> DEFINE F == Fields(s, d)
               t == s \o <<d>>
    <2>1. F \in Seq(Seq(S))
      BY <1>2, FieldsStep
    <2>2. t \in Seq(S) /\ t = Append(s, d)
      BY <1>2
    <2>3. Fields(t, d) = Append(F, <<>>)
      BY <1>2, <2>2, FieldsStep, ZenonT(60)
    <2> HIDE DEF F, t
    <2>4. Fields(t \o b, d) = Append(F, b)
      BY <2>1, <2>2, <2>3, FieldGrows, ZenonT(60)
    <2> QED
      BY <2>4 DEF F, t
  <1> QED
    BY <1>1, <1>2

-----------------------------------------------------------------------------
(* Strings put together and taken apart.                                    *)

(* What is not in a string is not found.                                    *)
LEMMA FindNone ==
  ASSUME NEW S, NEW s \in Seq(S), NEW d, Without(s, d)
  PROVE  Find(s, d) = 0 /\ RFind(s, d) = 0
PROOF
  <1>1. Find(s, d) \in 0 .. Len(s) /\ (Find(s, d) # 0 => s[Find(s, d)] = d)
    BY FindIs
  <1>2. RFind(s, d) \in 0 .. Len(s) /\ (RFind(s, d) # 0 => s[RFind(s, d)] = d)
    BY RFindIs
  <1> QED
    BY <1>1, <1>2 DEF Without

(* A string of two parts and a separator, cut at the separator.             *)
LEMMA Joined ==
  ASSUME NEW S, NEW a \in Seq(S), NEW d \in S, NEW b \in Seq(S)
  PROVE  LET s == a \o <<d>> \o b
             n == Len(a) + 1
         IN  /\ s \in Seq(S) /\ n \in 1 .. Len(s) /\ Len(s) = n + Len(b) /\ s[n] = d
             /\ \A i \in 1 .. Len(a) : s[i] = a[i]
             /\ \A i \in 1 .. Len(b) : s[n + i] = b[i]
             /\ Before(s, n) = a /\ After(s, n) = b
PROOF
  <1> DEFINE s == a \o <<d>> \o b
             n == Len(a) + 1
  <1>1. /\ s \in Seq(S) /\ n \in 1 .. Len(s) /\ Len(s) = n + Len(b) /\ s[n] = d
        /\ \A i \in 1 .. Len(a) : s[i] = a[i]
        /\ \A i \in 1 .. Len(b) : s[n + i] = b[i]
    <2> DEFINE c == a \o <<d>>
    <2>1. /\ c \in Seq(S) /\ Len(c) = n /\ c[n] = d /\ n \in Nat /\ n >= 1
          /\ \A i \in 1 .. Len(a) : c[i] = a[i]
      OBVIOUS
    <2> HIDE DEF c
    <2>2. /\ c \o b \in Seq(S) /\ Len(c \o b) = Len(c) + Len(b) /\ Len(b) \in Nat
          /\ \A i \in 1 .. Len(c) : (c \o b)[i] = c[i]
          /\ \A i \in 1 .. Len(b) : (c \o b)[Len(c) + i] = b[i]
      BY <2>1, SMTT(30)
    <2>3. s = c \o b
      BY DEF c
    <2> HIDE DEF s, n
    <2>4. n \in 1 .. Len(c) /\ \A i \in 1 .. Len(a) : i \in 1 .. Len(c)
      BY <2>1 DEF n
    <2> QED
      BY <2>1, <2>2, <2>3, <2>4
  <1> HIDE DEF s
  <1>2. n \in 0 .. Len(s) /\ n # 0 /\ Len(s) - n = Len(b) /\ n - 1 = Len(a)
    BY <1>1
  <1>3. /\ Before(s, n) \in Seq(S) /\ After(s, n) \in Seq(S)
        /\ Len(After(s, n)) = Len(b) /\ \A j \in 1 .. Len(b) : After(s, n)[j] = s[n + j]
        /\ Len(Before(s, n)) = Len(a) /\ \A j \in 1 .. Len(a) : Before(s, n)[j] = s[j]
    <2>1. /\ Before(s, n) \in Seq(S)
          /\ After(s, n) \in Seq(S) /\ Len(After(s, n)) = Len(s) - n
          /\ \A j \in 1 .. Len(s) - n : After(s, n)[j] = s[n + j]
          /\ n # 0 => Len(Before(s, n)) = n - 1 /\ \A j \in 1 .. n - 1 : Before(s, n)[j] = s[j]
      <3> HIDE DEF n
      <3> QED
        BY <1>1, <1>2, CutIs
    <2> HIDE DEF n
    <2> QED
      BY <1>2, <2>1
  <1>4. Before(s, n) = a
    <2> DEFINE l == Before(s, n)
    <2>1. \A j \in 1 .. Len(l) : l[j] = a[j]
      BY <1>1, <1>3
    <2>2. l \in Seq(S) /\ Len(l) = Len(a)
      BY <1>3
    <2> HIDE DEF l
    <2>3. l = a
      BY <2>1, <2>2, SeqEqual
    <2> QED
      BY <2>3 DEF l
  <1>5. After(s, n) = b
    <2> DEFINE l == After(s, n)
    <2>1. \A j \in 1 .. Len(l) : l[j] = b[j]
      BY <1>1, <1>3
    <2>2. l \in Seq(S) /\ Len(l) = Len(b)
      BY <1>3
    <2> HIDE DEF l
    <2>3. l = b
      BY <2>1, <2>2, SeqEqual
    <2> QED
      BY <2>3 DEF l
  <1> QED
    BY <1>1, <1>4, <1>5 DEF s

(* What is found is the delimiter between two strings, if the one before it *)
(* or the one after it has none.                                            *)
LEMMA FindJoined ==
  ASSUME NEW S, NEW a \in Seq(S), NEW d \in S, NEW b \in Seq(S)
  PROVE  LET s == a \o <<d>> \o b
         IN  /\ Without(a, d) => Find(s, d) = Len(a) + 1
             /\ Without(b, d) => RFind(s, d) = Len(a) + 1
PROOF
  <1> DEFINE s == a \o <<d>> \o b
             n == Len(a) + 1
  <1>1. /\ s \in Seq(S) /\ n \in 1 .. Len(s) /\ Len(s) = n + Len(b) /\ s[n] = d
        /\ \A i \in 1 .. Len(a) : s[i] = a[i]
        /\ \A i \in 1 .. Len(b) : s[n + i] = b[i]
    BY Joined
  <1> HIDE DEF s
  <1>2. ASSUME Without(a, d) PROVE Find(s, d) = n
    <2>1. /\ Find(s, d) \in 0 .. Len(s)
          /\ Find(s, d) = 0 => \A i \in 1 .. Len(s) : s[i] # d
          /\ Find(s, d) # 0 => s[Find(s, d)] = d /\ \A i \in 1 .. Find(s, d) - 1 : s[i] # d
      BY <1>1, FindIs
    <2> DEFINE f == Find(s, d)
    <2> HIDE DEF f
    <2>2. f # 0
      BY <1>1, <2>1 DEF f
    <2>3. f \in 1 .. Len(s) /\ s[f] = d /\ ~(n \in 1 .. f - 1)
      BY <1>1, <2>1, <2>2 DEF f
    <2>4. ~(f \in 1 .. Len(a))
      BY <1>1, <1>2, <2>3 DEF Without
    <2>5. f = n
      BY <1>1, <2>3, <2>4
    <2> QED
      BY <2>5 DEF f
  <1>3. ASSUME Without(b, d) PROVE RFind(s, d) = n
    <2>1. /\ RFind(s, d) \in 0 .. Len(s)
          /\ RFind(s, d) = 0 => \A i \in 1 .. Len(s) : s[i] # d
          /\ RFind(s, d) # 0 => s[RFind(s, d)] = d /\ \A i \in 1 .. Len(s) : i > RFind(s, d) => s[i] # d
      BY <1>1, RFindIs
    <2> DEFINE f == RFind(s, d)
    <2> HIDE DEF f
    <2>2. f # 0
      BY <1>1, <2>1 DEF f
    <2>3. f \in 1 .. Len(s) /\ s[f] = d /\ ~(n > f)
      BY <1>1, <2>1, <2>2 DEF f
    <2>4. ASSUME f > n PROVE FALSE
      <3>1. f - n \in 1 .. Len(b) /\ n + (f - n) = f
        BY <1>1, <2>3, <2>4
      <3>2. s[f] = b[f - n]
        BY <1>1, <3>1
      <3> QED
        BY <1>3, <2>3, <3>1, <3>2 DEF Without
    <2>5. f = n
      BY <1>1, <2>3, <2>4
    <2> QED
      BY <2>5 DEF f
  <1> QED
    BY <1>2, <1>3 DEF s

-----------------------------------------------------------------------------
(* Settings.                                                               *)

Names == {"keep_alive", "connect_timeout", "socket_timeout"}

(* The tokens of a URI that is put together from parts.                     *)
Alphabet ==
  Tokens \cup {"://", "@", ":", "/", "?", "&", "="} \cup Names \cup {"true", "false"}
         \cup DOMAIN Numerals \cup DOMAIN Units

(* The tokens that are named.                                               *)
LEMMA AlphabetHas ==
  /\ "default" \in Alphabet /\ "://" \in Alphabet /\ "@" \in Alphabet /\ ":" \in Alphabet
  /\ "/" \in Alphabet /\ "?" \in Alphabet /\ "&" \in Alphabet /\ "=" \in Alphabet
  /\ "true" \in Alphabet /\ "false" \in Alphabet /\ Names \subseteq Alphabet
  /\ DOMAIN Numerals \subseteq Alphabet /\ DOMAIN Units \subseteq Alphabet
  /\ Tokens \subseteq Alphabet
PROOF BY DEF Alphabet, Tokens

(* Texts are strings.                                                       *)
LEMMA TokensInAlphabet == \A s \in Seq(Tokens) : s \in Seq(Alphabet)
PROOF
  <1>1. Tokens \subseteq Alphabet
    BY AlphabetHas
  <1> QED
    BY <1>1, SeqMonotonic

(* No separator is a numeral, a unit or a name.                             *)
LEMMA DelimitersApart ==
  /\ \A n \in DOMAIN Numerals : n \notin {"=", "&", "?", "/", "@", ":", "://"}
  /\ \A u \in DOMAIN Units : u \notin {"=", "&", "?", "/", "@", ":", "://"}
  /\ \A u \in Names : u \notin {"=", "&", "?", "/", "@", ":", "://"}
PROOF BY NumeralsAssumption DEF Separators, Units, Names

(* Two elements.                                                            *)
LEMMA AppendOne == ASSUME NEW T, NEW x \in T, NEW y \in T PROVE Append(<<x>>, y) = <<x, y>>
PROOF
  <1> DEFINE l == Append(<<x>>, y)
             r == <<x, y>>
  <1>1. <<x>> \in Seq(T) /\ Len(<<x>>) = 1 /\ <<x>>[1] = x
    OBVIOUS
  <1>2. l \in Seq(T) /\ Len(l) = 2 /\ l[1] = x /\ l[2] = y
    BY <1>1, AppendProperties
  <1>3. r \in Seq(T) /\ Len(r) = 2 /\ r[1] = x /\ r[2] = y
    OBVIOUS
  <1> HIDE DEF l, r
  <1>4. \A i \in 1 .. 2 : i = 1 \/ i = 2
    OBVIOUS
  <1>5. l = r
    BY <1>2, <1>3, <1>4, SeqEqual
  <1> QED
    BY <1>5 DEF l, r

(* A name and what follows it.                                              *)
LEMMA SettingSplit ==
  ASSUME NEW name \in Names, NEW v \in Seq(Alphabet), Without(v, "=")
  PROVE  Split(<<name>> \o <<"=">> \o v, "=") = <<<<name>>, v>>
PROOF
  <1> DEFINE k == <<name>>
  <1>1. k \in Seq(Alphabet) /\ Len(k) = 1 /\ k[1] = name /\ name # "="
    BY AlphabetHas DEF Names
  <1>2. \A i \in 1 .. Len(k) : k[i] # "="
    BY <1>1
  <1> HIDE DEF k
  <1>4. Fields(k, "=") = <<k>>
    BY <1>1, <1>2, LastField
  <1>5. Fields(k \o <<"=">> \o v, "=") = Append(Fields(k, "="), v)
    BY <1>1, AlphabetHas, LastField DEF Without
  <1>6. k \o <<"=">> \o v # <<>>
    <2>1. LET s == k \o <<"=">> \o v
          IN  s \in Seq(Alphabet) /\ Len(k) + 1 \in 1 .. Len(s)
      BY <1>1, AlphabetHas, Joined
    <2> DEFINE s == k \o <<"=">> \o v
    <2>2. s \in Seq(Alphabet) /\ Len(k) + 1 \in 1 .. Len(s)
      BY <2>1
    <2> HIDE DEF s
    <2>3. s # <<>>
      BY <1>1, <2>2
    <2> QED
      BY <2>3 DEF s
  <1>7. Append(<<k>>, v) = <<k, v>>
    BY <1>1, AppendOne
  <1>8. Split(k \o <<"=">> \o v, "=") = <<k, v>>
    BY <1>4, <1>5, <1>6, <1>7 DEF Fields
  <1> QED
    BY <1>8 DEF k

(* A numeral that is read and a unit are a timeout.                         *)
LEMMA TimeoutIs ==
  ASSUME NEW n \in DOMAIN Numerals, NEW u \in DOMAIN Units, IsUlong(<<n, u>>)
  PROVE  /\ <<n, u>> \in Seq(Alphabet) /\ Without(<<n, u>>, "=")
         /\ IsTimeout(<<n, u>>) /\ Timeout(<<n, u>>) = Wrap(Numerals[n] * Units[u])
         /\ Wrap(Numerals[n] * Units[u]) \in Int
PROOF
  <1>1. n \in Alphabet /\ u \in Alphabet /\ n # "=" /\ u # "="
    BY AlphabetHas, DelimitersApart
  <1> DEFINE v == <<n, u>>
  <1>2. v \in Seq(Alphabet) /\ Len(v) = 2 /\ v[1] = n /\ v[2] = u /\ v # <<>> /\ Head(v) = n
    BY <1>1
  <1>3. IsUlong(v)
    OBVIOUS
  <1> HIDE DEF v
  <1>4. Without(v, "=")
    BY <1>1, <1>2 DEF Without
  <1>5. IsTimeout(v)
    BY <1>2, <1>3 DEF IsTimeout
  <1>6. Timeout(v) = Wrap(Numerals[n] * Units[u])
    BY <1>2 DEF Timeout, Number
  <1> QED
    BY <1>2, <1>4, <1>5, <1>6, TimeoutInt DEF v

(* A time-out that is a number of some unit.                                *)
TimeoutOf(s, key, name, n, u) ==
  /\ s.key = key /\ s.text = <<name>> \o <<"=">> \o <<n, u>>
  /\ s.value = Wrap(Numerals[n] * Units[u]) /\ IsUlong(<<n, u>>)

(* A setting that is a timeout, by its parts.                               *)
LEMMA TimeoutParts ==
  ASSUME NEW key, NEW name, NEW s \in Timeouts(key, name)
  PROVE  \E n \in DOMAIN Numerals, u \in DOMAIN Units : TimeoutOf(s, key, name, n, u)
PROOF
  <1> DEFINE R(t) == [key |-> key, text |-> <<name>> \o <<"=">> \o t,
                      value |-> Wrap(Numerals[t[1]] * Units[t[2]])]
  <1>1. Timeouts(key, name) = {R(t) : t \in Amounts}
    BY DEF Timeouts
  <1>2. PICK t \in Amounts : s = R(t)
    BY <1>1
  <1>3. PICK n \in DOMAIN Numerals, u \in DOMAIN Units : t = <<n, u>>
    BY DEF Amounts
  <1>8. IsUlong(<<n, u>>)
    BY <1>2, <1>3 DEF Amounts
  <1> DEFINE x == <<name>> \o <<"=">> \o t
             w == Wrap(Numerals[t[1]] * Units[t[2]])
  <1>4. s = [key |-> key, text |-> x, value |-> w]
    BY <1>2
  <1>5. x = <<name>> \o <<"=">> \o <<n, u>> /\ w = Wrap(Numerals[n] * Units[u])
    BY <1>3
  <1> HIDE DEF x, w
  <1>6. s.key = key /\ s.text = x /\ s.value = w
    BY <1>4
  <1>7. TimeoutOf(s, key, name, n, u)
    BY <1>5, <1>6, <1>8 DEF TimeoutOf
  <1> QED
    BY <1>7

(* A setting sets its option.                                               *)
LEMMA SettingSets ==
  ASSUME NEW s \in Settings, NEW o, o.valid
  PROVE  /\ s.key = "keepAlive" =>
              s.value \in BOOLEAN /\ SetParameter(s.text, o) = [o EXCEPT !.keepAlive = s.value]
         /\ s.key = "connectTimeout" =>
              s.value \in Int /\ SetParameter(s.text, o) = [o EXCEPT !.connectTimeout = s.value]
         /\ s.key = "socketTimeout" =>
              s.value \in Int /\ SetParameter(s.text, o) = [o EXCEPT !.socketTimeout = s.value]
         /\ s.key \in {"keepAlive", "connectTimeout", "socketTimeout"}
PROOF
  <1>1. CASE s \in Switches
    <2>1. PICK w \in {"true", "false"} :
            /\ s.key = "keepAlive" /\ s.text = <<"keep_alive">> \o <<"=">> \o <<w>>
            /\ s.value = (w = "true")
      BY <1>1 DEF Switches
    <2> DEFINE v == <<w>>
    <2>2. v \in Seq(Alphabet) /\ Len(v) = 1 /\ v[1] = w /\ w # "="
      BY AlphabetHas
    <2>3. (v = <<"true">>) = s.value /\ v \in {<<"true">>, <<"false">>} /\ s.value \in BOOLEAN
      BY <2>1
    <2> HIDE DEF v
    <2>4. Split(s.text, "=") = <<<<"keep_alive">>, v>>
      <3>1. Without(v, "=")
        BY <2>2 DEF Without
      <3> QED
        BY <2>1, <2>2, <3>1, SettingSplit DEF v, Names
    <2>5. SetParameter(s.text, o) = SetOption(<<"keep_alive">>, v, o)
      BY <2>4 DEF SetParameter
    <2>6. SetOption(<<"keep_alive">>, v, o) = [o EXCEPT !.keepAlive = (v = <<"true">>)]
      <3>1. <<"keep_alive">> # <<"connect_timeout">> /\ <<"keep_alive">> # <<"socket_timeout">>
        OBVIOUS
      <3> QED
        BY <2>3, <3>1 DEF SetOption
    <2> QED
      BY <2>1, <2>3, <2>5, <2>6
  <1>2. CASE s \in Timeouts("connectTimeout", "connect_timeout")
    <2>1. PICK n \in DOMAIN Numerals, u \in DOMAIN Units :
            TimeoutOf(s, "connectTimeout", "connect_timeout", n, u)
      BY <1>2, TimeoutParts
    <2> DEFINE v == <<n, u>>
               key == <<"connect_timeout">>
    <2>2. Split(s.text, "=") = <<key, v>>
      BY <2>1, TimeoutIs, SettingSplit DEF Names, TimeoutOf
    <2>3. SetParameter(s.text, o) = SetOption(key, v, o)
      BY <2>2 DEF SetParameter
    <2>4. key # <<"keep_alive">> /\ key # <<"socket_timeout">>
      OBVIOUS
    <2>5. IsTimeout(v) /\ Timeout(v) = s.value /\ s.value \in Int
      BY <2>1, TimeoutIs DEF TimeoutOf
    <2>6. SetOption(key, v, o) = [o EXCEPT !.connectTimeout = s.value]
      <3> HIDE DEF v
      <3> QED
        BY <2>4, <2>5 DEF SetOption
    <2> QED
      BY <2>1, <2>3, <2>5, <2>6 DEF TimeoutOf
  <1>3. CASE s \in Timeouts("socketTimeout", "socket_timeout")
    <2>1. PICK n \in DOMAIN Numerals, u \in DOMAIN Units :
            TimeoutOf(s, "socketTimeout", "socket_timeout", n, u)
      BY <1>3, TimeoutParts
    <2> DEFINE v == <<n, u>>
               key == <<"socket_timeout">>
    <2>2. Split(s.text, "=") = <<key, v>>
      BY <2>1, TimeoutIs, SettingSplit DEF Names, TimeoutOf
    <2>3. SetParameter(s.text, o) = SetOption(key, v, o)
      BY <2>2 DEF SetParameter
    <2>4. key # <<"keep_alive">> /\ key # <<"connect_timeout">>
      OBVIOUS
    <2>5. IsTimeout(v) /\ Timeout(v) = s.value /\ s.value \in Int
      BY <2>1, TimeoutIs DEF TimeoutOf
    <2>6. SetOption(key, v, o) = [o EXCEPT !.socketTimeout = s.value]
      <3> HIDE DEF v
      <3> QED
        BY <2>4, <2>5 DEF SetOption
    <2> QED
      BY <2>1, <2>3, <2>5, <2>6 DEF TimeoutOf
  <1> QED
    BY <1>1, <1>2, <1>3 DEF Settings

(* The name in front of a setting says which option it sets.                *)
LEMMA OneKey == ASSUME NEW s \in Settings, NEW r \in Settings, s.text = r.text PROVE s.key = r.key
PROOF
  <1> DEFINE Name == [keepAlive |-> "keep_alive", connectTimeout |-> "connect_timeout",
                      socketTimeout |-> "socket_timeout"]
  <1>1. ASSUME NEW q \in Settings
        PROVE  q.key \in {"keepAlive", "connectTimeout", "socketTimeout"} /\ q.text[1] = Name[q.key]
    <2>1. \A name, v : (<<name>> \o <<"=">> \o <<v>>)[1] = name
      OBVIOUS
    <2>2. \A name, v, u : (<<name>> \o <<"=">> \o <<v, u>>)[1] = name
      OBVIOUS
    <2>3. CASE q \in Switches
      BY <2>1, <2>3 DEF Switches
    <2>4. CASE q \in Timeouts("connectTimeout", "connect_timeout")
      <3>1. PICK n \in DOMAIN Numerals, u \in DOMAIN Units :
              TimeoutOf(q, "connectTimeout", "connect_timeout", n, u)
        BY <2>4, TimeoutParts
      <3> QED
        BY <2>2, <3>1 DEF TimeoutOf
    <2>5. CASE q \in Timeouts("socketTimeout", "socket_timeout")
      <3>1. PICK n \in DOMAIN Numerals, u \in DOMAIN Units :
              TimeoutOf(q, "socketTimeout", "socket_timeout", n, u)
        BY <2>5, TimeoutParts
      <3> QED
        BY <2>2, <3>1 DEF TimeoutOf
    <2> QED
      BY <2>3, <2>4, <2>5 DEF Settings
  <1> QED
    BY <1>1

(* Two strings with a delimiter in between.                                 *)
IsJoined(s, a, d, b, S) ==
  /\ s \in Seq(S) /\ s # <<>> /\ Len(s) = Len(a) + 1 + Len(b) /\ s[Len(a) + 1] = d
  /\ \A i \in 1 .. Len(a) : s[i] = a[i]
  /\ \A i \in 1 .. Len(b) : s[Len(a) + 1 + i] = b[i]

(* Parts joined are a joined string.                                        *)
LEMMA JoinedIs ==
  ASSUME NEW S, NEW a \in Seq(S), NEW d \in S, NEW b \in Seq(S)
  PROVE  IsJoined(a \o <<d>> \o b, a, d, b, S)
PROOF
  <1> DEFINE s == a \o <<d>> \o b
             n == Len(a) + 1
  <1>1. /\ s \in Seq(S) /\ n \in 1 .. Len(s) /\ Len(s) = n + Len(b) /\ s[n] = d
        /\ \A i \in 1 .. Len(a) : s[i] = a[i]
        /\ \A i \in 1 .. Len(b) : s[n + i] = b[i]
    BY Joined
  <1> HIDE DEF s
  <1>2. s # <<>>
    <2>1. s = <<>> => Len(s) = 0
      OBVIOUS
    <2> QED
      BY <1>1, <2>1
  <1>3. IsJoined(s, a, d, b, S)
    BY <1>1, <1>2 DEF IsJoined
  <1> QED
    BY <1>3 DEF s

(* It is cut where it was joined.                                           *)
LEMMA JoinedCut ==
  ASSUME NEW S, NEW a \in Seq(S), NEW d \in S, NEW b \in Seq(S)
  PROVE  Before(a \o <<d>> \o b, Len(a) + 1) = a /\ After(a \o <<d>> \o b, Len(a) + 1) = b
PROOF
  <1> DEFINE s == a \o <<d>> \o b
             n == Len(a) + 1
  <1>1. Before(s, n) = a /\ After(s, n) = b
    BY Joined
  <1> QED
    BY <1>1

(* What neither the parts nor the separator is, is not in the whole.        *)
LEMMA WithoutJoined ==
  ASSUME NEW S, NEW a \in Seq(S), NEW b \in Seq(S), NEW d, NEW s, IsJoined(s, a, d, b, S),
         NEW t, t # d, Without(a, t), Without(b, t)
  PROVE  Without(s, t)
PROOF
  <1> SUFFICES ASSUME NEW i \in 1 .. Len(s) PROVE s[i] # t
    BY DEF Without
  <1>1. Len(s) = Len(a) + 1 + Len(b) /\ Len(a) \in Nat /\ Len(b) \in Nat
    BY DEF IsJoined
  <1>2. CASE i \in 1 .. Len(a)
    BY <1>2 DEF IsJoined, Without
  <1>3. CASE i = Len(a) + 1
    BY <1>3 DEF IsJoined
  <1>4. CASE i > Len(a) + 1
    <2> DEFINE j == i - (Len(a) + 1)
    <2>1. j \in 1 .. Len(b) /\ Len(a) + 1 + j = i
      BY <1>1, <1>4
    <2> HIDE DEF j
    <2>2. s[Len(a) + 1 + j] = b[j] /\ b[j] # t
      BY <2>1 DEF IsJoined, Without
    <2> QED
      BY <2>1, <2>2
  <1> QED
    BY <1>1, <1>2, <1>3, <1>4

(* A string is cut at its last delimiter.                                   *)
LEMMA CutAtLast ==
  ASSUME NEW S, NEW s \in Seq(S), NEW d \in S, ~Without(s, d)
  PROVE  \E a \in Seq(S), b \in Seq(S) : s = a \o <<d>> \o b /\ Without(b, d)
PROOF
  <1> DEFINE n == RFind(s, d)
             a == Before(s, n)
             b == After(s, n)
  <1>1. /\ n \in 0 .. Len(s)
        /\ n = 0 => \A i \in 1 .. Len(s) : s[i] # d
        /\ n # 0 => s[n] = d /\ \A i \in 1 .. Len(s) : i > n => s[i] # d
    BY RFindIs
  <1> HIDE DEF n
  <1>2. n # 0
    BY <1>1 DEF Without
  <1>3. n \in 1 .. Len(s) /\ Len(s) \in Nat
    BY <1>1, <1>2
  <1>4. /\ a \in Seq(S) /\ b \in Seq(S) /\ Len(b) = Len(s) - n
        /\ \A j \in 1 .. Len(s) - n : b[j] = s[n + j]
        /\ Len(a) = n - 1 /\ \A j \in 1 .. n - 1 : a[j] = s[j]
    BY <1>1, <1>2, CutIs
  <1> HIDE DEF a, b
  <1> DEFINE t == a \o <<d>> \o b
  <1>5. /\ t \in Seq(S) /\ Len(t) = Len(a) + 1 + Len(b) /\ t[Len(a) + 1] = d
        /\ \A i \in 1 .. Len(a) : t[i] = a[i]
        /\ \A i \in 1 .. Len(b) : t[Len(a) + 1 + i] = b[i]
    <2>1. a \in Seq(S) /\ b \in Seq(S)
      BY <1>4
    <2>2. IsJoined(t, a, d, b, S)
      BY <2>1, JoinedIs
    <2> HIDE DEF t
    <2> QED
      BY <2>2 DEF IsJoined
  <1> HIDE DEF t
  <1>6. Len(t) = Len(s)
    BY <1>3, <1>4, <1>5
  <1>7. ASSUME NEW i \in 1 .. Len(s) PROVE t[i] = s[i]
    <2>1. CASE i < n
      <3>1. i \in 1 .. n - 1 /\ i \in 1 .. Len(a)
        BY <1>3, <1>4, <2>1
      <3> QED
        BY <1>4, <1>5, <3>1
    <2>2. CASE i = n
      <3>1. i = Len(a) + 1
        BY <1>3, <1>4, <2>2
      <3> QED
        BY <1>1, <1>2, <1>5, <2>2, <3>1
    <2>3. CASE i > n
      <3>1. i - n \in 1 .. Len(s) - n /\ i - n \in 1 .. Len(b) /\ n + (i - n) = i /\ Len(a) + 1 + (i - n) = i
        BY <1>3, <1>4, <2>3
      <3>2. b[i - n] = s[i]
        BY <1>4, <3>1
      <3>3. t[i] = b[i - n]
        BY <1>5, <3>1
      <3> QED
        BY <3>2, <3>3
    <2> QED
      BY <1>3, <2>1, <2>2, <2>3
  <1>8. s = t
    BY <1>5, <1>6, <1>7, SeqEqual
  <1>9. Without(b, d)
    <2> SUFFICES ASSUME NEW j \in 1 .. Len(b) PROVE b[j] # d
      BY DEF Without
    <2>1. j \in 1 .. Len(s) - n /\ n + j \in 1 .. Len(s) /\ n + j > n
      BY <1>3, <1>4
    <2> QED
      BY <1>1, <1>2, <1>4, <2>1
  <1> QED
    BY <1>4, <1>8, <1>9 DEF t

(* A text with two fields is a name and what follows it.                    *)
LEMMA TwoFields ==
  ASSUME NEW S, "=" \in S, NEW text \in Seq(S), Len(Split(text, "=")) = 2
  PROVE  \E a \in Seq(S), v \in Seq(S) :
           text = a \o <<"=">> \o v /\ Split(text, "=") = <<a, v>>
PROOF
  <1>1. text # <<>> /\ Fields(text, "=") = Split(text, "=")
    <2>1. ASSUME text = <<>> PROVE FALSE
      <3>1. Split(text, "=") = <<>>
        BY <2>1 DEF Split
      <3>2. \A F : F = <<>> => Len(F) # 2
        OBVIOUS
      <3> QED
        BY <3>1, <3>2
    <2> QED
      BY <2>1 DEF Fields
  <1>2. ~Without(text, "=")
    <2>1. Without(text, "=") => Fields(text, "=") = <<text>>
      BY LastField DEF Without
    <2>2. \A F : F = <<text>> => Len(F) = 1
      OBVIOUS
    <2>3. Without(text, "=") => Len(Split(text, "=")) = 1
      BY <1>1, <2>1, <2>2
    <2> QED
      BY <2>3
  <1>3. PICK a \in Seq(S), v \in Seq(S) : text = a \o <<"=">> \o v /\ Without(v, "=")
    BY <1>2, CutAtLast
  <1>4. Fields(text, "=") = Append(Fields(a, "="), v)
    BY <1>3, LastField DEF Without
  <1>5. \A s \in Seq(S) : Fields(s, "=") \in Seq(Seq(S)) /\ Len(Fields(s, "=")) \in Nat \ {0}
    <2> TAKE s \in Seq(S)
    <2>1. Fields(s, "=") \in Seq(Seq(S)) \ {<<>>}
      BY FieldsStep
    <2> QED
      BY <2>1, EmptySeq
  <1>6. \A F \in Seq(Seq(S)) : \A x \in Seq(S) : Len(Append(F, x)) = Len(F) + 1
    OBVIOUS
  <1>7. Len(Fields(a, "=")) = 1
    <2>1. Len(Append(Fields(a, "="), v)) = Len(Fields(a, "=")) + 1
      BY <1>5, <1>6
    <2> DEFINE n == Len(Fields(a, "="))
    <2>2. n \in Nat /\ Len(Split(text, "=")) = n + 1
      BY <1>1, <1>4, <1>5, <2>1
    <2>3. n + 1 = 2
      BY <2>2
    <2> HIDE DEF n
    <2>4. n = 1
      BY <2>2, <2>3
    <2> QED
      BY <2>4 DEF n
  <1>8. Without(a, "=")
    <2>1. ASSUME ~Without(a, "=") PROVE FALSE
      <3>1. PICK b \in Seq(S), w \in Seq(S) : a = b \o <<"=">> \o w /\ Without(w, "=")
        BY <2>1, CutAtLast
      <3>2. Fields(a, "=") = Append(Fields(b, "="), w)
        BY <3>1, LastField, ZenonT(60) DEF Without
      <3>3. Len(Append(Fields(b, "="), w)) = Len(Fields(b, "=")) + 1
        BY <1>5, <1>6
      <3> DEFINE n == Len(Fields(b, "="))
      <3>4. n \in Nat \ {0} /\ n + 1 = 1
        BY <1>5, <1>7, <3>2, <3>3
      <3> HIDE DEF n
      <3> QED
        BY <3>4
    <2> QED
      BY <2>1
  <1>9. Fields(a, "=") = <<a>>
    BY <1>8, LastField DEF Without
  <1>10. Append(<<a>>, v) = <<a, v>>
    BY AppendOne
  <1> QED
    BY <1>1, <1>3, <1>4, <1>9, <1>10

(* What is no setting makes the constructor throw.                          *)
LEMMA SenselessThrows ==
  ASSUME NEW text \in Seq(Alphabet), NEW o, \A s \in Settings : s.text # text
  PROVE  SetParameter(text, o) = Invalid
PROOF
  <1>1. CASE ~o.valid \/ Len(Split(text, "=")) # 2
    BY <1>1 DEF SetParameter
  <1>2. CASE o.valid /\ Len(Split(text, "=")) = 2
    <2>1. PICK a \in Seq(Alphabet), v \in Seq(Alphabet) :
            text = a \o <<"=">> \o v /\ Split(text, "=") = <<a, v>>
      BY <1>2, AlphabetHas, TwoFields
    <2>2. SetParameter(text, o) = SetOption(a, v, o)
      BY <1>2, <2>1 DEF SetParameter
    <2>3. ~(a = <<"keep_alive">> /\ v \in {<<"true">>, <<"false">>})
      <3>1. ASSUME NEW w \in {"true", "false"}, a = <<"keep_alive">>, v = <<w>> PROVE FALSE
        <4> DEFINE x == <<"keep_alive">> \o <<"=">> \o <<w>>
                   s == [key |-> "keepAlive", text |-> x, value |-> (w = "true")]
        <4>1. s \in Settings
          BY DEF Settings, Switches
        <4>2. text = x
          BY <2>1, <3>1
        <4> HIDE DEF x
        <4>3. s.text = x
          OBVIOUS
        <4> HIDE DEF s
        <4> QED
          BY <4>1, <4>2, <4>3
      <3> QED
        BY <3>1
    <2>4. ASSUME NEW key, NEW name, Timeouts(key, name) \subseteq Settings,
                 a = <<name>>, IsTimeout(v)
          PROVE  FALSE
      <3>1. IsNumber(v) /\ Len(v) = 2 /\ v[2] \in DOMAIN Units
        BY <2>4 DEF IsTimeout, IsUlong
      <3>2. v[1] \in DOMAIN Numerals /\ v = <<v[1], v[2]>>
        <4>1. v[1] \in DOMAIN Numerals
          BY <3>1 DEF IsNumber
        <4>2. v = <<v[1], v[2]>>
          BY <3>1
        <4> QED
          BY <4>1, <4>2
      <3> DEFINE x == <<name>> \o <<"=">> \o v
                 y == Wrap(Numerals[v[1]] * Units[v[2]])
                 s == [key |-> key, text |-> x, value |-> y]
      <3>3. v \in Amounts
        <4>1. v \in (DOMAIN Numerals) \X (DOMAIN Units)
          BY <3>1, <3>2
        <4> QED
          BY <2>4, <4>1 DEF Amounts, IsTimeout
      <3>4. s \in Timeouts(key, name)
        BY <3>3 DEF Timeouts
      <3>5. text = x
        BY <2>1, <2>4
      <3> HIDE DEF x, y
      <3>6. s.text = x
        OBVIOUS
      <3> HIDE DEF s
      <3> QED
        BY <2>4, <3>4, <3>5, <3>6
    <2>5. ~(a = <<"connect_timeout">> /\ IsTimeout(v))
      <3>1. Timeouts("connectTimeout", "connect_timeout") \subseteq Settings
        BY DEF Settings
      <3> QED
        BY <2>4, <3>1
    <2>6. ~(a = <<"socket_timeout">> /\ IsTimeout(v))
      <3>1. Timeouts("socketTimeout", "socket_timeout") \subseteq Settings
        BY DEF Settings
      <3> QED
        BY <2>4, <3>1
    <2>7. SetOption(a, v, o) = Invalid
      BY <2>3, <2>5, <2>6 DEF SetOption
    <2> QED
      BY <2>2, <2>7
  <1> QED
    BY <1>1, <1>2

(* What is parsed, text by text.                                            *)
LEMMA NoParameters == ASSUME NEW o \in OptionsOf(Alphabet) PROVE ParseParameters(<<>>, o) = o
PROOF
  <1>1. <<>> \in Seq(Alphabet) /\ Split(<<>>, "&") = <<>>
    BY DEF Split
  <1> DEFINE e == Split(<<>>, "&")
  <1>2. PICK g : UpTo(g, e, o) /\ ParseParameters(<<>>, o) = g[Len(e)]
    BY <1>1, AlphabetHas, ParametersAre
  <1>3. Len(e) = 0
    <2>1. \A F : F = <<>> => Len(F) = 0
      OBVIOUS
    <2> QED
      BY <1>1, <2>1
  <1> HIDE DEF e
  <1>4. g[0] = o
    <2>1. 0 \in 0 .. Len(e)
      BY <1>3
    <2> QED
      BY <1>2, <2>1 DEF UpTo
  <1> QED
    BY <1>2, <1>3, <1>4

(* One parameter more behind an ampersand is the last one taken.            *)
LEMMA LastParameter ==
  ASSUME NEW o \in OptionsOf(Alphabet), NEW b \in Seq(Alphabet), Without(b, "&")
  PROVE  /\ b # <<>> => ParseParameters(b, o) = SetParameter(b, o)
         /\ \A a \in Seq(Alphabet) : a # <<>> =>
              ParseParameters(a \o <<"&">> \o b, o) = SetParameter(b, ParseParameters(a, o))
PROOF
  <1>1. ASSUME NEW e \in Seq(Seq(Alphabet)), NEW p \in Seq(Alphabet), NEW q \in Seq(Alphabet),
               Split(p, "&") = e, Split(q, "&") = Append(e, b)
        PROVE  ParseParameters(q, o) = SetParameter(b, ParseParameters(p, o))
    <2>1. PICK g : UpTo(g, e, o) /\ ParseParameters(p, o) = g[Len(e)]
      BY <1>1, AlphabetHas, ParametersAre
    <2>2. PICK h : UpTo(h, Append(e, b), o) /\ ParseParameters(q, o) = h[Len(Append(e, b))]
      BY <1>1, AlphabetHas, ParametersAre, ZenonT(60)
    <2>3. h[Len(e) + 1] = SetParameter(b, g[Len(e)])
      BY <2>1, <2>2, OneMore
    <2>4. Len(Append(e, b)) = Len(e) + 1
      OBVIOUS
    <2> QED
      BY <2>1, <2>2, <2>3, <2>4
  <1>2. ASSUME b # <<>> PROVE ParseParameters(b, o) = SetParameter(b, o)
    <2>1. Split(<<>>, "&") = <<>> /\ <<>> \in Seq(Alphabet) /\ <<>> \in Seq(Seq(Alphabet))
      BY DEF Split
    <2>2. Split(b, "&") = <<b>>
      BY <1>2, LastField DEF Without, Fields
    <2>3. <<b>> = Append(<<>>, b)
      OBVIOUS
    <2> QED
      BY <1>1, <2>1, <2>2, <2>3, NoParameters
  <1>3. ASSUME NEW a \in Seq(Alphabet), a # <<>>
        PROVE  ParseParameters(a \o <<"&">> \o b, o) = SetParameter(b, ParseParameters(a, o))
    <2> DEFINE q == a \o <<"&">> \o b
               e == Split(a, "&")
    <2>1. q \in Seq(Alphabet) /\ q # <<>>
      BY AlphabetHas, JoinedIs DEF IsJoined
    <2>2. Fields(a, "&") = e
      BY <1>3 DEF Fields
    <2>3. Fields(q, "&") = Append(Fields(a, "&"), b)
      BY AlphabetHas, LastField DEF Without
    <2> HIDE DEF q
    <2>4. Split(q, "&") = Append(e, b)
      BY <2>1, <2>2, <2>3 DEF Fields
    <2>5. e \in Seq(Seq(Alphabet))
      BY SplitIs
    <2>6. ParseParameters(q, o) = SetParameter(b, ParseParameters(a, o))
      BY <1>1, <2>1, <2>4, <2>5
    <2> QED
      BY <2>6 DEF q
  <1> QED
    BY <1>2, <1>3

-----------------------------------------------------------------------------
(* The query.                                                              *)

(* What the first n texts say.                                              *)
SaysUpTo(texts, n, key, value, default) ==
  \/ value = default /\ \A i \in 1 .. n : ~Sets(texts[i], key)
  \/ \E i \in 1 .. n, s \in Settings :
       /\ s.text = texts[i] /\ s.key = key /\ s.value = value
       /\ \A j \in i + 1 .. n : ~Sets(texts[j], key)

(* One text more: it says nothing of an option, or is the last to set it.   *)
LEMMA SaysMore ==
  ASSUME NEW texts, NEW n \in Nat, NEW key, NEW value, NEW default
  PROVE  /\ SaysUpTo(texts, n, key, value, default) /\ ~Sets(texts[n + 1], key)
              => SaysUpTo(texts, n + 1, key, value, default)
         /\ \A s \in Settings : s.text = texts[n + 1] /\ s.key = key
              => SaysUpTo(texts, n + 1, key, s.value, default)
PROOF
  <1>1. ASSUME SaysUpTo(texts, n, key, value, default), ~Sets(texts[n + 1], key)
        PROVE  SaysUpTo(texts, n + 1, key, value, default)
    <2>1. \A i \in 1 .. n + 1 : i \in 1 .. n \/ i = n + 1
      OBVIOUS
    <2>2. CASE value = default /\ \A i \in 1 .. n : ~Sets(texts[i], key)
      BY <1>1, <2>1, <2>2 DEF SaysUpTo
    <2>3. CASE \E i \in 1 .. n, s \in Settings :
                 /\ s.text = texts[i] /\ s.key = key /\ s.value = value
                 /\ \A j \in i + 1 .. n : ~Sets(texts[j], key)
      <3>1. PICK i \in 1 .. n, s \in Settings :
              /\ s.text = texts[i] /\ s.key = key /\ s.value = value
              /\ \A j \in i + 1 .. n : ~Sets(texts[j], key)
        BY <2>3
      <3>2. i \in 1 .. n + 1
        OBVIOUS
      <3>3. \A j \in i + 1 .. n + 1 : j \in i + 1 .. n \/ j = n + 1
        OBVIOUS
      <3>4. \A j \in i + 1 .. n + 1 : ~Sets(texts[j], key)
        BY <1>1, <3>1, <3>3
      <3> QED
        BY <3>1, <3>2, <3>4 DEF SaysUpTo
    <2> QED
      BY <1>1, <2>2, <2>3 DEF SaysUpTo
  <1>2. ASSUME NEW s \in Settings, s.text = texts[n + 1], s.key = key
        PROVE  SaysUpTo(texts, n + 1, key, s.value, default)
    <2>1. n + 1 \in 1 .. n + 1 /\ \A j \in n + 1 + 1 .. n + 1 : FALSE
      OBVIOUS
    <2> QED
      BY <1>2, <2>1 DEF SaysUpTo
  <1> QED
    BY <1>1, <1>2

(* What the first n texts make of the options.                              *)
Others(r, o) ==
  /\ r.type = o.type /\ r.host = o.host /\ r.port = o.port /\ r.path = o.path
  /\ r.user = o.user /\ r.password = o.password /\ r.db = o.db /\ r.readonly = o.readonly

Taken(texts, n, o, r) ==
  IF \A i \in 1 .. n : \E s \in Settings : s.text = texts[i]
  THEN /\ r.valid /\ Others(r, o)
       /\ SaysUpTo(texts, n, "keepAlive", r.keepAlive, o.keepAlive)
       /\ SaysUpTo(texts, n, "connectTimeout", r.connectTimeout, o.connectTimeout)
       /\ SaysUpTo(texts, n, "socketTimeout", r.socketTimeout, o.socketTimeout)
  ELSE r = Invalid

(* Each setting changes one member.                                         *)
SetsOne(r, x) ==
  /\ \A q : q = [r EXCEPT !.keepAlive = x] =>
       /\ q.valid = r.valid /\ Others(q, r) /\ q.keepAlive = x
       /\ q.connectTimeout = r.connectTimeout /\ q.socketTimeout = r.socketTimeout
  /\ \A q : q = [r EXCEPT !.connectTimeout = x] =>
       /\ q.valid = r.valid /\ Others(q, r) /\ q.keepAlive = r.keepAlive
       /\ q.connectTimeout = x /\ q.socketTimeout = r.socketTimeout
  /\ \A q : q = [r EXCEPT !.socketTimeout = x] =>
       /\ q.valid = r.valid /\ Others(q, r) /\ q.keepAlive = r.keepAlive
       /\ q.connectTimeout = r.connectTimeout /\ q.socketTimeout = x

(* Setting a member leaves the others.                                      *)
LEMMA OneMember == ASSUME NEW S, NEW r \in OptionsOf(S), NEW x PROVE SetsOne(r, x)
PROOF BY DEF OptionsOf, Others, SetsOne

(* What is refused is not valid.                                            *)
LEMMA InvalidIsNot == ~Invalid.valid
PROOF BY DEF Invalid, DefaultOptions

(* One setting more is taken, or all are refused.                           *)
LEMMA TakenMore ==
  ASSUME NEW texts \in Seq(Seq(Alphabet)), NEW n \in 0 .. Len(texts) - 1,
         NEW o, NEW r \in OptionsOf(Alphabet), Taken(texts, n, o, r)
  PROVE  Taken(texts, n + 1, o, SetParameter(texts[n + 1], r))
PROOF
  <1> DEFINE text == texts[n + 1]
             q == SetParameter(text, r)
             Right(k) == \A i \in 1 .. k : \E s \in Settings : s.text = texts[i]
  <1>1. text \in Seq(Alphabet) /\ n \in Nat
    OBVIOUS
  <1>2. Right(n + 1) <=> Right(n) /\ \E s \in Settings : s.text = text
    <2>1. \A i \in 1 .. n + 1 : i \in 1 .. n \/ i = n + 1
      BY <1>1
    <2>2. n + 1 \in 1 .. n + 1 /\ \A i \in 1 .. n : i \in 1 .. n + 1
      BY <1>1
    <2> QED
      BY <2>1, <2>2
  <1>3. CASE ~Right(n)
    <2>1. r = Invalid
      BY <1>3 DEF Taken
    <2>2. q = Invalid
      BY <2>1, InvalidIsNot DEF SetParameter
    <2> HIDE DEF q, text
    <2>3. ~Right(n + 1)
      BY <1>2, <1>3
    <2> QED
      BY <2>2, <2>3 DEF Taken, q, text
  <1>4. CASE Right(n) /\ ~(\E s \in Settings : s.text = text)
    <2>1. q = Invalid
      BY <1>1, <1>4, SenselessThrows
    <2> HIDE DEF q, text
    <2>2. ~Right(n + 1)
      BY <1>2, <1>4
    <2> QED
      BY <2>1, <2>2 DEF Taken, q, text
  <1>5. CASE Right(n) /\ \E s \in Settings : s.text = text
    <2>1. PICK s \in Settings : s.text = text
      BY <1>5
    <2>2. /\ r.valid /\ Others(r, o)
          /\ SaysUpTo(texts, n, "keepAlive", r.keepAlive, o.keepAlive)
          /\ SaysUpTo(texts, n, "connectTimeout", r.connectTimeout, o.connectTimeout)
          /\ SaysUpTo(texts, n, "socketTimeout", r.socketTimeout, o.socketTimeout)
      BY <1>5 DEF Taken
    <2>3. \A key : key # s.key => ~Sets(text, key)
      BY <2>1, OneKey DEF Sets
    <2>4. Right(n + 1)
      BY <1>2, <1>5
    <2>5. Others(q, r) => Others(q, o)
      BY <2>2 DEF Others
    <2>6. /\ s.key = "keepAlive" => q = [r EXCEPT !.keepAlive = s.value]
          /\ s.key = "connectTimeout" => q = [r EXCEPT !.connectTimeout = s.value]
          /\ s.key = "socketTimeout" => q = [r EXCEPT !.socketTimeout = s.value]
          /\ s.key \in {"keepAlive", "connectTimeout", "socketTimeout"}
      BY <2>1, <2>2, SettingSets, ZenonT(60)
    <2> HIDE DEF q
    <2>7. /\ s.key = "keepAlive" =>
               /\ q.valid = r.valid /\ Others(q, r) /\ q.keepAlive = s.value
               /\ q.connectTimeout = r.connectTimeout /\ q.socketTimeout = r.socketTimeout
          /\ s.key = "connectTimeout" =>
               /\ q.valid = r.valid /\ Others(q, r) /\ q.keepAlive = r.keepAlive
               /\ q.connectTimeout = s.value /\ q.socketTimeout = r.socketTimeout
          /\ s.key = "socketTimeout" =>
               /\ q.valid = r.valid /\ Others(q, r) /\ q.keepAlive = r.keepAlive
               /\ q.connectTimeout = r.connectTimeout /\ q.socketTimeout = s.value
      <3>1. SetsOne(r, s.value)
        BY OneMember
      <3> QED
        BY <2>6, <3>1 DEF SetsOne
    <2>8. q.valid /\ Others(q, o)
      BY <2>2, <2>5, <2>6, <2>7
    <2>9. /\ SaysUpTo(texts, n + 1, "keepAlive", q.keepAlive, o.keepAlive)
          /\ SaysUpTo(texts, n + 1, "connectTimeout", q.connectTimeout, o.connectTimeout)
          /\ SaysUpTo(texts, n + 1, "socketTimeout", q.socketTimeout, o.socketTimeout)
      <3>1. /\ "keepAlive" # "connectTimeout" /\ "keepAlive" # "socketTimeout"
            /\ "connectTimeout" # "socketTimeout"
        OBVIOUS
      <3>2. ASSUME NEW key, key # s.key, NEW v, NEW d, SaysUpTo(texts, n, key, v, d)
            PROVE  SaysUpTo(texts, n + 1, key, v, d)
        BY <1>1, <2>3, <3>2, SaysMore
      <3>3. \A d : SaysUpTo(texts, n + 1, s.key, s.value, d)
        BY <1>1, <2>1, SaysMore
      <3>4. CASE s.key = "keepAlive"
        BY <2>2, <2>7, <3>1, <3>2, <3>3, <3>4
      <3>5. CASE s.key = "connectTimeout"
        BY <2>2, <2>7, <3>1, <3>2, <3>3, <3>5
      <3>6. CASE s.key = "socketTimeout"
        BY <2>2, <2>7, <3>1, <3>2, <3>3, <3>6
      <3> QED
        BY <2>6, <3>4, <3>5, <3>6
    <2>10. Taken(texts, n + 1, o, q)
      BY <2>4, <2>8, <2>9 DEF Taken
    <2> QED
      BY <2>10 DEF q
  <1> QED
    BY <1>3, <1>4, <1>5

(* The query, text by text.                                                 *)
Separator(n) == IF n = 1 THEN "?" ELSE "&"

QueryUpTo(f, texts) ==
  f = [n \in 0 .. Len(texts) |->
         IF n = 0 THEN <<>> ELSE f[n - 1] \o <<Separator(n)>> \o texts[n]]

(* The query is written text by text.                                       *)
LEMMA QueryIs ==
  ASSUME NEW texts \in Seq(Seq(Alphabet))
  PROVE  \E f : QueryUpTo(f, texts) /\ Query(texts) = f[Len(texts)]
PROOF
  <1> DEFINE V == Seq(Alphabet)
             n == Len(texts)
             text(k) == IF k \in 1 .. n THEN texts[k] ELSE <<>>
             after(k, x) == x \o <<Separator(k)>> \o text(k)
             step == [p \in Nat \X V |-> after(p[1], p[2])]
  <1>1. n \in Nat /\ <<>> \in V /\ \A k \in 1 .. n : texts[k] \in V
    OBVIOUS
  <1>2. \A k : text(k) \in V
    <2> HIDE DEF V, n
    <2> QED
      BY <1>1
  <1>3. \A k \in Nat : \A x \in V : after(k, x) \in V
    <2> TAKE k \in Nat
    <2> TAKE x \in V
    <2>1. Separator(k) \in Alphabet
      BY AlphabetHas DEF Separator
    <2> HIDE DEF text
    <2>2. IsJoined(after(k, x), x, Separator(k), text(k), Alphabet)
      BY <1>2, <2>1, JoinedIs
    <2> HIDE DEF after
    <2> QED
      BY <2>2 DEF IsJoined
  <1>4. step \in [Nat \X V -> V]
    <2> HIDE DEF V, after
    <2> QED
      BY <1>3
  <1>5. PICK f : Steps(f, V, <<>>, step, n)
    <2> HIDE DEF V, step, n
    <2> QED
      BY <1>1, <1>4, StepByStep
  <1>6. QueryUpTo(f, texts)
    <2>1. f \in [0 .. n -> V] /\ f[0] = <<>> /\ \A k \in 1 .. n : f[k] = step[<<k, f[k - 1]>>]
      BY <1>5 DEF Steps
    <2>2. ASSUME NEW k \in 1 .. n PROVE f[k] = f[k - 1] \o <<Separator(k)>> \o texts[k]
      <3>1. f[k - 1] \in V /\ k \in Nat /\ text(k) = texts[k]
        <4>1. k - 1 \in 0 .. n /\ k \in Nat
          BY <1>1
        <4> HIDE DEF V, n
        <4> QED
          BY <2>1, <4>1
      <3>2. step[<<k, f[k - 1]>>] = after(k, f[k - 1])
        <4> HIDE DEF V, after
        <4> QED
          BY <3>1
      <3> QED
        BY <2>1, <3>1, <3>2
    <2> DEFINE body(k) == IF k = 0 THEN <<>> ELSE f[k - 1] \o <<Separator(k)>> \o texts[k]
    <2>3. \A k \in 0 .. n : f[k] = body(k)
      <3> TAKE k \in 0 .. n
      <3>1. k = 0 \/ (k # 0 /\ k \in 1 .. n)
        BY <1>1
      <3> QED
        BY <2>1, <2>2, <3>1
    <2>4. f = [k \in 0 .. n |-> f[k]]
      <3> HIDE DEF V
      <3> QED
        BY <2>1
    <2>5. f = [k \in 0 .. n |-> body(k)]
      <3> HIDE DEF body
      <3> QED
        BY <2>3, <2>4
    <2> QED
      BY <2>5 DEF QueryUpTo
  <1> DEFINE g == CHOOSE h : QueryUpTo(h, texts)
  <1>7. Query(texts) = g[n]
    BY DEF Query, QueryUpTo, Separator
  <1>8. QueryUpTo(g, texts)
    BY <1>6
  <1> QED
    BY <1>7, <1>8

(* The query is a question mark and what is parsed, which says what its      *)
(* texts say.                                                                *)
QueryOf(q, texts, n, o) ==
  \E b \in Seq(Alphabet) :
    /\ q = <<"?">> \o b /\ b # <<>>
    /\ Without(b, "?") /\ Without(b, "/") /\ Without(b, "@")
    /\ Taken(texts, n, o, ParseParameters(b, o))

(* What is written is what is taken.                                        *)
LEMMA QueryTaken ==
  ASSUME NEW texts, Parameters(texts), texts # <<>>, NEW o \in OptionsOf(Alphabet), o.valid
  PROVE  QueryOf(Query(texts), texts, Len(texts), o)
PROOF
  <1> DEFINE n == Len(texts)
  <1>1. /\ texts \in Seq(Seq(Alphabet)) /\ n \in Nat /\ n >= 1 /\ texts[1] # <<>>
        /\ \A i \in 1 .. n : /\ texts[i] \in Seq(Alphabet) /\ Without(texts[i], "&")
                             /\ Without(texts[i], "?") /\ Without(texts[i], "/") /\ Without(texts[i], "@")
    <2>1. texts \in Seq(Seq(Tokens)) /\ texts[1] # <<>>
      BY DEF Parameters
    <2>2. texts \in Seq(Seq(Alphabet))
      <3>1. Seq(Tokens) \subseteq Seq(Alphabet)
        BY TokensInAlphabet
      <3> QED
        BY <2>1, <3>1, SeqMonotonic
    <2>3. n \in Nat /\ n >= 1
      <3>1. n \in Nat \ {0}
        BY <2>2, EmptySeq
      <3> QED
        BY <3>1
    <2>4. \A i \in 1 .. n : texts[i] \in Seq(Alphabet)
      BY <2>2
    <2>5. \A i \in 1 .. n : \A token \in {"&", "?", "/", "@"} : Without(texts[i], token)
      BY DEF Parameters, Text
    <2> QED
      BY <2>1, <2>2, <2>3, <2>4, <2>5
  <1>2. PICK f : QueryUpTo(f, texts) /\ Query(texts) = f[n]
    BY <1>1, QueryIs
  <1>3. f[0] = <<>> /\ \A k \in 1 .. n : f[k] = f[k - 1] \o <<Separator(k)>> \o texts[k]
    <2>1. 0 \in 0 .. n /\ \A k \in 1 .. n : k \in 0 .. n /\ k # 0
      BY <1>1
    <2> QED
      BY <1>2, <2>1 DEF QueryUpTo
  <1> HIDE DEF n
  <1> DEFINE N == {k \in Nat : k + 1 <= n => QueryOf(f[k + 1], texts, k + 1, o)}
  <1>4. 0 \in N
    <2> DEFINE b == texts[1]
    <2>1. 1 \in 1 .. n /\ b \in Seq(Alphabet) /\ b # <<>>
      BY <1>1
    <2>2. f[1] = <<"?">> \o b
      <3>1. f[1] = <<>> \o <<"?">> \o b
        <4>1. 1 - 1 = 0
          OBVIOUS
        <4> QED
          BY <1>3, <2>1, <4>1 DEF Separator
      <3>2. <<>> \o <<"?">> = <<"?">>
        <4>1. <<"?">> \in Seq(Alphabet)
          BY AlphabetHas
        <4> QED
          BY <4>1, ConcatEmptySeq
      <3> QED
        BY <3>1, <3>2
    <2>3. ParseParameters(b, o) = SetParameter(b, o)
      BY <1>1, <2>1, LastParameter
    <2>4. Taken(texts, 0, o, o)
      <3>1. \A i \in 1 .. 0 : FALSE
        OBVIOUS
      <3> QED
        BY <3>1 DEF Taken, SaysUpTo, Others
    <2>5. Taken(texts, 0 + 1, o, SetParameter(texts[0 + 1], o))
      <3>1. 0 \in 0 .. Len(texts) - 1
        BY <1>1 DEF n
      <3> QED
        BY <1>1, <2>4, <3>1, TakenMore
    <2>6. Taken(texts, 1, o, ParseParameters(b, o))
      BY <2>3, <2>5
    <2>7. Without(b, "?") /\ Without(b, "/") /\ Without(b, "@")
      BY <1>1, <2>1
    <2> HIDE DEF b
    <2>8. QueryOf(f[1], texts, 1, o)
      BY <2>1, <2>2, <2>6, <2>7 DEF QueryOf
    <2> QED
      BY <2>8
  <1>5. ASSUME NEW k \in Nat, k \in N PROVE k + 1 \in N
    <2>1. CASE k + 1 + 1 <= n
      <3> DEFINE m == k + 1
                 c == texts[m + 1]
      <3>1. m \in 1 .. n /\ m + 1 \in 1 .. n /\ m + 1 # 1 /\ (m + 1) - 1 = m /\ m \in 0 .. n - 1
        BY <1>1, <2>1
      <3>2. QueryOf(f[m], texts, m, o)
        BY <1>5, <3>1
      <3> HIDE DEF m
      <3>3. PICK a \in Seq(Alphabet) :
              /\ f[m] = <<"?">> \o a /\ a # <<>>
              /\ Without(a, "?") /\ Without(a, "/") /\ Without(a, "@")
              /\ Taken(texts, m, o, ParseParameters(a, o))
        BY <3>2 DEF QueryOf
      <3>4. /\ c \in Seq(Alphabet) /\ Without(c, "&")
            /\ Without(c, "?") /\ Without(c, "/") /\ Without(c, "@")
        BY <1>1, <3>1
      <3>5. f[m + 1] = f[m] \o <<"&">> \o c
        BY <1>3, <3>1 DEF Separator
      <3> DEFINE b == a \o <<"&">> \o c
                 r == ParseParameters(a, o)
      <3>6. ParseParameters(b, o) = SetParameter(c, r)
        <4> HIDE DEF c
        <4> QED
          BY <3>3, <3>4, LastParameter
      <3>7. r \in OptionsOf(Alphabet)
        BY <3>3, AlphabetHas, ParametersSet
      <3>8. Taken(texts, m + 1, o, SetParameter(texts[m + 1], r))
        <4>1. m \in 0 .. Len(texts) - 1
          BY <3>1 DEF n
        <4> HIDE DEF r
        <4> QED
          BY <1>1, <3>3, <3>7, <4>1, TakenMore DEF r
      <3>9. Taken(texts, m + 1, o, ParseParameters(b, o))
        <4> HIDE DEF b, r
        <4> QED
          BY <3>6, <3>8
      <3> HIDE DEF c
      <3>10. f[m + 1] = <<"?">> \o b
        <4>1. <<"?">> \in Seq(Alphabet) /\ <<"&">> \in Seq(Alphabet) /\ a \o <<"&">> \in Seq(Alphabet)
              /\ c \in Seq(Alphabet)
          BY <3>4, AlphabetHas
        <4>2. (<<"?">> \o a) \o <<"&">> = <<"?">> \o (a \o <<"&">>)
          BY <4>1, ConcatAssociative
        <4>3. (<<"?">> \o (a \o <<"&">>)) \o c = <<"?">> \o ((a \o <<"&">>) \o c)
          BY <4>1, ConcatAssociative
        <4> QED
          BY <3>3, <3>5, <4>2, <4>3
      <3>11. IsJoined(b, a, "&", c, Alphabet)
        BY <3>4, AlphabetHas, JoinedIs
      <3> HIDE DEF b
      <3>12. ASSUME NEW d, d # "&", Without(a, d), Without(c, d) PROVE Without(b, d)
        BY <3>4, <3>11, <3>12, WithoutJoined
      <3>13. Without(b, "?") /\ Without(b, "/") /\ Without(b, "@")
        <4>1. "?" # "&" /\ "/" # "&" /\ "@" # "&"
          OBVIOUS
        <4> QED
          BY <3>3, <3>4, <3>12, <4>1
      <3>14. QueryOf(f[m + 1], texts, m + 1, o)
        BY <3>9, <3>10, <3>11, <3>13 DEF QueryOf, IsJoined
      <3> QED
        BY <3>14 DEF m
    <2> QED
      BY <2>1
  <1>6. Nat \subseteq N
    <2> HIDE DEF N
    <2> QED
      BY <1>4, <1>5, SetInduction
  <1>7. n - 1 \in Nat /\ (n - 1) + 1 = n
    BY <1>1
  <1>8. QueryOf(f[(n - 1) + 1], texts, (n - 1) + 1, o)
    BY <1>6, <1>7
  <1> QED
    BY <1>2, <1>7, <1>8 DEF n

-----------------------------------------------------------------------------
(* The whole URI.                                                          *)

(* What is in neither part is not in the whole.                             *)
LEMMA WithoutConcat ==
  ASSUME NEW S, NEW a \in Seq(S), NEW b \in Seq(S), NEW t
  PROVE  Without(a \o b, t) <=> Without(a, t) /\ Without(b, t)
PROOF
  <1> DEFINE s == a \o b
  <1>1. /\ s \in Seq(S) /\ Len(s) = Len(a) + Len(b) /\ Len(a) \in Nat /\ Len(b) \in Nat
        /\ \A i \in 1 .. Len(s) : s[i] = IF i <= Len(a) THEN a[i] ELSE b[i - Len(a)]
    BY ConcatProperties
  <1> HIDE DEF s
  <1>2. ASSUME Without(a, t), Without(b, t), NEW i \in 1 .. Len(s) PROVE s[i] # t
    <2>1. CASE i <= Len(a)
      <3>1. i \in 1 .. Len(a) /\ s[i] = a[i]
        BY <1>1, <2>1
      <3> QED
        BY <1>2, <3>1 DEF Without
    <2>2. CASE ~(i <= Len(a))
      <3>1. i - Len(a) \in 1 .. Len(b) /\ s[i] = b[i - Len(a)]
        BY <1>1, <2>2
      <3> QED
        BY <1>2, <3>1 DEF Without
    <2> QED
      BY <2>1, <2>2
  <1>3. ASSUME Without(s, t) PROVE Without(a, t) /\ Without(b, t)
    <2>1. ASSUME NEW i \in 1 .. Len(a) PROVE a[i] # t
      <3>1. i \in 1 .. Len(s) /\ i <= Len(a)
        BY <1>1
      <3> QED
        BY <1>1, <1>3, <3>1 DEF Without
    <2>2. ASSUME NEW i \in 1 .. Len(b) PROVE b[i] # t
      <3> DEFINE j == Len(a) + i
      <3>1. j \in 1 .. Len(s) /\ ~(j <= Len(a)) /\ j - Len(a) = i
        BY <1>1
      <3> HIDE DEF j
      <3>2. s[j] = b[i] /\ s[j] # t
        BY <1>1, <1>3, <3>1 DEF Without
      <3> QED
        BY <3>2
    <2> QED
      BY <2>1, <2>2 DEF Without
  <1>4. Without(s, t) <=> Without(a, t) /\ Without(b, t)
    <2>1. Without(a, t) /\ Without(b, t) => Without(s, t)
      BY <1>2 DEF Without
    <2> QED
      BY <1>3, <2>1
  <1> QED
    BY <1>4 DEF s

(* A string of one token.                                                   *)
LEMMA WithoutOne == ASSUME NEW x, NEW t, x # t PROVE Without(<<x>>, t)
PROOF
  <1>1. \A F : F = <<x>> => Len(F) = 1 /\ F[1] = x
    OBVIOUS
  <1> QED
    BY <1>1 DEF Without

(* The options after the name of the user and the password.                 *)
Known(q, user, password) ==
  /\ q.valid /\ q.type = "tcp" /\ q.host = <<>> /\ q.port = 6379 /\ q.path = <<>>
  /\ q.user = user /\ q.password = password /\ q.db = 0
  /\ q.keepAlive = FALSE /\ q.connectTimeout = 0 /\ q.socketTimeout = 0 /\ q.readonly = FALSE

(* The defaults, member by member.                                          *)
LEMMA DefaultMembers ==
  /\ DefaultOptions.valid /\ DefaultOptions.type = "tcp" /\ DefaultOptions.host = <<>>
  /\ DefaultOptions.port = 6379 /\ DefaultOptions.path = <<>>
  /\ DefaultOptions.user = <<"default">> /\ DefaultOptions.password = <<>> /\ DefaultOptions.db = 0
  /\ DefaultOptions.keepAlive = FALSE /\ DefaultOptions.connectTimeout = 0
  /\ DefaultOptions.socketTimeout = 0 /\ DefaultOptions.readonly = FALSE
PROOF BY DEF DefaultOptions

(* The user and the password are set, and nothing else.                     *)
SameBut(q, o) ==
  /\ q.valid = o.valid /\ q.type = o.type /\ q.host = o.host /\ q.port = o.port /\ q.path = o.path
  /\ q.db = o.db /\ q.keepAlive = o.keepAlive /\ q.connectTimeout = o.connectTimeout
  /\ q.socketTimeout = o.socketTimeout /\ q.readonly = o.readonly

WithPassword(o, x) == [o EXCEPT !.password = x]
WithUser(o, x, y)  == [o EXCEPT !.user = x, !.password = y]

(* The user and the password are set, and nothing else.                     *)
LEMMA UserSet ==
  ASSUME NEW S, NEW o \in OptionsOf(S), NEW x, NEW y
  PROVE  /\ SameBut(WithPassword(o, x), o)
         /\ WithPassword(o, x).user = o.user /\ WithPassword(o, x).password = x
         /\ SameBut(WithUser(o, x, y), o)
         /\ WithUser(o, x, y).user = x /\ WithUser(o, x, y).password = y
PROOF BY DEF OptionsOf, SameBut, WithPassword, WithUser

(* What is known of the options once they are set.                          *)
LEMMA KnownIs ==
  ASSUME NEW x, NEW y
  PROVE  /\ Known(DefaultOptions, <<"default">>, <<>>)
         /\ Known(WithPassword(DefaultOptions, x), <<"default">>, x)
         /\ Known(WithUser(DefaultOptions, x, y), x, y)
PROOF
  <1>1. DefaultOptions \in OptionsOf(Alphabet)
    BY DefaultTypes, AlphabetHas
  <1>2. Known(DefaultOptions, <<"default">>, <<>>)
    BY DefaultMembers DEF Known
  <1>3. ASSUME NEW q, SameBut(q, DefaultOptions) PROVE Known(q, q.user, q.password)
    BY <1>2, <1>3 DEF Known, SameBut
  <1>4. /\ SameBut(WithPassword(DefaultOptions, x), DefaultOptions)
        /\ WithPassword(DefaultOptions, x).user = <<"default">>
        /\ WithPassword(DefaultOptions, x).password = x
    BY <1>1, DefaultMembers, UserSet
  <1>5. /\ SameBut(WithUser(DefaultOptions, x, y), DefaultOptions)
        /\ WithUser(DefaultOptions, x, y).user = x
        /\ WithUser(DefaultOptions, x, y).password = y
    BY <1>1, UserSet
  <1>6. Known(WithPassword(DefaultOptions, x), <<"default">>, x)
    <2> DEFINE q == WithPassword(DefaultOptions, x)
    <2>1. Known(q, q.user, q.password)
      BY <1>3, <1>4
    <2> QED
      BY <1>4, <2>1
  <1>7. Known(WithUser(DefaultOptions, x, y), x, y)
    <2> DEFINE q == WithUser(DefaultOptions, x, y)
    <2>1. Known(q, q.user, q.password)
      BY <1>3, <1>5
    <2> QED
      BY <1>5, <2>1
  <1> QED
    BY <1>2, <1>6, <1>7

(* The user, the password and what is written for them are strings.         *)
LEMMA AuthTypes ==
  ASSUME NEW a, Auth(a)
  PROVE  /\ a.text \in Seq(Alphabet) /\ a.user \in Seq(Alphabet) /\ a.password \in Seq(Alphabet)
         /\ a.text = <<>> \/ \E w \in Seq(Alphabet) : a.text = w \o <<"@">> /\ w \in Seq(Alphabet)
PROOF
  <1>1. <<>> \in Seq(Alphabet) /\ <<"default">> \in Seq(Alphabet) /\ <<"@">> \in Seq(Alphabet)
        /\ <<":">> \in Seq(Alphabet)
    BY AlphabetHas
  <1>2. \A x, y \in Seq(Alphabet) : x \o y \in Seq(Alphabet)
    BY ConcatProperties
  <1>3. CASE a.text = <<>> /\ a.user = <<"default">> /\ a.password = <<>>
    BY <1>1, <1>3
  <1>4. CASE /\ Text(a.password, {":", "@"}) /\ a.user = <<"default">>
             /\ a.text = a.password \o <<"@">>
    <2>1. a.password \in Seq(Alphabet)
      BY <1>4, TokensInAlphabet DEF Text
    <2> QED
      BY <1>1, <1>2, <1>4, <2>1
  <1>5. CASE /\ Text(a.user, {":", "@"}) /\ Text(a.password, {"@"})
             /\ a.text = a.user \o <<":">> \o a.password \o <<"@">>
    <2>1. a.password \in Seq(Alphabet) /\ a.user \in Seq(Alphabet)
      BY <1>5, TokensInAlphabet DEF Text
    <2>2. a.user \o <<":">> \o a.password \in Seq(Alphabet)
      BY <1>1, <1>2, <2>1
    <2> QED
      BY <1>1, <1>2, <1>5, <2>1, <2>2
  <1> QED
    BY <1>3, <1>4, <1>5 DEF Auth

(* What is written for the user and the password, less the sign behind it, sets*)
(* them.                                                                    *)
LEMMA AuthKnown ==
  ASSUME NEW a, Auth(a)
  PROVE  \E w \in Seq(Alphabet) :
           /\ Without(w, "@")
           /\ a.text = IF a.text = <<>> THEN w ELSE w \o <<"@">>
           /\ Known(SetAuthOpts(w, DefaultOptions), a.user, a.password)
PROOF
  <1>2. Without(<<>>, "@") /\ <<>> \in Seq(Alphabet)
    <2>1. Len(<<>>) = 0
      OBVIOUS
    <2> QED
      BY <2>1 DEF Without
  <1>3. CASE a.text = <<>> /\ a.user = <<"default">> /\ a.password = <<>>
    <2>1. SetAuthOpts(<<>>, DefaultOptions) = DefaultOptions
      BY DEF SetAuthOpts
    <2>2. Known(SetAuthOpts(<<>>, DefaultOptions), a.user, a.password)
      BY <1>3, <2>1, KnownIs
    <2> QED
      BY <1>2, <1>3, <2>2
  <1>4. CASE /\ Text(a.password, {":", "@"}) /\ a.user = <<"default">>
             /\ a.text = a.password \o <<"@">>
    <2> DEFINE w == a.password
    <2>1. w \in Seq(Alphabet) /\ Without(w, ":") /\ Without(w, "@")
      BY <1>4, TokensInAlphabet DEF Text
    <2>2. Find(w, ":") = 0
      BY <2>1, FindNone
    <2>3. SetAuthOpts(w, DefaultOptions) =
            IF w = <<>> THEN DefaultOptions ELSE WithPassword(DefaultOptions, w)
      BY <2>2 DEF SetAuthOpts, WithPassword
    <2>4. Known(SetAuthOpts(w, DefaultOptions), <<"default">>, w)
      BY <2>3, KnownIs
    <2>5. Known(SetAuthOpts(w, DefaultOptions), a.user, a.password)
      BY <1>4, <2>4
    <2>6. a.text # <<>>
      <3>1. <<"@">> \in Seq(Alphabet) /\ Len(<<"@">>) = 1
        BY AlphabetHas
      <3>2. Len(w \o <<"@">>) = Len(w) + 1 /\ Len(w) \in Nat
        BY <2>1, <3>1, ConcatProperties
      <3>3. \A F : F = <<>> => Len(F) = 0
        OBVIOUS
      <3> QED
        BY <1>4, <3>2, <3>3
    <2> QED
      BY <1>4, <2>1, <2>5, <2>6
  <1>5. CASE /\ Text(a.user, {":", "@"}) /\ Text(a.password, {"@"})
             /\ a.text = a.user \o <<":">> \o a.password \o <<"@">>
    <2> DEFINE n == a.user
               c == a.password
               w == n \o <<":">> \o c
    <2>1. /\ n \in Seq(Alphabet) /\ Without(n, ":") /\ Without(n, "@")
          /\ c \in Seq(Alphabet) /\ Without(c, "@")
      BY <1>5, TokensInAlphabet DEF Text
    <2>2. IsJoined(w, n, ":", c, Alphabet)
      BY <2>1, AlphabetHas, JoinedIs
    <2>3. Find(w, ":") = Len(n) + 1
      BY <2>1, AlphabetHas, FindJoined
    <2>4. Before(w, Len(n) + 1) = n /\ After(w, Len(n) + 1) = c
      BY <2>1, AlphabetHas, JoinedCut
    <2>5. Without(w, "@")
      <3> HIDE DEF w
      <3>1. ":" # "@" /\ "@" # ":"
        OBVIOUS
      <3> QED
        BY <2>1, <2>2, <3>1, WithoutJoined
    <2>6. w \in Seq(Alphabet) /\ w # <<>>
      BY <2>2 DEF IsJoined
    <2>7. Known(SetAuthOpts(w, DefaultOptions), a.user, a.password)
      <3>1. Len(n) + 1 # 0
        BY <2>1
      <3> HIDE DEF w
      <3>2. SetAuthOpts(w, DefaultOptions) = WithUser(DefaultOptions, n, c)
        BY <2>3, <2>4, <2>6, <3>1 DEF SetAuthOpts, WithUser
      <3> QED
        BY <3>2, KnownIs
    <2>8. a.text = w \o <<"@">>
      BY <1>5
    <2> HIDE DEF w
    <2>9. a.text # <<>>
      <3>1. <<"@">> \in Seq(Alphabet) /\ Len(<<"@">>) = 1
        BY AlphabetHas
      <3>2. Len(w \o <<"@">>) = Len(w) + 1 /\ Len(w) \in Nat
        BY <2>6, <3>1, ConcatProperties
      <3>3. \A F : F = <<>> => Len(F) = 0
        OBVIOUS
      <3> QED
        BY <2>8, <3>2, <3>3
    <2> QED
      BY <2>5, <2>6, <2>7, <2>8, <2>9
  <1> QED
    BY <1>3, <1>4, <1>5 DEF Auth

(* The pieces are the parts.                                                *)
UriWith(type, auth, path) == <<type>> \o <<"://">> \o (auth \o path)

UriPieces(u, type, path, a) ==
  /\ Find(u, "://") # 0
  /\ SplitUri(u).type = <<type>> /\ SplitUri(u).path = path
  /\ Known(SetAuthOpts(SplitUri(u).auth, DefaultOptions), a.user, a.password)

(* The URI comes apart where it was put together.                           *)
LEMMA PiecesAre ==
  ASSUME NEW type \in Alphabet \ {"://"}, NEW a, Auth(a),
         NEW path \in Seq(Alphabet), Without(path, "@"),
         NEW u, u = UriWith(type, a.text, path)
  PROVE  UriPieces(u, type, path, a)
PROOF
  <1> DEFINE t == <<type>>
             rest == a.text \o path
  <1>1. t \in Seq(Alphabet) /\ Len(t) = 1 /\ Without(t, "://")
    BY WithoutOne
  <1>2. a.text \in Seq(Alphabet) /\ rest \in Seq(Alphabet)
    <2>1. a.text \in Seq(Alphabet)
      BY AuthTypes
    <2> QED
      BY <2>1, ConcatProperties
  <1>3. PICK w \in Seq(Alphabet) :
          /\ Without(w, "@")
          /\ a.text = IF a.text = <<>> THEN w ELSE w \o <<"@">>
          /\ Known(SetAuthOpts(w, DefaultOptions), a.user, a.password)
    BY AuthKnown
  <1> HIDE DEF t
  <1>4. u = t \o <<"://">> \o rest
    BY DEF t, UriWith
  <1> DEFINE n == Len(t) + 1
  <1>5. Find(u, "://") = n /\ Before(u, n) = t /\ After(u, n) = rest
    <2> HIDE DEF rest
    <2>1. "://" \in Alphabet
      BY AlphabetHas
    <2>2. Find(t \o <<"://">> \o rest, "://") = Len(t) + 1
      BY <1>1, <1>2, <2>1, FindJoined
    <2>3. /\ Before(t \o <<"://">> \o rest, Len(t) + 1) = t
          /\ After(t \o <<"://">> \o rest, Len(t) + 1) = rest
      BY <1>1, <1>2, <2>1, JoinedCut, ZenonT(60)
    <2> QED
      BY <1>4, <2>2, <2>3
  <1>6. n # 0
    BY <1>1
  <1> DEFINE sign == Find(rest, "@")
  <1>7. After(rest, sign) = path /\ Before(rest, sign) = w
    <2>1. CASE a.text = <<>>
      <3>1. w = <<>> /\ rest = path
        BY <1>3, <2>1, ConcatEmptySeq
      <3>2. sign = 0
        BY <3>1, FindNone
      <3>3. 0 \in 0 .. Len(path)
        OBVIOUS
      <3>4. After(path, 0) = path /\ Before(path, 0) = <<>>
        BY <3>3, CutIs
      <3> QED
        BY <3>1, <3>2, <3>4
    <2>2. CASE a.text # <<>>
      <3>1. rest = w \o <<"@">> \o path
        BY <1>3, <2>2
      <3>2. "@" \in Alphabet
        BY AlphabetHas
      <3>3. Find(w \o <<"@">> \o path, "@") = Len(w) + 1
        BY <1>3, <3>2, FindJoined
      <3>4. /\ Before(w \o <<"@">> \o path, Len(w) + 1) = w
            /\ After(w \o <<"@">> \o path, Len(w) + 1) = path
        BY <3>2, JoinedCut
      <3> QED
        BY <3>1, <3>3, <3>4
    <2> QED
      BY <2>1, <2>2
  <1>8. SplitUri(u) = [type |-> t, auth |-> w, path |-> path]
    <2> HIDE DEF n, rest
    <2> QED
      BY <1>5, <1>7 DEF SplitUri
  <1>9. SplitUri(u).type = t /\ SplitUri(u).auth = w /\ SplitUri(u).path = path
    BY <1>8
  <1> QED
    BY <1>3, <1>5, <1>6, <1>9 DEF t, UriPieces

(* A query, or none.                                                        *)
AsksFor(q, b) ==
  \/ q = <<>> /\ b = <<>>
  \/ q = <<"?">> \o b /\ Without(b, "?") /\ Without(b, "/") /\ Without(b, "@")

(* The empty string.                                                        *)
LEMMA EmptyText == <<>> \in Seq(Alphabet) /\ \A token : Without(<<>>, token)
PROOF
  <1>1. \A F : F = <<>> => Len(F) = 0 /\ F \in Seq(Alphabet)
    OBVIOUS
  <1> QED
    BY <1>1 DEF Without

(* There is no slash in a query.                                            *)
LEMMA AskText ==
  ASSUME NEW b \in Seq(Alphabet), NEW q, AsksFor(q, b)
  PROVE  q \in Seq(Alphabet) /\ Without(q, "/")
PROOF
  <1>1. CASE q = <<>>
    BY <1>1, EmptyText
  <1>2. CASE q = <<"?">> \o b /\ Without(b, "/")
    <2>1. "?" # "/"
      OBVIOUS
    <2>2. <<"?">> \in Seq(Alphabet) /\ Without(<<"?">>, "/")
      BY <2>1, AlphabetHas, WithoutOne
    <2> QED
      BY <1>2, <2>2, WithoutConcat, ConcatProperties
  <1> QED
    BY <1>1, <1>2 DEF AsksFor

(* A string begins the way its first part does.                             *)
LEMMA BeginsAlike ==
  ASSUME NEW S, NEW x \in Seq(S), x # <<>>, NEW y \in Seq(S)
  PROVE  x \o y # <<>> /\ Head(x \o y) = Head(x)
PROOF
  <1> DEFINE s == x \o y
  <1>1. Len(x) \in Nat \ {0} /\ Len(y) \in Nat /\ Head(x) = x[1]
    BY EmptySeq
  <1>2. /\ s \in Seq(S) /\ Len(s) = Len(x) + Len(y)
        /\ \A i \in 1 .. Len(x) + Len(y) : s[i] = IF i <= Len(x) THEN x[i] ELSE y[i - Len(x)]
    BY ConcatProperties
  <1> HIDE DEF s
  <1>3. 1 \in 1 .. Len(x) + Len(y) /\ 1 <= Len(x) /\ Len(s) # 0
    BY <1>1, <1>2
  <1>4. s[1] = x[1]
    BY <1>2, <1>3
  <1>5. s # <<>>
    <2>1. \A F : F = <<>> => Len(F) = 0
      OBVIOUS
    <2> QED
      BY <1>3, <2>1
  <1>6. Head(s) = s[1]
    BY <1>2, <1>5
  <1> QED
    BY <1>1, <1>4, <1>5, <1>6 DEF s

(* A number is read from the front: the query behind it makes no difference. *)
LEMMA ReadThere ==
  ASSUME NEW x \in Seq(Alphabet), NEW b \in Seq(Alphabet), NEW q, AsksFor(q, b)
  PROVE  /\ IsInt(x \o q) <=> IsInt(x)
         /\ IsInt(x) => Number(x \o q) = Number(x)
PROOF
  <1>1. q \in Seq(Alphabet)
    BY AskText
  <1>2. CASE x # <<>>
    <2>1. x \o q # <<>> /\ Head(x \o q) = Head(x)
      BY <1>1, <1>2, BeginsAlike
    <2> DEFINE s == x \o q
    <2> HIDE DEF s
    <2>2. s # <<>> /\ Head(s) = Head(x)
      BY <2>1 DEF s
    <2>3. Number(s) = Number(x) /\ (IsNumber(s) <=> IsNumber(x))
      BY <1>2, <2>2 DEF IsNumber, Number
    <2> QED
      BY <2>3 DEF IsInt, s
  <1>3. CASE x = <<>>
    <2>1. x \o q = q
      BY <1>1, <1>3, ConcatEmptySeq
    <2>2. ~IsInt(x)
      BY <1>3 DEF IsInt, IsNumber
    <2>3. CASE q = <<>>
      BY <1>3, <2>1, <2>2, <2>3
    <2>4. CASE q = <<"?">> \o b
      <3>1. <<"?">> \in Seq(Alphabet) /\ <<"?">> # <<>> /\ Head(<<"?">>) = "?"
        BY AlphabetHas
      <3>2. Head(<<"?">> \o b) = Head(<<"?">>)
        BY <3>1, BeginsAlike
      <3>3. Head(q) = "?"
        BY <2>4, <3>1, <3>2
      <3>4. ~IsInt(q)
        BY <3>3, DelimitersApart DEF IsInt, IsNumber
      <3> QED
        BY <2>1, <2>2, <3>4
    <2> QED
      BY <2>3, <2>4 DEF AsksFor
  <1> QED
    BY <1>2, <1>3

(* The last slash of a path, and what is on either side of it.              *)
Slashed(path, a, c) ==
  RFind(path, "/") # 0 /\ Before(path, RFind(path, "/")) = a /\ After(path, RFind(path, "/")) = c

(* The query does not hide the last slash.                                  *)
LEMMA SlashAt ==
  ASSUME NEW a \in Seq(Alphabet), NEW x \in Seq(Alphabet), Without(x, "/"),
         NEW b \in Seq(Alphabet), NEW q, AsksFor(q, b)
  PROVE  Slashed(a \o <<"/">> \o x \o q, a, x \o q)
PROOF
  <1>1. q \in Seq(Alphabet) /\ Without(q, "/") /\ "/" \in Alphabet
    BY AskText, AlphabetHas
  <1>2. PICK c : c = x \o q
    OBVIOUS
  <1>3. c \in Seq(Alphabet) /\ Without(c, "/")
    BY <1>1, <1>2, WithoutConcat, ConcatProperties
  <1>4. a \o <<"/">> \o x \o q = a \o <<"/">> \o c
    <2>1. <<"/">> \in Seq(Alphabet)
      BY <1>1
    <2>2. PICK h \in Seq(Alphabet) : h = a \o <<"/">>
      BY <2>1, ConcatProperties
    <2>3. h \o x \o q = h \o (x \o q)
      BY <1>1, ConcatAssociative, SMTT(30)
    <2> QED
      BY <1>2, <2>2, <2>3
  <1>5. RFind(a \o <<"/">> \o c, "/") = Len(a) + 1
    BY <1>1, <1>3, FindJoined
  <1>6. /\ Before(a \o <<"/">> \o c, Len(a) + 1) = a
        /\ After(a \o <<"/">> \o c, Len(a) + 1) = c
    BY <1>1, <1>3, JoinedCut
  <1>7. Len(a) + 1 # 0
    OBVIOUS
  <1> QED
    BY <1>2, <1>4, <1>5, <1>6, <1>7 DEF Slashed

(* What is written for the database.                                        *)
LEMMA DbWritten ==
  ASSUME NEW d, Db(d)
  PROVE  /\ d.text \in Seq(Alphabet) /\ Without(d.text, "@") /\ Without(d.text, "?")
         /\ d.db \in Int
PROOF
  <1>1. CASE d.text = <<>> /\ d.db = 0
    BY <1>1, EmptyText
  <1>2. CASE /\ d.text = <<"/">> \o DbText(d) /\ Text(DbText(d), {"/", "?", "@"})
             /\ IsInt(DbText(d)) /\ d.db = Number(DbText(d))
    <2> DEFINE x == DbText(d)
    <2>1. x \in Seq(Alphabet) /\ Without(x, "@") /\ Without(x, "?")
      BY <1>2, TokensInAlphabet DEF Text
    <2>2. "/" # "@" /\ "/" # "?"
      OBVIOUS
    <2>3. <<"/">> \in Seq(Alphabet) /\ Without(<<"/">>, "@") /\ Without(<<"/">>, "?")
      BY <2>2, AlphabetHas, WithoutOne
    <2>4. d.text = <<"/">> \o x
      BY <1>2
    <2>5. Number(x) \in Int
      BY <1>2, NumberInt DEF IsInt
    <2>6. d.db \in Int
      BY <1>2, <2>5
    <2> HIDE DEF x
    <2>7. <<"/">> \o x \in Seq(Alphabet)
      BY <2>1, <2>3, ConcatProperties
    <2>8. Without(<<"/">> \o x, "@") /\ Without(<<"/">> \o x, "?")
      BY <2>1, <2>3, WithoutConcat
    <2> QED
      BY <2>4, <2>6, <2>7, <2>8
  <1> QED
    BY <1>1, <1>2 DEF Db

(* The path, the number of the database and the query come apart.           *)
LEMMA PathIs ==
  ASSUME NEW t \in Seq(Alphabet), Without(t, "?"), NEW d, Db(d), d.text = <<>> => Unnumbered(t),
         NEW b \in Seq(Alphabet), NEW q, AsksFor(q, b),
         NEW path, path = t \o d.text \o q
  PROVE  SplitPath(path) = [path |-> t, db |-> d.db, parameters |-> b]
PROOF
  <1>1. q \in Seq(Alphabet) /\ Without(q, "/") /\ <<"?">> \in Seq(Alphabet)
    BY AskText, AlphabetHas
  <1>2. d.text \in Seq(Alphabet) /\ Without(d.text, "?")
    BY DbWritten
  <1> DEFINE front == t \o d.text
             mark == RFind(path, "?")
             slash == RFind(path, "/")
  <1>3. front \in Seq(Alphabet) /\ Without(front, "?")
    BY <1>2, WithoutConcat, ConcatProperties
  <1>4. path \in Seq(Alphabet)
    BY <1>1, <1>3, ConcatProperties
  <1>5. /\ (IF mark = 0 THEN path ELSE Before(path, mark)) = front
        /\ (IF mark = 0 THEN <<>> ELSE After(path, mark)) = b
    <2> HIDE DEF front
    <2>1. path = front \o q
      BY DEF front
    <2>2. CASE q = <<>> /\ b = <<>>
      <3>1. path = front
        BY <1>3, <2>1, <2>2, ConcatEmptySeq
      <3>2. mark = 0
        BY <1>3, <3>1, FindNone
      <3> QED
        BY <2>2, <3>1, <3>2
    <2>3. CASE q = <<"?">> \o b /\ Without(b, "?")
      <3>1. path = front \o <<"?">> \o b
        <4>1. (front \o <<"?">>) \o b = front \o (<<"?">> \o b)
          BY <1>1, <1>3, ConcatAssociative
        <4> QED
          BY <2>1, <2>3, <4>1
      <3>2. "?" \in Alphabet
        BY AlphabetHas
      <3>3. RFind(front \o <<"?">> \o b, "?") = Len(front) + 1
        BY <1>3, <2>3, <3>2, FindJoined
      <3>4. /\ Before(front \o <<"?">> \o b, Len(front) + 1) = front
            /\ After(front \o <<"?">> \o b, Len(front) + 1) = b
        BY <1>3, <3>2, JoinedCut
      <3>5. Len(front) + 1 # 0
        BY <1>3
      <3> QED
        BY <3>1, <3>3, <3>4, <3>5
    <2> QED
      BY <2>2, <2>3 DEF AsksFor
  <1> DEFINE numbered == slash # 0 /\ IsInt(After(path, slash))
  <1>6. CASE d.text = <<>> /\ d.db = 0
    <2>1. front = t /\ path = t \o q
      BY <1>6, ConcatEmptySeq
    <2>2. Unnumbered(t)
      BY <1>6
    <2>3. ~numbered
      <3>1. CASE Without(t, "/")
        <4>1. path \in Seq(Alphabet) /\ Without(path, "/")
          BY <1>1, <2>1, <3>1, WithoutConcat, ConcatProperties
        <4> QED
          BY <4>1, FindNone
      <3>2. CASE ~Without(t, "/")
        <4>1. PICK a \in Seq(Alphabet), x \in Seq(Alphabet) :
                t = a \o <<"/">> \o x /\ Without(x, "/")
          BY <3>2, AlphabetHas, CutAtLast
        <4>2. "/" \in Alphabet
          BY AlphabetHas
        <4>3. RFind(a \o <<"/">> \o x, "/") = Len(a) + 1 /\ Len(a) + 1 # 0
          BY <4>1, <4>2, FindJoined
        <4>4. After(a \o <<"/">> \o x, Len(a) + 1) = x
          BY <4>2, JoinedCut
        <4>5. ~IsInt(x)
          BY <2>2, <4>1, <4>3, <4>4 DEF Unnumbered
        <4>6. After(path, slash) = x \o q
          <5>1. path = a \o <<"/">> \o x \o q
            BY <2>1, <4>1
          <5>2. Slashed(a \o <<"/">> \o x \o q, a, x \o q)
            BY <4>1, SlashAt
          <5> QED
            BY <5>1, <5>2 DEF Slashed
        <4>7. ~IsInt(x \o q)
          BY <4>5, ReadThere
        <4> QED
          BY <4>6, <4>7
      <3> QED
        BY <3>1, <3>2
    <2> HIDE DEF mark, slash, front
    <2> QED
      BY <1>5, <1>6, <2>1, <2>3 DEF SplitPath, mark, slash
  <1>7. CASE /\ d.text = <<"/">> \o DbText(d) /\ Text(DbText(d), {"/", "?", "@"})
             /\ IsInt(DbText(d)) /\ d.db = Number(DbText(d))
    <2>1. PICK x : x = DbText(d)
      OBVIOUS
    <2>2. x \in Seq(Alphabet) /\ Without(x, "/") /\ IsInt(x) /\ Number(x) = d.db
      BY <1>7, <2>1, TokensInAlphabet DEF Text
    <2>3. <<"/">> \in Seq(Alphabet)
      BY AlphabetHas
    <2>4. path = t \o <<"/">> \o x \o q
      <3>1. PICK s \in Seq(Alphabet) : s = <<"/">>
        BY <2>3
      <3>2. t \o (s \o x) = t \o s \o x
        BY <2>2, ConcatAssociative
      <3> QED
        BY <1>7, <2>1, <3>1, <3>2
    <2>5. slash # 0 /\ Before(path, slash) = t /\ After(path, slash) = x \o q
      <3>1. Slashed(t \o <<"/">> \o x \o q, t, x \o q)
        BY <2>2, SlashAt
      <3> QED
        BY <2>4, <3>1 DEF Slashed
    <2>6. IsInt(x \o q) /\ Number(x \o q) = d.db
      BY <2>2, ReadThere
    <2> HIDE DEF mark, slash, front
    <2>7. IsInt(After(path, slash)) /\ Number(After(path, slash)) = d.db
      BY <2>5, <2>6
    <2> QED
      BY <1>5, <2>5, <2>7 DEF SplitPath, mark, slash
  <1> QED
    BY <1>6, <1>7 DEF Db

(* What a place is, by its type.                                            *)
LEMMA PlaceKinds ==
  ASSUME NEW p, Place(p)
  PROVE  /\ p.type = "tcp" => TcpPlace(p)
         /\ p.type = "unix" => UnixPlace(p)
         /\ p.type # "tcp" /\ p.type # "unix" => ~p.right
PROOF
  <1>1. "unix" # "tcp"
    OBVIOUS
  <1>2. TcpPlace(p) => p.type = "tcp"
    BY DEF TcpPlace
  <1>3. UnixPlace(p) => p.type = "unix"
    BY DEF UnixPlace
  <1>4. TcpPlace(p) \/ UnixPlace(p) \/ (p.type # "tcp" /\ p.type # "unix" /\ ~p.right)
    BY DEF Place
  <1> QED
    BY <1>1, <1>2, <1>3, <1>4

(* What may stand for the place is a string without the other delimiters.  *)
LEMMA PlaceText ==
  ASSUME NEW p, Place(p)
  PROVE  /\ p.text \in Seq(Alphabet) /\ Without(p.text, "?") /\ Without(p.text, "@")
         /\ p.type \in Alphabet \ {"://"}
PROOF BY TokensInAlphabet, AlphabetHas DEF Place, Text

(* The place is set, and nothing else.                                      *)
Placing(r, o) ==
  /\ r.valid = o.valid /\ r.user = o.user /\ r.password = o.password /\ r.db = o.db
  /\ r.keepAlive = o.keepAlive /\ r.connectTimeout = o.connectTimeout
  /\ r.socketTimeout = o.socketTimeout

AtHost(o, h)    == [o EXCEPT !.type = "tcp", !.host = h]
AtPort(o, h, n) == [o EXCEPT !.type = "tcp", !.host = h, !.port = n]
AtPath(o, t)    == [o EXCEPT !.type = "unix", !.path = t]
OfDb(o, n)      == [o EXCEPT !.db = n]

(* Members that are set for the place, and those that are not.              *)
LEMMA PlaceSet ==
  ASSUME NEW S, NEW o \in OptionsOf(S), NEW h, NEW n
  PROVE  /\ Placing(AtHost(o, h), o) /\ AtHost(o, h).type = "tcp" /\ AtHost(o, h).host = h
         /\ AtHost(o, h).port = o.port /\ AtHost(o, h).path = o.path
         /\ Placing(AtPort(o, h, n), o) /\ AtPort(o, h, n).type = "tcp" /\ AtPort(o, h, n).host = h
         /\ AtPort(o, h, n).port = n /\ AtPort(o, h, n).path = o.path
         /\ Placing(AtPath(o, h), o) /\ AtPath(o, h).type = "unix" /\ AtPath(o, h).path = h
         /\ AtPath(o, h).port = o.port /\ AtPath(o, h).host = o.host
PROOF BY DEF OptionsOf, Placing, AtHost, AtPort, AtPath

DbOnly(r, o) ==
  /\ r.valid = o.valid /\ r.type = o.type /\ r.host = o.host /\ r.port = o.port /\ r.path = o.path
  /\ r.user = o.user /\ r.password = o.password
  /\ r.keepAlive = o.keepAlive /\ r.connectTimeout = o.connectTimeout
  /\ r.socketTimeout = o.socketTimeout

(* The number of the database is set, and nothing else.                     *)
LEMMA DbSet ==
  ASSUME NEW S, NEW o \in OptionsOf(S), NEW n
  PROVE  DbOnly(OfDb(o, n), o) /\ OfDb(o, n).db = n
PROOF BY DEF OptionsOf, DbOnly, OfDb

(* The place is what is set.                                                *)
SetsPlace(r, o, p) ==
  Placing(r, o) /\ r.type = p.type /\ r.host = p.host /\ r.port = p.port /\ r.path = p.path

(* A host and a port are taken for what they are, or the port is refused.   *)
LEMMA TcpPlaceIs ==
  ASSUME NEW p, Place(p), p.type = "tcp", NEW o \in OptionsOf(Alphabet),
         o.host = <<>>, o.port = 6379, o.path = <<>>
  PROVE  IF p.right THEN SetsPlace(SetTcpOpts(p.text, o), o, p)
                    ELSE SetTcpOpts(p.text, o) = Invalid
PROOF
  <1>1. "unix" # "tcp"
    OBVIOUS
  <1>2. p.text \in Seq(Alphabet)
    BY PlaceText
  <1>3. p.path = <<>> /\ p.host \in Seq(Alphabet) /\ Without(p.host, ":")
    BY PlaceKinds, TokensInAlphabet DEF TcpPlace, Text
  <1>4. ASSUME NEW c \in Seq(Alphabet), p.text = p.host \o <<":">> \o c
        PROVE  SetTcpOpts(p.text, o) = IF IsInt(c) THEN AtPort(o, p.host, Number(c)) ELSE Invalid
    <2>1. ":" \in Alphabet
      BY AlphabetHas
    <2>2. Find(p.host \o <<":">> \o c, ":") = Len(p.host) + 1
      BY <1>3, <2>1, FindJoined
    <2>3. /\ Before(p.host \o <<":">> \o c, Len(p.host) + 1) = p.host
          /\ After(p.host \o <<":">> \o c, Len(p.host) + 1) = c
      BY <1>3, <2>1, JoinedCut
    <2>4. Len(p.host) + 1 # 0
      BY <1>3
    <2>5. /\ Find(p.text, ":") # 0
          /\ Before(p.text, Find(p.text, ":")) = p.host /\ After(p.text, Find(p.text, ":")) = c
      BY <1>4, <2>2, <2>3, <2>4
    <2>6. SetTcpOpts(p.text, o) =
            IF ~IsInt(After(p.text, Find(p.text, ":"))) THEN Invalid
            ELSE AtPort(o, Before(p.text, Find(p.text, ":")), Number(After(p.text, Find(p.text, ":"))))
      BY <2>5 DEF SetTcpOpts, AtPort
    <2> QED
      BY <2>5, <2>6
  <1>5. CASE HostOnly(p)
    <2>1. p.right /\ p.text = p.host /\ p.port = 6379
      BY <1>5 DEF HostOnly
    <2>2. Find(p.text, ":") = 0
      BY <1>3, <2>1, FindNone
    <2>3. SetTcpOpts(p.text, o) = AtHost(o, p.host)
      BY <2>1, <2>2 DEF SetTcpOpts, AtHost
    <2> QED
      BY <1>3, <2>1, <2>3, PlaceSet DEF SetsPlace
  <1>6. CASE HostPort(p)
    <2>1. /\ p.right /\ p.text = p.host \o <<":">> \o PortText(p)
          /\ IsInt(PortText(p)) /\ p.port = Number(PortText(p))
      BY <1>6 DEF HostPort
    <2>2. PortText(p) \in Seq(Alphabet)
      BY <1>2, <1>3 DEF PortText
    <2>3. SetTcpOpts(p.text, o) = AtPort(o, p.host, p.port)
      BY <1>4, <2>1, <2>2, SMTT(30)
    <2> QED
      BY <1>3, <2>1, <2>3, PlaceSet DEF SetsPlace
  <1>7. CASE HostElse(p)
    <2>1. ~p.right /\ p.text = p.host \o <<":">> \o PortText(p) /\ ~IsInt(PortText(p))
      BY <1>7 DEF HostElse
    <2>2. PortText(p) \in Seq(Alphabet)
      BY <1>2, <1>3 DEF PortText
    <2>3. SetTcpOpts(p.text, o) = Invalid
      BY <1>4, <2>1, <2>2, SMTT(30)
    <2> QED
      BY <2>1, <2>3
  <1>8. TcpPlace(p)
    BY PlaceKinds
  <1> QED
    BY <1>5, <1>6, <1>7, <1>8 DEF TcpPlace

(* The name of a socket is taken for what it is.                            *)
LEMMA UnixPlaceIs ==
  ASSUME NEW p, Place(p), p.type = "unix", NEW o \in OptionsOf(Alphabet),
         o.host = <<>>, o.port = 6379, o.path = <<>>
  PROVE  p.right /\ SetsPlace(SetUnixOpts(p.text, o), o, p)
PROOF
  <1>2. p.right /\ p.host = <<>> /\ p.port = 6379 /\ p.path = p.text
    BY PlaceKinds DEF UnixPlace
  <1>3. SetUnixOpts(p.text, o) = AtPath(o, p.text)
    BY DEF SetUnixOpts, AtPath
  <1> QED
    BY <1>2, <1>3, PlaceSet DEF SetsPlace

(* What is parsed, once the pieces are known.                               *)
FromPlace(type, t, o, n) ==
  IF ~o.valid THEN Invalid
  ELSE IF type = "tcp" THEN SetTcpOpts(t, OfDb(o, n)) ELSE SetUnixOpts(t, OfDb(o, n))

(* Strings of one token.                                                    *)
LEMMA SameType == ASSUME NEW x, NEW y, <<x>> = <<y>> PROVE x = y
PROOF OBVIOUS

(* The type says which way the place is set.                                *)
LEMMA ParsedBy ==
  ASSUME NEW u, Find(u, "://") # 0, NEW type \in {"tcp", "unix"}, SplitUri(u).type = <<type>>,
         NEW o, o = SetAuthOpts(SplitUri(u).auth, DefaultOptions),
         NEW t, NEW n, NEW b, SplitPath(SplitUri(u).path) = [path |-> t, db |-> n, parameters |-> b]
  PROVE  ParseUri(u) = FromPlace(type, t, ParseParameters(b, o), n)
PROOF
  <1> DEFINE split == SplitPath(SplitUri(u).path)
             opt == ParseParameters(b, o)
  <1>1. split.path = t /\ split.db = n /\ split.parameters = b
    <2>1. split = [path |-> t, db |-> n, parameters |-> b]
      OBVIOUS
    <2> HIDE DEF split
    <2> QED
      BY <2>1
  <1>2. ParseUri(u) =
          IF ~opt.valid THEN Invalid
          ELSE CASE SplitUri(u).type = <<"tcp">>  -> SetTcpOpts(t, OfDb(opt, n))
                 [] SplitUri(u).type = <<"unix">> -> SetUnixOpts(t, OfDb(opt, n))
                 [] OTHER -> Invalid
    BY <1>1 DEF ParseUri, OfDb
  <1> HIDE DEF opt
  <1>3. CASE type = "tcp"
    <2>1. SplitUri(u).type = <<"tcp">>
      BY <1>3
    <2>2. SplitUri(u).type # <<"unix">>
      <3>1. "tcp" # "unix"
        OBVIOUS
      <3> QED
        BY <2>1, <3>1, SameType
    <2> QED
      BY <1>2, <1>3, <2>1, <2>2 DEF FromPlace, opt
  <1>4. CASE type = "unix"
    <2>1. SplitUri(u).type = <<"unix">>
      BY <1>4
    <2>2. "tcp" # "unix"
      OBVIOUS
    <2>3. SplitUri(u).type # <<"tcp">>
      BY <2>1, <2>2, SameType
    <2> QED
      BY <1>2, <1>4, <2>1, <2>2, <2>3 DEF FromPlace, opt
  <1> QED
    BY <1>3, <1>4

(* Any other type is refused.                                               *)
LEMMA ParsedNot ==
  ASSUME NEW u, NEW type, type # "tcp", type # "unix", SplitUri(u).type = <<type>>
  PROVE  ParseUri(u) = Invalid
PROOF
  <1>1. SplitUri(u).type # <<"tcp">> /\ SplitUri(u).type # <<"unix">>
    BY SameType
  <1> QED
    BY <1>1 DEF ParseUri

(* The query, if there is one, is what is parsed.                           *)
LEMMA QueryAsks ==
  ASSUME NEW texts, Parameters(texts), NEW o \in OptionsOf(Alphabet), o.valid
  PROVE  \E b \in Seq(Alphabet) :
           AsksFor(Query(texts), b) /\ Taken(texts, Len(texts), o, ParseParameters(b, o))
PROOF
  <1>1. CASE texts = <<>>
    <2>1. \A F : F = <<>> => Len(F) = 0 /\ F \in Seq(Seq(Alphabet)) /\ F \in Seq(Alphabet)
      OBVIOUS
    <2>2. texts \in Seq(Seq(Alphabet)) /\ Len(texts) = 0 /\ <<>> \in Seq(Alphabet)
      BY <1>1, <2>1
    <2>3. PICK f : QueryUpTo(f, texts) /\ Query(texts) = f[0]
      BY <2>2, QueryIs
    <2>4. Query(texts) = <<>>
      <3>1. 0 \in 0 .. Len(texts)
        BY <2>2
      <3> QED
        BY <2>3, <3>1 DEF QueryUpTo
    <2>5. Taken(texts, 0, o, o)
      <3>1. \A i \in 1 .. 0 : FALSE
        OBVIOUS
      <3> QED
        BY <3>1 DEF Taken, SaysUpTo, Others
    <2>6. ParseParameters(<<>>, o) = o
      BY NoParameters
    <2>7. AsksFor(Query(texts), <<>>)
      BY <2>4 DEF AsksFor
    <2> QED
      BY <2>2, <2>5, <2>6, <2>7
  <1>2. CASE texts # <<>>
    <2>1. QueryOf(Query(texts), texts, Len(texts), o)
      BY <1>2, QueryTaken
    <2>2. PICK b \in Seq(Alphabet) :
            /\ Query(texts) = <<"?">> \o b
            /\ Without(b, "?") /\ Without(b, "/") /\ Without(b, "@")
            /\ Taken(texts, Len(texts), o, ParseParameters(b, o))
      BY <2>1 DEF QueryOf
    <2>3. AsksFor(Query(texts), b)
      BY <2>2 DEF AsksFor
    <2> QED
      BY <2>2, <2>3
  <1> QED
    BY <1>1, <1>2

(* The query is a string with no sign in it.                                *)
LEMMA QueryText ==
  ASSUME NEW q, NEW b \in Seq(Alphabet), AsksFor(q, b)
  PROVE  q \in Seq(Alphabet) /\ Without(q, "@")
PROOF
  <1>1. CASE q = <<>>
    <2>1. \A F : F = <<>> => Len(F) = 0 /\ F \in Seq(Alphabet)
      OBVIOUS
    <2> QED
      BY <1>1, <2>1 DEF Without
  <1>2. CASE q = <<"?">> \o b /\ Without(b, "@")
    <2>1. <<"?">> \in Seq(Alphabet)
      BY AlphabetHas
    <2>2. "?" # "@"
      OBVIOUS
    <2>3. Without(<<"?">>, "@")
      BY <2>2, WithoutOne
    <2> QED
      BY <1>2, <2>1, <2>3, WithoutConcat, ConcatProperties
  <1> QED
    BY <1>1, <1>2 DEF AsksFor

Cat(x, y) == x \o y

(* Concatenation, as an operator the provers do not look into.              *)
LEMMA CatIs == ASSUME NEW S, NEW x \in Seq(S), NEW y \in Seq(S) PROVE Cat(x, y) \in Seq(S)
PROOF BY ConcatProperties DEF Cat

(* It is associative.                                                       *)
LEMMA CatRegroups ==
  ASSUME NEW S, NEW x \in Seq(S), NEW y \in Seq(S), NEW z \in Seq(S)
  PROVE  Cat(Cat(x, y), z) = Cat(x, Cat(y, z))
PROOF BY ConcatAssociative DEF Cat

Flat(s, c, a, t, d, q)   == s \o c \o a \o t \o d \o q
Nested(s, c, a, t, d, q) == s \o c \o (a \o (t \o d \o q))

(* Six strings in a row, regrouped.                                         *)
LEMMA Regroup ==
  ASSUME NEW S, NEW s \in Seq(S), NEW c \in Seq(S), NEW a \in Seq(S),
         NEW t \in Seq(S), NEW d \in Seq(S), NEW q \in Seq(S)
  PROVE  Flat(s, c, a, t, d, q) = Nested(s, c, a, t, d, q)
PROOF
  <1>1. PICK h \in Seq(S) : h = Cat(s, c)
    BY CatIs
  <1>2. PICK e \in Seq(S) : e = Cat(t, d)
    BY CatIs
  <1>3. PICK x \in Seq(S) : x = Cat(h, a)
    BY CatIs
  <1>4. PICK y \in Seq(S) : y = Cat(e, q)
    BY CatIs
  <1>5. Cat(Cat(x, t), d) = Cat(x, e)
    BY <1>2, CatRegroups
  <1>6. Cat(Cat(x, e), q) = Cat(x, y)
    BY <1>4, CatRegroups
  <1>7. Cat(x, y) = Cat(h, Cat(a, y))
    BY <1>3, CatRegroups, SMTT(30)
  <1>8. Flat(s, c, a, t, d, q) = Cat(Cat(Cat(Cat(Cat(s, c), a), t), d), q)
    BY DEF Flat, Cat
  <1>9. Nested(s, c, a, t, d, q) = Cat(Cat(s, c), Cat(a, Cat(Cat(t, d), q)))
    BY DEF Nested, Cat
  <1> QED
    BY <1>1, <1>2, <1>3, <1>4, <1>5, <1>6, <1>7, <1>8, <1>9

(* The URI is a type, who it is, and a path.                                *)
LEMMA UriIs ==
  ASSUME NEW p, Auth(p.auth), Place(p.place), Db(p.db), Parameters(p.parameters)
  PROVE  LET path == p.place.text \o p.db.text \o Query(p.parameters)
         IN  /\ UriOf(p) = UriWith(p.place.type, p.auth.text, path)
             /\ UriOf(p) \in Seq(Alphabet) /\ path \in Seq(Alphabet) /\ Without(path, "@")
PROOF
  <1> DEFINE a == p.auth.text
             t == p.place.text
             d == p.db.text
             q == Query(p.parameters)
             s == <<p.place.type>>
             c == <<"://">>
             path == t \o d \o q
  <1>1. a \in Seq(Alphabet)
    BY AuthTypes
  <1>2. t \in Seq(Alphabet) /\ Without(t, "@")
    BY PlaceText
  <1>3. d \in Seq(Alphabet) /\ Without(d, "@")
    BY DbWritten
  <1>4. q \in Seq(Alphabet) /\ Without(q, "@")
    <2>1. DefaultOptions \in OptionsOf(Alphabet) /\ DefaultOptions.valid
      BY AlphabetHas, DefaultTypes, DefaultMembers
    <2> QED
      BY <2>1, QueryAsks, QueryText
  <1>5. s \in Seq(Alphabet) /\ c \in Seq(Alphabet)
    <2>1. p.place.type \in Alphabet
      BY PlaceText
    <2> QED
      BY <2>1, AlphabetHas
  <1>6. UriOf(p) = s \o c \o a \o t \o d \o q
    BY DEF UriOf
  <1> HIDE DEF a, t, d, q, s, c
  <1>7. t \o d \in Seq(Alphabet) /\ Without(t \o d, "@")
    BY <1>2, <1>3, WithoutConcat, ConcatProperties
  <1>8. path \in Seq(Alphabet) /\ Without(path, "@")
    BY <1>4, <1>7, WithoutConcat, ConcatProperties
  <1>9. s \o c \o a \o t \o d \o q = s \o c \o (a \o path)
    <2>1. /\ a \in Seq(Alphabet) /\ t \in Seq(Alphabet) /\ d \in Seq(Alphabet)
          /\ q \in Seq(Alphabet) /\ s \in Seq(Alphabet) /\ c \in Seq(Alphabet)
      BY <1>1, <1>2, <1>3, <1>4, <1>5
    <2>2. Flat(s, c, a, t, d, q) = Nested(s, c, a, t, d, q)
      BY <2>1, Regroup
    <2> QED
      BY <2>2 DEF Flat, Nested
  <1>10. s \o c \o (a \o path) \in Seq(Alphabet)
    <2>1. a \o path \in Seq(Alphabet) /\ s \o c \in Seq(Alphabet)
      BY <1>1, <1>5, <1>8, ConcatProperties
    <2> HIDE DEF path
    <2> QED
      BY <2>1, ConcatProperties
  <1> QED
    BY <1>6, <1>8, <1>9, <1>10 DEF a, t, d, q, s, c, UriWith

(* What the texts set is said by the whole of them.                         *)
LEMMA SaysAll ==
  ASSUME NEW texts, NEW key, NEW value, NEW default, SaysUpTo(texts, Len(texts), key, value, default)
  PROVE  Says(texts, key, value, default)
PROOF BY DEF SaysUpTo, Says

(* The options a URI is parsed into mean what it was put together from.     *)
LEMMA UriMeans ==
  ASSUME NEW p, Auth(p.auth), Place(p.place), Db(p.db), Parameters(p.parameters),
         p.db.text = <<>> => Unnumbered(p.place.text)
  PROVE  IF Accepted(p) THEN Means(p, ParseUri(UriOf(p))) ELSE ParseUri(UriOf(p)) = Invalid
PROOF
  <1>a. PICK l : l = p.place
    OBVIOUS
  <1>b. PICK a : a = p.auth
    OBVIOUS
  <1>c. PICK d : d = p.db
    OBVIOUS
  <1>d. PICK texts : texts = p.parameters
    OBVIOUS
  <1>e. PICK u : u = UriOf(p)
    OBVIOUS
  <1>f. PICK path : path = l.text \o d.text \o Query(texts)
    OBVIOUS
  <1>g. PICK o : o = SetAuthOpts(SplitUri(u).auth, DefaultOptions)
    OBVIOUS
  <1>h. Place(l) /\ Auth(a) /\ Db(d) /\ Parameters(texts)
    BY <1>a, <1>b, <1>c, <1>d
  <1>i. d.text = <<>> => Unnumbered(l.text)
    BY <1>a, <1>c
  <1>1. /\ u = UriWith(l.type, a.text, path)
        /\ u \in Seq(Alphabet) /\ path \in Seq(Alphabet) /\ Without(path, "@")
    BY <1>a, <1>b, <1>c, <1>d, <1>e, <1>f, UriIs
  <1>2. /\ Find(u, "://") # 0 /\ SplitUri(u).type = <<l.type>> /\ SplitUri(u).path = path
        /\ Known(o, a.user, a.password)
    <2>1. l.type \in Alphabet \ {"://"}
      BY <1>h, PlaceText
    <2>2. UriPieces(u, l.type, path, a)
      BY <1>1, <1>h, <2>1, PiecesAre
    <2> QED
      BY <1>g, <2>2 DEF UriPieces
  <1>3. CASE l.type # "tcp" /\ l.type # "unix"
    <2>1. ~l.right
      BY <1>3, <1>h, PlaceKinds
    <2>2. ParseUri(u) = Invalid
      BY <1>2, <1>3, ParsedNot
    <2> QED
      BY <1>a, <1>e, <2>1, <2>2 DEF Accepted
  <1>4. CASE l.type \in {"tcp", "unix"}
    <2>1. o \in OptionsOf(Alphabet) /\ o.valid
      <3>1. SplitUri(u) \in [type : Seq(Alphabet), auth : Seq(Alphabet), path : Seq(Alphabet)]
        BY <1>1, PiecesTypes
      <3>2. SplitUri(u).auth \in Seq(Alphabet) /\ DefaultOptions \in OptionsOf(Alphabet)
        BY <3>1, AlphabetHas, DefaultTypes
      <3>3. o \in OptionsOf(Alphabet)
        BY <1>g, <3>2, AuthSet
      <3> QED
        BY <1>2, <3>3 DEF Known
    <2>2. PICK b \in Seq(Alphabet) :
            AsksFor(Query(texts), b) /\ Taken(texts, Len(texts), o, ParseParameters(b, o))
      BY <1>h, <2>1, QueryAsks
    <2>3. SplitPath(path) = [path |-> l.text, db |-> d.db, parameters |-> b]
      <3>1. l.text \in Seq(Alphabet) /\ Without(l.text, "?")
        BY <1>h, PlaceText
      <3>2. PICK t : t = l.text
        OBVIOUS
      <3>3. PICK q : q = Query(texts)
        OBVIOUS
      <3>4. /\ path = t \o d.text \o q /\ t \in Seq(Alphabet) /\ Without(t, "?")
            /\ d.text = <<>> => Unnumbered(t)
        BY <1>f, <1>i, <3>1, <3>2, <3>3
      <3>5. SplitPath(path) = [path |-> t, db |-> d.db, parameters |-> b]
        BY <1>h, <2>2, <3>3, <3>4, PathIs
      <3> QED
        BY <3>2, <3>5
    <2> DEFINE opt == ParseParameters(b, o)
               set == OfDb(opt, d.db)
    <2>4. ParseUri(u) = FromPlace(l.type, l.text, opt, d.db)
      <3>1. SplitPath(SplitUri(u).path) = [path |-> l.text, db |-> d.db, parameters |-> b]
        BY <1>2, <2>3
      <3> QED
        BY <1>2, <1>4, <1>g, <3>1, ParsedBy
    <2>5. opt \in OptionsOf(Alphabet) /\ set \in OptionsOf(Alphabet) /\ DbOnly(set, opt)
          /\ set.db = d.db
      <3>1. opt \in OptionsOf(Alphabet)
        BY <2>1, AlphabetHas, ParametersSet
      <3> HIDE DEF opt
      <3>2. d.db \in Int
        BY <1>h, DbWritten
      <3> QED
        BY <3>1, <3>2, MembersSet, DbSet DEF OfDb
    <2> DEFINE r == IF l.type = "tcp" THEN SetTcpOpts(l.text, set) ELSE SetUnixOpts(l.text, set)
    <2>6. CASE ~(\A i \in 1 .. Len(texts) : \E s \in Settings : s.text = texts[i])
      <3>1. opt = Invalid
        BY <2>2, <2>6 DEF Taken
      <3>2. ParseUri(u) = Invalid
        <4> HIDE DEF opt
        <4> QED
          BY <2>4, <3>1, InvalidIsNot DEF FromPlace
      <3> QED
        BY <1>d, <1>e, <2>6, <3>2 DEF Accepted
    <2>7. CASE \A i \in 1 .. Len(texts) : \E s \in Settings : s.text = texts[i]
      <3> HIDE DEF opt
      <3>1. /\ opt.valid /\ Others(opt, o)
            /\ SaysUpTo(texts, Len(texts), "keepAlive", opt.keepAlive, o.keepAlive)
            /\ SaysUpTo(texts, Len(texts), "connectTimeout", opt.connectTimeout, o.connectTimeout)
            /\ SaysUpTo(texts, Len(texts), "socketTimeout", opt.socketTimeout, o.socketTimeout)
        BY <2>2, <2>7 DEF Taken, opt
      <3>2. ParseUri(u) = r
        BY <2>4, <3>1 DEF FromPlace
      <3>3. /\ set.valid /\ set.host = <<>> /\ set.port = 6379 /\ set.path = <<>>
            /\ set.user = a.user /\ set.password = a.password /\ set.db = d.db
            /\ set.keepAlive = opt.keepAlive /\ set.connectTimeout = opt.connectTimeout
            /\ set.socketTimeout = opt.socketTimeout
        <4> HIDE DEF set
        <4> QED
          BY <1>2, <2>5, <3>1 DEF Known, Others, DbOnly
      <3>4. Place(l)
        BY <1>h
      <3>5. IF l.right THEN SetsPlace(r, set, l) ELSE r = Invalid
        <4> HIDE DEF set
        <4>1. CASE l.type = "tcp"
          <5>1. IF l.right THEN SetsPlace(SetTcpOpts(l.text, set), set, l)
                ELSE SetTcpOpts(l.text, set) = Invalid
            BY <2>5, <3>3, <3>4, <4>1, TcpPlaceIs
          <5> QED
            BY <4>1, <5>1
        <4>2. CASE l.type = "unix"
          <5>1. "tcp" # "unix"
            OBVIOUS
          <5>2. l.right /\ SetsPlace(SetUnixOpts(l.text, set), set, l)
            BY <2>5, <3>3, <3>4, <4>2, UnixPlaceIs
          <5> QED
            BY <4>2, <5>1, <5>2
        <4> QED
          BY <1>4, <4>1, <4>2
      <3>6. CASE l.right
        <4>5. SetsPlace(r, set, l)
          BY <3>5, <3>6
        <4> HIDE DEF set, r
        <4>1. /\ r.valid /\ r.type = l.type /\ r.host = l.host /\ r.port = l.port /\ r.path = l.path
              /\ r.user = a.user /\ r.password = a.password /\ r.db = d.db
              /\ r.keepAlive = opt.keepAlive /\ r.connectTimeout = opt.connectTimeout
              /\ r.socketTimeout = opt.socketTimeout
          BY <3>3, <4>5 DEF SetsPlace, Placing
        <4>2. o.keepAlive = FALSE /\ o.connectTimeout = 0 /\ o.socketTimeout = 0
          BY <1>2 DEF Known
        <4>3. /\ Says(texts, "keepAlive", r.keepAlive, FALSE)
              /\ Says(texts, "connectTimeout", r.connectTimeout, 0)
              /\ Says(texts, "socketTimeout", r.socketTimeout, 0)
          BY <3>1, <4>1, <4>2, SaysAll
        <4>4. Means(p, r)
          BY <1>a, <1>b, <1>c, <1>d, <4>1, <4>3 DEF Means
        <4>6. Accepted(p)
          BY <1>a, <1>d, <2>7, <3>6 DEF Accepted
        <4> QED
          BY <1>e, <3>2, <4>4, <4>6
      <3>7. CASE ~l.right
        <4>1. ~Accepted(p)
          BY <1>a, <3>7 DEF Accepted
        <4> QED
          BY <1>e, <3>2, <3>5, <3>7, <4>1
      <3> QED
        BY <3>6, <3>7
    <2> QED
      BY <2>6, <2>7
  <1> QED
    BY <1>3, <1>4

-----------------------------------------------------------------------------
(* The connection.                                                         *)

Sessions == [user : {"nobody", "somebody"}, db : Int, readonly : BOOLEAN]
Timevals == [sec : Nat, usec : Nat]

Context == [err : Errors, out : Seq(Circle), server : Seq(Circle), in : Seq(Circle),
            open : BOOLEAN, session : Sessions, timeout : Timevals, keepAlive : BOOLEAN]

Busy == {"using", "receiving"}

-----------------------------------------------------------------------------
(* The parts of the inductive invariant.                                   *)

Values ==
  /\ uri \in Uris /\ opts \in Options /\ stage \in Stages
  /\ threw \in {"nothing", "reply", "socket"} /\ left \in Seq(Circle) /\ Len(left) <= MaxLeft
  /\ owed \in Seq(Circle) /\ Len(owed) <= Depth /\ nextCmd \in Circle

\* There is one context or none.
Slots ==
  /\ ctx = <<>> \/ (ctx = <<ctx[1]>> /\ ctx[1] \in Context)
  /\ new = <<>> \/ (new = <<new[1]>> /\ new[1] \in Context)

\* What goes with the place the caller has come to: in particular its connection
\* has an error exactly if it was told of one, or set it.
Placed ==
  /\ stage \in {"start", "failed"} => ctx = <<>>
  /\ stage = "setup" <=> new # <<>>
  /\ stage \in Busy => ctx # <<>> /\ (threw = "socket" <=> ctx[1].err # "none")
  /\ stage \notin Busy => owed = <<>> /\ threw = "nothing"
  /\ stage = "receiving" => owed # <<>> /\ threw = "nothing"

Matches(c, cmds) ==
  IF c.open THEN c.in \o c.server \o c.out = cmds ELSE IsPrefix(c.in, cmds)

\* The replies to come: those that callers left, then those of this one.
Line == left \o owed

\* After a timeout the replies still match: reset() lets the caller go on.
Matched ==
  ctx # <<>> /\ (ctx[1].err = "none" \/ (ctx[1].err = "timeout" /\ threw = "socket"))
    => Matches(ctx[1], Line)

Anonymous(o) == o.user = <<"default">> /\ o.password = <<>>

\* The commands of _set_options() by which of them are still to be done, and what
\* the session is then.
Pending(auth, select, readonly) ==
  (IF auth THEN <<"AUTH">> ELSE <<>>) \o (IF select THEN <<"SELECT">> ELSE <<>>)
  \o (IF readonly THEN <<"READONLY">> ELSE <<>>)

SessionAt(o, auth, select, readonly) ==
  [user     |-> IF Anonymous(o) \/ auth THEN "nobody" ELSE "somebody",
   db       |-> IF select THEN 0 ELSE o.db,
   readonly |-> o.readonly /\ ~readonly]

SocketRight(o, c) ==
  /\ c.timeout.sec * 1000000 + c.timeout.usec = SocketTimeout(o) * 1000
  /\ c.timeout.usec < 1000000 /\ c.keepAlive = o.keepAlive

Right(o, c) == c.session = SessionAt(o, FALSE, FALSE, FALSE) /\ SocketRight(o, c)

UnderConstruction ==
  stage = "setup" =>
    /\ new[1].err = "none" /\ Matches(new[1], <<>>) /\ SocketRight(opts, new[1])
    /\ \E auth, select, readonly \in BOOLEAN :
         /\ setup = Pending(auth, select, readonly)
         /\ (auth => ~Anonymous(opts)) /\ (readonly => opts.readonly)
         /\ new[1].session = SessionAt(opts, auth, select, readonly)

InUse == ctx # <<>> => Right(opts, ctx[1])

IInv == Values /\ Slots /\ Placed /\ Matched /\ UnderConstruction /\ InUse

-----------------------------------------------------------------------------
(* Sequences.                                                              *)

(* The only element of a sequence is replaced.                             *)
LEMMA SlotExcept ==
  ASSUME NEW c, NEW d
  PROVE  [<<c>> EXCEPT ![1] = d] = <<d>> /\ <<d>>[1] = d /\ <<d>> # <<>> /\ Len(<<d>>) = 1
PROOF OBVIOUS

(* IsPrefix element by element.                                            *)
LEMMA PrefixElements ==
  ASSUME NEW s \in Seq(Circle), NEW t \in Seq(Circle)
  PROVE  IsPrefix(s, t) <=> Len(s) <= Len(t) /\ \A i \in 1 .. Len(s) : s[i] = t[i]
PROOF
  <1>1. SubSeq(s, 1, Len(s)) = s
    BY SubSeqFull
  <1>2. ASSUME Len(s) <= Len(t)
        PROVE  /\ SubSeq(t, 1, Len(s)) \in Seq(Circle)
               /\ Len(SubSeq(t, 1, Len(s))) = Len(s)
               /\ \A i \in 1 .. Len(s) : SubSeq(t, 1, Len(s))[i] = t[i]
    BY <1>2, SubSeqProperties
  <1>3. ASSUME Len(s) <= Len(t), \A i \in 1 .. Len(s) : s[i] = t[i]
        PROVE  s = SubSeq(t, 1, Len(s))
    BY <1>2, <1>3, SeqEqual
  <1> QED
    BY <1>1, <1>2, <1>3 DEF IsPrefix

(* A sequence begins with the first of the sequences it is made of.        *)
LEMMA PrefixOfConcat ==
  ASSUME NEW s \in Seq(Circle), NEW t \in Seq(Circle), NEW u \in Seq(Circle)
  PROVE  IsPrefix(s, s \o t \o u)
PROOF
  <1>1. s \o t \in Seq(Circle) /\ Len(s \o t) = Len(s) + Len(t)
        /\ \A i \in 1 .. Len(s) : (s \o t)[i] = s[i]
    BY ConcatProperties
  <1>2. (s \o t) \o u \in Seq(Circle) /\ Len((s \o t) \o u) = Len(s \o t) + Len(u)
        /\ \A i \in 1 .. Len(s \o t) : ((s \o t) \o u)[i] = (s \o t)[i]
    BY <1>1, ConcatProperties
  <1>3. Len(s) \in Nat /\ Len(t) \in Nat /\ Len(u) \in Nat
    BY LenProperties
  <1>4. Len(s) <= Len((s \o t) \o u) /\ \A i \in 1 .. Len(s) : ((s \o t) \o u)[i] = s[i]
    BY <1>1, <1>2, <1>3
  <1> QED
    BY <1>2, <1>4, PrefixElements

(* send(): a command joins the output buffer and what the caller is owed.  *)
LEMMA AppendLast ==
  ASSUME NEW s \in Seq(Circle), NEW t \in Seq(Circle), NEW u \in Seq(Circle), NEW x \in Circle
  PROVE  s \o t \o Append(u, x) = Append(s \o t \o u, x)
PROOF
  <1>1. s \o t \in Seq(Circle) /\ (s \o t) \o u \in Seq(Circle)
    BY ConcatProperties
  <1>2. Append(u, x) = u \o <<x>> /\ Append((s \o t) \o u, x) = ((s \o t) \o u) \o <<x>>
    BY <1>1, AppendIsConcat
  <1> QED
    BY <1>1, <1>2, ConcatAssociative, SMTT(30)

(* recv(): the output buffer is handed to the server.                      *)
LEMMA Flushed ==
  ASSUME NEW s \in Seq(Circle), NEW t \in Seq(Circle), NEW u \in Seq(Circle)
  PROVE  s \o (t \o u) \o <<>> = s \o t \o u
PROOF
  <1>1. t \o u \in Seq(Circle) /\ s \o (t \o u) \in Seq(Circle)
    BY ConcatProperties
  <1> QED
    BY <1>1, ConcatEmptySeq, ConcatAssociative, SMTT(30)

(* The server answers the first command it has.                            *)
LEMMA Moved ==
  ASSUME NEW s \in Seq(Circle), NEW t \in Seq(Circle), t # <<>>, NEW u \in Seq(Circle)
  PROVE  Append(s, Head(t)) \o Tail(t) \o u = s \o t \o u
PROOF
  <1>1. Head(t) \in Circle /\ Tail(t) \in Seq(Circle) /\ <<Head(t)>> \in Seq(Circle)
    BY HeadTailProperties
  <1>2. <<Head(t)>> \o Tail(t) = t
    <2>1. Len(<<Head(t)>> \o Tail(t)) = Len(t)
          /\ \A i \in 1 .. Len(t) : (<<Head(t)>> \o Tail(t))[i] = t[i]
      BY <1>1, HeadTailProperties
    <2>2. <<Head(t)>> \o Tail(t) \in Seq(Circle)
      BY <1>1, ConcatProperties
    <2> QED
      BY <2>1, <2>2, SeqEqual
  <1>3. Append(s, Head(t)) = s \o <<Head(t)>>
    BY <1>1, AppendIsConcat
  <1>4. (s \o <<Head(t)>>) \o Tail(t) = s \o (<<Head(t)>> \o Tail(t))
    BY <1>1, ConcatAssociative
  <1> QED
    BY <1>2, <1>3, <1>4

(* recv() returns the first reply.                                         *)
LEMMA FirstTaken ==
  ASSUME NEW s \in Seq(Circle), s # <<>>, NEW t \in Seq(Circle), NEW u \in Seq(Circle)
  PROVE  Tail(s) \o t \o u = Tail(s \o t \o u)
PROOF
  <1>1. /\ Tail(s) \in Seq(Circle) /\ Len(Tail(s)) = Len(s) - 1 /\ Len(s) > 0
        /\ \A i \in 1 .. Len(Tail(s)) : Tail(s)[i] = s[i + 1]
    BY HeadTailProperties, EmptySeq
  <1>2. ASSUME NEW v \in Seq(Circle), NEW w \in Seq(Circle), v # <<>>
        PROVE  Tail(v) \o w = Tail(v \o w) /\ v \o w # <<>> /\ v \o w \in Seq(Circle)
    <2>1. /\ v \o w \in Seq(Circle) /\ Len(v \o w) = Len(v) + Len(w) /\ v \o w # <<>>
          /\ \A i \in 1 .. Len(v) + Len(w) :
               (v \o w)[i] = IF i <= Len(v) THEN v[i] ELSE w[i - Len(v)]
      BY <1>2, ConcatProperties, ConcatEqualIffEmpty
    <2>2. /\ Tail(v) \in Seq(Circle) /\ Len(Tail(v)) = Len(v) - 1 /\ Len(v) \in Nat \ {0}
          /\ \A i \in 1 .. Len(Tail(v)) : Tail(v)[i] = v[i + 1]
      BY <1>2, HeadTailProperties, EmptySeq
    <2>3. /\ Tail(v) \o w \in Seq(Circle) /\ Len(Tail(v) \o w) = Len(v) - 1 + Len(w)
          /\ \A i \in 1 .. Len(v) - 1 + Len(w) :
               (Tail(v) \o w)[i] = IF i <= Len(v) - 1 THEN Tail(v)[i] ELSE w[i - (Len(v) - 1)]
      BY <2>2, ConcatProperties
    <2>4. /\ Tail(v \o w) \in Seq(Circle) /\ Len(Tail(v \o w)) = Len(v) + Len(w) - 1
          /\ \A i \in 1 .. Len(v) + Len(w) - 1 : Tail(v \o w)[i] = (v \o w)[i + 1]
      BY <2>1, HeadTailProperties
    <2>5. Len(v) \in Nat /\ Len(w) \in Nat
      BY LenProperties
    <2>6. ASSUME NEW i \in 1 .. Len(v) - 1 + Len(w)
          PROVE  (Tail(v) \o w)[i] = Tail(v \o w)[i]
      <3>1. Tail(v \o w)[i] = IF i + 1 <= Len(v) THEN v[i + 1] ELSE w[i + 1 - Len(v)]
        BY <2>1, <2>4, <2>5
      <3>2. (Tail(v) \o w)[i] = IF i <= Len(v) - 1 THEN v[i + 1] ELSE w[i - (Len(v) - 1)]
        BY <2>2, <2>3, <2>5
      <3>3. i <= Len(v) - 1 <=> i + 1 <= Len(v)
        BY <2>5
      <3>4. i - (Len(v) - 1) = i + 1 - Len(v)
        BY <2>5
      <3> QED
        BY <3>1, <3>2, <3>3, <3>4
    <2> QED
      BY <2>1, <2>3, <2>4, <2>5, <2>6, SeqEqual, SMTT(30)
  <1>3. Tail(s) \o t = Tail(s \o t) /\ s \o t # <<>> /\ s \o t \in Seq(Circle)
    BY <1>2
  <1>4. Tail(s \o t) \o u = Tail((s \o t) \o u)
    BY <1>2, <1>3
  <1> QED
    BY <1>3, <1>4
-----------------------------------------------------------------------------
(* The contexts of the two stages.                                         *)

(* A field of the only context is set.                                     *)
LEMMA ContextSet ==
  ASSUME Slots, ctx # <<>>, NEW d, ctx' = [ctx EXCEPT ![1] = d]
  PROVE  ctx[1] \in Context /\ ctx' = <<d>> /\ ctx'[1] = d /\ ctx' # <<>>
PROOF
  <1>1. ctx = <<ctx[1]>> /\ ctx[1] \in Context
    BY DEF Slots
  <1>2. [<<ctx[1]>> EXCEPT ![1] = d] = <<d>>
    BY SlotExcept
  <1>3. ctx' = <<d>>
    BY <1>1, <1>2
  <1> QED
    BY <1>1, <1>3

(* `readonly` is set in the options.                                       *)
LEMMA ReadonlySet ==
  \A o \in Options, ro \in BOOLEAN : [o EXCEPT !.readonly = ro] \in Options
PROOF BY DEF Options

(* Construction leaves the caller and the context in use as they are.      *)
LEMMA MakeOptionsInv == ASSUME IInv, MakeOptions PROVE IInv'
PROOF
  <1> USE DEF IInv
  <1>1. ctx = <<>> /\ new = <<>> /\ owed = <<>> /\ threw = "nothing" /\ stage = "start"
    BY DEF MakeOptions, Placed, Busy
  <1>2. ctx' = <<>> /\ new' = <<>> /\ owed' = <<>> /\ uri' = uri
        /\ nextCmd' = nextCmd /\ threw' = threw /\ left' = left /\ stage' \in {"free", "failed"}
    BY <1>1 DEF MakeOptions, caller
  <1>3. opts' \in Options
    <2>1. ParseUri(uri) \in Options
      BY UrisParsed DEF Values
    <2>2. CASE opts' = opts
      BY <2>2 DEF Values
    <2>3. CASE \E ro \in BOOLEAN : opts' = [ParseUri(uri) EXCEPT !.readonly = ro]
      BY <2>1, <2>3, ReadonlySet
    <2> QED
      BY <2>2, <2>3 DEF MakeOptions
  <1>4. Values'
    BY <1>1, <1>2, <1>3 DEF Values, Stages
  <1>5. Slots' /\ Placed' /\ Matched' /\ UnderConstruction' /\ InUse'
    BY <1>1, <1>2 DEF Slots, Placed, Matched, UnderConstruction, InUse, Busy
  <1> QED
    BY <1>4, <1>5

(* Steps that change the place only: they may not enter or leave           *)
(* construction.                                                           *)
LEMMA PlaceInv ==
  ASSUME IInv, UNCHANGED <<uri, opts, ctx, new, setup, caller>>, stage' \in Stages,
         \/ stage = "free" /\ stage' = "connect"
         \/ stage = "free" /\ stage' = "using" /\ ~Broken
         \/ stage' = stage
  PROVE  IInv'
PROOF
  <1> USE DEF IInv
  <1>1. /\ uri' = uri /\ opts' = opts /\ ctx' = ctx /\ new' = new /\ setup' = setup
        /\ threw' = threw /\ owed' = owed /\ left' = left /\ nextCmd' = nextCmd
    BY DEF caller
  <1>2. Values' /\ Slots'
    BY <1>1 DEF Values, Slots
  <1>3. Placed'
    BY <1>1 DEF Placed, Busy, Broken
  <1>4. Matched' /\ InUse'
    BY <1>1 DEF Matched, Line, InUse
  <1>5. UnderConstruction'
    BY <1>1 DEF UnderConstruction
  <1> QED
    BY <1>2, <1>3, <1>4, <1>5

(* The timeout as seconds and microseconds is the one that was asked for.  *)
LEMMA TimevalType ==
  ASSUME NEW ms \in Nat
  PROVE  /\ ToTimeval(ms) \in Timevals
         /\ ToTimeval(ms).sec * 1000000 + ToTimeval(ms).usec = ms * 1000
         /\ ToTimeval(ms).usec < 1000000
PROOF
  <1>1. /\ ms \div 1000 \in Nat /\ ms % 1000 \in 0 .. 999
        /\ ms = 1000 * (ms \div 1000) + (ms % 1000)
    BY SMT
  <1>2. ToTimeval(ms).sec = ms \div 1000 /\ ToTimeval(ms).usec = (ms % 1000) * 1000
    BY SMT DEF ToTimeval
  <1> QED
    BY SMT, <1>1, <1>2 DEF ToTimeval, Timevals

(* connect(): the session is the server's default, and all of              *)
(* _set_options() is still to be done.                                     *)
LEMMA ConnectInv == ASSUME IInv, Connect PROVE IInv'
PROOF
  <1> USE DEF IInv
  <1> DEFINE c == Connected(opts)
  <1>1. /\ uri' = uri /\ opts' = opts /\ ctx' = ctx /\ stage = "connect" /\ stage' = "setup"
        /\ threw' = threw /\ owed' = owed /\ left' = left /\ nextCmd' = nextCmd
        /\ new' = <<c>> /\ setup' = SetOptions(opts)
    BY DEF Connect, caller
  <1>2. opts \in Options /\ SocketTimeout(opts) \in Nat /\ opts.db \in Int
        /\ opts.readonly \in BOOLEAN /\ opts.keepAlive \in BOOLEAN
    <2>1. opts \in Options /\ opts.socketTimeout \in Int
      BY DEF Values, Options
    <2> QED
      BY <2>1 DEF Options, SocketTimeout
  <1>3. /\ c.err = "none" /\ c.out = <<>> /\ c.server = <<>> /\ c.in = <<>> /\ c.open = TRUE
        /\ c.session = Session /\ c.timeout = ToTimeval(SocketTimeout(opts))
        /\ c.keepAlive = opts.keepAlive
    BY DEF Connected
  <1>4. c \in Context
    <2>1. Session \in Sessions
      BY DEF Session, Sessions
    <2>2. <<>> \in Seq(Circle)
      BY EmptySeq
    <2>3. ToTimeval(SocketTimeout(opts)) \in Timevals
      BY <1>2, TimevalType
    <2> QED
      BY <1>2, <2>1, <2>2, <2>3 DEF Connected, Context, Errors
  <1>5. Values'
    BY <1>1 DEF Values, Stages
  <1>6. new'[1] = c /\ new' # <<>>
    BY <1>1
  <1>7. Slots'
    BY <1>1, <1>4, <1>6 DEF Slots
  <1>8. Placed'
    BY <1>1, <1>6 DEF Placed, Busy
  <1>9. Matched' /\ InUse'
    BY <1>1 DEF Matched, Line, InUse
  <1>10. UnderConstruction'
    <2>1. Matches(c, <<>>)
      <3>1. <<>> \o <<>> \o <<>> = <<>>
        BY EmptySeq, ConcatEmptySeq
      <3> QED
        BY <1>3, <3>1 DEF Matches
    <2>2. SocketRight(opts, c)
      <3> HIDE DEF c
      <3> DEFINE ms == SocketTimeout(opts)
      <3>2. /\ ToTimeval(ms).sec * 1000000 + ToTimeval(ms).usec = ms * 1000
            /\ ToTimeval(ms).usec < 1000000
        <4>1. ms \in Nat
          BY <1>2
        <4> HIDE DEF ms
        <4> QED
          BY SMT, <4>1, TimevalType
      <3>3. c.timeout = ToTimeval(ms)
        BY <1>3
      <3> HIDE DEF ms
      <3>4. c.timeout.sec * 1000000 + c.timeout.usec = ms * 1000 /\ c.timeout.usec < 1000000
        BY SMT, <3>2, <3>3
      <3>1. c.timeout.sec * 1000000 + c.timeout.usec = SocketTimeout(opts) * 1000
            /\ c.timeout.usec < 1000000
        BY SMT, <3>4 DEF ms
      <3> QED
        BY SMT, <1>3, <3>1 DEF SocketRight
    <2> DEFINE auth == ~Anonymous(opts)
               select == opts.db # 0
    <2>3. setup' = Pending(auth, select, opts.readonly)
      BY <1>1 DEF SetOptions, Pending, Anonymous
    <2>4. Session = SessionAt(opts, auth, select, opts.readonly)
      BY <1>2 DEF Session, SessionAt
    <2>5. auth \in BOOLEAN /\ select \in BOOLEAN
      OBVIOUS
    <2> HIDE DEF auth, select, c
    <2>7. auth => ~Anonymous(opts)
      BY DEF auth
    <2>6. \E a, s, r \in BOOLEAN :
            /\ setup' = Pending(a, s, r) /\ (a => ~Anonymous(opts)) /\ (r => opts.readonly)
            /\ c.session = SessionAt(opts, a, s, r)
      BY <1>2, <1>3, <2>3, <2>4, <2>5, <2>7
    <2> QED
      BY <1>1, <1>3, <1>6, <2>1, <2>2, <2>6 DEF UnderConstruction
  <1> QED
    BY <1>5, <1>7, <1>8, <1>9, <1>10

(* A step of _set_options() that throws leaves nothing of the new context. *)
LEMMA ConstructionThrowsInv == ASSUME IInv, ConstructionThrows PROVE IInv'
PROOF
  <1> USE DEF IInv
  <1>1. /\ uri' = uri /\ opts' = opts /\ ctx' = ctx /\ stage \in {"connect", "setup"}
        /\ stage' = "free" /\ new' = <<>>
        /\ threw' = threw /\ owed' = owed /\ left' = left /\ nextCmd' = nextCmd
    BY DEF ConstructionThrows, caller
  <1>2. Values' /\ Slots'
    BY <1>1 DEF Values, Slots, Stages
  <1>3. Placed'
    BY <1>1 DEF Placed, Busy
  <1>4. Matched' /\ InUse'
    BY <1>1 DEF Matched, Line, InUse
  <1>5. UnderConstruction'
    BY <1>1 DEF UnderConstruction
  <1> QED
    BY <1>2, <1>3, <1>4, <1>5

(* The first element of a sequence is taken off again.                     *)
LEMMA ConcatOne ==
  ASSUME NEW S, NEW x \in S, NEW s \in Seq(S)
  PROVE  Head(<<x>> \o s) = x /\ Tail(<<x>> \o s) = s
PROOF
  <1>1. <<x>> \in Seq(S) /\ Len(<<x>>) = 1 /\ <<x>>[1] = x /\ Len(s) \in Nat
    BY LenProperties
  <1>2. /\ <<x>> \o s \in Seq(S) /\ Len(<<x>> \o s) = 1 + Len(s)
        /\ \A i \in 1 .. 1 + Len(s) :
             (<<x>> \o s)[i] = IF i <= 1 THEN <<x>>[i] ELSE s[i - 1]
    BY <1>1, ConcatProperties
  <1> DEFINE t == <<x>> \o s
  <1>3. t \in Seq(S) /\ Len(t) = 1 + Len(s) /\ t[1] = x /\ t # <<>>
        /\ \A i \in 1 .. Len(s) : t[i + 1] = s[i]
    <2>1. t[1] = x
      BY <1>1, <1>2
    <2>2. ASSUME NEW i \in 1 .. Len(s) PROVE t[i + 1] = s[i]
      <3>1. i + 1 \in 1 .. 1 + Len(s) /\ ~(i + 1 <= 1) /\ (i + 1) - 1 = i
        BY <1>1
      <3> QED
        BY <1>2, <3>1
    <2>3. t \in Seq(S) /\ Len(t) = 1 + Len(s)
      BY <1>2
    <2> HIDE DEF t
    <2>4. t # <<>>
      BY <1>1, <2>3, EmptySeq
    <2> QED
      BY <2>1, <2>2, <2>3, <2>4
  <1> HIDE DEF t
  <1>4. /\ Head(t) = t[1] /\ Tail(t) \in Seq(S) /\ Len(Tail(t)) = Len(t) - 1
        /\ \A i \in 1 .. Len(Tail(t)) : Tail(t)[i] = t[i + 1]
    BY <1>3, HeadTailProperties
  <1>5. Len(Tail(t)) = Len(s) /\ \A i \in 1 .. Len(s) : Tail(t)[i] = s[i]
    BY <1>1, <1>3, <1>4
  <1>6. Tail(t) = s
    BY <1>4, <1>5, SeqEqual
  <1> QED
    BY <1>3, <1>4, <1>6 DEF t

(* The first of the commands still to be done.                             *)
LEMMA FirstPending ==
  ASSUME NEW auth \in BOOLEAN, NEW select \in BOOLEAN, NEW readonly \in BOOLEAN,
         Pending(auth, select, readonly) # <<>>
  PROVE  LET head == Head(Pending(auth, select, readonly))
             tail == Tail(Pending(auth, select, readonly))
         IN  \/ auth /\ head = "AUTH" /\ tail = Pending(FALSE, select, readonly)
             \/ ~auth /\ select /\ head = "SELECT" /\ tail = Pending(FALSE, FALSE, readonly)
             \/ ~auth /\ ~select /\ readonly /\ head = "READONLY"
                /\ tail = Pending(FALSE, FALSE, FALSE)
PROOF
  <1>1. CASE auth
    BY <1>1 DEF Pending
  <1>2. CASE ~auth /\ select
    <2> DEFINE rest == IF readonly THEN <<"READONLY">> ELSE <<>>
           names == {"SELECT", "READONLY"}
    <2>1. rest \in Seq(names) /\ "SELECT" \in names
      <3>1. <<"READONLY">> \in Seq(names) /\ <<>> \in Seq(names)
        OBVIOUS
      <3> HIDE DEF names
      <3>2. rest \in Seq(names)
        BY <3>1
      <3> QED
        BY <3>2 DEF names
    <2>2. Pending(auth, select, readonly) = (<<>> \o <<"SELECT">>) \o rest
          /\ Pending(FALSE, FALSE, readonly) = (<<>> \o <<>>) \o rest
      BY <1>2 DEF Pending
    <2> HIDE DEF rest, names
    <2>3. <<>> \o <<"SELECT">> = <<"SELECT">> /\ <<>> \o <<>> = <<>> /\ <<>> \o rest = rest
      <3>1. <<"SELECT">> \in Seq(names)
        BY <2>1
      <3> QED
        BY <2>1, <3>1, ConcatEmptySeq
    <2>4. Head(<<"SELECT">> \o rest) = "SELECT" /\ Tail(<<"SELECT">> \o rest) = rest
      BY <2>1, ConcatOne
    <2> QED
      BY <1>2, <2>2, <2>3, <2>4
  <1>3. CASE ~auth /\ ~select
    BY <1>3 DEF Pending
  <1> QED
    BY <1>1, <1>2, <1>3

(* Nothing is left to be done when all of it has been done.                *)
LEMMA NothingPending ==
  ASSUME NEW auth \in BOOLEAN, NEW select \in BOOLEAN, NEW readonly \in BOOLEAN,
         Pending(auth, select, readonly) = <<>>
  PROVE  ~auth /\ ~select /\ ~readonly
PROOF BY DEF Pending

(* What each command of _set_options() makes of the session.               *)
LEMMA Authenticated ==
  ASSUME NEW o, NEW select \in BOOLEAN, NEW readonly \in BOOLEAN, ~Anonymous(o)
  PROVE  [SessionAt(o, TRUE, select, readonly) EXCEPT !.user = "somebody"]
           = SessionAt(o, FALSE, select, readonly)
PROOF
  <1>4. PICK s : s = SessionAt(o, TRUE, select, readonly)
    OBVIOUS
  <1>5. PICK t : t = [s EXCEPT !.user = "somebody"]
    OBVIOUS
  <1> DEFINE d == IF select THEN 0 ELSE o.db
             r == o.readonly /\ ~readonly
  <1>1. s = [user |-> "nobody", db |-> d, readonly |-> r]
        /\ SessionAt(o, FALSE, select, readonly) = [user |-> "somebody", db |-> d, readonly |-> r]
    BY <1>4, Zenon DEF SessionAt
  <1> HIDE DEF d, r
  <1>2. t = [[user |-> "nobody", db |-> d, readonly |-> r] EXCEPT !.user = "somebody"]
    BY <1>1, <1>5, Zenon
  <1>3. [[user |-> "nobody", db |-> d, readonly |-> r] EXCEPT !.user = "somebody"] = [user |-> "somebody", db |-> d, readonly |-> r]
    OBVIOUS
  <1> QED
    BY <1>1, <1>2, <1>3, <1>4, <1>5, Zenon

LEMMA Selected ==
  ASSUME NEW o, NEW readonly \in BOOLEAN
  PROVE  [SessionAt(o, FALSE, TRUE, readonly) EXCEPT !.db = o.db]
           = SessionAt(o, FALSE, FALSE, readonly)
PROOF
  <1>4. PICK s : s = SessionAt(o, FALSE, TRUE, readonly)
    OBVIOUS
  <1>5. PICK t : t = [s EXCEPT !.db = o.db]
    OBVIOUS
  <1> DEFINE u == IF Anonymous(o) THEN "nobody" ELSE "somebody"
             r == o.readonly /\ ~readonly
  <1>1. s = [user |-> u, db |-> 0, readonly |-> r]
        /\ SessionAt(o, FALSE, FALSE, readonly) = [user |-> u, db |-> o.db, readonly |-> r]
    BY <1>4, Zenon DEF SessionAt
  <1> HIDE DEF u, r
  <1>2. t = [[user |-> u, db |-> 0, readonly |-> r] EXCEPT !.db = o.db]
    BY <1>1, <1>5, Zenon
  <1>3. [[user |-> u, db |-> 0, readonly |-> r] EXCEPT !.db = o.db] = [user |-> u, db |-> o.db, readonly |-> r]
    OBVIOUS
  <1> QED
    BY <1>1, <1>2, <1>3, <1>4, <1>5, Zenon

LEMMA MadeReadonly ==
  ASSUME NEW o, o.readonly = TRUE
  PROVE  [SessionAt(o, FALSE, FALSE, TRUE) EXCEPT !.readonly = TRUE]
           = SessionAt(o, FALSE, FALSE, FALSE)
PROOF
  <1> DEFINE u == IF Anonymous(o) THEN "nobody" ELSE "somebody"
  <1>1. PICK f, v : f = FALSE /\ v = TRUE
    OBVIOUS
  <1>2. SessionAt(o, FALSE, FALSE, TRUE) = [user |-> u, db |-> o.db, readonly |-> f]
        /\ SessionAt(o, FALSE, FALSE, FALSE) = [user |-> u, db |-> o.db, readonly |-> v]
    BY <1>1 DEF SessionAt
  <1> HIDE DEF u
  <1>3. PICK d : d = o.db
    OBVIOUS
  <1>4. [[user |-> u, db |-> d, readonly |-> f] EXCEPT !.readonly = v]
          = [user |-> u, db |-> d, readonly |-> v]
    OBVIOUS
  <1> QED
    BY <1>1, <1>2, <1>3, <1>4, Zenon

(* A session under construction is one.                                    *)
LEMMA SessionType ==
  ASSUME NEW o \in Options, NEW auth \in BOOLEAN, NEW select \in BOOLEAN, NEW readonly \in BOOLEAN
  PROVE  SessionAt(o, auth, select, readonly) \in Sessions
PROOF
  <1>1. o.db \in Int /\ o.readonly \in BOOLEAN
    BY DEF Options
  <1>2. (o.readonly /\ ~readonly) \in BOOLEAN
    OBVIOUS
  <1>3. (IF select THEN 0 ELSE o.db) \in Int
    BY <1>1
  <1>4. (IF Anonymous(o) \/ auth THEN "nobody" ELSE "somebody") \in {"nobody", "somebody"}
    OBVIOUS
  <1> QED
    BY <1>2, <1>3, <1>4, Zenon DEF SessionAt, Sessions

(* A reply to one of the commands of _set_options() brings the session one *)
(* step nearer to the one the options ask for.                             *)
LEMMA SetupStepInv == ASSUME IInv, SetupStep PROVE IInv'
PROOF
  <1> USE DEF IInv
  <1> DEFINE c == new[1]
  <1>1. /\ uri' = uri /\ opts' = opts /\ ctx' = ctx /\ stage = "setup" /\ stage' = "setup"
        /\ threw' = threw /\ owed' = owed /\ left' = left /\ nextCmd' = nextCmd
        /\ setup # <<>> /\ setup' = Tail(setup)
    BY DEF SetupStep, caller
  <1>2. new = <<c>> /\ c \in Context
    BY <1>1 DEF Slots, Placed
  <1>3. PICK auth \in BOOLEAN, select \in BOOLEAN, readonly \in BOOLEAN :
          /\ setup = Pending(auth, select, readonly)
          /\ (auth => ~Anonymous(opts)) /\ (readonly => opts.readonly)
          /\ c.session = SessionAt(opts, auth, select, readonly)
    BY <1>1 DEF UnderConstruction
  <1>4. opts.db \in Int /\ opts.readonly \in BOOLEAN /\ opts \in Options
    BY DEF Values, Options
  <1> DEFINE next == CASE Head(setup) = "AUTH"     -> [c.session EXCEPT !.user = "somebody"]
                       [] Head(setup) = "SELECT"   -> [c.session EXCEPT !.db = opts.db]
                       [] Head(setup) = "READONLY" -> [c.session EXCEPT !.readonly = TRUE]
             d == [c EXCEPT !.session = next]
  <1>5. new' = <<d>>
    <2>1. new' = [new EXCEPT ![1].session = next]
      BY DEF SetupStep
    <2> HIDE DEF c, next
    <2> QED
      BY <1>2, <2>1
  <1>6. \E a, s, r \in BOOLEAN :
          /\ Tail(setup) = Pending(a, s, r) /\ (a => ~Anonymous(opts)) /\ (r => opts.readonly)
          /\ next = SessionAt(opts, a, s, r)
    <2>1. CASE auth /\ Head(setup) = "AUTH" /\ Tail(setup) = Pending(FALSE, select, readonly)
      <3>1. next = [c.session EXCEPT !.user = "somebody"]
        BY <2>1
      <3> HIDE DEF next, c
      <3>2. next = SessionAt(opts, FALSE, select, readonly)
        <4>1. auth = TRUE
          BY <2>1
        <4>2. ~Anonymous(opts) /\ c.session = SessionAt(opts, TRUE, select, readonly)
          BY <1>3, <4>1
        <4>3. [SessionAt(opts, TRUE, select, readonly) EXCEPT !.user = "somebody"]
                = SessionAt(opts, FALSE, select, readonly)
          BY <4>2, Authenticated, Zenon
        <4> QED
          BY <3>1, <4>2, <4>3, Zenon
      <3> QED
        BY <1>3, <2>1, <3>2
    <2>2. CASE ~auth /\ select /\ Head(setup) = "SELECT"
               /\ Tail(setup) = Pending(FALSE, FALSE, readonly)
      <3>1. next = [c.session EXCEPT !.db = opts.db]
        BY <2>2
      <3> HIDE DEF next, c
      <3>2. next = SessionAt(opts, FALSE, FALSE, readonly)
        <4>1. auth = FALSE /\ select = TRUE
          BY <2>2
        <4>2. [SessionAt(opts, FALSE, TRUE, readonly) EXCEPT !.db = opts.db]
                = SessionAt(opts, FALSE, FALSE, readonly)
          BY Selected, Zenon
        <4> QED
          BY <1>3, <3>1, <4>1, <4>2, Zenon
      <3> QED
        BY <1>3, <2>2, <3>2
    <2>3. CASE ~auth /\ ~select /\ readonly /\ Head(setup) = "READONLY"
               /\ Tail(setup) = Pending(FALSE, FALSE, FALSE)
      <3>1. next = [c.session EXCEPT !.readonly = TRUE]
        BY <2>3
      <3> HIDE DEF next, c
      <3>2. next = SessionAt(opts, FALSE, FALSE, FALSE)
        <4>1. auth = FALSE /\ select = FALSE /\ readonly = TRUE /\ opts.readonly = TRUE
          BY <1>3, <1>4, <2>3
        <4>2. [SessionAt(opts, FALSE, FALSE, TRUE) EXCEPT !.readonly = TRUE]
                = SessionAt(opts, FALSE, FALSE, FALSE)
          BY <4>1, MadeReadonly, Zenon
        <4> QED
          BY <1>3, <3>1, <4>1, <4>2, Zenon
      <3> QED
        BY <2>3, <3>2
    <2> QED
      <3>1. Pending(auth, select, readonly) # <<>>
        BY <1>1, <1>3
      <3> HIDE DEF next, c
      <3> QED
        BY <1>3, <2>1, <2>2, <2>3, <3>1, FirstPending
  <1>7. next \in Sessions
    <2> HIDE DEF next
    <2> QED
      BY <1>4, <1>6, SessionType
  <1> HIDE DEF next
  <1>8. /\ d \in Context /\ d.session = next /\ d.err = c.err /\ d.in = c.in /\ d.out = c.out
        /\ d.server = c.server /\ d.open = c.open /\ d.timeout = c.timeout
        /\ d.keepAlive = c.keepAlive
    BY <1>2, <1>7 DEF Context
  <1>9. Values'
    BY <1>1 DEF Values
  <1> HIDE DEF d
  <1>10. Slots' /\ new' # <<>> /\ new'[1] = d
    BY <1>1, <1>5, <1>8 DEF Slots
  <1>11. Placed'
    BY <1>1, <1>10 DEF Placed, Busy
  <1>12. Matched' /\ InUse'
    BY <1>1 DEF Matched, Line, InUse
  <1>13. UnderConstruction'
    <2>1. c.err = "none" /\ Matches(c, <<>>) /\ SocketRight(opts, c)
      BY <1>1 DEF UnderConstruction
    <2>2. d.err = "none" /\ Matches(d, <<>>)
      BY <1>8, <2>1 DEF Matches
    <2>3. SocketRight(opts, d)
      BY SMT, <1>8, <2>1 DEF SocketRight
    <2> QED
      BY <1>1, <1>6, <1>8, <1>10, <2>2, <2>3, ZenonT(60) DEF UnderConstruction
  <1> QED
    BY <1>9, <1>10, <1>11, <1>12, <1>13

(* swap(): the new context comes into use when it is as it should be.      *)
LEMMA SwapInv == ASSUME IInv, Swap PROVE IInv'
PROOF
  <1> USE DEF IInv
  <1>1. /\ uri' = uri /\ opts' = opts /\ stage = "setup" /\ stage' = "using" /\ setup = <<>>
        /\ threw' = threw /\ owed' = owed /\ left' = <<>> /\ nextCmd' = nextCmd
        /\ ctx' = new /\ new' = <<>>
    BY DEF Swap
  <1>2. new = <<new[1]>> /\ new[1] \in Context /\ new # <<>> /\ owed = <<>> /\ threw = "nothing"
    BY <1>1 DEF Slots, Placed, Busy
  <1>3. new[1].err = "none" /\ Matches(new[1], <<>>) /\ SocketRight(opts, new[1])
    BY <1>1 DEF UnderConstruction
  <1>4. new[1].session = SessionAt(opts, FALSE, FALSE, FALSE)
    <2>1. PICK auth \in BOOLEAN, select \in BOOLEAN, readonly \in BOOLEAN :
            setup = Pending(auth, select, readonly)
            /\ new[1].session = SessionAt(opts, auth, select, readonly)
      BY <1>1 DEF UnderConstruction
    <2>2. auth = FALSE /\ select = FALSE /\ readonly = FALSE
      BY <1>1, <2>1, NothingPending
    <2> QED
      BY <2>1, <2>2
  <1>5. Values' /\ Slots'
    <2>1. <<>> \in Seq(Circle) /\ Len(<<>>) <= MaxLeft
      BY ConnectionAssumption, EmptySeq
    <2> QED
      BY <1>1, <1>2, <2>1 DEF Values, Slots, Stages
  <1>6. Placed'
    BY <1>1, <1>2, <1>3 DEF Placed, Busy
  <1>7. Matched'
    <2>1. Line' = <<>>
      <3>1. <<>> \o <<>> = <<>>
        BY EmptySeq, ConcatEmptySeq
      <3> QED
        BY <1>1, <1>2, <3>1 DEF Line
    <2> QED
      BY <1>1, <1>3, <2>1 DEF Matched
  <1>8. InUse'
    BY <1>1, <1>3, <1>4 DEF InUse, Right
  <1>9. UnderConstruction'
    BY <1>1 DEF UnderConstruction
  <1> QED
    BY <1>5, <1>6, <1>7, <1>8, <1>9

-----------------------------------------------------------------------------
(* The context in use.                                                     *)

(* A step changes the context in use, but not its session nor its socket   *)
(* options, and leaves construction alone.                                 *)
LEMMA InUseStep ==
  ASSUME IInv, ctx # <<>>, UNCHANGED <<uri, opts, new, setup>>,
         NEW d, d \in Context, ctx' = <<d>>, d.session = ctx[1].session,
         d.timeout = ctx[1].timeout, d.keepAlive = ctx[1].keepAlive,
         stage' = "setup" => stage = "setup"
  PROVE  Slots' /\ InUse' /\ UnderConstruction' /\ ctx' # <<>> /\ ctx'[1] = d
PROOF
  <1> USE DEF IInv
  <1>1. uri' = uri /\ opts' = opts /\ new' = new /\ setup' = setup
    OBVIOUS
  <1>2. ctx' # <<>> /\ ctx'[1] = d
    OBVIOUS
  <1>3. Slots'
    BY <1>1, <1>2 DEF Slots
  <1>4. Right(opts, ctx[1])
    BY DEF InUse
  <1>5. Right(opts, d)
    BY SMT, <1>4 DEF Right, SocketRight
  <1>6. InUse'
    BY <1>1, <1>2, <1>5 DEF InUse
  <1>7. UnderConstruction'
    BY <1>1 DEF UnderConstruction
  <1> QED
    BY <1>2, <1>3, <1>6, <1>7

(* What is known of the context where the caller uses it.                  *)
LEMMA InBusy ==
  ASSUME IInv, stage \in Busy
  PROVE  /\ ctx # <<>> /\ ctx = <<ctx[1]>> /\ ctx[1] \in Context
         /\ threw = "socket" <=> ctx[1].err # "none"
         /\ threw # "socket" => Matches(ctx[1], Line)
         /\ threw = "socket" /\ ctx[1].err = "timeout" => Matches(ctx[1], Line)
PROOF BY DEF IInv, Slots, Placed, Matched

(* The server or the network changes the context, at any time.             *)
LEMMA ServerStep ==
  ASSUME IInv, ctx # <<>>, UNCHANGED <<uri, opts, new, setup, stage, caller>>,
         NEW d, d \in Context, ctx' = <<d>>, d.session = ctx[1].session,
         d.timeout = ctx[1].timeout, d.keepAlive = ctx[1].keepAlive, d.err = ctx[1].err,
         Matches(ctx[1], Line) => Matches(d, Line)
  PROVE  IInv'
PROOF
  <1>1. /\ uri' = uri /\ opts' = opts /\ new' = new /\ setup' = setup /\ stage' = stage
        /\ threw' = threw /\ owed' = owed /\ left' = left /\ nextCmd' = nextCmd
    BY DEF caller
  <1>2. Slots' /\ InUse' /\ UnderConstruction' /\ ctx' # <<>> /\ ctx'[1] = d
    BY <1>1, InUseStep
  <1>3. Values'
    BY <1>1 DEF IInv, Values
  <1>4. Placed'
    BY <1>1, <1>2 DEF IInv, Placed
  <1>5. Matched'
    BY <1>1, <1>2 DEF IInv, Matched, Line
  <1> QED
    BY <1>2, <1>3, <1>4, <1>5 DEF IInv

(* A reply of the server: it passes from one side to the other.            *)
LEMMA ReplyInv == ASSUME IInv, Reply PROVE IInv'
PROOF
  <1> DEFINE c == ctx[1]
             d == [c EXCEPT !.in = Append(@, Head(c.server)), !.server = Tail(@)]
  <1>1. /\ ctx # <<>> /\ c.open /\ c.server # <<>> /\ UNCHANGED <<uri, opts, new, setup, stage, caller>>
        /\ ctx' = [ctx EXCEPT ![1].in = Append(@, Head(ctx[1].server)), ![1].server = Tail(@)]
    BY DEF Reply
  <1>2. ctx = <<c>> /\ c \in Context
    BY <1>1 DEF IInv, Slots
  <1>3. ctx' = <<d>>
    <2> HIDE DEF c
    <2> QED
      BY <1>1, <1>2
  <1>4. c.in \in Seq(Circle) /\ c.server \in Seq(Circle) /\ c.out \in Seq(Circle)
    BY <1>2 DEF Context
  <1>5. Append(c.in, Head(c.server)) \in Seq(Circle) /\ Tail(c.server) \in Seq(Circle)
    BY <1>1, <1>4, HeadTailProperties, AppendProperties
  <1> HIDE DEF c
  <1>6. /\ d \in Context /\ d.session = c.session /\ d.timeout = c.timeout
        /\ d.keepAlive = c.keepAlive /\ d.err = c.err /\ d.open = c.open /\ d.out = c.out
        /\ d.in = Append(c.in, Head(c.server)) /\ d.server = Tail(c.server)
    BY <1>2, <1>5 DEF Context
  <1> HIDE DEF d
  <1>7. Matches(c, Line) => Matches(d, Line)
    <2>1. Append(c.in, Head(c.server)) \o Tail(c.server) \o c.out = c.in \o c.server \o c.out
      BY <1>1, <1>4, Moved
    <2> QED
      BY <1>1, <1>6, <2>1, Zenon DEF Matches
  <1>8. c = ctx[1]
    BY DEF c
  <1> QED
    BY <1>1, <1>3, <1>6, <1>7, <1>8, ServerStep

(* The connection is lost: the replies that came are still the first of    *)
(* those to come.                                                          *)
LEMMA DropInv == ASSUME IInv, Drop PROVE IInv'
PROOF
  <1> DEFINE c == ctx[1]
             d == [c EXCEPT !.open = FALSE, !.server = <<>>]
  <1>1. /\ ctx # <<>> /\ c.open /\ UNCHANGED <<uri, opts, new, setup, stage, caller>>
        /\ ctx' = [ctx EXCEPT ![1].open = FALSE, ![1].server = <<>>]
    BY DEF Drop
  <1>2. ctx = <<c>> /\ c \in Context
    BY <1>1 DEF IInv, Slots
  <1>3. ctx' = <<d>>
    <2> HIDE DEF c
    <2> QED
      BY <1>1, <1>2
  <1>4. c.in \in Seq(Circle) /\ c.server \in Seq(Circle) /\ c.out \in Seq(Circle)
        /\ <<>> \in Seq(Circle)
    BY <1>2, EmptySeq DEF Context
  <1> HIDE DEF c
  <1>6. /\ d \in Context /\ d.session = c.session /\ d.timeout = c.timeout
        /\ d.keepAlive = c.keepAlive /\ d.err = c.err /\ d.open = FALSE /\ d.in = c.in
    BY <1>2, <1>4 DEF Context
  <1> HIDE DEF d
  <1>7. Matches(c, Line) => Matches(d, Line)
    BY <1>1, <1>4, <1>6, PrefixOfConcat DEF Matches
  <1>8. c = ctx[1]
    BY DEF c
  <1> QED
    BY <1>1, <1>3, <1>6, <1>7, <1>8, ServerStep

-----------------------------------------------------------------------------
(* The caller.                                                             *)

(* The next command of the circle is in it.                                *)
LEMMA CircleNext == ASSUME NEW n \in Circle PROVE (n + 1) % Commands \in Circle
PROOF
  <1>1. Commands \in Nat /\ Commands > 0
    BY ConnectionAssumption
  <1> QED
    BY <1>1 DEF Circle

(* A caller that is owed one reply more is owed those it was owed first.   *)
LEMMA PrefixAppend ==
  ASSUME NEW s \in Seq(Circle), NEW t \in Seq(Circle), NEW x \in Circle, IsPrefix(s, t)
  PROVE  IsPrefix(s, Append(t, x))
PROOF
  <1>1. Append(t, x) \in Seq(Circle) /\ Len(Append(t, x)) = Len(t) + 1
        /\ \A i \in 1 .. Len(t) : Append(t, x)[i] = t[i]
    BY AppendProperties
  <1>2. Len(s) \in Nat /\ Len(t) \in Nat
    BY LenProperties
  <1>3. Len(s) <= Len(t) /\ \A i \in 1 .. Len(s) : s[i] = t[i]
    BY PrefixElements
  <1>4. Len(s) <= Len(Append(t, x)) /\ \A i \in 1 .. Len(s) : s[i] = Append(t, x)[i]
    BY <1>1, <1>2, <1>3
  <1> QED
    BY <1>1, <1>4, PrefixElements

(* The caller takes the first reply of a connection that is closed.        *)
LEMMA PrefixTail ==
  ASSUME NEW s \in Seq(Circle), NEW t \in Seq(Circle), s # <<>>, t # <<>>, IsPrefix(s, t)
  PROVE  IsPrefix(Tail(s), Tail(t))
PROOF
  <1>1. /\ Tail(s) \in Seq(Circle) /\ Len(Tail(s)) = Len(s) - 1
        /\ \A i \in 1 .. Len(Tail(s)) : Tail(s)[i] = s[i + 1]
    BY HeadTailProperties
  <1>2. /\ Tail(t) \in Seq(Circle) /\ Len(Tail(t)) = Len(t) - 1
        /\ \A i \in 1 .. Len(Tail(t)) : Tail(t)[i] = t[i + 1]
    BY HeadTailProperties
  <1>3. Len(s) \in Nat /\ Len(t) \in Nat
    BY LenProperties
  <1>4. Len(s) <= Len(t) /\ \A i \in 1 .. Len(s) : s[i] = t[i]
    BY PrefixElements
  <1>5. Len(Tail(s)) <= Len(Tail(t)) /\ \A i \in 1 .. Len(Tail(s)) : Tail(s)[i] = Tail(t)[i]
    BY <1>1, <1>2, <1>3, <1>4
  <1> QED
    BY <1>1, <1>2, <1>5, PrefixElements

(* The line of replies to come gets longer at its end.                     *)
LEMMA LineSent ==
  ASSUME NEW l \in Seq(Circle), NEW o \in Seq(Circle), NEW x \in Circle
  PROVE  l \o o \in Seq(Circle) /\ l \o Append(o, x) = Append(l \o o, x)
PROOF
  <1>1. l \o o \in Seq(Circle) /\ <<x>> \in Seq(Circle)
    BY ConcatProperties
  <1>2. Append(o, x) = o \o <<x>> /\ Append(l \o o, x) = (l \o o) \o <<x>>
    BY <1>1, AppendIsConcat
  <1> QED
    BY <1>1, <1>2, ConcatAssociative

(* A reply is taken from the front of the line, and the caller takes it    *)
(* for its own: what came before its replies is as long as it was.         *)
LEMMA LineTaken ==
  ASSUME NEW l \in Seq(Circle), NEW o \in Seq(Circle), o # <<>>
  PROVE  LET m == SubSeq(Tail(l \o o), 1, Len(l))
         IN  /\ m \in Seq(Circle) /\ Len(m) = Len(l) /\ m \o Tail(o) = Tail(l \o o)
             /\ l \o o \in Seq(Circle) /\ l \o o # <<>>
PROOF
  <1> DEFINE w == l \o o
             t == Tail(w)
             m == SubSeq(t, 1, Len(l))
  <1>1. /\ w \in Seq(Circle) /\ Len(w) = Len(l) + Len(o)
        /\ \A i \in 1 .. Len(l) + Len(o) : w[i] = IF i <= Len(l) THEN l[i] ELSE o[i - Len(l)]
    BY ConcatProperties
  <1>2. Len(l) \in Nat /\ Len(o) \in Nat /\ Len(o) >= 1
    BY EmptySeq, LenProperties
  <1> HIDE DEF w
  <1>3. w # <<>>
    BY <1>1, <1>2, EmptySeq
  <1>4. /\ t \in Seq(Circle) /\ Len(t) = Len(l) + Len(o) - 1
        /\ \A i \in 1 .. Len(t) : t[i] = w[i + 1]
    BY <1>1, <1>3, HeadTailProperties
  <1> HIDE DEF t
  <1>5. /\ m \in Seq(Circle) /\ Len(m) = Len(l) /\ \A i \in 1 .. Len(l) : m[i] = t[i]
    <2>1. \A i \in 1 .. Len(l) : t[i] \in Circle
      <3>1. \A i \in 1 .. Len(l) : i \in 1 .. Len(t)
        BY <1>2, <1>4
      <3> QED
        BY <1>4, <3>1, ElementOfSeq
    <2>2. 1 \in 1 .. Len(t) + 1 /\ Len(l) \in 0 .. Len(t)
      BY <1>2, <1>4
    <2> QED
      BY <1>2, <1>4, <2>1, <2>2, SubSeqProperties, SMTT(30)
  <1>6. /\ Tail(o) \in Seq(Circle) /\ Len(Tail(o)) = Len(o) - 1
        /\ \A i \in 1 .. Len(o) - 1 : Tail(o)[i] = o[i + 1]
    BY HeadTailProperties
  <1> HIDE DEF m
  <1>7. /\ m \o Tail(o) \in Seq(Circle) /\ Len(m \o Tail(o)) = Len(l) + Len(o) - 1
        /\ \A i \in 1 .. Len(l) + Len(o) - 1 :
             (m \o Tail(o))[i] = IF i <= Len(l) THEN m[i] ELSE Tail(o)[i - Len(l)]
    <2>1. /\ m \o Tail(o) \in Seq(Circle) /\ Len(m \o Tail(o)) = Len(m) + Len(Tail(o))
          /\ \A i \in 1 .. Len(m) + Len(Tail(o)) :
               (m \o Tail(o))[i] = IF i <= Len(m) THEN m[i] ELSE Tail(o)[i - Len(m)]
      <3>1. m \in Seq(Circle) /\ Tail(o) \in Seq(Circle)
        BY <1>5, <1>6
      <3> QED
        BY <3>1, ConcatProperties, Zenon
    <2>2. Len(m) = Len(l) /\ Len(m) + Len(Tail(o)) = Len(l) + Len(o) - 1
      BY <1>2, <1>5, <1>6
    <2> QED
      BY <2>1, <2>2, Zenon
  <1>8. ASSUME NEW i \in 1 .. Len(l) + Len(o) - 1 PROVE (m \o Tail(o))[i] = t[i]
    <2>1. CASE i <= Len(l)
      BY <1>2, <1>5, <1>7, <2>1
    <2>2. CASE ~(i <= Len(l))
      <3>1. i - Len(l) \in 1 .. Len(o) - 1 /\ i \in 1 .. Len(t)
            /\ i + 1 \in 1 .. Len(l) + Len(o) /\ ~(i + 1 <= Len(l))
            /\ (i - Len(l)) + 1 = i + 1 - Len(l)
        BY <1>2, <1>4, <2>2
      <3>2. (m \o Tail(o))[i] = Tail(o)[i - Len(l)]
        BY <1>7, <2>2
      <3>3. Tail(o)[i - Len(l)] = o[i + 1 - Len(l)]
        BY <1>6, <3>1
      <3>4. t[i] = o[i + 1 - Len(l)]
        BY <1>1, <1>4, <3>1
      <3> QED
        BY <3>2, <3>3, <3>4
    <2> QED
      BY <2>1, <2>2
  <1>9. m \o Tail(o) = t
    BY <1>4, <1>7, <1>8, SeqEqual
  <1> QED
    BY <1>1, <1>3, <1>5, <1>9 DEF w, t, m

(* send(): the command joins the output buffer and those owed.             *)
LEMMA SendInv == ASSUME IInv, Send PROVE IInv'
PROOF
  <1> DEFINE c == ctx[1]
             d == [c EXCEPT !.out = Append(@, nextCmd)]
  <1>1. /\ stage = "using" /\ threw = "nothing" /\ Len(owed) < Depth /\ owed' = Append(owed, nextCmd)
        /\ ctx' = [ctx EXCEPT ![1].out = Append(@, nextCmd)]
        /\ nextCmd' = (nextCmd + 1) % Commands /\ uri' = uri /\ opts' = opts /\ new' = new
        /\ setup' = setup /\ stage' = stage /\ threw' = threw /\ left' = left
    BY DEF Send
  <1>2. ctx # <<>> /\ ctx = <<c>> /\ c \in Context /\ c.err = "none" /\ Matches(c, Line)
    BY <1>1, InBusy DEF Busy
  <1>3. ctx' = <<d>>
    <2>1. ctx' = [ctx EXCEPT ![1] = d]
      BY <1>1
    <2> QED
      BY <1>2, <2>1, ContextSet, Zenon DEF IInv
  <1>4. /\ c.in \in Seq(Circle) /\ c.server \in Seq(Circle) /\ c.out \in Seq(Circle)
        /\ nextCmd \in Circle /\ owed \in Seq(Circle) /\ left \in Seq(Circle)
    BY <1>2 DEF Context, IInv, Values
  <1>5. Append(c.out, nextCmd) \in Seq(Circle)
    BY <1>4, AppendProperties
  <1> HIDE DEF c
  <1>6. /\ d \in Context /\ d.session = c.session /\ d.timeout = c.timeout
        /\ d.keepAlive = c.keepAlive /\ d.err = c.err /\ d.open = c.open
        /\ d.in = c.in /\ d.server = c.server /\ d.out = Append(c.out, nextCmd)
    BY <1>2, <1>5 DEF Context
  <1> HIDE DEF d
  <1>7. Matches(d, Line')
    <2>1. Line \in Seq(Circle) /\ Line' = Append(Line, nextCmd)
      BY <1>1, <1>4, LineSent DEF Line
    <2>2. CASE c.open
      <3>1. c.in \o c.server \o Append(c.out, nextCmd) = Append(c.in \o c.server \o c.out, nextCmd)
        BY <1>4, AppendLast, ZenonT(60)
      <3> QED
        BY <1>2, <1>6, <2>1, <2>2, <3>1, Zenon DEF Matches
    <2>3. CASE ~c.open
      BY <1>2, <1>4, <1>6, <2>1, <2>3, PrefixAppend DEF Matches
    <2> QED
      BY <2>2, <2>3
  <1>8. c = ctx[1]
    BY DEF c
  <1>9. Slots' /\ InUse' /\ UnderConstruction' /\ ctx' # <<>> /\ ctx'[1] = d
    BY <1>1, <1>2, <1>3, <1>6, <1>8, InUseStep
  <1>10. Values'
    <2>1. owed' \in Seq(Circle) /\ Len(owed') = Len(owed) + 1 /\ owed' # <<>>
      BY <1>1, <1>4, AppendProperties
    <2>2. Len(owed) + 1 <= Depth
      BY <1>1, <1>4, LenProperties, ConnectionAssumption
    <2>3. nextCmd' \in Circle
      BY <1>1, <1>4, CircleNext
    <2> QED
      BY <1>1, <2>1, <2>2, <2>3 DEF IInv, Values
  <1>11. Placed'
    BY <1>1, <1>2, <1>6, <1>9 DEF IInv, Placed, Busy
  <1>12. Matched'
    BY <1>7, <1>9 DEF Matched, Line
  <1> QED
    BY <1>9, <1>10, <1>11, <1>12 DEF IInv

(* recv() with nothing in the reader: the output buffer goes to the server. *)
LEMMA RecvInv == ASSUME IInv, Recv PROVE IInv'
PROOF
  <1> DEFINE c == ctx[1]
             served == IF c.open THEN c.server \o c.out ELSE c.server
             d == [c EXCEPT !.out = <<>>, !.server = served]
  <1>1. /\ stage = "using" /\ threw = "nothing" /\ owed # <<>> /\ stage' = "receiving"
        /\ ctx' = [ctx EXCEPT ![1].out = <<>>,
                              ![1].server = IF ctx[1].open THEN @ \o ctx[1].out ELSE @]
        /\ uri' = uri /\ opts' = opts /\ new' = new /\ setup' = setup
        /\ threw' = threw /\ owed' = owed /\ left' = left /\ nextCmd' = nextCmd
    BY DEF Recv, caller
  <1>2. ctx # <<>> /\ ctx = <<c>> /\ c \in Context /\ c.err = "none" /\ Matches(c, Line)
    BY <1>1, InBusy DEF Busy
  <1>3. ctx' = <<d>>
    <2> HIDE DEF c
    <2> QED
      BY <1>1, <1>2
  <1>4. /\ c.in \in Seq(Circle) /\ c.server \in Seq(Circle) /\ c.out \in Seq(Circle)
        /\ <<>> \in Seq(Circle)
    BY <1>2, EmptySeq DEF Context
  <1>5. served \in Seq(Circle) /\ (c.open => served = c.server \o c.out)
    BY <1>4, ConcatProperties
  <1> HIDE DEF c, served
  <1>6. /\ d \in Context /\ d.session = c.session /\ d.timeout = c.timeout
        /\ d.keepAlive = c.keepAlive /\ d.err = c.err /\ d.open = c.open
        /\ d.in = c.in /\ d.server = served /\ d.out = <<>>
    BY <1>2, <1>4, <1>5 DEF Context
  <1> HIDE DEF d
  <1>7. Matches(d, Line)
    <2>1. CASE c.open
      <3>1. c.in \o (c.server \o c.out) \o <<>> = c.in \o c.server \o c.out
        BY <1>4, Flushed, ZenonT(60)
      <3> QED
        BY <1>2, <1>5, <1>6, <2>1, <3>1, Zenon DEF Matches
    <2>2. CASE ~c.open
      BY <1>2, <1>6, <2>2 DEF Matches
    <2> QED
      BY <2>1, <2>2
  <1>8. c = ctx[1]
    BY DEF c
  <1>9. Slots' /\ InUse' /\ UnderConstruction' /\ ctx' # <<>> /\ ctx'[1] = d
    BY <1>1, <1>2, <1>3, <1>6, <1>8, InUseStep
  <1>10. Values'
    BY <1>1 DEF IInv, Values, Stages
  <1>11. Placed'
    BY <1>1, <1>2, <1>6, <1>9 DEF IInv, Placed, Busy
  <1>12. Matched'
    BY <1>1, <1>7, <1>9 DEF Matched, Line
  <1> QED
    BY <1>9, <1>10, <1>11, <1>12 DEF IInv

(* recv() takes the first reply: it is the first of the line.              *)
LEMMA GetReplyInv == ASSUME IInv, GetReply PROVE IInv'
PROOF
  <1> DEFINE c == ctx[1]
             d == [c EXCEPT !.in = Tail(@)]
  <1>1. /\ stage \in Busy /\ stage' = "using" /\ owed' = Tail(owed) /\ c.in # <<>>
        /\ uri' = uri /\ opts' = opts /\ new' = new /\ setup' = setup
        /\ left' = SubSeq(Tail(left \o owed), 1, Len(left))
        /\ threw' \in {"nothing", "reply"} /\ nextCmd' = nextCmd
    BY DEF GetReply, Busy
  <1>2. owed # <<>> /\ threw = "nothing"
    BY DEF GetReply, IInv, Placed
  <1>3. ctx # <<>> /\ ctx = <<c>> /\ c \in Context /\ c.err = "none" /\ Matches(c, Line)
    BY <1>1, <1>2, InBusy
  <1>4. ctx' = <<d>>
    <2>1. ctx' = [ctx EXCEPT ![1] = d]
      BY DEF GetReply
    <2> QED
      BY <1>3, <2>1, ContextSet, Zenon DEF IInv
  <1>5. /\ c.in \in Seq(Circle) /\ c.server \in Seq(Circle) /\ c.out \in Seq(Circle)
        /\ owed \in Seq(Circle) /\ Len(owed) <= Depth
        /\ left \in Seq(Circle) /\ Len(left) <= MaxLeft
    BY <1>3 DEF Context, IInv, Values
  <1>6. Tail(c.in) \in Seq(Circle)
    BY <1>1, <1>5, HeadTailProperties
  <1>7. Tail(owed) \in Seq(Circle) /\ Len(Tail(owed)) <= Depth
    <2>1. Tail(owed) \in Seq(Circle) /\ Len(Tail(owed)) = Len(owed) - 1
      BY <1>2, <1>5, HeadTailProperties
    <2> QED
      BY <1>5, <2>1, LenProperties, ConnectionAssumption
  <1>8. /\ left' \in Seq(Circle) /\ Len(left') = Len(left) /\ Line' = Tail(Line)
         /\ Line \in Seq(Circle) /\ Line # <<>>
    BY <1>1, <1>2, <1>5, LineTaken, Zenon DEF Line
  <1> HIDE DEF c
  <1>9. /\ d \in Context /\ d.session = c.session /\ d.timeout = c.timeout
        /\ d.keepAlive = c.keepAlive /\ d.err = c.err /\ d.open = c.open
        /\ d.in = Tail(c.in) /\ d.server = c.server /\ d.out = c.out
    BY <1>3, <1>6 DEF Context
  <1> HIDE DEF d
  <1>10. Matches(d, Tail(Line))
    <2>1. CASE c.open
      <3>1. Tail(c.in) \o c.server \o c.out = Tail(c.in \o c.server \o c.out)
        BY <1>1, <1>5, FirstTaken, ZenonT(60)
      <3> QED
        BY <1>3, <1>9, <2>1, <3>1, Zenon DEF Matches
    <2>2. CASE ~c.open
      BY <1>1, <1>3, <1>5, <1>9, <1>8, <2>2, PrefixTail DEF Matches
    <2> QED
      BY <2>1, <2>2
  <1>11. c = ctx[1]
    BY DEF c
  <1>12. Slots' /\ InUse' /\ UnderConstruction' /\ ctx' # <<>> /\ ctx'[1] = d
    BY <1>1, <1>3, <1>4, <1>9, <1>11, InUseStep DEF Busy
  <1>13. Values'
    BY <1>1, <1>5, <1>7, <1>8 DEF IInv, Values, Stages
  <1>14. Placed'
    BY <1>1, <1>2, <1>3, <1>9, <1>12 DEF IInv, Placed, Busy
  <1>15. Matched'
    BY <1>10, <1>12, <1>8 DEF Matched
  <1> QED
    BY <1>12, <1>13, <1>14, <1>15 DEF IInv

(* The error of the context is set or cleared, and the caller knows.       *)
LEMMA ErrorInv ==
  ASSUME IInv, stage \in Busy, stage' = "using", NEW e \in Errors,
         ctx' = [ctx EXCEPT ![1].err = e],
         threw' \in {"nothing", "socket"}, threw' = "socket" <=> e # "none",
         UNCHANGED <<uri, opts, new, setup, owed, left, nextCmd>>,
         e \in {"none", "timeout"} => Matches(ctx[1], Line)
  PROVE  IInv'
PROOF
  <1> DEFINE c == ctx[1]
             d == [c EXCEPT !.err = e]
  <1>1. /\ uri' = uri /\ opts' = opts /\ new' = new /\ setup' = setup
        /\ owed' = owed /\ left' = left /\ nextCmd' = nextCmd
    OBVIOUS
  <1>2. ctx # <<>> /\ ctx = <<c>> /\ c \in Context
    BY InBusy
  <1>3. ctx' = <<d>>
    <2> HIDE DEF c
    <2> QED
      BY <1>2
  <1>4. e \in {"none", "timeout"} => Matches(c, Line)
    OBVIOUS
  <1> HIDE DEF c
  <1>5. /\ d \in Context /\ d.session = c.session /\ d.timeout = c.timeout
        /\ d.keepAlive = c.keepAlive /\ d.err = e /\ d.open = c.open
        /\ d.in = c.in /\ d.server = c.server /\ d.out = c.out
    BY <1>2 DEF Context
  <1> HIDE DEF d
  <1>6. e \in {"none", "timeout"} => Matches(d, Line)
    BY <1>4, <1>5 DEF Matches
  <1>7. c = ctx[1]
    BY DEF c
  <1>8. Slots' /\ InUse' /\ UnderConstruction' /\ ctx' # <<>> /\ ctx'[1] = d
    BY <1>1, <1>2, <1>3, <1>5, <1>7, InUseStep
  <1>9. Values'
    BY <1>1 DEF IInv, Values, Stages
  <1>10. Placed'
    BY <1>1, <1>5, <1>8 DEF IInv, Placed, Busy
  <1>11. Matched'
    BY <1>1, <1>5, <1>6, <1>8 DEF Matched, Line
  <1> QED
    BY <1>8, <1>9, <1>10, <1>11 DEF IInv

(* recv() throws: the error stays in the context.                          *)
LEMMA RecvFailsInv == ASSUME IInv, RecvFails PROVE IInv'
PROOF
  <1>1. PICK e \in {"timeout", "closed"} : ctx' = [ctx EXCEPT ![1].err = e]
    BY DEF RecvFails
  <1>2. /\ stage = "receiving" /\ stage' = "using" /\ threw' = "socket"
        /\ UNCHANGED <<uri, opts, new, setup, owed, left, nextCmd>>
    BY DEF RecvFails
  <1>3. Matches(ctx[1], Line)
    BY <1>2, InBusy DEF Busy, IInv, Placed
  <1> QED
    BY <1>1, <1>2, <1>3, ErrorInv DEF Busy, Errors

(* reset() and invalidate().                                               *)
LEMMA ResetInv == ASSUME IInv, Reset PROVE IInv'
PROOF
  <1>1. /\ stage = "using" /\ stage' = "using" /\ threw' = "nothing"
        /\ ctx' = [ctx EXCEPT ![1].err = "none"]
        /\ UNCHANGED <<uri, opts, new, setup, owed, left, nextCmd>>
    BY DEF Reset
  <1>2. Matches(ctx[1], Line)
    BY InBusy DEF Reset, Busy
  <1> QED
    BY <1>1, <1>2, ErrorInv DEF Busy, Errors

LEMMA InvalidateInv == ASSUME IInv, Invalidate PROVE IInv'
PROOF
  <1>1. /\ stage = "using" /\ stage' = "using" /\ threw' = "socket"
        /\ ctx' = [ctx EXCEPT ![1].err = "invalid"]
        /\ UNCHANGED <<uri, opts, new, setup, owed, left, nextCmd>>
    BY DEF Invalidate
  <1> QED
    BY <1>1, ErrorInv DEF Busy, Errors

(* The caller gives its connection back: if it has no error what the       *)
(* caller is owed is left on it.                                           *)
LEMMA ReleaseInv == ASSUME IInv, Release PROVE IInv'
PROOF
  <1>1. /\ stage = "using" /\ stage' = "free" /\ threw' = "nothing" /\ owed' = <<>>
        /\ threw # "socket" => Len(left \o owed) <= MaxLeft
        /\ left' = (IF threw = "socket" THEN left ELSE left \o owed)
        /\ uri' = uri /\ opts' = opts /\ ctx' = ctx
        /\ new' = new /\ setup' = setup /\ nextCmd' = nextCmd
    BY DEF Release
  <1>2. left \in Seq(Circle) /\ Len(left) <= MaxLeft /\ owed \in Seq(Circle)
        /\ left \o owed \in Seq(Circle)
    <2>1. left \in Seq(Circle) /\ Len(left) <= MaxLeft /\ owed \in Seq(Circle)
      BY DEF IInv, Values
    <2> QED
      BY <2>1, ConcatProperties
  <1>3. Values'
    <2>1. <<>> \in Seq(Circle) /\ Len(<<>>) <= Depth
      BY ConnectionAssumption, EmptySeq
    <2>2. left' \in Seq(Circle) /\ Len(left') <= MaxLeft
      BY <1>1, <1>2
    <2> QED
      BY <1>1, <2>1, <2>2 DEF IInv, Values, Stages
  <1>4. Slots' /\ InUse' /\ UnderConstruction'
    BY <1>1 DEF IInv, Slots, InUse, UnderConstruction
  <1>5. Placed'
    BY <1>1 DEF IInv, Placed, Busy
  <1>6. Matched'
    <2>1. CASE threw = "socket"
      BY <1>1, <2>1, InBusy DEF Matched, Busy
    <2>2. CASE threw # "socket"
      <3>1. Line' = Line
        BY <1>1, <1>2, <2>2, ConcatEmptySeq DEF Line
      <3>2. Matches(ctx[1], Line)
        BY <1>1, <2>2, InBusy DEF Busy
      <3> QED
        BY <1>1, <3>1, <3>2 DEF Matched
    <2> QED
      BY <2>1, <2>2
  <1> QED
    BY <1>3, <1>4, <1>5, <1>6 DEF IInv

-----------------------------------------------------------------------------
(* The theorems.                                                           *)

(* A connection that does not exist yet.                                   *)
LEMMA InitInv == ASSUME Init PROVE IInv
PROOF
  <1>1. <<>> \in Seq(Circle) /\ Len(<<>>) <= Depth /\ Len(<<>>) <= MaxLeft /\ 0 \in Circle
    BY ConnectionAssumption, EmptySeq DEF Circle
  <1>2. Invalid \in Options
    BY UrisParsed
  <1>3. Values
    BY <1>1, <1>2 DEF Init, Values, Stages
  <1> QED
    BY <1>3 DEF Init, IInv, Slots, Placed, Matched, UnderConstruction, InUse, Busy

(* Every step keeps the invariant.                                         *)
LEMMA StepInv == ASSUME IInv, [Next]_vars PROVE IInv'
PROOF
  <1>1. CASE MakeOptions
    BY <1>1, MakeOptionsInv
  <1>2. CASE Reconnect
    BY <1>2, PlaceInv DEF Reconnect, Stages
  <1>3. CASE Connect
    BY <1>3, ConnectInv
  <1>4. CASE ConstructionThrows
    BY <1>4, ConstructionThrowsInv
  <1>5. CASE SetupStep
    BY <1>5, SetupStepInv
  <1>6. CASE Swap
    BY <1>6, SwapInv
  <1>7. CASE Use
    BY <1>7, PlaceInv DEF Use, Stages
  <1>8. CASE Send
    BY <1>8, SendInv
  <1>9. CASE Recv
    BY <1>9, RecvInv
  <1>10. CASE GetReply
    BY <1>10, GetReplyInv
  <1>11. CASE RecvFails
    BY <1>11, RecvFailsInv
  <1>12. CASE Reset
    BY <1>12, ResetInv
  <1>13. CASE Invalidate
    BY <1>13, InvalidateInv
  <1>14. CASE Release
    BY <1>14, ReleaseInv
  <1>15. CASE Reply
    BY <1>15, ReplyInv
  <1>16. CASE Drop
    BY <1>16, DropInv
  <1>17. CASE UNCHANGED vars
    <2>1. UNCHANGED <<uri, opts, ctx, new, setup, caller>> /\ stage' = stage /\ stage' \in Stages
      BY <1>17 DEF vars, caller, IInv, Values
    <2> QED
      BY <2>1, PlaceInv
  <1> QED
    BY <1>1, <1>2, <1>3, <1>4, <1>5, <1>6, <1>7, <1>8, <1>9, <1>10, <1>11, <1>12, <1>13,
       <1>14, <1>15, <1>16, <1>17 DEF Next, Failed

LEMMA Invariance == Spec => []IInv
PROOF
  <1>1. Init => IInv
    BY InitInv
  <1>2. IInv /\ [Next]_vars => IInv'
    BY StepInv
  <1> QED
    BY <1>1, <1>2, PTL DEF Spec

(* Type correctness of a connection: one context at most, none without an   *)
(* error to a caller that uses it and was not told.                         *)
THEOREM ConnectionTypeCorrect == Spec => []TypeOK
PROOF
  <1>1. IInv => TypeOK
    <2> SUFFICES ASSUME IInv PROVE TypeOK
      OBVIOUS
    <2>1. Values /\ Slots /\ Placed
      BY DEF IInv
    <2>2. Len(ctx) <= 1 /\ Len(new) <= 1
      <3>1. ASSUME NEW x, NEW y, x = <<>> \/ x = <<y>> PROVE Len(x) <= 1
        <4>1. Len(<<>>) = 0 /\ Len(<<y>>) = 1 /\ 0 <= 1 /\ 1 <= 1
          OBVIOUS
        <4> QED
          BY <3>1, <4>1, Zenon
      <3> QED
        BY <2>1, <3>1 DEF Slots
    <2>3. \A i \in DOMAIN ctx : ctx[i].err \in Errors /\ ctx[i].out \in Seq(Circle)
      <3>1. SUFFICES ASSUME NEW i \in DOMAIN ctx PROVE ctx[i] \in Context
        BY DEF Context
      <3>2. ctx = <<ctx[1]>> /\ ctx[1] \in Context
        BY <2>1 DEF Slots
      <3>3. i = 1
        <4>1. DOMAIN <<ctx[1]>> = {1}
          OBVIOUS
        <4> QED
          BY <3>2, <4>1
      <3> QED
        BY <3>2, <3>3
    <2> QED
      BY <2>1, <2>2, <2>3 DEF Values, Placed, Busy, TypeOK
  <1> QED
    BY <1>1, Invariance, PTL

(* Whatever happened to the connections before, the one in use has the      *)
(* session and the socket options its options ask for.                      *)
THEOREM ConnectionConfigured == Spec => []Configured
PROOF
  <1>1. IInv => Configured
    <2> SUFFICES ASSUME IInv, NEW i \in DOMAIN ctx
                 PROVE  /\ ctx[i].session = [user |-> IF opts.user = <<"default">> /\ opts.password = <<>>
                                                      THEN "nobody" ELSE "somebody",
                                             db |-> opts.db, readonly |-> opts.readonly]
                        /\ SocketRight(opts, ctx[i])
      BY SMT DEF Configured, SocketRight, SocketTimeout
    <2>1. ctx = <<ctx[1]>> /\ ctx # <<>>
      BY DEF IInv, Slots
    <2>2. i = 1
      <3>1. DOMAIN <<ctx[1]>> = {1}
        OBVIOUS
      <3> QED
        BY <2>1, <3>1
    <2>3. ctx[1].session = SessionAt(opts, FALSE, FALSE, FALSE) /\ SocketRight(opts, ctx[1])
      BY <2>1 DEF IInv, InUse, Right
    <2>4. opts.readonly \in BOOLEAN
      BY DEF IInv, Values, Options
    <2>5. (opts.readonly /\ ~FALSE) = opts.readonly
      BY <2>4
    <2> QED
      BY <2>2, <2>3, <2>5, Zenon DEF SessionAt, Anonymous
  <1> QED
    BY <1>1, Invariance, PTL

(* On a connection that is not broken the replies are, in the order of the  *)
(* commands, those that callers left that gave up for an error reply, and   *)
(* then the caller's own: nothing is left of timeouts, of connections       *)
(* invalidated and of contexts before, and nothing is missing.              *)
THEOREM ConnectionOwnReplies == Spec => []OwnReplies
PROOF
  <1>1. IInv => OwnReplies
    BY DEF IInv, Matched, Matches, Line, OwnReplies, Broken
  <1> QED
    BY <1>1, Invariance, PTL

-----------------------------------------------------------------------------
(* The options of the connection are those its URI is parsed into, whatever  *)
(* happens to it afterwards.                                                 *)

SameOptions(o, q) ==
  /\ o.valid = q.valid /\ o.type = q.type /\ o.host = q.host /\ o.port = q.port
  /\ o.path = q.path /\ o.user = q.user /\ o.password = q.password /\ o.db = q.db
  /\ o.keepAlive = q.keepAlive /\ o.connectTimeout = q.connectTimeout
  /\ o.socketTimeout = q.socketTimeout

Made ==
  /\ uri \in Uris
  /\ stage # "start" =>
       IF ParseUri(uri).valid THEN stage # "failed" /\ SameOptions(opts, ParseUri(uri))
                              ELSE stage = "failed"

(* `readonly` is set in the options, and nothing else.                      *)
LEMMA ReadonlyOnly ==
  ASSUME NEW S, NEW o \in OptionsOf(S), NEW ro
  PROVE  SameOptions([o EXCEPT !.readonly = ro], o)
PROOF BY DEF OptionsOf, SameOptions

(* Only the constructor of the options makes and changes them.              *)
LEMMA MadeOnce == ASSUME Made, MakeOptions PROVE Made'
PROOF
  <1>1. uri' = uri /\ uri \in Uris
    BY DEF MakeOptions, Made
  <1>2. ParseUri(uri) \in OptionsOf(Tokens)
    <2>1. uri \in Seq(Tokens) /\ "default" \in Tokens
      BY <1>1, UriAssumption DEF Tokens
    <2> QED
      BY <2>1, UriTypes
  <1>3. CASE ParseUri(uri).valid
    <2>1. stage' = "free" /\ \E ro \in BOOLEAN : opts' = [ParseUri(uri) EXCEPT !.readonly = ro]
      BY <1>3 DEF MakeOptions
    <2>2. SameOptions(opts', ParseUri(uri))
      BY <1>2, <2>1, ReadonlyOnly
    <2> QED
      BY <1>1, <1>3, <2>1, <2>2 DEF Made
  <1>4. CASE ~ParseUri(uri).valid
    BY <1>1, <1>4 DEF MakeOptions, Made
  <1> QED
    BY <1>3, <1>4

(* Steps that touch neither the URI nor the options.                        *)
LEMMA MadeKept ==
  ASSUME Made, UNCHANGED <<uri, opts>>,
         stage' = stage \/ (stage \notin {"start", "failed"} /\ stage' \notin {"start", "failed"})
  PROVE  Made'
PROOF BY DEF Made

(* Every step keeps what was made.                                          *)
LEMMA MadeStep == ASSUME Made, [Next]_vars PROVE Made'
PROOF
  <1>1. CASE MakeOptions
    BY <1>1, MadeOnce
  <1>2. CASE Reconnect
    BY <1>2, MadeKept DEF Reconnect
  <1>3. CASE Connect
    BY <1>3, MadeKept DEF Connect
  <1>4. CASE ConstructionThrows
    BY <1>4, MadeKept DEF ConstructionThrows
  <1>5. CASE SetupStep
    BY <1>5, MadeKept DEF SetupStep
  <1>6. CASE Swap
    BY <1>6, MadeKept DEF Swap
  <1>7. CASE Use
    BY <1>7, MadeKept DEF Use
  <1>8. CASE Send
    BY <1>8, MadeKept DEF Send
  <1>9. CASE Recv
    BY <1>9, MadeKept DEF Recv
  <1>10. CASE GetReply
    BY <1>10, MadeKept DEF GetReply
  <1>11. CASE RecvFails
    BY <1>11, MadeKept DEF RecvFails
  <1>12. CASE Reset
    BY <1>12, MadeKept DEF Reset
  <1>13. CASE Invalidate
    BY <1>13, MadeKept DEF Invalidate
  <1>14. CASE Release
    BY <1>14, MadeKept DEF Release
  <1>15. CASE Reply
    BY <1>15, MadeKept DEF Reply
  <1>16. CASE Drop
    BY <1>16, MadeKept DEF Drop
  <1>17. CASE Failed \/ UNCHANGED vars
    BY <1>17, MadeKept DEF Failed, vars
  <1> QED
    BY <1>1, <1>2, <1>3, <1>4, <1>5, <1>6, <1>7, <1>8, <1>9, <1>10, <1>11, <1>12, <1>13,
       <1>14, <1>15, <1>16, <1>17 DEF Next

(* connection.cpp:35: of whatever parts a URI is put together, the options   *)
(* the connection is made from are these parts, with the last setting of     *)
(* each.  Refused are an unknown type, a port that begins with no int, a     *)
(* text among the settings that is none, and a URI without "://"; nothing    *)
(* else is: the port and the database are the number their text begins with, *)
(* be it negative or followed by other text.                                 *)
THEOREM UriMeansItsParts == Spec => []OptionsRight
PROOF
  <1>1. Init => Made
    BY DEF Init, Made
  <1>2. Made /\ [Next]_vars => Made'
    BY MadeStep
  <1>3. Made => OptionsRight
    <2> SUFFICES ASSUME Made PROVE OptionsRight
      OBVIOUS
    <2>1. ASSUME NEW p \in Parts, stage # "start", uri = UriOf(p)
          PROVE  IF Accepted(p) THEN stage # "failed" /\ Means(p, opts) ELSE stage = "failed"
      <3>1. /\ Auth(p.auth) /\ Place(p.place) /\ Db(p.db) /\ Parameters(p.parameters)
            /\ p.db.text = <<>> => Unnumbered(p.place.text)
        BY PartsAssumption
      <3>2. IF Accepted(p) THEN Means(p, ParseUri(uri)) ELSE ParseUri(uri) = Invalid
        BY <2>1, <3>1, UriMeans
      <3>3. CASE Accepted(p)
        <4>1. Means(p, ParseUri(uri))
          BY <3>2, <3>3
        <4>2. ParseUri(uri).valid
          BY <4>1 DEF Means
        <4>3. stage # "failed" /\ SameOptions(opts, ParseUri(uri))
          BY <2>1, <4>2 DEF Made
        <4>4. Means(p, opts)
          BY <4>1, <4>3 DEF Means, SameOptions
        <4> QED
          BY <3>3, <4>3, <4>4
      <3>4. CASE ~Accepted(p)
        BY <2>1, <3>2, <3>4, InvalidIsNot DEF Made
      <3> QED
        BY <3>3, <3>4
    <2>2. ASSUME Without(uri, "://") PROVE stage \in {"start", "failed"}
      <3>1. uri \in Seq(Tokens)
        BY UriAssumption DEF Made
      <3>2. Find(uri, "://") = 0
        BY <2>2, <3>1, FindNone
      <3>3. ParseUri(uri) = Invalid
        BY <3>2 DEF ParseUri
      <3> QED
        BY <3>3, InvalidIsNot DEF Made
    <2> QED
      BY <2>1, <2>2 DEF OptionsRight
  <1> QED
    BY <1>1, <1>2, <1>3, PTL DEF Spec
=============================================================================
