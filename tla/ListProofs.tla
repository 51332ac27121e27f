---------------------------- MODULE ListProofs ----------------------------
(***************************************************************************)
(* Facts about lists filled by a loop, for any lists: what a fold over a   *)
(* sequence yields, and what the loops of module UniqueLists leave in a    *)
(* list.                                                                   *)
(***************************************************************************)
EXTENDS UniqueLists, Integers, NaturalsInduction, WellFoundedInduction,
        SequenceTheorems, TLAPS

(* What a fold over a sequence yields is got from the lists after each of  *)
(* its items; induction over their number is done with the least           *)
(* counterexample.                                                         *)
LEMMA LeastOf ==
    ASSUME NEW T, T \subseteq Nat, T # {} PROVE \E m \in T : \A n \in T : m <= n
<1>. DEFINE R == OpToRel(<, Nat)
<1>1. IsWellFoundedOn(R, Nat)
  BY NatLessThanWellFounded
<1>2. \E x \in T : \A y \in T : ~(<<y, x>> \in R)
  <2>. HIDE DEF R
  <2>. QED BY <1>1, WFMin
<1>3. R = {s \in Nat \X Nat : s[1] < s[2]}
  BY DEF OpToRel
<1>. HIDE DEF R
<1>4. \A x, y \in Nat : <<y, x>> \in R <=> y < x
  BY <1>3
<1>5. PICK x \in T : \A y \in T : ~(<<y, x>> \in R)
  BY <1>2
<1>6. \A y \in T : ~(y < x)
  BY <1>4, <1>5
<1>7. \A y \in T : x <= y
  BY <1>6
<1>. QED BY <1>7

LEMMA Induct ==
    ASSUME NEW n \in Nat, NEW T, 0 \in T, \A k \in 0 .. n - 1 : k \in T => k + 1 \in T
    PROVE  0 .. n \subseteq T
<1>. DEFINE Bad == {k \in 0 .. n : k \notin T}
<1>1. SUFFICES ASSUME Bad # {} PROVE FALSE
  OBVIOUS
<1>2. PICK k \in Bad : \A j \in Bad : k <= j
  <2>1. Bad \subseteq Nat
    OBVIOUS
  <2>. HIDE DEF Bad
  <2>. QED BY <1>1, <2>1, LeastOf
<1>3. k \in 0 .. n /\ k \notin T /\ k # 0
  OBVIOUS
<1>4. k - 1 \in 0 .. n /\ k - 1 \in 0 .. n - 1 /\ ~(k <= k - 1) /\ (k - 1) + 1 = k
  BY <1>3
<1>5. k - 1 \in T
  BY <1>2, <1>4
<1>. QED BY <1>3, <1>4, <1>5

LEMMA GreatestOf ==
    ASSUME NEW n \in Nat, NEW T \in SUBSET (1 .. n), T # {}
    PROVE  Max(T) \in T /\ \A k \in T : Max(T) >= k
<1>. DEFINE U == {j \in 0 .. n : n - j \in T}
<1>1. PICK t \in T : TRUE
  OBVIOUS
<1>2. t \in 1 .. n /\ n - t \in 0 .. n /\ n - (n - t) = t
  OBVIOUS
<1>3. U \subseteq Nat /\ U # {}
  <2>1. n - t \in U
    BY <1>2
  <2>2. U \subseteq Nat
    OBVIOUS
  <2>. HIDE DEF U
  <2>. QED BY <2>1, <2>2
<1>4. PICK b \in U : \A c \in U : b <= c
  <2>. HIDE DEF U
  <2>. QED BY <1>3, LeastOf
<1>5. n - b \in T /\ b \in 0 .. n
  OBVIOUS
<1>6. ASSUME NEW k \in T PROVE n - b >= k
  <2>1. k \in 1 .. n /\ n - k \in 0 .. n /\ n - (n - k) = k
    OBVIOUS
  <2>2. b <= n - k
    BY <1>4, <2>1
  <2>. QED BY <1>5, <2>1, <2>2
<1>. QED BY <1>5, <1>6 DEF Max

LEMMA Prefix ==
    ASSUME NEW n \in Nat, NEW k \in 0 .. n - 1
    PROVE  /\ k \in 0 .. n /\ k + 1 \in 0 .. n
           /\ 1 .. k + 1 \in SUBSET (1 .. n) /\ 1 .. k + 1 # {}
           /\ Max(1 .. k + 1) = k + 1 /\ (1 .. k + 1) \ {k + 1} = 1 .. k
<1>. DEFINE T == 1 .. k + 1
<1>1. k \in 0 .. n /\ k + 1 \in 0 .. n /\ k + 1 \in T
  OBVIOUS
<1>2. T \in SUBSET (1 .. n)
  <2>1. ASSUME NEW j \in T PROVE j \in 1 .. n
    OBVIOUS
  <2>. QED BY <2>1
<1>3. Max(T) = k + 1
  <2>1. Max(T) \in T /\ Max(T) >= k + 1
    BY <1>1, <1>2, GreatestOf
  <2>. QED BY <1>1, <2>1
<1>4. T \ {k + 1} = 1 .. k
  OBVIOUS
<1>. QED BY <1>1, <1>2, <1>3, <1>4

(* The function a fold is defined by exists. *)
Folding(h, G, base, s) ==
    h = [T \in SUBSET DOMAIN s |->
            IF T = {} THEN base ELSE G[<<h[T \ {Max(T)}], s[Max(T)]>>]]
LEMMA FoldExists ==
    ASSUME NEW M, NEW E, NEW G \in [M \X E -> M], NEW base \in M, NEW s \in Seq(E)
    PROVE  \E h : Folding(h, G, base, s) /\ \A T \in SUBSET DOMAIN s : h[T] \in M
<1>. DEFINE n == Len(s)
            Folded(m, h) ==
                /\ DOMAIN h = SUBSET (1 .. m)
                /\ h = [T \in SUBSET (1 .. m) |-> h[T]]
                /\ \A T \in SUBSET (1 .. m) : h[T] \in M
                /\ h[{}] = base
                /\ \A T \in SUBSET (1 .. m) :
                       T # {} => h[T] = G[<<h[T \ {Max(T)}], s[Max(T)]>>]
            Bad == {m \in 0 .. n : ~\E h : Folded(m, h)}
<1>1. n \in Nat /\ DOMAIN s = 1 .. n /\ \A i \in 1 .. n : s[i] \in E
  OBVIOUS
<1>2. Bad = {}
  <2>1. SUFFICES ASSUME Bad # {} PROVE FALSE
    OBVIOUS
  <2>2. PICK m \in Bad : \A k \in Bad : m <= k
    <3>1. Bad \subseteq Nat
      OBVIOUS
    <3>. HIDE DEF Bad
    <3>. QED BY <2>1, <3>1, LeastOf
  <2>3. m \in 0 .. n /\ ~\E h : Folded(m, h)
    OBVIOUS
  <2>4. CASE m = 0
    <3>. DEFINE h0 == [T \in SUBSET (1 .. 0) |-> base]
    <3>1. 1 .. 0 = {}
      OBVIOUS
    <3>2. Folded(0, h0)
      BY <3>1
    <3>. HIDE DEF Folded
    <3>. QED BY <2>3, <2>4, <3>2
  <2>5. CASE m # 0
    <3>1. m - 1 \in 0 .. n /\ ~(m <= m - 1) /\ m \in 1 .. n /\ m \notin 1 .. m - 1
          /\ 1 .. m - 1 \subseteq 1 .. m /\ m \in Nat
      BY <1>1, <2>3, <2>5
    <3>2. PICK h : Folded(m - 1, h)
      <4>. HIDE DEF Folded
      <4>. QED BY <2>2, <3>1
    <3>. DEFINE g == [T \in SUBSET (1 .. m) |->
                         IF m \in T THEN G[<<h[T \ {m}], s[m]>>] ELSE h[T]]
    <3>3. \A T \in SUBSET (1 .. m) : T \ {m} \in SUBSET (1 .. m - 1)
      BY <3>1
    <3>4. ASSUME NEW T \in SUBSET (1 .. m) PROVE g[T] \in M
      <4>1. CASE m \in T
        <5>1. h[T \ {m}] \in M /\ s[m] \in E
          BY <1>1, <3>1, <3>2, <3>3
        <5>. QED BY <4>1, <5>1
      <4>2. CASE m \notin T
        <5>1. T \in SUBSET (1 .. m - 1)
          BY <3>3, <4>2
        <5>. QED BY <3>2, <4>2, <5>1
      <4>. QED BY <4>1, <4>2
    <3>5. g[{}] = base
      BY <3>2
    <3>6. ASSUME NEW T \in SUBSET (1 .. m), T # {}
          PROVE  g[T] = G[<<g[T \ {Max(T)}], s[Max(T)]>>]
      <4>1. CASE m \in T
        <5>1. Max(T) = m
          <6>1. Max(T) \in T /\ Max(T) >= m /\ Max(T) \in 1 .. m
            BY <3>1, <3>6, <4>1, GreatestOf
          <6>. QED BY <3>1, <6>1
        <5>2. T \ {m} \in SUBSET (1 .. m) /\ m \notin T \ {m}
          OBVIOUS
        <5>3. g[T \ {m}] = h[T \ {m}]
          BY <5>2
        <5>. QED BY <4>1, <5>1, <5>3
      <4>2. CASE m \notin T
        <5>1. T \in SUBSET (1 .. m - 1)
          BY <3>3, <4>2
        <5>2. h[T] = G[<<h[T \ {Max(T)}], s[Max(T)]>>]
          BY <3>2, <3>6, <5>1
        <5>3. T \ {Max(T)} \in SUBSET (1 .. m) /\ m \notin T \ {Max(T)}
          BY <4>2
        <5>4. g[T] = h[T] /\ g[T \ {Max(T)}] = h[T \ {Max(T)}]
          BY <4>2, <5>3
        <5>. QED BY <5>2, <5>4
      <4>. QED BY <4>1, <4>2
    <3>7. DOMAIN g = SUBSET (1 .. m) /\ g = [T \in SUBSET (1 .. m) |-> g[T]]
      OBVIOUS
    <3>. HIDE DEF g
    <3>8. Folded(m, g)
      BY <3>4, <3>5, <3>6, <3>7
    <3>. HIDE DEF Folded
    <3>. QED BY <2>3, <3>8
  <2>. QED BY <2>4, <2>5
<1>3. PICK h : Folded(n, h)
  <2>. HIDE DEF Folded
  <2>. QED BY <1>1, <1>2
<1>4. Folding(h, G, base, s)
  BY <1>1, <1>3 DEF Folding
<1>. QED BY <1>1, <1>3, <1>4


(* The list after each of the combinations looked at.                      *)
Step(l, x, value) == IF x \in DOMAIN value THEN AddOnce(l, value[x]) ELSE l
ListsOf(F, l, s, value) ==
    /\ F[0] = l
    /\ \A k \in 0 .. Len(s) - 1 : F[k + 1] = Step(F[k], s[k + 1], value)

LEMMA AddValuesSteps ==
    ASSUME NEW E, NEW V, NEW l \in Seq(V), NEW s \in Seq(E), NEW D,
           NEW value \in [D -> V]
    PROVE  \E F \in [0 .. Len(s) -> Seq(V)] :
               ListsOf(F, l, s, value) /\ AddValues(l, s, value) = F[Len(s)]
<1>. DEFINE n == Len(s)
            G == [p \in Seq(V) \X E |-> Step(p[1], p[2], value)]
<1>1. n \in Nat /\ DOMAIN s = 1 .. n /\ \A i \in 1 .. n : s[i] \in E
  OBVIOUS
<1>2. \A q \in Seq(V), x \in E : Step(q, x, value) \in Seq(V)
  BY DEF Step, AddOnce
<1>3. /\ G \in [Seq(V) \X E -> Seq(V)]
      /\ \A q \in Seq(V), x \in E : G[<<q, x>>] = Step(q, x, value)
  BY <1>2
<1>. HIDE DEF G, n
<1>4. PICK h : Folding(h, G, l, s) /\ \A T \in SUBSET DOMAIN s : h[T] \in Seq(V)
  BY <1>3, FoldExists
<1>5. \A T \in SUBSET DOMAIN s : T # {} =>
          G[<<h[T \ {Max(T)}], s[Max(T)]>>] = Step(h[T \ {Max(T)}], s[Max(T)], value)
  <2>1. ASSUME NEW T \in SUBSET DOMAIN s, T # {}
        PROVE  h[T \ {Max(T)}] \in Seq(V) /\ s[Max(T)] \in E
    <3>1. Max(T) \in 1 .. n
      BY <1>1, <2>1, GreatestOf
    <3>2. T \ {Max(T)} \in SUBSET DOMAIN s
      OBVIOUS
    <3>. QED BY <1>1, <1>4, <3>1, <3>2
  <2>. QED BY <1>3, <2>1
<1>6. h = [T \in SUBSET DOMAIN s |->
              IF T = {} THEN l ELSE Step(h[T \ {Max(T)}], s[Max(T)], value)]
  BY <1>4, <1>5 DEF Folding
<1>7. PICK g : /\ g = [T \in SUBSET DOMAIN s |->
                          IF T = {} THEN l ELSE Step(g[T \ {Max(T)}], s[Max(T)], value)]
               /\ AddValues(l, s, value) = g[DOMAIN s]
  BY <1>6, Zenon DEF AddValues, FoldLeft, MapThenFoldSet, Step
<1>. DEFINE F == [k \in 0 .. n |-> g[1 .. k]]
            Good == {k \in 0 .. n : F[k] \in Seq(V)}
<1>8. F[0] = l
  <2>1. 1 .. 0 = {} /\ {} \in SUBSET DOMAIN s
    OBVIOUS
  <2>. QED BY <1>1, <1>7, <2>1
<1>9. ASSUME NEW k \in 0 .. n - 1 PROVE F[k + 1] = Step(F[k], s[k + 1], value)
  <2>. DEFINE T == 1 .. k + 1
  <2>1. /\ k \in 0 .. n /\ k + 1 \in 0 .. n /\ T \in SUBSET DOMAIN s /\ T # {}
        /\ Max(T) = k + 1 /\ T \ {k + 1} = 1 .. k
    BY <1>1, Prefix
  <2>2. g[T] = Step(g[T \ {Max(T)}], s[Max(T)], value)
    BY <1>7, <2>1
  <2>3. g[T] = Step(g[1 .. k], s[k + 1], value)
    BY <2>1, <2>2
  <2>. QED BY <2>1, <2>3
<1>. HIDE DEF F
<1>10. 0 .. n \subseteq Good
  <2>1. 0 \in Good
    BY <1>1, <1>8
  <2>2. ASSUME NEW k \in 0 .. n - 1, k \in Good PROVE k + 1 \in Good
    <3>1. k + 1 \in 0 .. n /\ s[k + 1] \in E
      BY <1>1
    <3>. QED BY <1>2, <1>9, <2>2, <3>1
  <2>. HIDE DEF Good
  <2>. QED BY <1>1, <2>1, <2>2, Induct
<1>11. F[n] = g[DOMAIN s]
  BY <1>1 DEF F
<1>12. F \in [0 .. n -> Seq(V)]
  BY <1>10 DEF F
<1>13. ListsOf(F, l, s, value)
  BY <1>8, <1>9 DEF ListsOf, n
<1>. QED BY <1>7, <1>11, <1>12, <1>13 DEF n

LEMMA AppendOnce ==
    ASSUME NEW V, NEW l \in Seq(V), NEW v \in V, v \notin ToSet(l)
    PROVE  /\ ToSet(Append(l, v)) = ToSet(l) \cup {v}
           /\ IsInjective(l) => IsInjective(Append(l, v))
<1>. DEFINE n == Len(l)
            r == Append(l, v)
<1>1. n \in Nat /\ DOMAIN l = 1 .. n /\ DOMAIN r = 1 .. n + 1 /\ r[n + 1] = v
      /\ \A i \in 1 .. n : r[i] = l[i] /\ i \in 1 .. n + 1
  OBVIOUS
<1>2. \A i \in 1 .. n + 1 : i \in 1 .. n \/ i = n + 1
  BY <1>1
<1>3. n + 1 \in 1 .. n + 1
  BY <1>1
<1>4. \A i \in 1 .. n : l[i] # v
  BY <1>1 DEF ToSet
<1>. HIDE DEF r, n
<1>5. ToSet(r) = ToSet(l) \cup {v}
  BY <1>1, <1>2, <1>3 DEF ToSet
<1>6. IsInjective(l) => IsInjective(r)
  BY <1>1, <1>2, <1>4 DEF IsInjective
<1>. QED BY <1>5, <1>6 DEF r

(* The list keeps what it had and gets the values of the combinations that *)
(* are in the domain, none of them twice.                                  *)
LEMMA AddValuesAre ==
    ASSUME NEW E, NEW V, NEW l \in Seq(V), NEW s \in Seq(E), NEW D,
           NEW value \in [D -> V]
    PROVE  LET r == AddValues(l, s, value)
           IN  /\ r \in Seq(V)
               /\ ToSet(r) = ToSet(l) \cup {value[x] : x \in ToSet(s) \cap DOMAIN value}
               /\ IsInjective(l) => IsInjective(r)
<1>. DEFINE n == Len(s)
<1>1. n \in Nat /\ DOMAIN s = 1 .. n /\ \A i \in 1 .. n : s[i] \in E
  OBVIOUS
<1>2. PICK F \in [0 .. n -> Seq(V)] :
          ListsOf(F, l, s, value) /\ AddValues(l, s, value) = F[n]
  <2>1. \E F \in [0 .. Len(s) -> Seq(V)] :
            ListsOf(F, l, s, value) /\ AddValues(l, s, value) = F[Len(s)]
    BY AddValuesSteps
  <2>. QED BY <2>1
<1>. DEFINE Of(k) == {value[x] : x \in {s[i] : i \in 1 .. k} \cap DOMAIN value}
            Good == {k \in 0 .. n : /\ ToSet(F[k]) = ToSet(l) \cup Of(k)
                                    /\ IsInjective(l) => IsInjective(F[k])}
<1>3. 0 \in Good
  BY <1>1, <1>2 DEF ListsOf
<1>4. ASSUME NEW k \in 0 .. n - 1, k \in Good PROVE k + 1 \in Good
  <2>1. k \in 0 .. n /\ k + 1 \in 1 .. n /\ 1 .. k + 1 = (1 .. k) \cup {k + 1}
    BY <1>1
  <2>2. F[k] \in Seq(V) /\ F[k + 1] = Step(F[k], s[k + 1], value)
    BY <1>2, <2>1 DEF ListsOf
  <2>3. {s[i] : i \in 1 .. k + 1} = {s[i] : i \in 1 .. k} \cup {s[k + 1]}
    BY <2>1
  <2>4. Of(k + 1) = Of(k) \cup (IF s[k + 1] \in DOMAIN value THEN {value[s[k + 1]]} ELSE {})
    BY <2>3
  <2>5. CASE s[k + 1] \in DOMAIN value /\ value[s[k + 1]] \notin ToSet(F[k])
    <3>. DEFINE v == value[s[k + 1]]
    <3>1. F[k + 1] = Append(F[k], v) /\ v \in V
      BY <2>2, <2>5 DEF Step, AddOnce
    <3>2. /\ ToSet(Append(F[k], v)) = ToSet(F[k]) \cup {v}
          /\ IsInjective(F[k]) => IsInjective(Append(F[k], v))
      BY <2>2, <2>5, <3>1, AppendOnce
    <3>3. ToSet(F[k]) = ToSet(l) \cup Of(k) /\ (IsInjective(l) => IsInjective(F[k]))
      BY <1>4
    <3>4. Of(k + 1) = Of(k) \cup {v} /\ k + 1 \in 0 .. n
      BY <2>1, <2>4, <2>5
    <3>. HIDE DEF Of, v
    <3>. QED BY <3>1, <3>2, <3>3, <3>4
  <2>6. CASE ~(s[k + 1] \in DOMAIN value /\ value[s[k + 1]] \notin ToSet(F[k]))
    <3>1. F[k + 1] = F[k]
      BY <2>2, <2>6 DEF Step, AddOnce
    <3>2. ToSet(F[k]) = ToSet(l) \cup Of(k) /\ (IsInjective(l) => IsInjective(F[k]))
      BY <1>4
    <3>3. s[k + 1] \in DOMAIN value => value[s[k + 1]] \in ToSet(F[k])
      BY <2>6
    <3>4. Of(k + 1) \subseteq ToSet(F[k]) \cup Of(k) /\ Of(k) \subseteq Of(k + 1)
      BY <2>4, <3>3
    <3>5. ToSet(F[k]) = ToSet(l) \cup Of(k + 1) /\ k + 1 \in 0 .. n
      <4>. HIDE DEF Of
      <4>. QED BY <2>1, <3>2, <3>4, <3>3, <2>4
    <3>. HIDE DEF Of
    <3>. QED BY <3>1, <3>2, <3>5
  <2>. QED BY <2>5, <2>6
<1>5. 0 .. n \subseteq Good
  <2>. HIDE DEF Good
  <2>. QED BY <1>1, <1>3, <1>4, Induct
<1>6. n \in Good
  <2>1. n \in 0 .. n
    BY <1>1
  <2>. HIDE DEF Good
  <2>. QED BY <1>5, <2>1
<1>7. {s[i] : i \in 1 .. n} = ToSet(s)
  BY <1>1 DEF ToSet
<1>. QED BY <1>2, <1>6, <1>7

(* The recursion of FlattenSeq ends: the function it is defined by exists. *)
LEMMA FlattenIs ==
    ASSUME NEW ss, NEW n \in Nat, n = Len(ss), n # 0
    PROVE  \E g : /\ g = [i \in 1 .. n |-> IF i = 1 THEN ss[i] ELSE g[i - 1] \o ss[i]]
                  /\ FlattenSeq(ss) = g[n]
<1>. DEFINE Flat(g, k) == g = [i \in 1 .. k |-> IF i = 1 THEN ss[i] ELSE g[i - 1] \o ss[i]]
            Bad == {k \in 1 .. n : ~\E g : Flat(g, k)}
<1>1. \E g : Flat(g, n)
  <2>. SUFFICES ASSUME Bad # {} PROVE FALSE
    <3>. HIDE DEF Flat
    <3>. QED OBVIOUS
  <2>1. PICK k \in Bad : \A j \in Bad : k <= j
    <3>. HIDE DEF Flat
    <3>1. Bad \subseteq Nat
      OBVIOUS
    <3>. HIDE DEF Bad
    <3>. QED BY <3>1, LeastOf
  <2>2. k \in 1 .. n /\ ~\E g : Flat(g, k)
    <3>. HIDE DEF Flat
    <3>. QED OBVIOUS
  <2>3. k # 1
    <3>. DEFINE g == [i \in 1 .. 1 |-> ss[1]]
    <3>1. Flat(g, 1)
      OBVIOUS
    <3>. QED BY <2>2, <3>1
  <2>4. k - 1 \in 1 .. n /\ k - 1 < k
    BY <2>2, <2>3
  <2>5. PICK h : Flat(h, k - 1)
    <3>. HIDE DEF Flat
    <3>1. k - 1 \notin Bad
      BY <2>1, <2>4
    <3>. QED BY <2>4, <3>1
  <2>. DEFINE g == [i \in 1 .. k |-> IF i < k THEN h[i] ELSE h[k - 1] \o ss[k]]
  <2>6. g[k] = g[k - 1] \o ss[k]
    <3>. HIDE DEF Flat, Bad
    <3>1. k - 1 \in 1 .. k /\ k \in 1 .. k /\ ~(k < k)
      BY <2>2, <2>4
    <3>. QED BY <2>4, <3>1
  <2>7. ASSUME NEW i \in 1 .. k PROVE g[i] = IF i = 1 THEN ss[i] ELSE g[i - 1] \o ss[i]
    <3>1. CASE i = k
      BY <2>3, <2>6, <3>1
    <3>2. CASE i # k
      <4>1. i \in 1 .. k - 1 /\ i < k /\ (i # 1 => i - 1 \in 1 .. k /\ i - 1 < k)
        BY <2>2, <3>2
      <4>. QED BY <2>5, <4>1
    <3>. QED BY <3>1, <3>2
  <2>8. Flat(g, k)
    BY <2>7
  <2>. HIDE DEF Flat, g
  <2>. QED BY <2>2, <2>8
<1>. DEFINE f == CHOOSE g : Flat(g, n)
<1>2. Flat(f, n)
  <2>. HIDE DEF Flat
  <2>. QED BY <1>1
<1>3. FlattenSeq(ss) = f[n]
  BY DEF FlattenSeq
<1>. HIDE DEF f
<1>. QED BY <1>2, <1>3

LEMMA FlattenElements ==
    ASSUME NEW E, NEW ss \in Seq(Seq(E)) PROVE FlattenSeq(ss) \in Seq(E)
<1>. DEFINE n == Len(ss)
<1>1. n \in Nat /\ DOMAIN ss = 1 .. n
  OBVIOUS
<1>2. CASE n = 0
  BY <1>2 DEF FlattenSeq
<1>3. CASE n # 0
  <2>. HIDE DEF n
  <2>1. PICK g : /\ g = [i \in 1 .. n |-> IF i = 1 THEN ss[i] ELSE g[i - 1] \o ss[i]]
                 /\ FlattenSeq(ss) = g[n]
    BY <1>1, <1>3, FlattenIs DEF n
  <2>. DEFINE Bad == {k \in 1 .. n : g[k] \notin Seq(E)}
  <2>2. SUFFICES ASSUME Bad # {} PROVE FALSE
    <3>1. n \in 1 .. n
      BY <1>1, <1>3
    <3>. QED BY <2>1, <3>1
  <2>3. PICK k \in Bad : \A j \in Bad : k <= j
    <3>1. Bad \subseteq Nat
      OBVIOUS
    <3>. HIDE DEF Bad
    <3>. QED BY <2>2, <3>1, LeastOf
  <2>4. k \in 1 .. n /\ g[k] \notin Seq(E) /\ ss[k] \in Seq(E)
    BY <1>1
  <2>5. CASE k = 1
    BY <2>1, <2>4, <2>5
  <2>6. CASE k # 1
    <3>1. k - 1 \in 1 .. n /\ ~(k <= k - 1)
      BY <1>1, <2>4, <2>6
    <3>2. g[k - 1] \in Seq(E)
      BY <2>3, <3>1
    <3>3. g[k] = g[k - 1] \o ss[k]
      BY <2>1, <2>4, <2>6
    <3>. HIDE DEF Bad
    <3>4. g[k - 1] \o ss[k] \in Seq(E)
      BY <2>4, <3>2
    <3>. QED BY <2>4, <3>3, <3>4
  <2>. QED BY <2>5, <2>6
<1>. QED BY <1>2, <1>3

LEMMA FlattenAppend ==
    ASSUME NEW E, NEW ss \in Seq(Seq(E)), NEW x \in Seq(E)
    PROVE  FlattenSeq(Append(ss, x)) = FlattenSeq(ss) \o x
<1>. DEFINE n == Len(ss)
            more == Append(ss, x)
<1>1. /\ n \in Nat /\ Len(more) = n + 1 /\ n + 1 # 0 /\ n + 1 \in Nat
      /\ more[n + 1] = x /\ \A k \in 1 .. n : more[k] = ss[k]
  OBVIOUS
<1>2. n = 0 => ss = <<>>
  OBVIOUS
<1>. HIDE DEF more
<1>3. PICK g : /\ g = [i \in 1 .. n + 1 |-> IF i = 1 THEN more[i] ELSE g[i - 1] \o more[i]]
               /\ FlattenSeq(more) = g[n + 1]
  <2>. HIDE DEF n
  <2>. QED BY <1>1, FlattenIs
<1>4. CASE n = 0
  <2>1. FlattenSeq(ss) = <<>>
    BY <1>2, <1>4 DEF FlattenSeq
  <2>2. FlattenSeq(more) = x
    BY <1>1, <1>3, <1>4
  <2>. QED BY <2>1, <2>2 DEF more
<1>5. CASE n # 0
  <2>1. PICK h : /\ h = [i \in 1 .. n |-> IF i = 1 THEN ss[i] ELSE h[i - 1] \o ss[i]]
                 /\ FlattenSeq(ss) = h[n]
    BY <1>1, <1>5, FlattenIs
  <2>. HIDE DEF n
  <2>. DEFINE T == {k \in 0 .. n : k # 0 => g[k] = h[k]}
  <2>2. 0 \in T
    BY <1>1
  <2>3. ASSUME NEW k \in 0 .. n - 1, k \in T PROVE k + 1 \in T
    <3>1. k + 1 \in 1 .. n /\ k + 1 \in 1 .. n + 1 /\ (k + 1) - 1 = k /\ k + 1 \in 0 .. n
          /\ (k + 1 = 1 <=> k = 0)
      BY <1>1
    <3>2. CASE k = 0
      BY <1>1, <1>3, <2>1, <3>1, <3>2
    <3>3. CASE k # 0
      <4>1. g[k + 1] = g[k] \o more[k + 1] /\ h[k + 1] = h[k] \o ss[k + 1]
        BY <1>3, <2>1, <3>1, <3>3
      <4>2. g[k] = h[k]
        BY <2>3, <3>3
      <4>. QED BY <1>1, <3>1, <4>1, <4>2
    <3>. QED BY <3>2, <3>3
  <2>4. n \in T
    <3>1. n \in 0 .. n
      BY <1>1
    <3>. HIDE DEF T
    <3>. QED BY <1>1, <2>2, <2>3, <3>1, Induct
  <2>5. g[n + 1] = g[n] \o more[n + 1]
    <3>1. n + 1 \in 1 .. n + 1 /\ n + 1 # 1 /\ (n + 1) - 1 = n
      BY <1>1, <1>5
    <3>. QED BY <1>3, <3>1
  <2>. QED BY <1>1, <1>3, <1>5, <2>1, <2>4, <2>5 DEF more
<1>. QED BY <1>4, <1>5

LEMMA FlattenOneMore ==
    ASSUME NEW E, NEW s \in Seq(Seq(E)), NEW p \in Seq(Seq(E)), NEW x \in Seq(E),
           FlattenSeq(s \o p) = FlattenSeq(s) \o FlattenSeq(p)
    PROVE  FlattenSeq(s \o Append(p, x)) = FlattenSeq(s) \o FlattenSeq(Append(p, x))
<1>1. s \o p \in Seq(Seq(E)) /\ s \o Append(p, x) = Append(s \o p, x)
  OBVIOUS
<1>2. FlattenSeq(s \o Append(p, x)) = FlattenSeq(s \o p) \o x
  BY <1>1, FlattenAppend
<1>3. FlattenSeq(Append(p, x)) = FlattenSeq(p) \o x
  BY FlattenAppend
<1>4. FlattenSeq(s) \in Seq(E) /\ FlattenSeq(p) \in Seq(E)
  BY FlattenElements
<1>5. (FlattenSeq(s) \o FlattenSeq(p)) \o x = FlattenSeq(s) \o (FlattenSeq(p) \o x)
  BY <1>4, ConcatAssociative
<1>. QED BY <1>2, <1>3, <1>5

LEMMA FlattenConcat ==
    ASSUME NEW E, NEW s \in Seq(Seq(E)), NEW t \in Seq(Seq(E))
    PROVE  FlattenSeq(s \o t) = FlattenSeq(s) \o FlattenSeq(t)
<1>. DEFINE part(k) == SubSeq(t, 1, k)
            n == Len(t)
            T == {k \in 0 .. n : FlattenSeq(s \o part(k)) = FlattenSeq(s) \o FlattenSeq(part(k))}
<1>1. n \in Nat /\ part(n) = t
  OBVIOUS
<1>2. FlattenSeq(s) \in Seq(E)
  BY FlattenElements
<1>3. 0 \in T
  <2>1. part(0) = <<>> /\ s \o part(0) = s
    OBVIOUS
  <2>2. FlattenSeq(<<>>) = <<>>
    BY DEF FlattenSeq
  <2>3. FlattenSeq(s) \o <<>> = FlattenSeq(s)
    BY <1>2, ConcatEmptySeq
  <2>4. 0 \in 0 .. n
    BY <1>1
  <2>. HIDE DEF part, n
  <2>5. FlattenSeq(s \o part(0)) = FlattenSeq(s) \o FlattenSeq(part(0))
    BY <2>1, <2>2, <2>3
  <2>. QED BY <2>4, <2>5
<1>4. ASSUME NEW k \in 0 .. n - 1, k \in T PROVE k + 1 \in T
  <2>1. k + 1 \in 1 .. n /\ k + 1 \in 0 .. n
    BY <1>1
  <2>2. part(k) \in Seq(Seq(E)) /\ t[k + 1] \in Seq(E) /\ s \o part(k) \in Seq(Seq(E))
    BY <2>1
  <2>3. part(k + 1) = Append(part(k), t[k + 1])
    BY <2>1
  <2>4. FlattenSeq(s \o part(k)) = FlattenSeq(s) \o FlattenSeq(part(k))
    BY <1>4
  <2>. HIDE DEF part
  <2>5. FlattenSeq(s \o part(k + 1)) = FlattenSeq(s) \o FlattenSeq(part(k + 1))
    BY <2>2, <2>3, <2>4, FlattenOneMore
  <2>. QED BY <2>1, <2>5
<1>5. n \in T
  <2>1. n \in 0 .. n
    BY <1>1
  <2>. HIDE DEF T, n
  <2>. QED BY <1>1, <1>3, <1>4, <2>1, Induct
<1>. QED BY <1>1, <1>5

(* A sum over a sequence is got from the sums over its beginnings. *)
SumOf(s) == FoldLeft(LAMBDA sum, k : sum + k, 0, s)
Sums(F, s) == F[0] = 0 /\ \A k \in 0 .. Len(s) - 1 : F[k + 1] = F[k] + s[k + 1]

LEMMA SumSteps ==
    ASSUME NEW s \in Seq(Nat)
    PROVE  \E F \in [0 .. Len(s) -> Nat] : Sums(F, s) /\ SumOf(s) = F[Len(s)]
<1>. DEFINE n == Len(s)
            G == [p \in Nat \X Nat |-> p[1] + p[2]]
<1>1. n \in Nat /\ DOMAIN s = 1 .. n /\ \A i \in 1 .. n : s[i] \in Nat
  OBVIOUS
<1>2. G \in [Nat \X Nat -> Nat] /\ \A q, x \in Nat : G[<<q, x>>] = q + x
  OBVIOUS
<1>. HIDE DEF G, n
<1>3. 0 \in Nat
  OBVIOUS
<1>4. PICK h : Folding(h, G, 0, s) /\ \A T \in SUBSET DOMAIN s : h[T] \in Nat
  BY <1>2, <1>3, FoldExists
<1>5. \A T \in SUBSET DOMAIN s : T # {} =>
          G[<<h[T \ {Max(T)}], s[Max(T)]>>] = h[T \ {Max(T)}] + s[Max(T)]
  <2>1. ASSUME NEW T \in SUBSET DOMAIN s, T # {}
        PROVE  h[T \ {Max(T)}] \in Nat /\ s[Max(T)] \in Nat
    <3>1. Max(T) \in 1 .. n
      BY <1>1, <2>1, GreatestOf
    <3>2. T \ {Max(T)} \in SUBSET DOMAIN s
      OBVIOUS
    <3>. QED BY <1>1, <1>4, <3>1, <3>2
  <2>. QED BY <1>2, <2>1
<1>6. h = [T \in SUBSET DOMAIN s |->
              IF T = {} THEN 0 ELSE h[T \ {Max(T)}] + s[Max(T)]]
  BY <1>4, <1>5 DEF Folding
<1>7. PICK g : /\ g = [T \in SUBSET DOMAIN s |->
                          IF T = {} THEN 0 ELSE g[T \ {Max(T)}] + s[Max(T)]]
               /\ SumOf(s) = g[DOMAIN s]
  BY <1>6, Zenon DEF SumOf, FoldLeft, MapThenFoldSet
<1>. DEFINE F == [k \in 0 .. n |-> g[1 .. k]]
            Good == {k \in 0 .. n : F[k] \in Nat}
<1>8. F[0] = 0
  <2>1. 1 .. 0 = {} /\ {} \in SUBSET DOMAIN s
    OBVIOUS
  <2>. QED BY <1>1, <1>7, <2>1
<1>9. ASSUME NEW k \in 0 .. n - 1 PROVE F[k + 1] = F[k] + s[k + 1]
  <2>. DEFINE T == 1 .. k + 1
  <2>1. /\ k \in 0 .. n /\ k + 1 \in 0 .. n /\ T \in SUBSET DOMAIN s /\ T # {}
        /\ Max(T) = k + 1 /\ T \ {k + 1} = 1 .. k
    BY <1>1, Prefix
  <2>2. g[T] = g[T \ {Max(T)}] + s[Max(T)]
    BY <1>7, <2>1
  <2>3. g[T] = g[1 .. k] + s[k + 1]
    BY <2>1, <2>2
  <2>. QED BY <2>1, <2>3
<1>. HIDE DEF F
<1>10. 0 .. n \subseteq Good
  <2>1. 0 \in Good
    BY <1>1, <1>8
  <2>2. ASSUME NEW k \in 0 .. n - 1, k \in Good PROVE k + 1 \in Good
    <3>1. k + 1 \in 0 .. n /\ s[k + 1] \in Nat
      BY <1>1
    <3>2. F[k] \in Nat
      BY <2>2
    <3>3. F[k] + s[k + 1] \in Nat
      BY <3>1, <3>2
    <3>. QED BY <1>9, <3>1, <3>3
  <2>. HIDE DEF Good
  <2>. QED BY <1>1, <2>1, <2>2, Induct
<1>11. F[n] = g[DOMAIN s]
  BY <1>1 DEF F
<1>12. F \in [0 .. n -> Nat]
  BY <1>10 DEF F
<1>13. Sums(F, s)
  BY <1>8, <1>9 DEF Sums, n
<1>. QED BY <1>7, <1>11, <1>12, <1>13 DEF n

(* The sums grow. *)
LEMMA SumsGrow ==
    ASSUME NEW s \in Seq(Nat), NEW F \in [0 .. Len(s) -> Nat], Sums(F, s),
           NEW i \in 0 .. Len(s), NEW j \in i .. Len(s)
    PROVE  F[i] <= F[j]
<1>. DEFINE n == Len(s)
            T == {k \in 0 .. n - i : F[i] <= F[i + k]}
<1>1. n \in Nat /\ n - i \in Nat /\ j - i \in 0 .. n - i /\ i + (j - i) = j
      /\ i + 0 = i /\ 0 \in 0 .. n - i /\ n - i \in 0 .. n - i
  OBVIOUS
<1>2. 0 \in T
  BY <1>1
<1>3. ASSUME NEW k \in 0 .. n - i - 1, k \in T PROVE k + 1 \in T
  <2>1. k + 1 \in 0 .. n - i /\ i + k \in 0 .. n - 1 /\ i + k \in 0 .. n
        /\ i + (k + 1) = (i + k) + 1 /\ (i + k) + 1 \in 1 .. n
    BY <1>1
  <2>2. F[(i + k) + 1] = F[i + k] + s[(i + k) + 1]
    BY <2>1 DEF Sums
  <2>. DEFINE a == F[i]
              b == F[i + k]
              c == s[(i + k) + 1]
  <2>3. a \in Nat /\ b \in Nat /\ c \in Nat /\ a <= b
    BY <1>3, <2>1
  <2>. HIDE DEF a, b, c
  <2>4. a <= b + c
    BY <2>3
  <2>. QED BY <2>1, <2>2, <2>4 DEF a, b, c
<1>4. 0 .. n - i \subseteq T
  <2>. HIDE DEF T, n
  <2>. QED BY <1>1, <1>2, <1>3, Induct
<1>. QED BY <1>1, <1>4

(* Each of the numbers added is at most the sum. *)
LEMMA SumCovers ==
    ASSUME NEW s \in Seq(Nat)
    PROVE  SumOf(s) \in Nat /\ \A k \in 1 .. Len(s) : s[k] <= SumOf(s)
<1>1. PICK F \in [0 .. Len(s) -> Nat] : Sums(F, s) /\ SumOf(s) = F[Len(s)]
  BY SumSteps
<1>2. ASSUME NEW k \in 1 .. Len(s) PROVE s[k] <= F[Len(s)]
  <2>1. k - 1 \in 0 .. Len(s) - 1 /\ k - 1 \in 0 .. Len(s) /\ k \in 0 .. Len(s)
        /\ (k - 1) + 1 = k /\ Len(s) \in k .. Len(s)
    OBVIOUS
  <2>2. F[k] <= F[Len(s)]
    BY <1>1, <2>1, SumsGrow
  <2>3. F[(k - 1) + 1] = F[k - 1] + s[(k - 1) + 1]
    BY <1>1, <2>1 DEF Sums
  <2>. DEFINE a == F[k - 1]
              b == F[k]
              c == s[k]
              d == F[Len(s)]
  <2>4. a \in Nat /\ b \in Nat /\ c \in Nat /\ d \in Nat /\ b <= d /\ b = a + c
    BY <2>1, <2>2, <2>3
  <2>. HIDE DEF a, b, c, d
  <2>5. c <= d
    BY <2>4
  <2>. QED BY <2>5 DEF c, d
<1>3. Len(s) \in 0 .. Len(s)
  OBVIOUS
<1>. QED BY <1>1, <1>2, <1>3

(* The sums over the beginnings of a sequence are the sums of the          *)
(* sequences it begins with.                                               *)
LEMMA PrefixSums ==
    ASSUME NEW s \in Seq(Nat)
    PROVE  \E F \in [0 .. Len(s) -> Nat] :
             /\ Sums(F, s) /\ SumOf(s) = F[Len(s)]
             /\ \A m \in 0 .. Len(s) : SumOf(SubSeq(s, 1, m)) = F[m]
<1>1. PICK F \in [0 .. Len(s) -> Nat] : Sums(F, s) /\ SumOf(s) = F[Len(s)]
  BY SumSteps
<1>2. ASSUME NEW m \in 0 .. Len(s) PROVE SumOf(SubSeq(s, 1, m)) = F[m]
  <2>. DEFINE t == SubSeq(s, 1, m)
  <2>1. /\ t \in Seq(Nat) /\ Len(t) = m /\ m \in Nat
        /\ \A k \in 0 .. m - 1 : t[k + 1] = s[k + 1] /\ k \in 0 .. Len(s) - 1
    OBVIOUS
  <2>. HIDE DEF t
  <2>2. PICK G \in [0 .. Len(t) -> Nat] : Sums(G, t) /\ SumOf(t) = G[Len(t)]
    BY <2>1, SumSteps
  <2>. DEFINE T == {k \in 0 .. m : G[k] = F[k]}
  <2>3. 0 \in T
    BY <1>1, <2>1, <2>2 DEF Sums
  <2>4. ASSUME NEW k \in 0 .. m - 1, k \in T PROVE k + 1 \in T
    <3>1. G[k + 1] = G[k] + t[k + 1] /\ F[k + 1] = F[k] + s[k + 1]
      BY <1>1, <2>1, <2>2 DEF Sums
    <3>2. G[k] = F[k] /\ t[k + 1] = s[k + 1] /\ k + 1 \in 0 .. m
      BY <2>1, <2>4
    <3>. QED BY <3>1, <3>2
  <2>5. 0 .. m \subseteq T /\ m \in 0 .. m
    <3>1. m \in 0 .. m
      BY <2>1
    <3>. HIDE DEF T
    <3>. QED BY <2>1, <2>3, <2>4, <3>1, Induct
  <2>6. m \in T
    BY <2>5
  <2>. QED BY <2>1, <2>2, <2>6 DEF t
<1>. QED BY <1>1, <1>2
=============================================================================
