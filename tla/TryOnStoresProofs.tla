-------------------------- MODULE TryOnStoresProofs --------------------------
(* What the stores promise, for every set of attempts, every size and every    *)
(* bound.  The first part is about sequences: each fact that needs induction   *)
(* goes through Induct, which takes a set of numbers, and the functions that   *)
(* Part and Bytes recurse through exist by Recursion.                          *)
EXTENDS TryOnStores, TLAPS, SequenceTheorems, WellFoundedInduction

USE DEF vars, history, media

-----------------------------------------------------------------------------
(* Induction over numbers.                                                     *)

LEMMA Least ==
    ASSUME NEW T \in SUBSET Nat, T # {}
    PROVE  \E x \in T : \A y \in T : x <= y
<1>1. \E x \in T : \A y \in T : ~ (<<y, x>> \in OpToRel(<, Nat))
  BY NatLessThanWellFounded, WFMin
<1>2. \A x, y \in T : y < x => <<y, x>> \in OpToRel(<, Nat)
  <2>1. SUFFICES ASSUME NEW x \in T, NEW y \in T, y < x
                 PROVE  <<y, x>> \in OpToRel(<, Nat)
    BY Zenon
  <2>2. x \in Nat /\ y \in Nat
    OBVIOUS
  <2> QED
    BY <2>1, <2>2, Zenon DEF OpToRel
<1> DEFINE R == OpToRel(<, Nat)
<1>3. /\ \A x, y \in T : y < x => <<y, x>> \in R
      /\ \E x \in T : \A y \in T : ~ (<<y, x>> \in R)
  BY <1>1, <1>2
<1> HIDE DEF R
<1>4. PICK x \in T : \A y \in T : ~ (<<y, x>> \in R)
  BY <1>3
<1>5. \A y \in T : ~(y < x)
  BY <1>3, <1>4
<1>6. \A y \in T : x <= y
  <2> SUFFICES ASSUME NEW y \in T
               PROVE  x <= y
    OBVIOUS
  <2>1. x \in Nat /\ y \in Nat /\ ~(y < x)
    BY <1>5
  <2> QED
    BY <2>1
<1> QED
  BY <1>6

LEMMA Induct ==
    ASSUME NEW n \in Nat, NEW T, 0 \in T, \A i \in 1..n : i - 1 \in T => i \in T
    PROVE  0..n \subseteq T
<1> DEFINE C == {i \in Nat : i <= n /\ i \notin T}
<1>1. CASE C # {}
  <2>1. PICK x \in C : \A y \in C : x <= y
    BY <1>1, Least
  <2>2. x \in 1..n /\ x \notin T
    BY <2>1
  <2>3. x - 1 \in Nat /\ x - 1 <= n /\ ~(x <= x - 1)
    BY <2>2
  <2>4. x - 1 \in T
    BY <2>1, <2>3
  <2> QED
    BY <2>2, <2>4
<1> QED
  BY <1>1

LEMMA Recursion ==
    ASSUME NEW V, NEW v \in V, NEW n \in Nat, NEW step \in [1..n -> [V -> V]]
    PROVE  \E f \in [0..n -> V] :
               f[0] = v /\ \A i \in 1..n : f[i] = step[i][f[i - 1]]
<1> DEFINE Goes(f, m) ==
        /\ f \in [0..m -> V] /\ f[0] = v
        /\ \A i \in 1..m : f[i] = step[i][f[i - 1]]
           T == {m \in 0..n : \E f : Goes(f, m)}
<1>1. 0 \in T
  <2>1. Goes([i \in 0..0 |-> v], 0)
    OBVIOUS
  <2> HIDE DEF Goes
  <2>2. \E f : Goes(f, 0)
    BY <2>1
  <2> QED
    BY <2>2
<1>2. ASSUME NEW m \in 1..n, m - 1 \in T
      PROVE  m \in T
  <2>1. PICK f : Goes(f, m - 1)
    BY <1>2
  <2> DEFINE g == [i \in 0..m |-> IF i = m THEN step[m][f[m - 1]] ELSE f[i]]
  <2>2. f[m - 1] \in V /\ step[m] \in [V -> V]
    BY <2>1
  <2>3. \A i \in 0..m : g[i] = IF i = m THEN step[m][f[m - 1]] ELSE f[i]
    OBVIOUS
  <2>4. g \in [0..m -> V]
    <3>1. \A i \in 0..m : i # m => i \in 0..m - 1
      OBVIOUS
    <3> QED
      BY <2>1, <2>2, <3>1
  <2> HIDE DEF g
  <2>5. g[0] = v
    BY <2>1, <2>3
  <2>6. \A i \in 1..m : g[i] = step[i][g[i - 1]]
    <3> SUFFICES ASSUME NEW i \in 1..m
                 PROVE  g[i] = step[i][g[i - 1]]
      OBVIOUS
    <3>1. g[i - 1] = f[i - 1]
      BY <2>3
    <3>2. CASE i = m
      BY <2>3, <3>1, <3>2
    <3>3. CASE i # m
      BY <2>1, <2>3, <3>1, <3>3
    <3> QED
      BY <3>2, <3>3
  <2>7. Goes(g, m)
    BY <2>4, <2>5, <2>6
  <2> HIDE DEF Goes
  <2>8. \E h : Goes(h, m)
    BY <2>7
  <2> QED
    BY <2>8
<1> HIDE DEF T
<1>3. 0..n \subseteq T
  BY <1>1, <1>2, Induct
<1>4. n \in T
  BY <1>3
<1> QED
  BY <1>4 DEF T

-----------------------------------------------------------------------------
(* Part and Bytes.                                                             *)

LEMMA PartRuns ==
    ASSUME NEW S, NEW s \in Seq(S), NEW kept
    PROVE  \E part \in [0..Len(s) -> Seq(S)] :
              /\ part[0] = <<>> /\ Part(s, kept) = part[Len(s)]
              /\ \A n \in 1..Len(s) :
                    part[n] = IF s[n] \in kept THEN Append(part[n - 1], s[n])
                              ELSE part[n - 1]
<1> DEFINE V == Seq(S)
           step == [n \in 1..Len(s) |->
                       [p \in V |-> IF s[n] \in kept THEN Append(p, s[n]) ELSE p]]
           Runs(f) == f = [n \in 0..Len(s) |->
                              IF n = 0 THEN <<>>
                              ELSE IF s[n] \in kept THEN Append(f[n - 1], s[n])
                              ELSE f[n - 1]]
<1>1. Len(s) \in Nat /\ <<>> \in V /\ step \in [1..Len(s) -> [V -> V]]
  OBVIOUS
<1>2. \A n \in 1..Len(s), p \in V :
          step[n][p] = IF s[n] \in kept THEN Append(p, s[n]) ELSE p
  OBVIOUS
<1> HIDE DEF V, step
<1>3. PICK f \in [0..Len(s) -> V] :
          f[0] = <<>> /\ \A i \in 1..Len(s) : f[i] = step[i][f[i - 1]]
  <2> DEFINE len == Len(s)
             nil == <<>>
  <2>1. len \in Nat /\ nil \in V /\ step \in [1..len -> [V -> V]]
    BY <1>1
  <2> HIDE DEF len, nil
  <2>2. \E f \in [0..len -> V] :
            f[0] = nil /\ \A i \in 1..len : f[i] = step[i][f[i - 1]]
    BY <2>1, Recursion
  <2> QED
    BY <2>2 DEF len, nil
<1>4. \A n \in 1..Len(s) :
          f[n] = IF s[n] \in kept THEN Append(f[n - 1], s[n]) ELSE f[n - 1]
  <2> SUFFICES ASSUME NEW n \in 1..Len(s)
               PROVE  f[n] = IF s[n] \in kept THEN Append(f[n - 1], s[n]) ELSE f[n - 1]
    OBVIOUS
  <2>1. n - 1 \in 0..Len(s)
    BY <1>1
  <2>2. f[n - 1] \in V
    BY <2>1
  <2> QED
    BY <1>2, <1>3, <2>2
<1>5. Runs(f)
  <2> DEFINE g == [n \in 0..Len(s) |->
                      IF n = 0 THEN <<>>
                      ELSE IF s[n] \in kept THEN Append(f[n - 1], s[n])
                      ELSE f[n - 1]]
  <2>1. \A n \in 0..Len(s) : g[n] = f[n]
    <3>1. \A n \in 0..Len(s) : n = 0 \/ n \in 1..Len(s)
      BY <1>1
    <3>2. 0 \in 0..Len(s)
      BY <1>1
    <3> QED
      BY <1>3, <1>4, <3>1, <3>2
  <2>2. g \in [0..Len(s) -> {g[n] : n \in 0..Len(s)}] /\ DOMAIN f = 0..Len(s)
    OBVIOUS
  <2>3. f = g
    BY <2>1
  <2> QED
    BY <2>3
<1> DEFINE part == CHOOSE h : Runs(h)
<1>6. Runs(part)
  BY <1>5
<1>8. Part(s, kept) = part[Len(s)]
  BY DEF Part
<1> HIDE DEF part
<1>9. /\ part = [n \in 0..Len(s) |-> part[n]]
      /\ part[0] = <<>>
      /\ \A n \in 1..Len(s) :
            part[n] = IF s[n] \in kept THEN Append(part[n - 1], s[n]) ELSE part[n - 1]
  <2>1. 0 \in 0..Len(s) /\ \A n \in 1..Len(s) : n \in 0..Len(s) /\ n # 0
    BY <1>1
  <2>2. /\ part = [n \in 0..Len(s) |-> part[n]]
        /\ \A n \in 0..Len(s) :
              part[n] = IF n = 0 THEN <<>>
                        ELSE IF s[n] \in kept THEN Append(part[n - 1], s[n])
                        ELSE part[n - 1]
    BY <1>6
  <2> HIDE DEF Runs
  <2>3. part[0] = <<>>
    BY <2>1, <2>2
  <2> QED
    BY <2>1, <2>2, <2>3
<1> HIDE DEF Runs
<1>7. part \in [0..Len(s) -> V]
  <2> DEFINE T == {n \in 0..Len(s) : part[n] \in V}
  <2>1. 0 \in T
    BY <1>1, <1>9
  <2>2. ASSUME NEW n \in 1..Len(s), n - 1 \in T
        PROVE  n \in T
    <3>1. n \in 0..Len(s) /\ part[n - 1] \in V /\ s[n] \in S
      BY <1>1, <2>2
    <3>2. Append(part[n - 1], s[n]) \in V
      BY <3>1 DEF V
    <3> QED
      BY <1>9, <3>1, <3>2
  <2> HIDE DEF T
  <2>3. 0..Len(s) \subseteq T
    BY <1>1, <2>1, <2>2, Induct
  <2> QED
    BY <1>9, <2>3 DEF T
<1> QED
  BY <1>7, <1>8, <1>9 DEF V

(* r has the entries of s at 1..n that are kept; h says where each is from.    *)
Picks(s, kept, r, h, n) ==
    /\ h \in [1..Len(r) -> 1..n] /\ Len(r) <= n
    /\ \A j \in 1..Len(r) : r[j] = s[h[j]] /\ r[j] \in kept
    /\ \A i, j \in 1..Len(r) : i < j => h[i] < h[j]
    /\ \A k \in 1..n : s[k] \in kept => \E j \in 1..Len(r) : h[j] = k

LEMMA PartPicks ==
    ASSUME NEW S, NEW s \in Seq(S), NEW kept
    PROVE  /\ Part(s, kept) \in Seq(S)
           /\ \E h : Picks(s, kept, Part(s, kept), h, Len(s))
<1>1. PICK part \in [0..Len(s) -> Seq(S)] :
          /\ part[0] = <<>> /\ Part(s, kept) = part[Len(s)]
          /\ \A n \in 1..Len(s) :
                part[n] = IF s[n] \in kept THEN Append(part[n - 1], s[n])
                          ELSE part[n - 1]
  BY PartRuns
<1> DEFINE T == {n \in 0..Len(s) : \E h : Picks(s, kept, part[n], h, n)}
<1>2. Len(s) \in Nat
  OBVIOUS
<1>3. 0 \in T
  <2>1. Picks(s, kept, part[0], <<>>, 0)
    BY <1>1 DEF Picks
  <2> QED
    BY <1>2, <2>1
<1>4. ASSUME NEW n \in 1..Len(s), n - 1 \in T
      PROVE  n \in T
  <2> DEFINE p == part[n - 1]
             q == part[n]
  <2>0. n - 1 \in 0..Len(s) /\ n \in 0..Len(s)
    BY <1>2
  <2>1. p \in Seq(S) /\ q \in Seq(S) /\ s[n] \in S
    BY <1>2, <2>0
  <2>2. PICK h : Picks(s, kept, p, h, n - 1)
    BY <1>4
  <2>3. q = IF s[n] \in kept THEN Append(p, s[n]) ELSE p
    BY <1>1
  <2> HIDE DEF p, q
  <2>4. CASE s[n] \in kept
    <3> DEFINE g == [j \in 1..Len(q) |-> IF j = Len(q) THEN n ELSE h[j]]
    <3>1. /\ Len(p) \in Nat /\ Len(q) = Len(p) + 1 /\ q[Len(q)] = s[n]
          /\ \A j \in 1..Len(p) : q[j] = p[j]
      BY <2>1, <2>3, <2>4
    <3>2. /\ \A j \in 1..Len(q) : g[j] = IF j = Len(q) THEN n ELSE h[j]
          /\ DOMAIN g = 1..Len(q) /\ g = [j \in 1..Len(q) |-> g[j]]
      OBVIOUS
    <3>3. \A j \in 1..Len(q) : j = Len(q) \/ j \in 1..Len(p)
      BY <3>1
    <3>4. \A j \in 1..Len(p) : h[j] \in 1..n - 1 /\ j \in 1..Len(q) /\ j # Len(q)
      BY <2>2, <3>1 DEF Picks
    <3> HIDE DEF g
    <3>5. g \in [1..Len(q) -> 1..n]
      BY <3>2, <3>3, <3>4
    <3>6. \A j \in 1..Len(q) : q[j] = s[g[j]] /\ q[j] \in kept
      BY <2>2, <2>4, <3>1, <3>2, <3>3, <3>4 DEF Picks
    <3>7. \A i, j \in 1..Len(q) : i < j => g[i] < g[j]
      <4> SUFFICES ASSUME NEW i \in 1..Len(q), NEW j \in 1..Len(q), i < j
                   PROVE  g[i] < g[j]
        OBVIOUS
      <4>1. i \in 1..Len(p)
        BY <3>1
      <4>2. CASE j = Len(q)
        BY <3>2, <3>4, <4>1, <4>2
      <4>3. CASE j # Len(q)
        BY <2>2, <3>2, <3>3, <3>4, <4>1, <4>3 DEF Picks
      <4> QED
        BY <4>2, <4>3
    <3>8. \A k \in 1..n : s[k] \in kept => \E j \in 1..Len(q) : g[j] = k
      <4> SUFFICES ASSUME NEW k \in 1..n, s[k] \in kept
                   PROVE  \E j \in 1..Len(q) : g[j] = k
        OBVIOUS
      <4>1. CASE k = n
        BY <3>1, <3>2, <4>1
      <4>2. CASE k # n
        <5>1. k \in 1..n - 1
          BY <4>2
        <5>2. PICK j \in 1..Len(p) : h[j] = k
          BY <2>2, <5>1 DEF Picks
        <5> QED
          BY <3>2, <3>4, <5>2
      <4> QED
        BY <4>1, <4>2
    <3>9. Len(q) <= n
      BY <2>2, <3>1 DEF Picks
    <3>10. Picks(s, kept, q, g, n)
      BY <3>5, <3>6, <3>7, <3>8, <3>9 DEF Picks
    <3>11. \E f : Picks(s, kept, q, f, n)
      BY <3>10
    <3> QED
      BY <2>0, <3>11 DEF q
  <2>5. CASE s[n] \notin kept
    <3>1. \A k \in 1..n : s[k] \in kept => k \in 1..n - 1
      BY <2>5
    <3>2. q = p
      BY <2>3, <2>5
    <3>3. Picks(s, kept, q, h, n)
      BY <2>1, <2>2, <3>1, <3>2 DEF Picks
    <3>4. \E f : Picks(s, kept, q, f, n)
      BY <3>3
    <3> QED
      BY <2>0, <3>4 DEF q
  <2> QED
    BY <2>4, <2>5
<1> HIDE DEF T
<1>5. 0..Len(s) \subseteq T
  BY <1>2, <1>3, <1>4, Induct
<1>6. Len(s) \in T /\ Len(s) \in 0..Len(s)
  BY <1>2, <1>5
<1>7. part[Len(s)] \in Seq(S)
  BY <1>6
<1> QED
  BY <1>1, <1>6, <1>7 DEF T

(* What is in a part, and in which order.                                      *)
Unique(s) == \A i, j \in DOMAIN s : s[i].id = s[j].id => i = j

(* The entry of a is older than that of b.                                     *)
Before(s, a, b) == \E i, j \in DOMAIN s : i < j /\ s[i].id = a /\ s[j].id = b

(* r is s without some entries.                                                *)
Sub(r, s) ==
    /\ Range(r) \subseteq Range(s) /\ Len(r) <= Len(s)
    /\ Unique(s) => Unique(r)
    /\ \A a, b : Before(r, a, b) => Before(s, a, b)
    /\ Unique(s) => \A a, b \in Ids(r) : Before(s, a, b) => Before(r, a, b)

(* Increasing indexes make a Sub.                                              *)
LEMMA SubBy ==
    ASSUME NEW S, NEW s \in Seq(S), NEW r \in Seq(S), NEW h, Len(r) <= Len(s),
           \A j \in DOMAIN r : h[j] \in DOMAIN s /\ r[j] = s[h[j]],
           \A i, j \in DOMAIN r : i < j => h[i] < h[j]
    PROVE  Sub(r, s)
<1>1. /\ DOMAIN s = 1..Len(s) /\ DOMAIN r = 1..Len(r)
      /\ Len(s) \in Nat /\ Len(r) \in Nat
  OBVIOUS
<1>2. Range(r) \subseteq Range(s)
  BY DEF Range
<1>3. ASSUME Unique(s), NEW i \in DOMAIN r, NEW j \in DOMAIN r, r[i].id = r[j].id
      PROVE  i = j
  <2>1. h[i] = h[j]
    BY <1>3 DEF Unique
  <2>2. i \in Int /\ j \in Int /\ h[i] \in Int /\ h[j] \in Int
    BY <1>1
  <2>3. ~(h[i] < h[j]) /\ ~(h[j] < h[i])
    BY <2>1, <2>2
  <2>4. ~(i < j) /\ ~(j < i)
    BY <2>3
  <2> QED
    BY <2>2, <2>4
<1>4. Unique(s) => Unique(r)
  BY <1>3 DEF Unique
<1>5. ASSUME NEW a, NEW b, Before(r, a, b)
      PROVE  Before(s, a, b)
  <2>1. PICK i, j \in DOMAIN r : i < j /\ r[i].id = a /\ r[j].id = b
    BY <1>5 DEF Before
  <2>2. /\ h[i] \in DOMAIN s /\ h[j] \in DOMAIN s /\ h[i] < h[j]
        /\ s[h[i]].id = a /\ s[h[j]].id = b
    BY <2>1
  <2> QED
    BY <2>2 DEF Before
<1>6. ASSUME Unique(s), NEW a \in Ids(r), NEW b \in Ids(r), Before(s, a, b)
      PROVE  Before(r, a, b)
  <2>1. PICK i, j \in DOMAIN s : i < j /\ s[i].id = a /\ s[j].id = b
    BY <1>6 DEF Before
  <2>2. PICK m \in DOMAIN r : r[m].id = a
    BY DEF Ids
  <2>3. PICK n \in DOMAIN r : r[n].id = b
    BY DEF Ids
  <2>4. h[m] = i /\ h[n] = j
    BY <1>6, <2>1, <2>2, <2>3 DEF Unique
  <2>5. m \in Int /\ n \in Int /\ i \in Int /\ j \in Int
    BY <1>1
  <2>6. m < n
    <3>1. CASE n < m
      BY <2>1, <2>4, <2>5, <3>1
    <3>2. CASE n = m
      BY <2>1, <2>4, <2>5, <3>2
    <3> QED
      BY <2>5, <3>1, <3>2
  <2> QED
    BY <2>2, <2>3, <2>6 DEF Before
<1> QED
  BY <1>2, <1>4, <1>5, <1>6 DEF Sub

LEMMA PartHolds ==
    ASSUME NEW S, NEW s \in Seq(S), NEW kept
    PROVE  /\ Part(s, kept) \in Seq(S) /\ Sub(Part(s, kept), s)
           /\ Range(Part(s, kept)) = Range(s) \cap kept
<1> DEFINE r == Part(s, kept)
<1>1. r \in Seq(S)
  BY PartPicks
<1>2. PICK h : Picks(s, kept, r, h, Len(s))
  BY PartPicks
<1> HIDE DEF r
<1>3. /\ DOMAIN s = 1..Len(s) /\ DOMAIN r = 1..Len(r)
      /\ Len(s) \in Nat /\ Len(r) \in Nat
  BY <1>1
<1>4. \A j \in DOMAIN r : h[j] \in DOMAIN s /\ r[j] = s[h[j]] /\ r[j] \in kept
  BY <1>2, <1>3 DEF Picks
<1>5. \A k \in DOMAIN s : s[k] \in kept => \E j \in DOMAIN r : h[j] = k
  BY <1>2, <1>3 DEF Picks
<1>6. \A i, j \in DOMAIN r : i < j => h[i] < h[j]
  BY <1>2, <1>3 DEF Picks
<1>7. Range(r) = Range(s) \cap kept
  <2>1. ASSUME NEW e \in Range(r)
        PROVE  e \in Range(s) /\ e \in kept
    BY <1>4, <2>1 DEF Range
  <2>2. ASSUME NEW e \in Range(s), e \in kept
        PROVE  e \in Range(r)
    <3>1. PICK k \in DOMAIN s : s[k] = e
      BY <2>2 DEF Range
    <3>2. PICK j \in DOMAIN r : h[j] = k
      BY <1>5, <2>2, <3>1
    <3> QED
      BY <1>4, <3>1, <3>2 DEF Range
  <2> QED
    BY <2>1, <2>2
<1>8. Len(r) <= Len(s)
  BY <1>2 DEF Picks
<1>9. Sub(r, s)
  BY <1>1, <1>4, <1>6, <1>8, SubBy
<1> QED
  BY <1>1, <1>7, <1>9 DEF r

(* One entry less is a shorter store.                                          *)
LEMMA PartShorter ==
    ASSUME NEW S, NEW s \in Seq(S), NEW kept, NEW e \in Range(s), e \notin kept
    PROVE  Len(Part(s, kept)) < Len(s)
<1> DEFINE r == Part(s, kept)
           n == Len(s)
<1>1. r \in Seq(S) /\ n \in Nat
  BY PartPicks
<1>2. PICK h : Picks(s, kept, r, h, n)
  BY PartPicks
<1>3. DOMAIN s = 1..n
  OBVIOUS
<1> HIDE DEF r, n
<1>4. PICK k \in 1..n : s[k] = e
  BY <1>3 DEF Range
<1>5. Len(r) \in Nat /\ \A j \in 1..Len(r) : h[j] \in 1..n /\ h[j] # k
  BY <1>1, <1>2, <1>4 DEF Picks
<1> DEFINE T == {j \in 0..Len(r) : j >= 1 => h[j] >= j + (IF h[j] > k THEN 1 ELSE 0)}
<1>6. 0 \in T
  BY <1>5
<1>7. ASSUME NEW j \in 1..Len(r), j - 1 \in T
      PROVE  j \in T
  <2>1. h[j] \in 1..n /\ h[j] # k
    BY <1>5
  <2>2. CASE j = 1
    BY <2>1, <2>2, <1>5
  <2>3. CASE j # 1
    <3>1. j - 1 \in 1..Len(r)
      BY <2>3, <1>5
    <3>2. h[j - 1] \in 1..n /\ h[j - 1] # k /\ h[j - 1] < h[j]
      BY <1>2, <1>5, <3>1 DEF Picks
    <3>3. h[j - 1] >= j - 1 + (IF h[j - 1] > k THEN 1 ELSE 0)
      BY <1>7, <3>1
    <3>4. h[j] >= j + (IF h[j] > k THEN 1 ELSE 0)
      BY <1>4, <2>1, <3>2, <3>3
    <3> QED
      BY <1>5, <3>4
  <2> QED
    BY <2>2, <2>3
<1> HIDE DEF T
<1>8. Len(r) \in T
  <2>1. 0..Len(r) \subseteq T
    BY <1>5, <1>6, <1>7, Induct
  <2> QED
    BY <1>5, <2>1
<1>9. CASE Len(r) = n
  <2>1. n >= 1 /\ h[n] \in 1..n /\ h[n] # k
    BY <1>1, <1>4, <1>5, <1>9
  <2>2. h[n] >= n + (IF h[n] > k THEN 1 ELSE 0)
    BY <1>8, <1>9, <2>1 DEF T
  <2> QED
    BY <1>1, <1>4, <2>1, <2>2
<1>10. Len(r) <= n
  BY <1>2 DEF Picks
<1> QED
  BY <1>1, <1>5, <1>9, <1>10 DEF r, n

(* Sums.                                                                       *)
Sized(S) == \A e \in S : e.size \in Nat

LEMMA BytesRuns ==
    ASSUME NEW S, Sized(S), NEW s \in Seq(S)
    PROVE  \E sum \in [0..Len(s) -> Nat] :
              /\ sum[0] = 0 /\ Bytes(s) = sum[Len(s)]
              /\ \A n \in 1..Len(s) : sum[n] = sum[n - 1] + s[n].size
<1> DEFINE V == Nat
           step == [n \in 1..Len(s) |-> [p \in V |-> p + s[n].size]]
           Runs(f) == f = [n \in 0..Len(s) |->
                              IF n = 0 THEN 0 ELSE f[n - 1] + s[n].size]
<1>1. /\ Len(s) \in Nat /\ step \in [1..Len(s) -> [V -> V]]
      /\ \A n \in 1..Len(s) : s[n].size \in Nat
  BY DEF Sized
<1>2. \A n \in 1..Len(s), p \in V : step[n][p] = p + s[n].size
  OBVIOUS
<1> HIDE DEF step
<1>3. PICK f \in [0..Len(s) -> V] :
          f[0] = 0 /\ \A i \in 1..Len(s) : f[i] = step[i][f[i - 1]]
  <2> DEFINE len == Len(s)
             nil == 0
  <2>1. len \in Nat /\ nil \in V /\ step \in [1..len -> [V -> V]]
    BY <1>1
  <2> HIDE DEF len, nil, V
  <2>2. \E f \in [0..len -> V] :
            f[0] = nil /\ \A i \in 1..len : f[i] = step[i][f[i - 1]]
    BY <2>1, Recursion
  <2> QED
    BY <2>2 DEF len, nil
<1>4. \A n \in 1..Len(s) : f[n] = f[n - 1] + s[n].size
  <2> SUFFICES ASSUME NEW n \in 1..Len(s)
               PROVE  f[n] = f[n - 1] + s[n].size
    OBVIOUS
  <2>1. n - 1 \in 0..Len(s)
    BY <1>1
  <2>2. f[n - 1] \in V
    BY <2>1
  <2> QED
    BY <1>2, <1>3, <2>2
<1>5. Runs(f)
  <2> DEFINE g == [n \in 0..Len(s) |->
                      IF n = 0 THEN 0 ELSE f[n - 1] + s[n].size]
  <2>1. \A n \in 0..Len(s) : g[n] = f[n]
    <3>1. \A n \in 0..Len(s) : n = 0 \/ n \in 1..Len(s)
      BY <1>1
    <3>2. 0 \in 0..Len(s)
      BY <1>1
    <3> QED
      BY <1>3, <1>4, <3>1, <3>2
  <2>2. f = g
    BY <2>1
  <2> QED
    BY <2>2
<1> DEFINE sum == CHOOSE h : Runs(h)
<1>6. Runs(sum)
  BY <1>5
<1>7. Bytes(s) = sum[Len(s)]
  BY DEF Bytes
<1> HIDE DEF sum
<1>8. /\ sum = [n \in 0..Len(s) |-> sum[n]]
      /\ sum[0] = 0
      /\ \A n \in 1..Len(s) : sum[n] = sum[n - 1] + s[n].size
  <2>1. 0 \in 0..Len(s) /\ \A n \in 1..Len(s) : n \in 0..Len(s) /\ n # 0
    BY <1>1
  <2>2. /\ sum = [n \in 0..Len(s) |-> sum[n]]
        /\ \A n \in 0..Len(s) :
              sum[n] = IF n = 0 THEN 0 ELSE sum[n - 1] + s[n].size
    BY <1>6
  <2> HIDE DEF Runs
  <2>3. sum[0] = 0
    BY <2>1, <2>2
  <2> QED
    BY <2>1, <2>2, <2>3
<1> HIDE DEF Runs
<1>9. sum \in [0..Len(s) -> Nat]
  <2> DEFINE T == {n \in 0..Len(s) : sum[n] \in Nat}
  <2>1. 0 \in T
    BY <1>1, <1>8
  <2>2. ASSUME NEW n \in 1..Len(s), n - 1 \in T
        PROVE  n \in T
    <3>1. sum[n - 1] \in Nat /\ s[n].size \in Nat /\ n \in 0..Len(s)
      BY <1>1, <2>2
    <3>2. sum[n] = sum[n - 1] + s[n].size
      BY <1>8
    <3>3. sum[n] \in Nat
      BY <3>1, <3>2
    <3> QED
      BY <3>1, <3>3
  <2> HIDE DEF T
  <2>3. 0..Len(s) \subseteq T
    BY <1>1, <2>1, <2>2, Induct
  <2> QED
    BY <1>8, <2>3 DEF T
<1> QED
  BY <1>7, <1>8, <1>9

(* Whatever adds up the sizes of s from c ends at c more than Bytes.           *)
LEMMA BytesFrom ==
    ASSUME NEW S, Sized(S), NEW s \in Seq(S), NEW f, NEW c \in Int, f[0] = c,
           \A n \in 1..Len(s) : f[n] = f[n - 1] + s[n].size
    PROVE  f[Len(s)] = c + Bytes(s)
<1>1. PICK sum \in [0..Len(s) -> Nat] :
          /\ sum[0] = 0 /\ Bytes(s) = sum[Len(s)]
          /\ \A n \in 1..Len(s) : sum[n] = sum[n - 1] + s[n].size
  BY BytesRuns
<1> DEFINE T == {n \in 0..Len(s) : f[n] = c + sum[n]}
<1>2. Len(s) \in Nat /\ \A n \in 1..Len(s) : s[n].size \in Nat
  BY DEF Sized
<1>3. 0 \in T
  BY <1>1, <1>2
<1>4. ASSUME NEW n \in 1..Len(s), n - 1 \in T
      PROVE  n \in T
  <2>1. f[n - 1] = c + sum[n - 1] /\ sum[n - 1] \in Nat /\ s[n].size \in Nat
    BY <1>1, <1>2, <1>4
  <2> QED
    BY <1>1, <2>1
<1> HIDE DEF T
<1>5. 0..Len(s) \subseteq T
  BY <1>2, <1>3, <1>4, Induct
<1>6. Len(s) \in T
  BY <1>2, <1>5
<1> QED
  BY <1>1, <1>6 DEF T

LEMMA BytesEmpty == Bytes(<<>>) = 0
<1>1. Sized({}) /\ <<>> \in Seq({}) /\ Len(<<>>) = 0
  BY DEF Sized
<1> DEFINE nil == <<>>
<1>2. nil \in Seq({}) /\ Len(nil) = 0
  BY <1>1
<1> HIDE DEF nil
<1>3. Bytes(nil) = 0
  BY <1>1, <1>2, BytesRuns
<1> QED
  BY <1>3 DEF nil

LEMMA BytesAppend ==
    ASSUME NEW S, Sized(S), NEW s \in Seq(S), NEW e \in S
    PROVE  /\ Bytes(s) \in Nat
           /\ Bytes(Append(s, e)) = Bytes(s) + e.size
<1> DEFINE t == Append(s, e)
<1>1. t \in Seq(S) /\ Len(t) = Len(s) + 1 /\ t[Len(t)] = e /\ Len(s) \in Nat
  OBVIOUS
<1>2. \A n \in 1..Len(s) : t[n] = s[n] /\ n \in 1..Len(t)
  OBVIOUS
<1> HIDE DEF t
<1>3. PICK sum \in [0..Len(t) -> Nat] :
          /\ sum[0] = 0 /\ Bytes(t) = sum[Len(t)]
          /\ \A n \in 1..Len(t) : sum[n] = sum[n - 1] + t[n].size
  BY <1>1, BytesRuns
<1>4. \A n \in 1..Len(s) : sum[n] = sum[n - 1] + s[n].size
  BY <1>2, <1>3
<1>5. sum[Len(s)] = 0 + Bytes(s)
  <2>1. \A f : \A c \in Int :
           (f[0] = c /\ \A n \in 1..Len(s) : f[n] = f[n - 1] + s[n].size)
              => f[Len(s)] = c + Bytes(s)
    BY BytesFrom
  <2> QED
    BY <1>3, <1>4, <2>1
<1>6. sum[Len(t)] = sum[Len(s)] + e.size /\ sum[Len(s)] \in Nat
  BY <1>1, <1>3
<1>7. PICK own \in [0..Len(s) -> Nat] : Bytes(s) = own[Len(s)]
  BY BytesRuns
<1>8. Bytes(s) \in Nat
  BY <1>1, <1>7
<1> QED
  BY <1>3, <1>5, <1>6, <1>8 DEF t

LEMMA BytesOfPart ==
    ASSUME NEW S, Sized(S), NEW s \in Seq(S), NEW kept
    PROVE  Bytes(Part(s, kept)) <= Bytes(s)
<1>1. PICK part \in [0..Len(s) -> Seq(S)] :
          /\ part[0] = <<>> /\ Part(s, kept) = part[Len(s)]
          /\ \A n \in 1..Len(s) :
                part[n] = IF s[n] \in kept THEN Append(part[n - 1], s[n])
                          ELSE part[n - 1]
  BY ONLY s \in Seq(S), PartRuns
<1>2. PICK sum \in [0..Len(s) -> Nat] :
          /\ sum[0] = 0 /\ Bytes(s) = sum[Len(s)]
          /\ \A n \in 1..Len(s) : sum[n] = sum[n - 1] + s[n].size
  BY BytesRuns
<1> DEFINE T == {n \in 0..Len(s) : Bytes(part[n]) <= sum[n]}
<1>3. Len(s) \in Nat
  OBVIOUS
<1>4. 0 \in T
  BY <1>1, <1>2, <1>3, BytesEmpty
<1>5. ASSUME NEW n \in 1..Len(s), n - 1 \in T
      PROVE  n \in T
  <2>1. /\ n - 1 \in 0..Len(s) /\ n \in 0..Len(s)
        /\ part[n - 1] \in Seq(S) /\ s[n] \in S
    BY <1>3
  <2>2. sum[n] = sum[n - 1] + s[n].size /\ sum[n - 1] \in Nat
    BY <1>2, <2>1
  <2>3. s[n].size \in Nat
    BY <2>1 DEF Sized
  <2>4. /\ Bytes(part[n - 1]) \in Nat
        /\ Bytes(Append(part[n - 1], s[n])) = Bytes(part[n - 1]) + s[n].size
    BY <2>1, BytesAppend
  <2>5. Bytes(part[n - 1]) <= sum[n - 1]
    BY <1>5
  <2>6. part[n] = IF s[n] \in kept THEN Append(part[n - 1], s[n]) ELSE part[n - 1]
    BY <1>1
  <2>7. Bytes(part[n]) <= sum[n]
    <3>1. CASE s[n] \in kept
      BY <2>2, <2>3, <2>4, <2>5, <2>6, <3>1
    <3>2. CASE s[n] \notin kept
      BY <2>2, <2>3, <2>4, <2>5, <2>6, <3>2
    <3> QED
      BY <3>1, <3>2
  <2> QED
    BY <2>1, <2>7
<1> HIDE DEF T
<1>6. 0..Len(s) \subseteq T
  BY <1>3, <1>4, <1>5, Induct
<1>7. Len(s) \in T
  BY <1>3, <1>6
<1> QED
  BY <1>1, <1>2, <1>7 DEF T

(* Entries of the same sizes have the same sum.                                *)
LEMMA BytesSame ==
    ASSUME NEW S, Sized(S), NEW s \in Seq(S), NEW t \in Seq(S), Len(s) = Len(t),
           \A n \in 1..Len(s) : s[n].size = t[n].size
    PROVE  Bytes(s) = Bytes(t)
<1>1. PICK sum \in [0..Len(s) -> Nat] :
          /\ sum[0] = 0 /\ Bytes(s) = sum[Len(s)]
          /\ \A n \in 1..Len(s) : sum[n] = sum[n - 1] + s[n].size
  BY BytesRuns
<1>2. \A n \in 1..Len(t) : sum[n] = sum[n - 1] + t[n].size
  BY <1>1
<1>3. sum[Len(t)] = 0 + Bytes(t)
  <2>1. \A f : \A c \in Int :
           (f[0] = c /\ \A n \in 1..Len(t) : f[n] = f[n - 1] + t[n].size)
              => f[Len(t)] = c + Bytes(t)
    BY BytesFrom
  <2> QED
    BY <1>1, <1>2, <2>1
<1>4. PICK own \in [0..Len(t) -> Nat] : Bytes(t) = own[Len(t)]
  BY BytesRuns
<1>5. Len(t) \in 0..Len(t) /\ Bytes(t) \in Nat
  BY <1>4
<1> QED
  BY <1>1, <1>3, <1>5

(* The rest of a store from n on.                                              *)
Rest(s, n) == SubSeq(s, n, Len(s))

LEMMA RestHolds ==
    ASSUME NEW S, NEW s \in Seq(S), NEW n \in 1..Len(s) + 1
    PROVE  /\ Rest(s, n) \in Seq(S) /\ Len(Rest(s, n)) = Len(s) - n + 1
           /\ \A i \in 1..Len(s) - n + 1 : Rest(s, n)[i] = s[n + i - 1]
           /\ Range(Rest(s, n)) = {s[i] : i \in n..Len(s)}
           /\ Sub(Rest(s, n), s)
<1> DEFINE r == Rest(s, n)
           h == [i \in DOMAIN r |-> n + i - 1]
<1>1. /\ r \in Seq(S) /\ Len(r) = Len(s) - n + 1 /\ Len(s) \in Nat
      /\ \A i \in 1..Len(s) - n + 1 : r[i] = s[n + i - 1]
  BY DEF Rest
<1> HIDE DEF r
<1>2. /\ DOMAIN r = 1..Len(s) - n + 1 /\ DOMAIN s = 1..Len(s)
      /\ \A i \in DOMAIN r : n + i - 1 \in n..Len(s) /\ n + i - 1 \in DOMAIN s
                            /\ r[i] = s[n + i - 1]
  <2>1. DOMAIN r = 1..Len(s) - n + 1 /\ DOMAIN s = 1..Len(s)
    BY <1>1
  <2>2. \A i \in 1..Len(s) - n + 1 : n + i - 1 \in n..Len(s) /\ n + i - 1 \in 1..Len(s)
    BY <1>1
  <2> QED
    BY <1>1, <2>1, <2>2
<1>3. Sub(r, s)
  <2>1. \A i \in DOMAIN r : h[i] = n + i - 1
    OBVIOUS
  <2> HIDE DEF h
  <2>2. \A i \in DOMAIN r : h[i] \in DOMAIN s /\ r[i] = s[h[i]]
    BY <1>2, <2>1
  <2>3. \A i, j \in DOMAIN r : i < j => h[i] < h[j]
    BY <1>2, <2>1
  <2>4. Len(r) <= Len(s)
    BY <1>1
  <2> QED
    BY <1>1, <2>2, <2>3, <2>4, SubBy
<1>4. Range(r) = {s[i] : i \in n..Len(s)}
  <2>1. ASSUME NEW e \in Range(r)
        PROVE  e \in {s[i] : i \in n..Len(s)}
    BY <1>2, <2>1 DEF Range
  <2>2. ASSUME NEW i \in n..Len(s)
        PROVE  s[i] \in Range(r)
    <3>1. i - n + 1 \in DOMAIN r /\ n + (i - n + 1) - 1 = i
      BY <1>1, <1>2
    <3>2. r[i - n + 1] = s[i]
      BY <1>2, <3>1
    <3> QED
      BY <3>1, <3>2 DEF Range
  <2> QED
    BY <2>1, <2>2
<1> QED
  BY <1>1, <1>3, <1>4 DEF r

LEMMA BytesOfRest ==
    ASSUME NEW S, Sized(S), NEW s \in Seq(S), NEW n \in 1..Len(s)
    PROVE  /\ Bytes(Rest(s, n)) = s[n].size + Bytes(Rest(s, n + 1))
           /\ Bytes(Rest(s, n + 1)) \in Nat
<1> DEFINE r == Rest(s, n)
           q == Rest(s, n + 1)
<1>1. /\ r \in Seq(S) /\ Len(r) = Len(s) - n + 1
      /\ \A i \in 1..Len(s) - n + 1 : r[i] = s[n + i - 1]
  <2>1. n \in 1..Len(s) + 1
    OBVIOUS
  <2> QED
    BY <2>1, RestHolds
<1>2. /\ q \in Seq(S) /\ Len(q) = Len(s) - n
      /\ \A i \in 1..Len(s) - n : q[i] = s[n + i]
  <2>1. n + 1 \in 1..Len(s) + 1 /\ n \in Nat /\ Len(s) \in Nat
    OBVIOUS
  <2>2. /\ q \in Seq(S) /\ Len(q) = Len(s) - (n + 1) + 1
        /\ \A i \in 1..Len(s) - (n + 1) + 1 : q[i] = s[(n + 1) + i - 1]
    BY <2>1, RestHolds
  <2>3. Len(s) - (n + 1) + 1 = Len(s) - n /\ \A i \in Int : (n + 1) + i - 1 = n + i
    BY <2>1
  <2> QED
    BY <2>2, <2>3
<1>3. n \in Nat /\ Len(s) \in Nat /\ s[n].size \in Nat
  BY DEF Sized
<1> HIDE DEF r, q
<1>4. PICK sum \in [0..Len(r) -> Nat] :
          /\ sum[0] = 0 /\ Bytes(r) = sum[Len(r)]
          /\ \A i \in 1..Len(r) : sum[i] = sum[i - 1] + r[i].size
  BY <1>1, BytesRuns
<1> DEFINE f == [i \in 0..Len(q) |-> sum[i + 1]]
<1>5. \A i \in 0..Len(q) : f[i] = sum[i + 1]
  OBVIOUS
<1>6. f[0] = s[n].size
  <2>1. 1 \in 1..Len(r) /\ 0 \in 0..Len(q) /\ n + 1 - 1 = n /\ 1 - 1 = 0 /\ 0 + 1 = 1
    BY <1>1, <1>2, <1>3
  <2>2. r[1] = s[n]
    BY <1>1, <2>1
  <2>3. f[0] = sum[1] /\ sum[1] = sum[0] + r[1].size
    BY <1>4, <1>5, <2>1
  <2> QED
    BY <1>3, <1>4, <2>2, <2>3
<1>7. \A i \in 1..Len(q) : f[i] = f[i - 1] + q[i].size
  <2> SUFFICES ASSUME NEW i \in 1..Len(q)
               PROVE  f[i] = f[i - 1] + q[i].size
    OBVIOUS
  <2>1. /\ i + 1 \in 1..Len(r) /\ i \in 0..Len(q) /\ i - 1 \in 0..Len(q)
        /\ (i + 1) - 1 = i /\ (i - 1) + 1 = i /\ n + (i + 1) - 1 = n + i
    BY <1>1, <1>2, <1>3
  <2>2. r[i + 1] = q[i]
    BY <1>1, <1>2, <2>1
  <2>3. sum[i + 1] = sum[i] + r[i + 1].size
    BY <1>4, <2>1
  <2> HIDE DEF f
  <2> QED
    BY <1>5, <2>1, <2>2, <2>3
<1> HIDE DEF f
<1>8. f[Len(q)] = s[n].size + Bytes(q)
  <2>1. \A g : \A c \in Int :
           (g[0] = c /\ \A i \in 1..Len(q) : g[i] = g[i - 1] + q[i].size)
              => g[Len(q)] = c + Bytes(q)
    BY <1>2, BytesFrom
  <2> QED
    BY <1>3, <1>6, <1>7, <2>1
<1>9. f[Len(q)] = sum[Len(r)]
  <2>1. Len(q) \in 0..Len(q) /\ Len(q) + 1 = Len(r)
    BY <1>1, <1>2, <1>3
  <2> QED
    BY <1>5, <2>1
<1>10. Bytes(q) \in Nat
  <2>1. PICK own \in [0..Len(q) -> Nat] : Bytes(q) = own[Len(q)]
    BY <1>2, BytesRuns
  <2>2. Len(q) \in 0..Len(q)
    BY <1>2
  <2> QED
    BY <2>1, <2>2
<1> QED
  BY <1>4, <1>8, <1>9, <1>10 DEF r, q

-----------------------------------------------------------------------------
(* What is done to a store.                                                    *)

LEMMA IdsRange ==
    ASSUME NEW s
    PROVE  Ids(s) = {e.id : e \in Range(s)}
BY DEF Ids, Range

LEMMA UniqueRange ==
    ASSUME NEW s, Unique(s), NEW e \in Range(s), NEW f \in Range(s), e.id = f.id
    PROVE  e = f
BY DEF Unique, Range

LEMMA SubTrans ==
    ASSUME NEW S, NEW q \in Seq(S), NEW r \in Seq(S), NEW s \in Seq(S),
           Sub(q, r), Sub(r, s)
    PROVE  Sub(q, s)
<1>1. Len(q) \in Nat /\ Len(r) \in Nat /\ Len(s) \in Nat
  OBVIOUS
<1>2. Ids(q) \subseteq Ids(r)
  BY IdsRange DEF Sub
<1> QED
  BY <1>1, <1>2 DEF Sub

LEMMA WithoutHolds ==
    ASSUME NEW S, NEW s \in Seq(S), NEW ids
    PROVE  /\ Without(s, ids) \in Seq(S) /\ Sub(Without(s, ids), s)
           /\ Range(Without(s, ids)) = {e \in Range(s) : e.id \notin ids}
           /\ Ids(Without(s, ids)) = Ids(s) \ ids
<1> DEFINE kept == {e \in Range(s) : e.id \notin ids}
<1>1. /\ Without(s, ids) \in Seq(S) /\ Sub(Without(s, ids), s)
      /\ Range(Without(s, ids)) = Range(s) \cap kept
  BY PartHolds DEF Without
<1>2. Range(Without(s, ids)) = kept
  BY <1>1
<1>3. Ids(Without(s, ids)) = Ids(s) \ ids
  BY <1>2, IdsRange
<1> QED
  BY <1>1, <1>2, <1>3

LEMMA AliveHolds ==
    ASSUME NEW S, NEW s \in Seq(S)
    PROVE  /\ Alive(s) \in Seq(S) /\ Sub(Alive(s), s)
           /\ Range(Alive(s)) = {e \in Range(s) : e.left > 0}
<1> DEFINE kept == {e \in Range(s) : e.left > 0}
<1>1. /\ Alive(s) \in Seq(S) /\ Sub(Alive(s), s)
      /\ Range(Alive(s)) = Range(s) \cap kept
  BY PartHolds DEF Alive
<1> QED
  BY <1>1

LEMMA SubSelf ==
    ASSUME NEW S, NEW s \in Seq(S)
    PROVE  Sub(s, s)
BY DEF Sub

LEMMA AtMostHolds ==
    ASSUME NEW S, NEW s \in Seq(S), NEW n \in Nat \ {0}
    PROVE  /\ AtMost(s, n) \in Seq(S) /\ Sub(AtMost(s, n), s)
           /\ Len(AtMost(s, n)) <= n
           /\ Len(s) <= n => AtMost(s, n) = s
           /\ s # <<>> => s[Len(s)] \in Range(AtMost(s, n))
<1>1. Len(s) \in Nat
  OBVIOUS
<1>2. CASE Len(s) <= n
  <2>1. AtMost(s, n) = s
    BY <1>2 DEF AtMost
  <2>2. s # <<>> => Len(s) \in DOMAIN s
    OBVIOUS
  <2> QED
    BY <1>2, <2>1, <2>2, SubSelf DEF Range
<1>3. CASE ~(Len(s) <= n)
  <2>1. AtMost(s, n) = Rest(s, Len(s) - n + 1)
    BY <1>3 DEF AtMost, Newest, Rest
  <2>2. Len(s) - n + 1 \in 1..Len(s) + 1 /\ Len(s) \in (Len(s) - n + 1)..Len(s)
    BY <1>1, <1>3
  <2>3. Len(s) - (Len(s) - n + 1) + 1 = n
    BY <1>1
  <2> DEFINE r == Rest(s, Len(s) - n + 1)
  <2>4. /\ r \in Seq(S) /\ Len(r) = Len(s) - (Len(s) - n + 1) + 1
        /\ Range(r) = {s[i] : i \in (Len(s) - n + 1)..Len(s)} /\ Sub(r, s)
    BY <2>2, RestHolds
  <2>5. s[Len(s)] \in Range(r)
    BY <2>2, <2>4
  <2> QED
    BY <1>3, <2>1, <2>3, <2>4, <2>5
<1> QED
  BY <1>2, <1>3

LEMMA AppendHolds ==
    ASSUME NEW S, NEW s \in Seq(S), NEW e \in S
    PROVE  /\ Append(s, e) \in Seq(S) /\ Len(Append(s, e)) = Len(s) + 1
           /\ Range(Append(s, e)) = Range(s) \cup {e}
           /\ Ids(Append(s, e)) = Ids(s) \cup {e.id}
           /\ Unique(s) /\ e.id \notin Ids(s) => Unique(Append(s, e))
           /\ \A a, b : Before(Append(s, e), a, b) <=>
                 (Before(s, a, b) \/ (a \in Ids(s) /\ b = e.id))
<1> DEFINE t == Append(s, e)
<1>1. /\ t \in Seq(S) /\ Len(t) = Len(s) + 1 /\ Len(s) \in Nat
      /\ t[Len(s) + 1] = e /\ \A i \in 1..Len(s) : t[i] = s[i]
      /\ DOMAIN s = 1..Len(s) /\ DOMAIN t = 1..Len(s) + 1
  OBVIOUS
<1> HIDE DEF t
<1>2. /\ \A i \in DOMAIN s : i \in DOMAIN t /\ t[i] = s[i] /\ i < Len(s) + 1 /\ i \in Nat
      /\ \A i \in DOMAIN t : i \in DOMAIN s \/ i = Len(s) + 1
      /\ Len(s) + 1 \in DOMAIN t
  BY <1>1
<1>3. Range(t) = Range(s) \cup {e}
  BY <1>1, <1>2 DEF Range
<1>4. Ids(t) = Ids(s) \cup {e.id}
  BY <1>3, IdsRange
<1>5. ASSUME Unique(s), e.id \notin Ids(s)
      PROVE  Unique(t)
  BY <1>1, <1>2, <1>5 DEF Unique, Ids
<1>6. ASSUME NEW a, NEW b
      PROVE  Before(t, a, b) <=> (Before(s, a, b) \/ (a \in Ids(s) /\ b = e.id))
  <2>1. ASSUME Before(t, a, b)
        PROVE  Before(s, a, b) \/ (a \in Ids(s) /\ b = e.id)
    <3>1. PICK i, j \in DOMAIN t : i < j /\ t[i].id = a /\ t[j].id = b
      BY <2>1 DEF Before
    <3>2. i \in DOMAIN s /\ s[i].id = a
      BY <1>1, <3>1
    <3>3. CASE j \in DOMAIN s
      BY <1>2, <3>1, <3>2, <3>3 DEF Before
    <3>4. CASE j = Len(s) + 1
      BY <1>1, <3>1, <3>2, <3>4 DEF Ids
    <3> QED
      BY <1>2, <3>3, <3>4
  <2>2. ASSUME Before(s, a, b)
        PROVE  Before(t, a, b)
    BY <1>2, <2>2 DEF Before
  <2>3. ASSUME a \in Ids(s), b = e.id
        PROVE  Before(t, a, b)
    <3>1. PICK i \in DOMAIN s : s[i].id = a
      BY <2>3 DEF Ids
    <3> QED
      BY <1>1, <1>2, <2>3, <3>1 DEF Before
  <2> QED
    BY <2>1, <2>2, <2>3
<1> QED
  BY <1>1, <1>3, <1>4, <1>5, <1>6 DEF t


LEMMA RestNewer ==
    ASSUME NEW S, NEW s \in Seq(S), Unique(s), NEW n \in 1..Len(s) + 1,
           NEW a, NEW b, Before(s, a, b), a \in Ids(Rest(s, n))
    PROVE  b \in Ids(Rest(s, n))
<1>1. Range(Rest(s, n)) = {s[i] : i \in n..Len(s)} /\ Len(s) \in Nat /\ DOMAIN s = 1..Len(s)
  BY RestHolds
<1>2. PICK k \in n..Len(s) : s[k].id = a
  BY <1>1, IdsRange
<1>3. PICK i, j \in DOMAIN s : i < j /\ s[i].id = a /\ s[j].id = b
  BY DEF Before
<1>4. i = k
  BY <1>1, <1>2, <1>3 DEF Unique
<1>5. j \in n..Len(s)
  BY <1>1, <1>3, <1>4
<1>6. s[j] \in Range(Rest(s, n))
  BY <1>1, <1>5
<1> QED
  BY <1>3, <1>6, IdsRange

LEMMA AtMostNewer ==
    ASSUME NEW S, NEW s \in Seq(S), Unique(s), NEW n \in Nat \ {0},
           NEW a, NEW b, Before(s, a, b), a \in Ids(AtMost(s, n))
    PROVE  b \in Ids(AtMost(s, n))
<1>1. CASE Len(s) <= n
  BY <1>1 DEF AtMost, Before, Ids
<1>2. CASE ~(Len(s) <= n)
  <2>1. AtMost(s, n) = Rest(s, Len(s) - n + 1)
    BY <1>2 DEF AtMost, Newest, Rest
  <2>2. Len(s) - n + 1 \in 1..Len(s) + 1
    BY <1>2
  <2> DEFINE m == Len(s) - n + 1
  <2>3. m \in 1..Len(s) + 1 /\ a \in Ids(Rest(s, m))
    BY <2>1, <2>2
  <2> HIDE DEF m
  <2>4. b \in Ids(Rest(s, m))
    BY <2>3, RestNewer
  <2> QED
    BY <2>1, <2>4 DEF m
<1> QED
  BY <1>1, <1>2

LEMMA PartAll ==
    ASSUME NEW S, NEW s \in Seq(S), NEW kept, Range(s) \subseteq kept
    PROVE  Part(s, kept) = s
<1>1. PICK part \in [0..Len(s) -> Seq(S)] :
          /\ part[0] = <<>> /\ Part(s, kept) = part[Len(s)]
          /\ \A n \in 1..Len(s) :
                part[n] = IF s[n] \in kept THEN Append(part[n - 1], s[n])
                          ELSE part[n - 1]
  BY ONLY s \in Seq(S), PartRuns
<1> DEFINE T == {n \in 0..Len(s) : part[n] = SubSeq(s, 1, n)}
<1>2. Len(s) \in Nat /\ \A n \in 1..Len(s) : s[n] \in kept
  BY DEF Range
<1>3. 0 \in T
  BY <1>1, <1>2
<1>4. ASSUME NEW n \in 1..Len(s), n - 1 \in T
      PROVE  n \in T
  <2>1. part[n - 1] = SubSeq(s, 1, n - 1) /\ n \in 0..Len(s)
    BY <1>2, <1>4
  <2>2. part[n] = Append(SubSeq(s, 1, n - 1), s[n])
    BY <1>1, <1>2, <2>1
  <2>3. Append(SubSeq(s, 1, n - 1), s[n]) = SubSeq(s, 1, n)
    <3>1. /\ SubSeq(s, 1, n - 1) \in Seq(S) /\ SubSeq(s, 1, n) \in Seq(S)
          /\ Len(SubSeq(s, 1, n - 1)) = n - 1 /\ Len(SubSeq(s, 1, n)) = n
          /\ \A i \in 1..n - 1 : SubSeq(s, 1, n - 1)[i] = s[i]
          /\ \A i \in 1..n : SubSeq(s, 1, n)[i] = s[i]
      OBVIOUS
    <3>2. n \in Nat /\ s[n] \in S
      BY <1>2
    <3> QED
      BY <3>1, <3>2
  <2> QED
    BY <2>1, <2>2, <2>3
<1> HIDE DEF T
<1>5. 0..Len(s) \subseteq T
  BY <1>2, <1>3, <1>4, Induct
<1>6. Len(s) \in T
  BY <1>2, <1>5
<1>7. SubSeq(s, 1, Len(s)) = s
  BY SubSeqFull
<1> QED
  BY <1>1, <1>6, <1>7 DEF T

LEMMA MoveHolds ==
    ASSUME NEW S, NEW s \in Seq(S), NEW e \in S
    PROVE  /\ MoveToEnd(s, e) \in Seq(S)
           /\ Range(MoveToEnd(s, e)) = {f \in Range(s) : f.id # e.id} \cup {e}
           /\ Ids(MoveToEnd(s, e)) = Ids(s) \cup {e.id}
           /\ Unique(s) => Unique(MoveToEnd(s, e))
           /\ Len(MoveToEnd(s, e)) <= Len(s) + 1
           /\ e.id \in Ids(s) => Len(MoveToEnd(s, e)) <= Len(s)
           /\ MoveToEnd(s, e)[Len(MoveToEnd(s, e))] = e
           /\ \A a, b : Unique(s) /\ Before(s, a, b) /\ a # e.id /\ b # e.id =>
                 Before(MoveToEnd(s, e), a, b)
           /\ \A a : a \in Ids(s) /\ a # e.id => Before(MoveToEnd(s, e), a, e.id)
           /\ \A a, b : Before(MoveToEnd(s, e), a, b) /\ b # e.id => Before(s, a, b)
<1> DEFINE w == Without(s, {e.id})
           t == MoveToEnd(s, e)
<1>1. /\ w \in Seq(S) /\ Sub(w, s) /\ Range(w) = {f \in Range(s) : f.id # e.id}
      /\ Ids(w) = Ids(s) \ {e.id}
  BY WithoutHolds
<1>2. t = Append(w, e)
  BY DEF MoveToEnd
<1> HIDE DEF w, t
<1>3. /\ t \in Seq(S) /\ Len(t) = Len(w) + 1 /\ Range(t) = Range(w) \cup {e}
      /\ Ids(t) = Ids(w) \cup {e.id}
      /\ Unique(w) /\ e.id \notin Ids(w) => Unique(t)
      /\ \A a, b : Before(t, a, b) <=> (Before(w, a, b) \/ (a \in Ids(w) /\ b = e.id))
  BY <1>1, <1>2, AppendHolds
<1>4. Range(t) = {f \in Range(s) : f.id # e.id} \cup {e} /\ Ids(t) = Ids(s) \cup {e.id}
  BY <1>1, <1>3
<1>5. Unique(s) => Unique(t)
  BY <1>1, <1>3 DEF Sub
<1>6. /\ Len(t) <= Len(s) + 1 /\ t[Len(t)] = e
  BY <1>1, <1>2, <1>3 DEF Sub
<1>7. ASSUME e.id \in Ids(s)
      PROVE  Len(t) <= Len(s)
  <2>1. PICK f \in Range(s) : f.id = e.id
    BY <1>7, IdsRange
  <2> DEFINE kept == {g \in Range(s) : g.id \notin {e.id}}
  <2>2. f \notin kept
    BY <2>1
  <2>3. w = Part(s, kept)
    BY DEF w, Without
  <2> HIDE DEF kept
  <2>4. Len(w) < Len(s)
    BY <2>2, <2>3, PartShorter
  <2> QED
    BY <1>1, <1>3, <2>4
<1>8. ASSUME NEW a, NEW b, Unique(s), Before(s, a, b), a # e.id, b # e.id
      PROVE  Before(t, a, b)
  <2>1. a \in Ids(s) /\ b \in Ids(s)
    BY <1>8 DEF Before, Ids
  <2>2. Before(w, a, b)
    BY <1>1, <1>8, <2>1 DEF Sub
  <2> QED
    BY <1>3, <2>2
<1>9. ASSUME NEW a, a \in Ids(s), a # e.id
      PROVE  Before(t, a, e.id)
  BY <1>1, <1>3, <1>9
<1>10. ASSUME NEW a, NEW b, Before(t, a, b), b # e.id
       PROVE  Before(s, a, b)
  BY <1>1, <1>3, <1>10 DEF Sub
<1> QED
  BY <1>3, <1>4, <1>5, <1>6, <1>7, <1>8, <1>9, <1>10 DEF t

(* Changing the entries, but not whose they are.                               *)
LEMMA MappedHolds ==
    ASSUME NEW S, NEW s \in Seq(S), NEW t, t = [i \in DOMAIN s |-> t[i]],
           \A i \in DOMAIN s : t[i] \in S /\ t[i].id = s[i].id
    PROVE  /\ t \in Seq(S) /\ Len(t) = Len(s) /\ DOMAIN t = DOMAIN s
           /\ Range(t) = {t[i] : i \in DOMAIN s} /\ Ids(t) = Ids(s)
           /\ Unique(s) => Unique(t)
           /\ \A a, b : Before(t, a, b) <=> Before(s, a, b)
<1>1. DOMAIN t = DOMAIN s
  OBVIOUS
<1>2. t \in Seq(S) /\ Len(t) = Len(s)
  <2>1. DOMAIN s = 1..Len(s) /\ Len(s) \in Nat
    OBVIOUS
  <2>2. t \in [1..Len(s) -> S]
    BY <2>1
  <2> QED
    BY <2>1, <2>2, LenProperties, IsASeq
<1>3. Range(t) = {t[i] : i \in DOMAIN s} /\ Ids(t) = Ids(s)
  BY <1>1 DEF Range, Ids
<1>4. Unique(s) => Unique(t)
  BY <1>1 DEF Unique
<1>5. \A a, b : Before(t, a, b) <=> Before(s, a, b)
  BY <1>1 DEF Before
<1> QED
  BY <1>1, <1>2, <1>3, <1>4, <1>5

LEMMA AssignHolds ==
    ASSUME NEW S, NEW s \in Seq(S), NEW e \in S, Unique(s), NEW n \in Nat, Len(s) <= n
    PROVE  /\ Assign(s, e) \in Seq(S) /\ Unique(Assign(s, e))
           /\ Len(Assign(s, e)) <= n \/ Assign(s, e)[Len(Assign(s, e))] = e
           /\ Assign(s, e) # <<>>
           /\ e.id \in Ids(Assign(s, e))
<1>1. CASE e.id \in Ids(s)
  <2> DEFINE t == [i \in DOMAIN s |-> IF s[i].id = e.id THEN e ELSE s[i]]
  <2>1. Assign(s, e) = t
    BY <1>1 DEF Assign
  <2>2. /\ t = [i \in DOMAIN s |-> t[i]]
        /\ \A i \in DOMAIN s : t[i] \in S /\ t[i].id = s[i].id
    <3>1. \A i \in DOMAIN s : s[i] \in S
      OBVIOUS
    <3> QED
      BY <3>1
  <2> HIDE DEF t
  <2>3. t \in Seq(S) /\ Len(t) = Len(s) /\ Ids(t) = Ids(s) /\ Unique(t) /\ DOMAIN t = DOMAIN s
    BY <2>2, MappedHolds
  <2>4. t # <<>>
    BY <1>1, <2>3 DEF Ids
  <2> QED
    BY <1>1, <2>1, <2>3, <2>4
<1>2. CASE e.id \notin Ids(s)
  <2> DEFINE t == Append(s, e)
  <2>1. Assign(s, e) = t
    BY <1>2 DEF Assign
  <2>2. t \in Seq(S) /\ Len(t) = Len(s) + 1 /\ Ids(t) = Ids(s) \cup {e.id} /\ Unique(t)
    BY <1>2, AppendHolds
  <2>3. t[Len(s) + 1] = e /\ t # <<>>
    OBVIOUS
  <2> QED
    BY <2>1, <2>2, <2>3
<1> QED
  BY <1>1, <1>2

LEMMA BytesNat ==
    ASSUME NEW S, Sized(S), NEW s \in Seq(S)
    PROVE  Bytes(s) \in Nat
<1>1. PICK own \in [0..Len(s) -> Nat] : Bytes(s) = own[Len(s)]
  BY BytesRuns
<1>2. Len(s) \in 0..Len(s)
  OBVIOUS
<1> QED
  BY <1>1, <1>2

(* The plan displaces the oldest, and no more than it must.                    *)
LEMMA PlanHolds ==
    ASSUME NEW S, Sized(S), NEW s \in Seq(S), NEW size \in Nat, size <= SingleMax
    PROVE  \E n \in 0..Len(s) :
              /\ Plan(s, size) = Rest(s, n + 1) /\ Fits(Rest(s, n + 1), size)
              /\ n > 0 => ~Fits(Rest(s, n), size)
<1> DEFINE C == {n \in 0..Len(s) : Fits(Rest(s, n + 1), size)}
           Right(n) == /\ Fits(Rest(s, n + 1), size)
                       /\ \A m \in 0..n - 1 : ~Fits(Rest(s, m + 1), size)
           least == CHOOSE n \in 0..Len(s) : Right(n)
<1>1. Len(s) \in C
  <2>1. Len(s) \in 0..Len(s) /\ Len(s) + 1 \in 1..Len(s) + 1
    OBVIOUS
  <2>2. /\ Rest(s, Len(s) + 1) \in Seq(S)
        /\ Len(Rest(s, Len(s) + 1)) = Len(s) - (Len(s) + 1) + 1
    BY <2>1, RestHolds
  <2>3. Rest(s, Len(s) + 1) = <<>>
    BY <2>1, <2>2
  <2>4. Len(<<>>) = 0
    OBVIOUS
  <2>5. Fits(<<>>, size)
    BY <2>4, BytesEmpty, StoresAssumption DEF Fits
  <2> QED
    BY <2>1, <2>3, <2>5
<1>2. C \in SUBSET Nat /\ C # {}
  BY <1>1
<1>3. PICK x \in C : \A y \in C : x <= y
  <2> HIDE DEF C
  <2> QED
    BY <1>2, Least
<1>4. x \in 0..Len(s) /\ Right(x)
  <2>1. ASSUME NEW m \in 0..x - 1
        PROVE  ~Fits(Rest(s, m + 1), size)
    <3>1. m \in 0..Len(s) /\ ~(x <= m)
      BY <2>1
    <3> QED
      BY <1>3, <3>1
  <2> QED
    BY <1>3, <2>1
<1>5. \E n \in 0..Len(s) : Right(n)
  <2> HIDE DEF Right
  <2> QED
    BY <1>4
<1>6. least \in 0..Len(s) /\ Right(least)
  <2> HIDE DEF Right
  <2> QED
    BY <1>5
<1>7. Plan(s, size) = Rest(s, least + 1)
  BY DEF Plan, Rest
<1> HIDE DEF least
<1>8. least > 0 => ~Fits(Rest(s, least), size)
  <2>1. least > 0 => least - 1 \in 0..least - 1 /\ (least - 1) + 1 = least
    BY <1>6
  <2> QED
    BY <1>6, <2>1
<1> QED
  BY <1>6, <1>7, <1>8

-----------------------------------------------------------------------------
(* Terminals and results.                                                      *)

TerminalEntries ==
    [id : Attempts, completed : BOOLEAN, granted : BOOLEAN, left : 0..TTL + 1]
ResultEntries == [id : Attempts, size : Sizes, left : 0..TTL]
Histories == [terminals : Seq(TerminalEntries), results : Seq(ResultEntries), total : Int]

(* Each result has a terminal that grants it and does not expire before it,    *)
(* each grant has its result, and the two are in the same order of age.        *)
Granted(h) ==
    /\ \A e \in Range(h.results) : \E t \in Range(h.terminals) :
           t.id = e.id /\ t.granted /\ e.left <= t.left
    /\ \A t \in Range(h.terminals) : t.granted => t.id \in Ids(h.results)
    /\ \A a, b : Before(h.results, a, b) => Before(h.terminals, a, b)

Sane(h) ==
    /\ h \in Histories /\ Unique(h.terminals) /\ Unique(h.results)
    /\ h.total = Bytes(h.results) /\ h.total <= MaxBytes
    /\ Len(h.results) <= MaxResults
    /\ Granted(h)

LEMMA SizedResults == Sized(ResultEntries)
BY StoresAssumption DEF Sized, ResultEntries

LEMMA KeepHolds ==
    ASSUME NEW h \in Histories, h.total = Bytes(h.results),
           NEW kept \in Seq(ResultEntries)
    PROVE  Keep(h, kept) = [h EXCEPT !.results = kept, !.total = Bytes(kept)]
<1>1. Bytes(h.results) \in Nat /\ Bytes(kept) \in Nat
  BY SizedResults, BytesNat DEF Histories
<1>2. h.total - (Bytes(h.results) - Bytes(kept)) = Bytes(kept)
  BY <1>1
<1> QED
  BY <1>2 DEF Keep

(* The steps of Prune, each by the name the definition gives it.               *)
Lasting(h) == AtMost(Alive(h.terminals), TerminalMax)
Held(h) == Without(h.results, Ids(h.terminals) \ Ids(Lasting(h)))
Gone(h) == Ids(Held(h)) \ Ids(Alive(Held(h)))
Pruned(h) == Part(Lasting(h), {t \in Range(Lasting(h)) : ~(t.granted /\ t.id \in Gone(h))})

LEMMA PruneParts ==
    ASSUME NEW h, Sane(h)
    PROVE  /\ Prune(h) = [terminals |-> Pruned(h), results |-> Alive(Held(h)),
                          total |-> Bytes(Alive(Held(h)))]
           /\ Lasting(h) \in Seq(TerminalEntries) /\ Sub(Lasting(h), h.terminals)
           /\ Alive(h.terminals) \in Seq(TerminalEntries)
           /\ Sub(Alive(h.terminals), h.terminals)
           /\ Sub(Lasting(h), Alive(h.terminals))
           /\ Len(Lasting(h)) <= TerminalMax
           /\ Len(h.terminals) <= TerminalMax => Lasting(h) = Alive(h.terminals)
           /\ Range(Alive(h.terminals)) = {t \in Range(h.terminals) : t.left > 0}
           /\ Held(h) \in Seq(ResultEntries) /\ Sub(Held(h), h.results)
           /\ Range(Held(h)) =
                 {e \in Range(h.results) : e.id \notin Ids(h.terminals) \ Ids(Lasting(h))}
           /\ Alive(Held(h)) \in Seq(ResultEntries) /\ Sub(Alive(Held(h)), h.results)
           /\ Range(Alive(Held(h))) = {e \in Range(Held(h)) : e.left > 0}
           /\ Bytes(Alive(Held(h))) <= h.total
           /\ Pruned(h) \in Seq(TerminalEntries) /\ Sub(Pruned(h), Lasting(h))
           /\ Sub(Pruned(h), h.terminals)
           /\ Range(Pruned(h)) = {t \in Range(Lasting(h)) : ~(t.granted /\ t.id \in Gone(h))}
<1> DEFINE T == h.terminals
           R == h.results
           A == Alive(T)
           K == Lasting(h)
           D == Held(h)
           L == Alive(D)
           P == Pruned(h)
           Still == {t \in Range(K) : ~(t.granted /\ t.id \in Gone(h))}
<1>1. /\ T \in Seq(TerminalEntries) /\ R \in Seq(ResultEntries)
      /\ h \in Histories /\ h.total = Bytes(R)
  BY DEF Sane, Histories
<1>2. A \in Seq(TerminalEntries) /\ Sub(A, T) /\ Range(A) = {t \in Range(T) : t.left > 0}
  BY <1>1, AliveHolds
<1>3. /\ K \in Seq(TerminalEntries) /\ Sub(K, A) /\ Len(K) <= TerminalMax
      /\ Len(A) <= TerminalMax => K = A
  <2>1. TerminalMax \in Nat \ {0}
    BY StoresAssumption
  <2> HIDE DEF A, K
  <2>2. K = AtMost(A, TerminalMax)
    BY DEF K, A, Lasting
  <2> QED
    BY <1>2, <2>1, <2>2, AtMostHolds
<1>4. Sub(K, T)
  BY <1>1, <1>2, <1>3, SubTrans
<1>5. Len(T) <= TerminalMax => K = A
  <2>1. Len(A) \in Nat /\ Len(T) \in Nat /\ TerminalMax \in Nat
    BY <1>1, <1>2, StoresAssumption
  <2> QED
    BY <1>2, <1>3, <2>1 DEF Sub
<1>6. /\ D \in Seq(ResultEntries) /\ Sub(D, R)
      /\ Range(D) = {e \in Range(R) : e.id \notin Ids(T) \ Ids(K)}
  BY <1>1, WithoutHolds DEF Held
<1>7. L \in Seq(ResultEntries) /\ Sub(L, D) /\ Range(L) = {e \in Range(D) : e.left > 0}
  BY <1>6, AliveHolds
<1>8. Sub(L, R)
  BY <1>1, <1>6, <1>7, SubTrans
<1>9. Bytes(L) <= h.total
  <2>1. Bytes(D) <= Bytes(R)
    BY <1>1, SizedResults, BytesOfPart DEF Held, Without
  <2>2. Bytes(L) <= Bytes(D)
    BY <1>6, SizedResults, BytesOfPart DEF Alive
  <2>3. Bytes(L) \in Nat /\ Bytes(D) \in Nat /\ Bytes(R) \in Nat
    BY <1>1, <1>6, <1>7, SizedResults, BytesNat
  <2> QED
    BY <1>1, <2>1, <2>2, <2>3
<1>10. P \in Seq(TerminalEntries) /\ Sub(P, K) /\ Range(P) = Range(K) \cap Still
  <2> HIDE DEF Still, K
  <2>1. P = Part(K, Still)
    BY DEF Pruned, Still, K
  <2> QED
    BY <1>3, <2>1, PartHolds
<1>11. Sub(P, T) /\ Range(P) = Still
  BY <1>1, <1>3, <1>4, <1>10, SubTrans
<1>12. Prune(h) = [terminals |-> P, results |-> L, total |-> Bytes(L)]
  <2>1. Prune(h) = [Keep(h, L) EXCEPT !.terminals = P]
    BY DEF Prune, Lasting, Held, Gone, Pruned
  <2>2. Keep(h, L) = [h EXCEPT !.results = L, !.total = Bytes(L)]
    BY <1>1, <1>7, KeepHolds
  <2> HIDE DEF L, P
  <2> QED
    BY <1>1, <2>1, <2>2 DEF Histories
<1> HIDE DEF T, R, A, K, D, L, P, Still
<1>13. /\ Prune(h) = [terminals |-> P, results |-> L, total |-> Bytes(L)]
       /\ K \in Seq(TerminalEntries) /\ Sub(K, T)
       /\ A \in Seq(TerminalEntries) /\ Sub(A, T) /\ Sub(K, A)
       /\ Len(K) <= TerminalMax /\ (Len(T) <= TerminalMax => K = A)
       /\ Range(A) = {t \in Range(T) : t.left > 0}
       /\ D \in Seq(ResultEntries) /\ Sub(D, R)
       /\ Range(D) = {e \in Range(R) : e.id \notin Ids(T) \ Ids(K)}
       /\ L \in Seq(ResultEntries) /\ Sub(L, R) /\ Range(L) = {e \in Range(D) : e.left > 0}
       /\ Bytes(L) <= h.total
       /\ P \in Seq(TerminalEntries) /\ Sub(P, K) /\ Sub(P, T) /\ Range(P) = Still
  BY <1>2, <1>3, <1>4, <1>5, <1>6, <1>7, <1>8, <1>9, <1>10, <1>11, <1>12
<1> QED
  BY ONLY <1>13 DEF T, R, A, K, D, L, P, Still

(* Pruning keeps what the terminals and the results promise each other, and    *)
(* only takes away.                                                            *)
LEMMA PruneSane ==
    ASSUME NEW h, Sane(h)
    PROVE  /\ Sane(Prune(h)) /\ Len(Prune(h).terminals) <= TerminalMax
           /\ Range(Prune(h).terminals) \subseteq Range(h.terminals)
           /\ Range(Prune(h).results) \subseteq Range(h.results)
           /\ \A e \in Range(Prune(h).results) : e.left > 0
<1> DEFINE T == h.terminals
           R == h.results
           K == Lasting(h)
           D == Held(h)
           L == Alive(D)
           P == Pruned(h)
<1>1. /\ T \in Seq(TerminalEntries) /\ R \in Seq(ResultEntries) /\ Unique(T) /\ Unique(R)
      /\ Granted(h) /\ h.total \in Int /\ h.total <= MaxBytes /\ Len(R) <= MaxResults
  BY DEF Sane, Histories
<1>2. /\ Prune(h).terminals = P /\ Prune(h).results = L /\ Prune(h).total = Bytes(L)
      /\ DOMAIN Prune(h) = {"terminals", "results", "total"}
      /\ K \in Seq(TerminalEntries) /\ Sub(K, T) /\ Len(K) <= TerminalMax
      /\ D \in Seq(ResultEntries)
      /\ Range(D) = {e \in Range(R) : e.id \notin Ids(T) \ Ids(K)}
      /\ L \in Seq(ResultEntries) /\ Sub(L, R) /\ Range(L) = {e \in Range(D) : e.left > 0}
      /\ Bytes(L) <= h.total
      /\ P \in Seq(TerminalEntries) /\ Sub(P, K) /\ Sub(P, T)
      /\ Range(P) = {t \in Range(K) : ~(t.granted /\ t.id \in Gone(h))}
      /\ Prune(h) = [terminals |-> P, results |-> L, total |-> Bytes(L)]
  BY PruneParts
<1>3. Gone(h) = Ids(D) \ Ids(L)
  BY DEF Gone
<1>4. Bytes(L) \in Nat /\ Len(L) \in Nat /\ Len(R) \in Nat /\ Len(P) \in Nat /\ Len(K) \in Nat
  BY <1>1, <1>2, SizedResults, BytesNat
<1> DEFINE g == Prune(h)
<1> HIDE DEF T, R, K, D, L, P, g
<1>5. g \in Histories
  BY <1>2, <1>4 DEF Histories, g
<1>6. \A e \in Range(L) : \E t \in Range(P) : t.id = e.id /\ t.granted /\ e.left <= t.left
  <2> SUFFICES ASSUME NEW e \in Range(L)
               PROVE  \E t \in Range(P) : t.id = e.id /\ t.granted /\ e.left <= t.left
    OBVIOUS
  <2>1. e \in Range(R) /\ e.id \notin Ids(T) \ Ids(K)
    BY <1>2
  <2>2. PICK t \in Range(T) : t.id = e.id /\ t.granted /\ e.left <= t.left
    BY <1>1, <2>1 DEF Granted, R, T
  <2>3. e.id \in Ids(K)
    BY <2>1, <2>2, IdsRange
  <2>4. PICK u \in Range(K) : u.id = e.id
    BY <2>3, IdsRange
  <2>5. u = t
    BY <1>1, <1>2, <2>2, <2>4, UniqueRange DEF Sub
  <2>6. e.id \in Ids(L)
    BY IdsRange
  <2> QED
    BY <1>2, <1>3, <2>2, <2>4, <2>5, <2>6
<1>7. \A t \in Range(P) : t.granted => t.id \in Ids(L)
  <2> SUFFICES ASSUME NEW t \in Range(P), t.granted
               PROVE  t.id \in Ids(L)
    OBVIOUS
  <2>1. t \in Range(T) /\ t \in Range(K) /\ t.id \notin Gone(h)
    BY <1>2 DEF Sub
  <2>2. t.id \in Ids(R)
    BY <1>1, <2>1 DEF Granted, R, T
  <2>3. PICK e \in Range(R) : e.id = t.id
    BY <2>2, IdsRange
  <2>4. t.id \in Ids(K)
    BY <2>1, IdsRange
  <2>5. e \in Range(D)
    BY <1>2, <2>3, <2>4
  <2>6. t.id \in Ids(D)
    BY <2>3, <2>5, IdsRange
  <2> QED
    BY <1>3, <2>1, <2>6
<1>8. ASSUME NEW a, NEW b, Before(L, a, b)
      PROVE  Before(P, a, b)
  <2>1. Before(R, a, b)
    BY <1>2, <1>8 DEF Sub
  <2>2. Before(T, a, b)
    BY <1>1, <2>1 DEF Granted, R, T
  <2>3. a \in Ids(L) /\ b \in Ids(L)
    BY <1>8 DEF Before, Ids
  <2>4. a \in Ids(P) /\ b \in Ids(P)
    BY <1>6, <2>3, IdsRange
  <2> QED
    BY <1>1, <1>2, <2>2, <2>4 DEF Sub
<1>9. Granted(g)
  BY <1>2, <1>6, <1>7, <1>8 DEF Granted, g
<1>10. /\ Unique(P) /\ Unique(L) /\ Len(P) <= TerminalMax
       /\ Len(L) <= MaxResults /\ Bytes(L) <= MaxBytes
  BY <1>1, <1>2, <1>4, StoresAssumption DEF Sub
<1>11. Sane(g)
  BY <1>2, <1>5, <1>9, <1>10 DEF Sane, g
<1>12. Range(P) \subseteq Range(T) /\ Range(L) \subseteq Range(R)
  BY <1>2 DEF Sub
<1> QED
  BY <1>2, <1>10, <1>11, <1>12 DEF g, T, R

(* With live results and room for the terminals, every result stays.           *)
LEMMA PruneAll ==
    ASSUME NEW h, Sane(h), Len(h.terminals) <= TerminalMax,
           \A e \in Range(h.results) : e.left > 0
    PROVE  Prune(h).results = h.results /\ Prune(h).total = h.total
<1> DEFINE T == h.terminals
           R == h.results
           K == Lasting(h)
           D == Held(h)
<1>1. /\ T \in Seq(TerminalEntries) /\ R \in Seq(ResultEntries) /\ Unique(T)
      /\ Granted(h) /\ h.total = Bytes(R)
  BY DEF Sane, Histories
<1>2. /\ Prune(h).results = Alive(D) /\ Prune(h).total = Bytes(Alive(D))
      /\ K = Alive(T) /\ Range(Alive(T)) = {t \in Range(T) : t.left > 0}
  BY PruneParts
<1> HIDE DEF T, R, K, D
<1>3. \A e \in Range(R) : e.id \notin Ids(T) \ Ids(K)
  <2> SUFFICES ASSUME NEW e \in Range(R)
               PROVE  e.id \in Ids(K)
    OBVIOUS
  <2>1. PICK t \in Range(T) : t.id = e.id /\ e.left <= t.left
    BY <1>1 DEF Granted, R, T
  <2>2. e.left > 0 /\ e.left \in Int /\ t.left \in Int
    <3>1. e \in ResultEntries /\ t \in TerminalEntries
      BY <1>1, RangeOfSeq
    <3> QED
      BY <3>1 DEF ResultEntries, TerminalEntries, R
  <2>3. t \in Range(K)
    BY <1>2, <2>1, <2>2
  <2> QED
    BY <2>1, <2>3, IdsRange
<1>4. D = R
  <2>1. D = Part(R, {e \in Range(R) : e.id \notin Ids(T) \ Ids(K)})
    BY DEF D, R, T, K, Held, Without
  <2>2. Range(R) \subseteq {e \in Range(R) : e.id \notin Ids(T) \ Ids(K)}
    BY <1>3
  <2> QED
    BY <1>1, <2>1, <2>2, PartAll
<1>5. Alive(R) = R
  <2>1. Range(R) \subseteq {e \in Range(R) : e.left > 0}
    BY DEF R
  <2> QED
    BY <1>1, <2>1, PartAll DEF Alive
<1> QED
  BY <1>1, <1>2, <1>4, <1>5 DEF R

(* A live result with a live terminal only goes if there are too many          *)
(* terminals, and then with every older one.                                   *)
LEMMA PruneDisplaces ==
    ASSUME NEW h, Sane(h), NEW b, LiveIn(h.terminals, b), LiveIn(h.results, b),
           b \notin Ids(Prune(h).terminals)
    PROVE  /\ ~(Len(h.terminals) <= TerminalMax)
           /\ \A a : Before(h.results, a, b) => a \notin Ids(Prune(h).results)
<1> DEFINE T == h.terminals
           R == h.results
           A == Alive(T)
           K == Lasting(h)
           D == Held(h)
           L == Alive(D)
           P == Pruned(h)
<1>1. /\ T \in Seq(TerminalEntries) /\ R \in Seq(ResultEntries) /\ Unique(T) /\ Unique(R)
      /\ Granted(h)
  BY DEF Sane, Histories
<1>2. /\ Prune(h).terminals = P /\ Prune(h).results = L
      /\ K \in Seq(TerminalEntries) /\ Sub(K, A) /\ K = AtMost(A, TerminalMax)
      /\ A \in Seq(TerminalEntries) /\ Sub(A, T)
      /\ Len(T) <= TerminalMax => K = A
      /\ Range(A) = {t \in Range(T) : t.left > 0}
      /\ Range(D) = {e \in Range(R) : e.id \notin Ids(T) \ Ids(K)}
      /\ Sub(L, R) /\ Range(L) = {e \in Range(D) : e.left > 0}
      /\ Range(P) = {t \in Range(K) : ~(t.granted /\ t.id \in Ids(D) \ Ids(L))}
  BY PruneParts DEF Lasting, Gone
<1> HIDE DEF T, R, A, K, D, L, P
<1>3. PICK t \in Range(T) : t.id = b /\ t.left > 0
  BY DEF LiveIn, T
<1>4. PICK e \in Range(R) : e.id = b /\ e.left > 0
  BY DEF LiveIn, R
<1>5. t \in Range(A) /\ b \in Ids(A)
  BY <1>2, <1>3, IdsRange
<1>6. b \notin Ids(K)
  <2> SUFFICES ASSUME b \in Ids(K)
               PROVE  FALSE
    OBVIOUS
  <2>1. PICK u \in Range(K) : u.id = b
    BY IdsRange
  <2>2. e \in Range(L)
    BY <1>2, <1>4
  <2>3. b \in Ids(L)
    BY <1>4, <2>2, IdsRange
  <2>4. u \in Range(P)
    BY <1>2, <2>1, <2>3
  <2> QED
    BY <1>2, <2>1, <2>4, IdsRange
<1>7. ~(Len(T) <= TerminalMax)
  BY <1>2, <1>5, <1>6
<1>8. ASSUME NEW a, Before(R, a, b), a \in Ids(L)
      PROVE  FALSE
  <2>1. Before(T, a, b)
    BY <1>1, <1>8 DEF Granted, R, T
  <2>2. PICK f \in Range(L) : f.id = a
    BY <1>8, IdsRange
  <2>3. a \in Ids(T)
    BY <2>1 DEF Before, Ids
  <2>4. a \in Ids(K)
    BY <1>2, <2>2, <2>3
  <2>5. a \in Ids(A)
    BY <1>2, <2>4, IdsRange DEF Sub
  <2>6. Before(A, a, b) /\ Unique(A)
    BY <1>1, <1>2, <1>5, <2>1, <2>5 DEF Sub
  <2>7. TerminalMax \in Nat \ {0}
    BY StoresAssumption
  <2>8. b \in Ids(K)
    BY <1>2, <2>4, <2>6, <2>7, AtMostNewer
  <2> QED
    BY <1>6, <2>8
<1> QED
  BY <1>2, <1>7, <1>8 DEF T, R

(* What is displaced by the result of a that is admitted.                      *)
Others(h, a) == Without(Alive(h.results), {a})
Room(h, a, size) == Plan(Others(h, a), size)
Evicted(h, a, size) == Ids(h.results) \ (Ids(Room(h, a, size)) \cup {a})
Latest(a, size) == [id |-> a, size |-> size, left |-> TTL]
Grant(a, left) == [id |-> a, completed |-> TRUE, granted |-> TRUE, left |-> left]

(* The result of a is admitted and its terminal is the newest.                 *)
Put(h, a, size, left) ==
    LET room == Admitted(h, a, size)
    IN  [room EXCEPT !.terminals = MoveToEnd(@, Grant(a, left))]

LEMMA AdmitParts ==
    ASSUME NEW h, Sane(h), NEW a \in Attempts, NEW size \in Sizes, size <= SingleMax,
           NEW left
    PROVE  /\ Others(h, a) \in Seq(ResultEntries) /\ Sub(Others(h, a), h.results)
           /\ Range(Others(h, a)) = {e \in Range(h.results) : e.left > 0 /\ e.id # a}
           /\ Room(h, a, size) \in Seq(ResultEntries)
           /\ Sub(Room(h, a, size), Others(h, a)) /\ Sub(Room(h, a, size), h.results)
           /\ Fits(Room(h, a, size), size)
           /\ Latest(a, size) \in ResultEntries
           /\ Admitted(h, a, size) =
                 [terminals |-> Without(h.terminals, Evicted(h, a, size)),
                  results |-> Append(Room(h, a, size), Latest(a, size)),
                  total |-> Bytes(Room(h, a, size)) + size]
           /\ Put(h, a, size, left) =
                 [terminals |-> MoveToEnd(Without(h.terminals, Evicted(h, a, size)),
                                          Grant(a, left)),
                  results |-> Append(Room(h, a, size), Latest(a, size)),
                  total |-> Bytes(Room(h, a, size)) + size]
<1> DEFINE R == h.results
           A == Alive(R)
           O == Others(h, a)
           K == Room(h, a, size)
<1>1. R \in Seq(ResultEntries) /\ h \in Histories /\ h.total = Bytes(R)
  BY DEF Sane, Histories
<1>2. /\ A \in Seq(ResultEntries) /\ Sub(A, R)
      /\ Range(A) = {e \in Range(R) : e.left > 0}
  BY <1>1, AliveHolds
<1>3. /\ O \in Seq(ResultEntries) /\ Sub(O, A)
      /\ Range(O) = {e \in Range(A) : e.id \notin {a}}
  BY <1>2, WithoutHolds DEF Others
<1>4. Sub(O, R) /\ Range(O) = {e \in Range(R) : e.left > 0 /\ e.id # a}
  BY <1>1, <1>2, <1>3, SubTrans
<1>5. size \in Nat
  BY StoresAssumption
<1>6. PICK n \in 0..Len(O) : K = Rest(O, n + 1) /\ Fits(Rest(O, n + 1), size)
  <2> HIDE DEF O
  <2>1. K = Plan(O, size)
    BY DEF K, Room, O
  <2> QED
    BY <1>3, <1>5, <2>1, SizedResults, PlanHolds
<1>7. K \in Seq(ResultEntries) /\ Sub(K, O)
  <2>1. n + 1 \in 1..Len(O) + 1
    BY <1>3, <1>6
  <2> QED
    BY <1>3, <1>6, <2>1, RestHolds
<1>8. Sub(K, R)
  BY <1>1, <1>3, <1>4, <1>7, SubTrans
<1>9. Latest(a, size) \in ResultEntries
  BY StoresAssumption DEF Latest, ResultEntries
<1>10. Admitted(h, a, size) =
          [terminals |-> Without(h.terminals, Evicted(h, a, size)),
           results |-> Append(K, Latest(a, size)), total |-> Bytes(K) + size]
  <2>1. Keep(h, K) = [h EXCEPT !.results = K, !.total = Bytes(K)]
    BY <1>1, <1>7, KeepHolds
  <2>2. Keep(h, K).results = K /\ Keep(h, K).total = Bytes(K)
    BY <1>1, <2>1 DEF Histories
  <2>3. K = Plan(Without(Alive(h.results), {a}), size)
    BY DEF Room, Others
  <2> HIDE DEF K
  <2>4. Evicted(h, a, size) = Ids(h.results) \ (Ids(K) \cup {a})
    BY DEF Evicted, K
  <2> QED
    BY <2>2, <2>3, <2>4 DEF Admitted, Latest
<1>11. Put(h, a, size, left) =
          [terminals |-> MoveToEnd(Without(h.terminals, Evicted(h, a, size)), Grant(a, left)),
           results |-> Append(K, Latest(a, size)), total |-> Bytes(K) + size]
  <2> DEFINE W == Without(h.terminals, Evicted(h, a, size))
             N == Append(K, Latest(a, size))
             b == Bytes(K) + size
             room == Admitted(h, a, size)
  <2>1. room = [terminals |-> W, results |-> N, total |-> b]
    BY <1>10
  <2>2. Put(h, a, size, left) = [room EXCEPT !.terminals = MoveToEnd(@, Grant(a, left))]
    BY DEF Put
  <2> HIDE DEF W, N, b, room
  <2>3. Put(h, a, size, left) =
            [terminals |-> MoveToEnd(W, Grant(a, left)), results |-> N, total |-> b]
    BY <2>1, <2>2
  <2> QED
    BY <2>3 DEF W, N, b
<1> QED
  BY <1>3, <1>4, <1>6, <1>7, <1>8, <1>9, <1>10, <1>11

(* A result that is admitted keeps the bounds and the match with the           *)
(* terminals; whatever it displaces makes room for its terminal too.           *)
LEMMA AdmitSane ==
    ASSUME NEW h, Sane(h), NEW a \in Attempts, NEW size \in Sizes, size <= SingleMax,
           NEW left \in TTL..TTL + 1
    PROVE  /\ Sane(Put(h, a, size, left))
           /\ Ids(Put(h, a, size, left).terminals) \subseteq Ids(h.terminals) \cup {a}
           /\ Len(Put(h, a, size, left).terminals) <= Len(h.terminals) + 1
           /\ a \in Ids(h.terminals) \/ Evicted(h, a, size) # {} =>
                 Len(Put(h, a, size, left).terminals) <= Len(h.terminals)
           /\ \A e \in Range(Put(h, a, size, left).results) :
                 e = Latest(a, size) \/ (e \in Range(h.results) /\ e.id # a /\ e.left > 0)
<1> DEFINE T == h.terminals
           R == h.results
           K == Room(h, a, size)
           V == Evicted(h, a, size)
           W == Without(T, V)
           M == MoveToEnd(W, Grant(a, left))
           N == Append(K, Latest(a, size))
           g == Put(h, a, size, left)
<1>1. /\ T \in Seq(TerminalEntries) /\ R \in Seq(ResultEntries) /\ Unique(T) /\ Unique(R)
      /\ Granted(h)
  BY DEF Sane, Histories
<1>2. /\ Range(Others(h, a)) = {e \in Range(R) : e.left > 0 /\ e.id # a}
      /\ K \in Seq(ResultEntries) /\ Sub(K, Others(h, a)) /\ Sub(K, R) /\ Fits(K, size)
      /\ Latest(a, size) \in ResultEntries
      /\ g = [terminals |-> M, results |-> N, total |-> Bytes(K) + size]
      /\ V = Ids(R) \ (Ids(K) \cup {a})
  <2>1. V = Ids(R) \ (Ids(K) \cup {a})
    BY DEF Evicted
  <2>2. /\ Range(Others(h, a)) = {e \in Range(R) : e.left > 0 /\ e.id # a}
        /\ K \in Seq(ResultEntries) /\ Sub(K, Others(h, a)) /\ Sub(K, R) /\ Fits(K, size)
        /\ Latest(a, size) \in ResultEntries
    BY AdmitParts
  <2>3. g = [terminals |-> M, results |-> N, total |-> Bytes(K) + size]
    BY AdmitParts
  <2> HIDE DEF K, V, g, M, N, R
  <2> QED
    BY <2>1, <2>2, <2>3
<1>3. Range(K) \subseteq {e \in Range(R) : e.left > 0 /\ e.id # a}
  BY <1>2 DEF Sub
<1>4. Grant(a, left) \in TerminalEntries /\ Grant(a, left).id = a /\ Latest(a, size).id = a
  BY StoresAssumption DEF Grant, TerminalEntries, Latest
<1>5. /\ W \in Seq(TerminalEntries) /\ Sub(W, T)
      /\ Range(W) = {t \in Range(T) : t.id \notin V} /\ Ids(W) = Ids(T) \ V
  BY <1>1, WithoutHolds
<1> HIDE DEF W, K, V
<1>6. /\ M \in Seq(TerminalEntries) /\ (Unique(W) => Unique(M))
      /\ Range(M) = {t \in Range(W) : t.id # a} \cup {Grant(a, left)}
      /\ Ids(M) = Ids(W) \cup {a}
      /\ Len(M) <= Len(W) + 1 /\ (a \in Ids(W) => Len(M) <= Len(W))
      /\ \A b, c : Unique(W) /\ Before(W, b, c) /\ b # a /\ c # a => Before(M, b, c)
      /\ \A b : b \in Ids(W) /\ b # a => Before(M, b, a)
  BY <1>4, <1>5, MoveHolds
<1>7. /\ N \in Seq(ResultEntries) /\ Len(N) = Len(K) + 1
      /\ Range(N) = Range(K) \cup {Latest(a, size)} /\ Ids(N) = Ids(K) \cup {a}
      /\ Unique(K) /\ a \notin Ids(K) => Unique(N)
      /\ \A b, c : Before(N, b, c) <=> (Before(K, b, c) \/ (b \in Ids(K) /\ c = a))
  BY <1>2, <1>4, AppendHolds
<1>8. a \notin Ids(K)
  BY <1>3, IdsRange
<1>9. Unique(W) /\ Unique(M) /\ Unique(N)
  BY <1>1, <1>2, <1>5, <1>6, <1>7, <1>8 DEF Sub
<1>10. Bytes(N) = Bytes(K) + size /\ Bytes(K) \in Nat
  <2>1. Latest(a, size).size = size
    BY DEF Latest
  <2> QED
    BY <1>2, <2>1, SizedResults, BytesAppend
<1>11. Bytes(N) <= MaxBytes /\ Len(N) <= MaxResults
  BY <1>2, <1>7, <1>10 DEF Fits
<1> HIDE DEF M, N, g
<1>12. g \in Histories /\ g.terminals = M /\ g.results = N /\ g.total = Bytes(N)
  <2>1. size \in Int
    BY StoresAssumption
  <2> QED
    BY <1>2, <1>6, <1>7, <1>10, <2>1 DEF Histories
<1>13. \A e \in Range(N) : \E t \in Range(M) : t.id = e.id /\ t.granted /\ e.left <= t.left
  <2> SUFFICES ASSUME NEW e \in Range(N)
               PROVE  \E t \in Range(M) : t.id = e.id /\ t.granted /\ e.left <= t.left
    OBVIOUS
  <2>1. CASE e = Latest(a, size)
    <3>1. /\ Grant(a, left).granted /\ Latest(a, size).left = TTL
          /\ Grant(a, left).left = left /\ TTL <= left
      BY StoresAssumption DEF Grant, Latest
    <3> QED
      BY <1>4, <1>6, <2>1, <3>1
  <2>2. CASE e \in Range(K)
    <3>1. PICK t \in Range(T) : t.id = e.id /\ t.granted /\ e.left <= t.left
      BY <1>1, <1>3, <2>2 DEF Granted, R, T
    <3>2. e.id \in Ids(K) /\ e.id # a
      BY <1>3, <2>2, IdsRange
    <3>3. t \in Range(W)
      BY <1>2, <1>5, <3>1, <3>2
    <3> QED
      BY <1>6, <3>1, <3>2, <3>3
  <2> QED
    BY <1>7, <2>1, <2>2
<1>14. \A t \in Range(M) : t.granted => t.id \in Ids(N)
  <2> SUFFICES ASSUME NEW t \in Range(M), t.granted, t.id # a
               PROVE  t.id \in Ids(N)
    BY <1>7
  <2>1. t \in Range(T) /\ t.id \notin V
    BY <1>4, <1>5, <1>6
  <2>2. t.id \in Ids(R)
    BY <1>1, <2>1 DEF Granted, R, T
  <2> QED
    BY <1>2, <1>7, <2>1, <2>2
<1>15. ASSUME NEW b, NEW c, Before(N, b, c)
       PROVE  Before(M, b, c)
  <2>1. \A d \in Ids(K) : d \in Ids(W) /\ d # a
    <3> SUFFICES ASSUME NEW d \in Ids(K)
                 PROVE  d \in Ids(W) /\ d # a
      OBVIOUS
    <3>1. PICK e \in Range(K) : e.id = d
      BY IdsRange
    <3>2. PICK t \in Range(T) : t.id = d
      BY <1>1, <1>3, <3>1 DEF Granted, R, T
    <3>3. d \in Ids(T)
      BY <3>2, IdsRange
    <3> QED
      BY <1>2, <1>5, <1>8, <3>3
  <2>2. CASE Before(K, b, c)
    <3>1. Before(T, b, c)
      BY <1>1, <1>2, <2>2 DEF Sub, Granted, R, T
    <3>2. b \in Ids(K) /\ c \in Ids(K)
      BY <2>2 DEF Before, Ids
    <3>3. Before(W, b, c)
      BY <1>1, <1>5, <2>1, <3>1, <3>2 DEF Sub
    <3> QED
      BY <1>6, <1>9, <2>1, <3>2, <3>3
  <2>3. CASE b \in Ids(K) /\ c = a
    BY <1>6, <2>1, <2>3
  <2> QED
    BY <1>7, <1>15, <2>2, <2>3
<1>16. Sane(g)
  BY <1>9, <1>11, <1>12, <1>13, <1>14, <1>15 DEF Sane, Granted
<1>17. Len(M) \in Nat /\ Len(W) \in Nat /\ Len(T) \in Nat /\ Len(W) <= Len(T)
  BY <1>1, <1>5, <1>6 DEF Sub
<1>18. ASSUME a \in Ids(T)
       PROVE  Len(M) <= Len(T)
  BY <1>2, <1>5, <1>6, <1>17, <1>18
<1>19. ASSUME V # {}
       PROVE  Len(M) <= Len(T)
  <2>1. PICK d \in V : TRUE
    BY <1>19
  <2>2. PICK e \in Range(R) : e.id = d
    BY <1>2, <2>1, IdsRange
  <2>3. PICK t \in Range(T) : t.id = d
    BY <1>1, <2>2 DEF Granted, R, T
  <2> DEFINE kept == {u \in Range(T) : u.id \notin V}
  <2>4. t \notin kept
    BY <2>1, <2>3
  <2>5. W = Part(T, kept)
    BY DEF W, Without
  <2> HIDE DEF kept, T
  <2>6. Len(W) < Len(T)
    BY <1>1, <2>4, <2>5, PartShorter
  <2> QED
    BY <1>6, <1>17, <2>6
<1>20. \A e \in Range(N) :
          e = Latest(a, size) \/ (e \in Range(R) /\ e.id # a /\ e.left > 0)
  BY <1>3, <1>7
<1>21. Ids(M) \subseteq Ids(T) \cup {a} /\ Len(M) <= Len(T) + 1
  BY <1>5, <1>6, <1>17
<1>22. a \in Ids(T) \/ V # {} => Len(M) <= Len(T)
  BY <1>18, <1>19
<1> QED
  BY <1>12, <1>16, <1>20, <1>21, <1>22 DEF g, T, R, V

(* A live result is displaced with every older one, up to the last that does   *)
(* not fit beside the one that is admitted.                                    *)
LEMMA AdmitDisplaces ==
    ASSUME NEW h, Sane(h), NEW a \in Attempts, NEW size \in Sizes, size <= SingleMax,
           NEW b, LiveIn(h.results, b), b # a, b \notin Ids(Room(h, a, size))
    PROVE  /\ \A c : Before(h.results, c, b) => c \notin Ids(Room(h, a, size))
           /\ \E e \in Range(h.results) :
                 /\ e.left > 0 /\ e.id # a /\ e.id \notin Ids(Room(h, a, size))
                 /\ e.id = b \/ Before(h.results, b, e.id)
                 /\ \/ Len(Room(h, a, size)) + 1 = MaxResults
                    \/ Bytes(Room(h, a, size)) + size + e.size > MaxBytes
<1> DEFINE R == h.results
           O == Others(h, a)
           K == Room(h, a, size)
<1>1. /\ R \in Seq(ResultEntries) /\ Unique(R)
  BY DEF Sane, Histories
<1>2. /\ O \in Seq(ResultEntries) /\ Sub(O, R)
      /\ Range(O) = {e \in Range(R) : e.left > 0 /\ e.id # a}
      /\ K = Plan(O, size)
  BY AdmitParts DEF Room
<1>3. size \in Nat
  BY StoresAssumption
<1> HIDE DEF O, K, R
<1>4. PICK n \in 0..Len(O) :
          /\ K = Rest(O, n + 1) /\ Fits(K, size)
          /\ n > 0 => ~Fits(Rest(O, n), size)
  <2>1. \E n \in 0..Len(O) :
              /\ Plan(O, size) = Rest(O, n + 1) /\ Fits(Rest(O, n + 1), size)
              /\ n > 0 => ~Fits(Rest(O, n), size)
    BY <1>2, <1>3, SizedResults, PlanHolds
  <2> QED
    BY <1>2, <2>1
<1>5. /\ K \in Seq(ResultEntries) /\ Len(K) = Len(O) - (n + 1) + 1
      /\ Range(K) = {O[i] : i \in n + 1..Len(O)}
      /\ DOMAIN O = 1..Len(O) /\ Len(O) \in Nat /\ Sub(K, O)
  <2>1. n + 1 \in 1..Len(O) + 1
    BY <1>2, <1>4
  <2> DEFINE m == n + 1
  <2>2. m \in 1..Len(O) + 1 /\ K = Rest(O, m)
    BY <1>4, <2>1
  <2> HIDE DEF m
  <2>3. /\ K \in Seq(ResultEntries) /\ Len(K) = Len(O) - m + 1
        /\ Range(K) = {O[i] : i \in m..Len(O)} /\ Sub(K, O)
    <3>1. /\ Rest(O, m) \in Seq(ResultEntries) /\ Len(Rest(O, m)) = Len(O) - m + 1
          /\ Range(Rest(O, m)) = {O[i] : i \in m..Len(O)} /\ Sub(Rest(O, m), O)
      <4>1. O \in Seq(ResultEntries) /\ m \in 1..Len(O) + 1
        BY <1>2, <2>2
      <4> QED
        BY <4>1, RestHolds, Zenon
    <3> QED
      BY <2>2, <3>1
  <2> QED
    BY <1>2, <2>3 DEF m
<1>6. Unique(O)
  BY <1>1, <1>2 DEF Sub
<1>7. b \in Ids(O)
  BY <1>2, IdsRange DEF LiveIn, R
<1>8. PICK k \in 1..Len(O) : O[k].id = b
  BY <1>5, <1>7 DEF Ids
<1>9. k <= n /\ n \in 1..Len(O)
  <2>1. CASE k \in n + 1..Len(O)
    <3>1. O[k] \in Range(K)
      BY <1>5, <2>1
    <3> QED
      BY <1>8, <3>1, IdsRange DEF K
  <2> QED
    BY <1>4, <1>5, <1>8, <2>1
<1> DEFINE e == O[n]
<1>10. e \in Range(O)
  BY <1>5, <1>9 DEF Range
<1>11. e \in Range(R) /\ e.left > 0 /\ e.id # a
  BY <1>2, <1>10
<1>12. e.id \notin Ids(K)
  <2> SUFFICES ASSUME e.id \in Ids(K)
               PROVE  FALSE
    OBVIOUS
  <2>1. PICK f \in Range(K) : f.id = e.id
    BY IdsRange
  <2>2. PICK i \in n + 1..Len(O) : O[i] = f
    BY <1>5, <2>1
  <2>3. i \in DOMAIN O /\ n \in DOMAIN O /\ i # n
    BY <1>5, <1>9, <2>2
  <2> QED
    BY <1>6, <2>1, <2>2, <2>3 DEF Unique
<1>13. e.id = b \/ Before(R, b, e.id)
  <2>1. CASE k = n
    BY <1>8, <2>1
  <2>2. CASE k < n
    <3>1. Before(O, b, e.id)
      BY <1>5, <1>8, <1>9, <2>2 DEF Before
    <3> QED
      BY <1>2, <3>1 DEF Sub
  <2> QED
    BY <1>8, <1>9, <2>1, <2>2
<1>14. \/ Len(K) + 1 = MaxResults
       \/ Bytes(K) + size + e.size > MaxBytes
  <2>1. /\ Bytes(Rest(O, n)) = O[n].size + Bytes(Rest(O, n + 1))
        /\ Bytes(Rest(O, n + 1)) \in Nat
    BY <1>2, <1>9, SizedResults, BytesOfRest
  <2>2. Len(Rest(O, n)) = Len(O) - n + 1
    <3>1. n \in 1..Len(O) + 1
      BY <1>9
    <3> QED
      BY <1>2, <3>1, RestHolds
  <2>3. ~Fits(Rest(O, n), size)
    BY <1>4, <1>9
  <2>4. Len(Rest(O, n)) = Len(K) + 1 /\ Len(K) \in Nat
    BY <1>4, <1>5, <1>9, <2>2
  <2>5. e.size \in Nat
    BY <1>2, <1>10, RangeOfSeq, SizedResults DEF Sized
  <2>6. MaxResults \in Nat /\ MaxBytes \in Nat
    BY StoresAssumption
  <2>7. Bytes(Rest(O, n)) = e.size + Bytes(K) /\ Bytes(K) \in Nat
    BY <1>4, <2>1
  <2> HIDE DEF e
  <2>8. ~(Len(K) + 2 <= MaxResults) \/ ~(e.size + Bytes(K) + size <= MaxBytes)
    BY <1>3, <2>3, <2>4, <2>5, <2>7 DEF Fits
  <2>9. Len(K) + 1 <= MaxResults
    BY <1>4 DEF Fits
  <2> QED
    BY <1>3, <2>4, <2>5, <2>6, <2>7, <2>8, <2>9
<1>15. ASSUME NEW c, Before(R, c, b), c \in Ids(K)
       PROVE  FALSE
  <2>1. c \in Ids(O)
    BY <1>5, <1>15, IdsRange DEF Sub
  <2>2. Before(O, c, b)
    BY <1>1, <1>2, <1>7, <1>15, <2>1 DEF Sub
  <2> DEFINE m == n + 1
  <2>3. m \in 1..Len(O) + 1 /\ K = Rest(O, m)
    BY <1>4, <1>5
  <2> HIDE DEF m
  <2>4. b \in Ids(K)
    BY <1>2, <1>6, <1>15, <2>2, <2>3, RestNewer
  <2> QED
    BY <2>4 DEF K
<1> HIDE DEF e
<1> QED
  BY <1>11, <1>12, <1>13, <1>14, <1>15 DEF K, R

LEMMA RevokedSane ==
    ASSUME NEW h, Sane(h), NEW ids
    PROVE  /\ Sane(Revoked(h, ids)) /\ Ids(Revoked(h, ids).terminals) = Ids(h.terminals)
           /\ Len(Revoked(h, ids).terminals) = Len(h.terminals)
           /\ Range(Revoked(h, ids).results) \subseteq Range(h.results)
<1> DEFINE T == h.terminals
           R == h.results
           L == Without(R, ids)
           U == [i \in DOMAIN T |-> IF T[i].id \in ids
                                    THEN [T[i] EXCEPT !.granted = FALSE] ELSE T[i]]
           g == Revoked(h, ids)
<1>1. /\ T \in Seq(TerminalEntries) /\ R \in Seq(ResultEntries) /\ Unique(T) /\ Unique(R)
      /\ Granted(h) /\ h \in Histories /\ h.total = Bytes(R) /\ h.total <= MaxBytes
      /\ Len(R) <= MaxResults
  BY DEF Sane, Histories
<1>2. /\ L \in Seq(ResultEntries) /\ Sub(L, R)
      /\ Range(L) = {e \in Range(R) : e.id \notin ids}
  BY <1>1, WithoutHolds
<1>3. Bytes(L) <= Bytes(R) /\ Bytes(L) \in Nat /\ Bytes(R) \in Nat
  <2>1. Bytes(L) <= Bytes(R)
    BY <1>1, SizedResults, BytesOfPart DEF Without
  <2> QED
    BY <1>1, <1>2, <2>1, SizedResults, BytesNat
<1>4. g = [terminals |-> U, results |-> L, total |-> Bytes(L)]
  <2>1. Keep(h, L) = [h EXCEPT !.results = L, !.total = Bytes(L)]
    BY <1>1, <1>2, KeepHolds
  <2> DEFINE b == Bytes(L)
             room == Keep(h, L)
  <2>2. /\ room.terminals = T /\ room = [terminals |-> T, results |-> L, total |-> b]
    <3> HIDE DEF L, b
    <3> QED
      BY <1>1, <2>1 DEF Histories, b
  <2>3. g = [room EXCEPT !.terminals =
                [i \in DOMAIN @ |-> IF @[i].id \in ids
                                    THEN [@[i] EXCEPT !.granted = FALSE] ELSE @[i]]]
    BY DEF Revoked
  <2> HIDE DEF room, T, L, b, g
  <2>4. g = [room EXCEPT !.terminals = U]
    BY <2>2, <2>3
  <2> HIDE DEF U
  <2> QED
    BY <2>2, <2>4 DEF b
<1> HIDE DEF T, R, L, g
<1>5. /\ U = [i \in DOMAIN T |-> U[i]]
      /\ \A i \in DOMAIN T :
            /\ U[i].id = T[i].id /\ U[i].left = T[i].left /\ U[i] \in TerminalEntries
            /\ U[i].granted <=> T[i].granted /\ T[i].id \notin ids
  <2>1. \A i \in DOMAIN T : T[i] \in TerminalEntries
    BY <1>1
  <2> SUFFICES ASSUME NEW i \in DOMAIN T
               PROVE  /\ U[i].id = T[i].id /\ U[i].left = T[i].left
                      /\ U[i] \in TerminalEntries
                      /\ U[i].granted <=> T[i].granted /\ T[i].id \notin ids
    OBVIOUS
  <2>2. T[i] \in TerminalEntries
    BY <2>1
  <2>3. CASE T[i].id \in ids
    <3>1. U[i] = [T[i] EXCEPT !.granted = FALSE]
      BY <2>3
    <3> QED
      BY <2>2, <2>3, <3>1 DEF TerminalEntries
  <2>4. CASE T[i].id \notin ids
    <3>1. U[i] = T[i]
      BY <2>4
    <3> QED
      BY <2>2, <2>4, <3>1 DEF TerminalEntries
  <2> QED
    BY <2>3, <2>4
<1> HIDE DEF U
<1>6. /\ U \in Seq(TerminalEntries) /\ Len(U) = Len(T) /\ Unique(U) /\ Ids(U) = Ids(T)
      /\ Range(U) = {U[i] : i \in DOMAIN T}
      /\ \A a, b : Before(U, a, b) <=> Before(T, a, b)
  <2>1. \A i \in DOMAIN T : U[i] \in TerminalEntries /\ U[i].id = T[i].id
    BY <1>5
  <2> QED
    <3>1. T \in Seq(TerminalEntries) /\ U = [i \in DOMAIN T |-> U[i]] /\ Unique(T)
      BY <1>1, <1>5
    <3>2. /\ U \in Seq(TerminalEntries) /\ Len(U) = Len(T) /\ Ids(U) = Ids(T)
          /\ Range(U) = {U[i] : i \in DOMAIN T}
          /\ Unique(T) => Unique(U)
          /\ \A a, b : Before(U, a, b) <=> Before(T, a, b)
      BY <2>1, <3>1, MappedHolds
    <3> QED
      BY <3>1, <3>2
<1>7. \A e \in Range(L) : \E t \in Range(U) : t.id = e.id /\ t.granted /\ e.left <= t.left
  <2> SUFFICES ASSUME NEW e \in Range(L)
               PROVE  \E t \in Range(U) : t.id = e.id /\ t.granted /\ e.left <= t.left
    OBVIOUS
  <2>1. PICK t \in Range(T) : t.id = e.id /\ t.granted /\ e.left <= t.left
    BY <1>1, <1>2 DEF Granted, R, T
  <2>2. PICK i \in DOMAIN T : T[i] = t
    BY <2>1 DEF Range
  <2>3. U[i].id = e.id /\ U[i].left = t.left /\ U[i].granted
    BY <1>2, <1>5, <2>1, <2>2
  <2> QED
    BY <1>6, <2>1, <2>3
<1>8. \A t \in Range(U) : t.granted => t.id \in Ids(L)
  <2> SUFFICES ASSUME NEW i \in DOMAIN T, U[i].granted
               PROVE  U[i].id \in Ids(L)
    BY <1>6
  <2>1. T[i] \in Range(T) /\ T[i].granted /\ U[i].id = T[i].id /\ T[i].id \notin ids
    BY <1>5 DEF Range
  <2>2. T[i].id \in Ids(R)
    BY <1>1, <2>1 DEF Granted, R, T
  <2>3. PICK e \in Range(R) : e.id = T[i].id
    BY <2>2, IdsRange
  <2> QED
    BY <1>2, <2>1, <2>3, IdsRange
<1>9. Granted(g)
  <2>1. \A a, b : Before(L, a, b) => Before(U, a, b)
    BY <1>1, <1>2, <1>6 DEF Sub, Granted, R, T
  <2>2. g.terminals = U /\ g.results = L
    BY <1>4
  <2> QED
    BY <1>7, <1>8, <2>1, <2>2 DEF Granted
<1>10. g \in Histories /\ g.terminals = U /\ g.results = L /\ g.total = Bytes(L)
  BY <1>2, <1>3, <1>4, <1>6 DEF Histories
<1>11. Len(L) <= MaxResults /\ Bytes(L) <= MaxBytes /\ Unique(L)
  <2>1. Len(L) \in Nat /\ Len(R) \in Nat
    BY <1>1, <1>2
  <2> QED
    BY <1>1, <1>2, <1>3, <2>1, StoresAssumption DEF Sub
<1> QED
  BY <1>2, <1>6, <1>9, <1>10, <1>11 DEF Sane, Sub, g, T, R

(* The terminal of an attempt that failed grants nothing.                      *)
Failed(h, a) ==
    [h EXCEPT !.terminals =
        MoveToEnd(@, [id |-> a, completed |-> FALSE, granted |-> FALSE, left |-> TTL])]

LEMMA FailedSane ==
    ASSUME NEW h, Sane(h), NEW a \in Attempts, a \notin Ids(h.terminals)
    PROVE  /\ Sane(Failed(h, a)) /\ Failed(h, a).results = h.results
           /\ Ids(Failed(h, a).terminals) = Ids(h.terminals) \cup {a}
           /\ Range(h.terminals) \subseteq Range(Failed(h, a).terminals)
           /\ Len(Failed(h, a).terminals) <= Len(h.terminals) + 1
<1> DEFINE T == h.terminals
           R == h.results
           e == [id |-> a, completed |-> FALSE, granted |-> FALSE, left |-> TTL]
           M == MoveToEnd(T, e)
           g == Failed(h, a)
<1>1. /\ T \in Seq(TerminalEntries) /\ R \in Seq(ResultEntries) /\ Unique(T) /\ Unique(R)
      /\ Granted(h) /\ h \in Histories
  BY DEF Sane, Histories
<1>2. e \in TerminalEntries /\ e.id = a /\ e.granted = FALSE
  BY StoresAssumption DEF TerminalEntries
<1>3. g = [h EXCEPT !.terminals = M]
  BY DEF Failed
<1> HIDE DEF e, g
<1>4. /\ M \in Seq(TerminalEntries) /\ Unique(M) /\ Ids(M) = Ids(T) \cup {a}
      /\ Range(M) = {t \in Range(T) : t.id # a} \cup {e}
      /\ Len(M) <= Len(T) + 1
      /\ \A b, c : Before(T, b, c) /\ b # a /\ c # a => Before(M, b, c)
  BY <1>1, <1>2, MoveHolds
<1> HIDE DEF M
<1>5. g \in Histories /\ g.terminals = M /\ g.results = R /\ g.total = h.total
  BY <1>1, <1>3, <1>4 DEF Histories
<1>6. Range(T) \subseteq Range(M)
  BY <1>4, IdsRange
<1>7. \A t \in Range(M) : t.granted => t.id \in Ids(R)
  BY <1>1, <1>2, <1>4 DEF Granted
<1>8. ASSUME NEW b, NEW c, Before(R, b, c)
      PROVE  Before(M, b, c)
  <2>1. Before(T, b, c)
    BY <1>1, <1>8 DEF Granted
  <2>2. b \in Ids(T) /\ c \in Ids(T)
    BY <2>1 DEF Before, Ids
  <2> QED
    BY <1>4, <2>1, <2>2
<1>9. Granted(g)
  BY <1>1, <1>5, <1>6, <1>7, <1>8 DEF Granted
<1>10. Sane(g)
  BY <1>4, <1>5, <1>9 DEF Sane
<1> QED
  BY <1>4, <1>5, <1>6, <1>10 DEF g

OneLess(e) == [e EXCEPT !.left = IF @ = 0 THEN 0 ELSE @ - 1]

LEMMA AgedEntries ==
    ASSUME NEW S, NEW s \in Seq(S), \A e \in S : OneLess(e) \in S /\ OneLess(e).id = e.id
    PROVE  /\ Aged(s) \in Seq(S) /\ Len(Aged(s)) = Len(s) /\ Ids(Aged(s)) = Ids(s)
           /\ Unique(s) => Unique(Aged(s)) /\ DOMAIN Aged(s) = DOMAIN s
           /\ \A a, b : Before(Aged(s), a, b) <=> Before(s, a, b)
           /\ Range(Aged(s)) = {Aged(s)[i] : i \in DOMAIN s}
           /\ \A i \in DOMAIN s : s[i] \in S /\ Aged(s)[i] = OneLess(s[i])
<1> DEFINE t == Aged(s)
<1>1. \A i \in DOMAIN s : s[i] \in S
  OBVIOUS
<1>2. t = [i \in DOMAIN s |-> OneLess(s[i])]
  BY DEF Aged, OneLess
<1> HIDE DEF t
<1>3. t = [i \in DOMAIN s |-> t[i]] /\ \A i \in DOMAIN s : t[i] = OneLess(s[i])
  BY <1>2
<1>4. \A i \in DOMAIN s : t[i] \in S /\ t[i].id = s[i].id
  BY <1>1, <1>3
<1>5. /\ t \in Seq(S) /\ Len(t) = Len(s) /\ DOMAIN t = DOMAIN s
      /\ Range(t) = {t[i] : i \in DOMAIN s} /\ Ids(t) = Ids(s)
      /\ Unique(s) => Unique(t)
      /\ \A a, b : Before(t, a, b) <=> Before(s, a, b)
  BY <1>3, <1>4, MappedHolds
<1> QED
  BY <1>1, <1>3, <1>5 DEF t

AgedHistory(h) ==
    [terminals |-> Aged(h.terminals), results |-> Aged(h.results), total |-> h.total]

LEMMA AgedSane ==
    ASSUME NEW h, Sane(h)
    PROVE  Sane(AgedHistory(h))
<1> DEFINE T == h.terminals
           R == h.results
           U == Aged(T)
           L == Aged(R)
           g == AgedHistory(h)
<1>1. /\ T \in Seq(TerminalEntries) /\ R \in Seq(ResultEntries) /\ Unique(T) /\ Unique(R)
      /\ Granted(h) /\ h.total \in Int
  BY DEF Sane, Histories
<1>2. /\ \A e \in TerminalEntries :
            /\ OneLess(e) \in TerminalEntries /\ e.left \in Nat
            /\ OneLess(e).id = e.id /\ OneLess(e).granted = e.granted
            /\ OneLess(e).left = IF e.left = 0 THEN 0 ELSE e.left - 1
      /\ \A e \in ResultEntries :
            /\ OneLess(e) \in ResultEntries /\ e.left \in Nat
            /\ OneLess(e).id = e.id /\ OneLess(e).size = e.size
            /\ OneLess(e).left = IF e.left = 0 THEN 0 ELSE e.left - 1
  BY StoresAssumption DEF TerminalEntries, ResultEntries, OneLess
<1>3. g.terminals = U /\ g.results = L /\ g.total = h.total
      /\ g = [terminals |-> U, results |-> L, total |-> h.total]
  BY DEF AgedHistory
<1> HIDE DEF U, L, g, T, R
<1>4. /\ U \in Seq(TerminalEntries) /\ Len(U) = Len(T) /\ Unique(U)
      /\ \A a, b : Before(U, a, b) <=> Before(T, a, b)
      /\ Range(U) = {U[i] : i \in DOMAIN T}
      /\ \A i \in DOMAIN T :
            /\ U[i].id = T[i].id /\ U[i].granted = T[i].granted
            /\ U[i].left = IF T[i].left = 0 THEN 0 ELSE T[i].left - 1
  <2>1. /\ U \in Seq(TerminalEntries) /\ Len(U) = Len(T) /\ Unique(U)
        /\ \A a, b : Before(U, a, b) <=> Before(T, a, b)
        /\ Range(U) = {U[i] : i \in DOMAIN T}
        /\ \A i \in DOMAIN T : T[i] \in TerminalEntries /\ U[i] = OneLess(T[i])
    BY <1>1, <1>2, AgedEntries DEF U
  <2> QED
    BY <1>2, <2>1
<1>5. /\ L \in Seq(ResultEntries) /\ Len(L) = Len(R) /\ Ids(L) = Ids(R) /\ Unique(L)
      /\ \A a, b : Before(L, a, b) <=> Before(R, a, b)
      /\ Range(L) = {L[i] : i \in DOMAIN R}
      /\ \A i \in DOMAIN R :
            /\ L[i].id = R[i].id /\ L[i].size = R[i].size
            /\ L[i].left = IF R[i].left = 0 THEN 0 ELSE R[i].left - 1
  <2>1. /\ L \in Seq(ResultEntries) /\ Len(L) = Len(R) /\ Ids(L) = Ids(R) /\ Unique(L)
        /\ \A a, b : Before(L, a, b) <=> Before(R, a, b)
        /\ Range(L) = {L[i] : i \in DOMAIN R}
        /\ \A i \in DOMAIN R : R[i] \in ResultEntries /\ L[i] = OneLess(R[i])
    BY <1>1, <1>2, AgedEntries DEF L
  <2> QED
    BY <1>2, <2>1
<1>6. Bytes(L) = Bytes(R)
  <2>1. DOMAIN R = 1..Len(R) /\ \A i \in 1..Len(L) : L[i].size = R[i].size
    BY <1>1, <1>5
  <2> QED
    BY <1>1, <1>5, <2>1, SizedResults, BytesSame
<1>7. \A e \in Range(L) : \E t \in Range(U) : t.id = e.id /\ t.granted /\ e.left <= t.left
  <2> SUFFICES ASSUME NEW i \in DOMAIN R
               PROVE  \E t \in Range(U) : t.id = L[i].id /\ t.granted /\ L[i].left <= t.left
    BY <1>5
  <2>1. R[i] \in Range(R) /\ R[i] \in ResultEntries
    BY <1>1 DEF Range
  <2>2. PICK t \in Range(T) : t.id = R[i].id /\ t.granted /\ R[i].left <= t.left
    BY <1>1, <2>1 DEF Granted, R, T
  <2>3. PICK j \in DOMAIN T : T[j] = t
    BY <2>2 DEF Range
  <2>4. R[i].left \in Nat /\ T[j].left \in Nat
    <3>1. T[j] \in TerminalEntries
      BY <1>1
    <3> QED
      BY <1>2, <2>1, <3>1
  <2>5. U[j].id = L[i].id /\ U[j].granted
    BY <1>4, <1>5, <2>2, <2>3
  <2>6. L[i].left <= U[j].left
    BY <1>4, <1>5, <2>2, <2>3, <2>4
  <2> QED
    BY <1>4, <2>5, <2>6
<1>8. \A t \in Range(U) : t.granted => t.id \in Ids(L)
  <2> SUFFICES ASSUME NEW i \in DOMAIN T, U[i].granted
               PROVE  U[i].id \in Ids(L)
    BY <1>4
  <2>1. T[i] \in Range(T) /\ T[i].granted /\ U[i].id = T[i].id
    BY <1>4 DEF Range
  <2> QED
    BY <1>1, <1>5, <2>1 DEF Granted, R, T
<1>9. Granted(g)
  <2>1. \A a, b : Before(L, a, b) => Before(U, a, b)
    BY <1>1, <1>4, <1>5 DEF Granted, R, T
  <2> QED
    BY <1>3, <1>7, <1>8, <2>1 DEF Granted
<1>10. g \in Histories
  BY <1>1, <1>3, <1>4, <1>5 DEF Histories
<1>11. g.total = Bytes(L) /\ g.total <= MaxBytes /\ Len(L) <= MaxResults
  BY <1>3, <1>5, <1>6 DEF Sane, R
<1> QED
  BY <1>3, <1>4, <1>5, <1>9, <1>10, <1>11 DEF Sane, g

-----------------------------------------------------------------------------
(* The invariant.                                                              *)

HistoryInv == Sane(Now) /\ Len(terminals) <= TerminalMax

MediaInv ==
    /\ photographs \in Seq(Timed) /\ Unique(photographs)
    /\ Len(photographs) <= MaxPhotographs
    /\ snapshots \in Seq(Timed) /\ Unique(snapshots)

(* The attempt that runs has no terminal yet, and so no result.                *)
RoleInv ==
    /\ current \in [id : Attempts, stage : {"acquiring", "generating", "rendered"}]
                  \cup {NoCurrent}
    /\ adjusting \in Attempts \cup {NoAttempt}
    /\ current # NoCurrent => current.id \notin Ids(terminals)

Inv == HistoryInv /\ MediaInv /\ RoleInv /\ SourceExpiresFirst

LEMMA InitInv == Init => Inv
<1> SUFFICES ASSUME Init
             PROVE  Inv
  OBVIOUS
<1>1. /\ terminals = <<>> /\ results = <<>> /\ total = 0
      /\ photographs = <<>> /\ snapshots = <<>>
      /\ current = NoCurrent /\ adjusting = NoAttempt
  BY DEF Init
<1> DEFINE nil == <<>>
<1>2. /\ nil \in Seq(TerminalEntries) /\ nil \in Seq(ResultEntries) /\ nil \in Seq(Timed)
      /\ Len(nil) = 0 /\ DOMAIN nil = {}
  OBVIOUS
<1>3. Bytes(nil) = 0
  BY BytesEmpty
<1> HIDE DEF nil
<1>4. Unique(nil) /\ Ids(nil) = {} /\ Range(nil) = {} /\ \A a, b : ~Before(nil, a, b)
  BY <1>2 DEF Unique, Ids, Range, Before
<1>5. terminals = nil /\ results = nil /\ photographs = nil /\ snapshots = nil
  BY <1>1 DEF nil
<1>6. Now = [terminals |-> nil, results |-> nil, total |-> 0]
  BY <1>1, <1>5 DEF Now
<1>7. Sane(Now)
  BY <1>2, <1>3, <1>4, <1>6, StoresAssumption DEF Sane, Granted, Histories
<1>8. HistoryInv
  BY <1>2, <1>5, <1>7, StoresAssumption DEF HistoryInv
<1>9. MediaInv
  BY <1>2, <1>4, <1>5, StoresAssumption DEF MediaInv
<1>10. RoleInv
  BY <1>1 DEF RoleInv
<1>11. SourceExpiresFirst
  BY <1>4, <1>5 DEF SourceExpiresFirst
<1> QED
  BY <1>8, <1>9, <1>10, <1>11 DEF Inv

(* The invariant says all that StoreInv asks for.                              *)
LEMMA InvStoreInv == Inv => StoreInv
<1> SUFFICES ASSUME Inv
             PROVE  StoreInv
  OBVIOUS
<1>1. Sane(Now) /\ Len(terminals) <= TerminalMax /\ MediaInv /\ RoleInv /\ SourceExpiresFirst
  BY DEF Inv, HistoryInv
<1>2. Now.terminals = terminals /\ Now.results = results /\ Now.total = total
  BY DEF Now
<1>3. /\ terminals \in Seq(TerminalEntries) /\ results \in Seq(ResultEntries)
      /\ Unique(terminals) /\ Unique(results)
      /\ total = Bytes(results) /\ total <= MaxBytes /\ Len(results) <= MaxResults
      /\ Granted(Now)
  BY <1>1, <1>2 DEF Sane, Histories
<1>4. TypeOK
  <2>1. total \in 0..MaxBytes
    <3>1. Bytes(results) \in Nat
      BY <1>3, SizedResults, BytesNat
    <3> QED
      BY <1>3, <3>1, StoresAssumption
  <2>2. Sound(terminals, TerminalEntries) /\ Sound(results, ResultEntries)
    BY <1>3 DEF Sound, Unique
  <2>3. Sound(photographs, Timed) /\ Sound(snapshots, Timed)
    BY <1>1 DEF MediaInv, Sound, Unique
  <2>4. /\ adjusting \in Attempts \cup {NoAttempt}
        /\ current \in [id : Attempts, stage : {"acquiring", "generating", "rendered"}]
                      \cup {NoCurrent}
    BY <1>1 DEF RoleInv
  <2> QED
    BY <2>1, <2>2, <2>3, <2>4 DEF TypeOK, TerminalEntries, ResultEntries
<1>5. WithinBounds
  BY <1>1, <1>3 DEF WithinBounds
<1>6. GrantsMatch
  <2>1. ASSUME NEW a \in Ids(results)
        PROVE  a \in {t.id : t \in {u \in Range(terminals) : u.granted}}
    <3>1. PICK e \in Range(results) : e.id = a
      BY IdsRange
    <3>2. PICK t \in Range(terminals) : t.id = e.id /\ t.granted
      BY <1>2, <1>3, <3>1 DEF Granted
    <3> QED
      BY <3>1, <3>2
  <2>2. \A t \in Range(terminals) : t.granted => t.id \in Ids(results)
    BY <1>2, <1>3 DEF Granted
  <2> QED
    BY <2>1, <2>2 DEF GrantsMatch
<1>7. ReplaysCanBeFetched
  <2> DEFINE h == Prune(Now)
  <2>1. Sane(h) /\ \A e \in Range(h.results) : e.left > 0
    BY <1>1, PruneSane
  <2> HIDE DEF h
  <2>2. \A t \in Range(h.terminals) : t.granted =>
            \E e \in Range(h.results) : e.id = t.id /\ e.left > 0
    BY <2>1, IdsRange DEF Sane, Granted
  <2> QED
    BY <2>2 DEF ReplaysCanBeFetched, h
<1> QED
  BY <1>1, <1>4, <1>5, <1>6, <1>7 DEF StoreInv

LEMMA BecomesHolds ==
    ASSUME NEW h, h \in Histories, Becomes(h)
    PROVE  Now' = h
<1>1. h = [terminals |-> h.terminals, results |-> h.results, total |-> h.total]
  BY DEF Histories
<1>2. terminals' = h.terminals /\ results' = h.results /\ total' = h.total
  BY DEF Becomes
<1> QED
  BY <1>1, <1>2 DEF Now

LEMMA ConcludedHolds ==
    /\ \A h, a : Concluded(h, a, FALSE, TTL) = Prune(Failed(h, a))
    /\ \A h, a, size, left :
          Concluded(Admitted(h, a, size), a, TRUE, left) = Prune(Put(h, a, size, left))
BY DEF Concluded, Failed, Put, Grant

(* What a step does to the history: it becomes a sane one, whose results are   *)
(* old ones or renewed; only an attempt that ends adds a terminal.             *)
Advances(h) ==
    /\ Sane(h) /\ Len(h.terminals) <= TerminalMax
    /\ \A e \in Range(h.results) : e \in Range(results) \/ e.left = TTL

LEMMA CompleteAdvances ==
    ASSUME Inv, NEW size \in Sizes, NEW late \in {0, 1}, Complete(size, late)
    PROVE  /\ Advances(Prune(Put(Now, current.id, size, TTL + late)))
           /\ Becomes(Prune(Put(Now, current.id, size, TTL + late)))
<1> DEFINE a == current.id
           left == TTL + late
           p == Put(Now, a, size, left)
<1>1. /\ Sane(Now) /\ Now.results = results /\ a \in Attempts /\ size <= SingleMax
      /\ left \in TTL..TTL + 1
  <2>1. current.stage = "rendered" /\ size <= SingleMax
    BY DEF Complete
  <2>2. current \in [id : Attempts, stage : {"acquiring", "generating", "rendered"}]
    BY <2>1 DEF Inv, RoleInv, NoCurrent
  <2>3. Sane(Now) /\ Now.results = results
    BY DEF Inv, HistoryInv, Now
  <2> QED
    BY <2>1, <2>2, <2>3, StoresAssumption
<1> HIDE DEF a, left
<1>2. /\ Sane(p)
      /\ \A e \in Range(p.results) :
            e = Latest(a, size) \/ (e \in Range(results) /\ e.id # a /\ e.left > 0)
  BY <1>1, AdmitSane
<1> HIDE DEF p
<1>3. /\ Sane(Prune(p)) /\ Len(Prune(p).terminals) <= TerminalMax
      /\ Range(Prune(p).results) \subseteq Range(p.results)
  BY <1>2, PruneSane
<1>4. Latest(a, size).left = TTL
  BY DEF Latest
<1>5. Advances(Prune(p))
  BY <1>2, <1>3, <1>4 DEF Advances
<1>6. Becomes(Prune(p))
  BY ConcludedHolds DEF Complete, p, a, left
<1> QED
  BY <1>5, <1>6 DEF p, a, left

LEMMA FailAdvances ==
    ASSUME Inv, Fail
    PROVE  /\ Advances(Prune(Failed(Now, current.id)))
           /\ Becomes(Prune(Failed(Now, current.id)))
           /\ current.id \in Attempts /\ current.id \notin Ids(terminals)
<1> DEFINE a == current.id
           p == Failed(Now, a)
<1>1. /\ Sane(Now) /\ Now.results = results /\ Now.terminals = terminals
      /\ a \in Attempts /\ a \notin Ids(terminals)
  <2>1. current.stage # "none"
    BY DEF Fail
  <2>2. /\ current \in [id : Attempts, stage : {"acquiring", "generating", "rendered"}]
        /\ current # NoCurrent
    BY <2>1 DEF Inv, RoleInv, NoCurrent
  <2> QED
    BY <2>2 DEF Inv, HistoryInv, RoleInv, Now
<1> HIDE DEF a
<1>2. Sane(p) /\ p.results = results
  BY <1>1, FailedSane
<1> HIDE DEF p
<1>3. /\ Sane(Prune(p)) /\ Len(Prune(p).terminals) <= TerminalMax
      /\ Range(Prune(p).results) \subseteq Range(p.results)
  BY <1>2, PruneSane
<1>4. Advances(Prune(p))
  BY <1>2, <1>3 DEF Advances
<1>5. Becomes(Prune(p))
  BY ConcludedHolds DEF Fail, p, a
<1> QED
  BY <1>1, <1>4, <1>5 DEF p, a

LEMMA PruneAdvances ==
    ASSUME Inv
    PROVE  Advances(Prune(Now)) /\ Ids(Prune(Now).terminals) \subseteq Ids(terminals)
<1>1. /\ Sane(Now) /\ Now.terminals = terminals /\ Now.results = results
  BY DEF Inv, HistoryInv, Now
<1> DEFINE h == Prune(Now)
<1>2. /\ Sane(h) /\ Len(h.terminals) <= TerminalMax
      /\ Range(h.terminals) \subseteq Range(terminals)
      /\ Range(h.results) \subseteq Range(results)
  BY <1>1, PruneSane
<1> HIDE DEF h
<1>3. Ids(h.terminals) \subseteq Ids(terminals)
  BY <1>2, IdsRange
<1>4. Advances(h)
  BY <1>2 DEF Advances
<1> QED
  BY <1>3, <1>4 DEF h

LEMMA EndAdjustAdvances ==
    ASSUME Inv, NEW size \in Sizes, NEW late \in {0, 1}, EndAdjust(size, late)
    PROVE  \E h : /\ Advances(h) /\ Becomes(h) /\ Ids(h.terminals) \subseteq Ids(terminals)
                  /\ \/ h = Now \/ h = Prune(Now)
                     \/ /\ h = Put(Prune(Now), adjusting, size, TTL + late)
                        /\ size <= SingleMax /\ adjusting \in Attempts
                        /\ adjusting \in Ids(Prune(Now).terminals)
<1> DEFINE h == Prune(Now)
           a == adjusting
           left == TTL + late
           p == Put(h, a, size, left)
<1>1. /\ Sane(Now) /\ Now.terminals = terminals /\ Now.results = results
      /\ a \in Attempts /\ left \in TTL..TTL + 1 /\ Len(terminals) <= TerminalMax
  BY StoresAssumption DEF Inv, HistoryInv, RoleInv, Now, EndAdjust
<1>2. /\ Advances(h) /\ Ids(h.terminals) \subseteq Ids(terminals) /\ Sane(h)
      /\ Range(h.results) \subseteq Range(results)
  BY <1>1, PruneAdvances, PruneSane DEF Advances
<1>3. CASE size <= SingleMax /\ a \in CompletedIn(h)
  <2>1. Becomes(p)
    BY <1>3 DEF EndAdjust, Put, Grant
  <2> HIDE DEF h, a, left
  <2>2. a \in Ids(h.terminals)
    BY <1>3, IdsRange DEF CompletedIn
  <2>3. /\ Sane(p) /\ Ids(p.terminals) \subseteq Ids(h.terminals) \cup {a}
        /\ Len(p.terminals) <= Len(h.terminals)
        /\ \A e \in Range(p.results) :
              e = Latest(a, size) \/ (e \in Range(h.results) /\ e.id # a /\ e.left > 0)
    BY <1>1, <1>2, <1>3, <2>2, AdmitSane
  <2> HIDE DEF p
  <2>4. Ids(p.terminals) \subseteq Ids(terminals)
    BY <1>2, <2>2, <2>3
  <2>5. Len(p.terminals) \in Nat /\ Len(h.terminals) \in Nat /\ TerminalMax \in Nat
    BY <1>2, <2>3, StoresAssumption DEF Sane, Histories
  <2>6. Latest(a, size).left = TTL
    BY DEF Latest
  <2>7. Advances(p)
    BY <1>2, <2>3, <2>5, <2>6 DEF Advances
  <2>8. p = Put(h, a, size, left)
    BY DEF p
  <2>9. \E g : /\ Advances(g) /\ Becomes(g) /\ Ids(g.terminals) \subseteq Ids(terminals)
               /\ \/ g = Now \/ g = h
                  \/ /\ g = Put(h, a, size, left) /\ size <= SingleMax /\ a \in Attempts
                     /\ a \in Ids(h.terminals)
    BY <1>1, <1>3, <2>1, <2>2, <2>4, <2>7, <2>8
  <2> QED
    BY <2>9 DEF h, a, left
<1>4. CASE ~(size <= SingleMax /\ a \in CompletedIn(h))
  <2>1. Becomes(IF size <= SingleMax THEN h ELSE Now)
    BY <1>4 DEF EndAdjust
  <2>2. Advances(Now) /\ Ids(Now.terminals) \subseteq Ids(terminals)
    BY <1>1 DEF Advances
  <2>3. CASE size <= SingleMax
    <3> HIDE DEF h
    <3>1. Becomes(h)
      BY <2>1, <2>3
    <3>2. \E g : /\ Advances(g) /\ Becomes(g) /\ Ids(g.terminals) \subseteq Ids(terminals)
                 /\ g = h
      BY <1>2, <3>1
    <3> QED
      BY <3>2 DEF h
  <2>4. CASE ~(size <= SingleMax)
    <3> HIDE DEF h
    <3>1. Becomes(Now)
      BY <2>1, <2>4
    <3>2. \E g : /\ Advances(g) /\ Becomes(g) /\ Ids(g.terminals) \subseteq Ids(terminals)
                 /\ g = Now
      BY <2>2, <3>1
    <3> QED
      BY <3>2
  <2> QED
    BY <2>3, <2>4
<1> QED
  BY <1>3, <1>4

LEMMA LeaveAdvances ==
    ASSUME Inv, NEW ids, Leave(ids)
    PROVE  \E h : /\ Advances(h) /\ Becomes(h)
                  /\ Ids(h.terminals) = Ids(Prune(Now).terminals)
<1> DEFINE h == Prune(Now)
           gone == ids \cap CompletedIn(h)
           g == Revoked(h, gone)
<1>1. Sane(h) /\ Advances(h)
  BY PruneAdvances DEF Advances
<1> HIDE DEF h, gone
<1>2. /\ Sane(g) /\ Ids(g.terminals) = Ids(h.terminals)
      /\ Len(g.terminals) = Len(h.terminals)
      /\ Range(g.results) \subseteq Range(h.results)
  BY <1>1, RevokedSane
<1> HIDE DEF g
<1>3. Advances(g)
  BY <1>1, <1>2 DEF Advances
<1>4. Becomes(g)
  BY DEF Leave, g, gone, h
<1>5. \E f : Advances(f) /\ Becomes(f) /\ Ids(f.terminals) = Ids(h.terminals)
  BY <1>2, <1>3, <1>4
<1> QED
  BY <1>5 DEF h

LEMMA AdvancesHolds ==
    ASSUME NEW h, Advances(h), Becomes(h)
    PROVE  /\ HistoryInv' /\ terminals' = h.terminals
           /\ \A e \in Range(results') : e \in Range(results) \/ e.left = TTL
<1>1. Sane(h) /\ h \in Histories
  BY DEF Advances, Sane
<1>2. Now' = h
  BY <1>1, BecomesHolds
<1>3. terminals' = h.terminals /\ results' = h.results
  BY DEF Becomes
<1>4. Sane(Now')
  BY <1>1, <1>2
<1>5. Len(terminals') <= TerminalMax
  BY <1>3 DEF Advances
<1>6. \A e \in Range(results') : e \in Range(results) \/ e.left = TTL
  BY <1>3 DEF Advances
<1>7. HistoryInv'
  BY <1>4, <1>5 DEF HistoryInv
<1> QED
  BY <1>3, <1>6, <1>7

(* Only a step that ends the attempt adds terminals, and only time makes a     *)
(* result older.                                                               *)
LEMMA HistoryStep ==
    ASSUME Inv, Next
    PROVE  /\ HistoryInv'
           /\ current' # NoCurrent => Ids(terminals') \subseteq Ids(terminals)
           /\ Tick \/ \A e \in Range(results') : e \in Range(results) \/ e.left = TTL
<1>1. Sane(Now) /\ Len(terminals) <= TerminalMax
  BY DEF Inv, HistoryInv
<1>2. Advances(Prune(Now)) /\ Ids(Prune(Now).terminals) \subseteq Ids(terminals)
  BY PruneAdvances
<1>3. ASSUME UNCHANGED history
      PROVE  HistoryInv' /\ Ids(terminals') \subseteq Ids(terminals)
             /\ \A e \in Range(results') : e \in Range(results)
  <2>1. Now' = Now /\ terminals' = terminals /\ results' = results
    BY <1>3 DEF Now
  <2>2. Sane(Now')
    BY <1>1, <2>1
  <2> QED
    BY <1>1, <2>1, <2>2 DEF HistoryInv
<1>4. ASSUME NEW a \in Attempts, Start(a)
      PROVE  HistoryInv' /\ Ids(terminals') \subseteq Ids(terminals)
             /\ \A e \in Range(results') : e \in Range(results) \/ e.left = TTL
  <2>1. Becomes(Prune(Now))
    BY <1>4 DEF Start
  <2> QED
    BY <1>2, <2>1, AdvancesHolds
<1>5. CASE Photograph \/ Retain \/ ReadPhotograph
  BY <1>3, <1>5 DEF Photograph, Retain, ReadPhotograph
<1>6. ASSUME NEW size \in Sizes, NEW late \in {0, 1}, Complete(size, late)
      PROVE  HistoryInv' /\ current' = NoCurrent
             /\ \A e \in Range(results') : e \in Range(results) \/ e.left = TTL
  <2>1. current' = NoCurrent
    BY <1>6 DEF Complete
  <2> QED
    BY <1>6, <2>1, CompleteAdvances, AdvancesHolds
<1>7. CASE Fail
  <2>1. current' = NoCurrent
    BY <1>7 DEF Fail
  <2> QED
    BY <1>7, <2>1, FailAdvances, AdvancesHolds
<1>8. ASSUME NEW a \in Attempts, BeginAdjust(a)
      PROVE  HistoryInv' /\ Ids(terminals') \subseteq Ids(terminals)
             /\ \A e \in Range(results') : e \in Range(results)
  BY <1>3, <1>8 DEF BeginAdjust
<1>9. ASSUME NEW size \in Sizes, NEW late \in {0, 1}, EndAdjust(size, late)
      PROVE  HistoryInv' /\ Ids(terminals') \subseteq Ids(terminals)
             /\ \A e \in Range(results') : e \in Range(results) \/ e.left = TTL
  <2>1. PICK h : Advances(h) /\ Becomes(h) /\ Ids(h.terminals) \subseteq Ids(terminals)
    BY <1>9, EndAdjustAdvances
  <2> QED
    BY <2>1, AdvancesHolds
<1>10. CASE Fetch
  <2>1. Becomes(Prune(Now))
    BY <1>10 DEF Fetch
  <2> QED
    BY <1>2, <2>1, AdvancesHolds
<1>11. ASSUME NEW ids, Leave(ids)
       PROVE  HistoryInv' /\ Ids(terminals') \subseteq Ids(terminals)
              /\ \A e \in Range(results') : e \in Range(results) \/ e.left = TTL
  <2>1. PICK h : /\ Advances(h) /\ Becomes(h)
                 /\ Ids(h.terminals) = Ids(Prune(Now).terminals)
    BY <1>11, LeaveAdvances
  <2> QED
    BY <1>2, <2>1, AdvancesHolds
<1>12. CASE Disconnect
  BY <1>11, <1>12 DEF Disconnect
<1>13. CASE Tick
  <2>1. Now' = AgedHistory(Now)
    BY <1>13 DEF Tick, Now, AgedHistory
  <2>2. Sane(Now')
    BY <1>1, <2>1, AgedSane
  <2>3. terminals' = Aged(terminals) /\ DOMAIN Aged(terminals) = DOMAIN terminals
    BY <1>13 DEF Tick, Aged
  <2>4. terminals \in Seq(TerminalEntries) /\ terminals' \in Seq(TerminalEntries)
    <3>1. Now.terminals = terminals /\ Now'.terminals = terminals'
      BY DEF Now
    <3> QED
      BY <1>1, <2>2, <3>1 DEF Sane, Histories
  <2>5. Len(terminals') = Len(terminals)
    BY <2>3, <2>4
  <2>6. Ids(terminals') = Ids(terminals)
    <3>1. \A i \in DOMAIN terminals : terminals'[i].id = terminals[i].id
      <4> SUFFICES ASSUME NEW i \in DOMAIN terminals
                   PROVE  terminals'[i].id = terminals[i].id
        OBVIOUS
      <4>1. terminals'[i] = [terminals[i] EXCEPT !.left = IF @ = 0 THEN 0 ELSE @ - 1]
        BY <1>13 DEF Tick, Aged
      <4>2. terminals[i] \in TerminalEntries
        BY <2>4
      <4> QED
        BY <4>1, <4>2 DEF TerminalEntries
    <3> QED
      BY <2>3, <3>1 DEF Ids
  <2> QED
    BY <1>1, <1>13, <2>2, <2>5, <2>6 DEF HistoryInv
<1>14. ASSUME NEW a \in Attempts, RouteLeave(a)
       PROVE  HistoryInv' /\ Ids(terminals') \subseteq Ids(terminals)
              /\ \A e \in Range(results') : e \in Range(results) \/ e.left = TTL
  BY <1>11, <1>14 DEF RouteLeave
<1> QED
  BY <1>4, <1>5, <1>6, <1>7, <1>8, <1>9, <1>10, <1>12, <1>13, <1>14 DEF Next

(* The media: each store keeps one entry of an attempt, and the photographs    *)
(* their bound, which every access restores.                                   *)
LEMMA StoredHolds ==
    ASSUME MediaInv, NEW a \in Attempts
    PROVE  /\ Stored(a) \in Seq(Timed) /\ Unique(Stored(a))
           /\ Len(Stored(a)) <= MaxPhotographs
           /\ a \in Ids(Stored(a))
<1> DEFINE p == AtMost(Alive(photographs), MaxPhotographs)
           e == [id |-> a, left |-> TTL]
           q == Assign(p, e)
<1>1. e \in Timed /\ e.id = a /\ MaxPhotographs \in Nat \ {0}
  BY StoresAssumption DEF Timed
<1>2. p \in Seq(Timed) /\ Unique(p) /\ Len(p) <= MaxPhotographs
  <2> DEFINE r == Alive(photographs)
  <2>1. r \in Seq(Timed) /\ Unique(r)
    BY AliveHolds DEF MediaInv, Sub
  <2> HIDE DEF r
  <2>2. p = AtMost(r, MaxPhotographs)
    BY DEF r
  <2> HIDE DEF p
  <2>3. p \in Seq(Timed) /\ Sub(p, r) /\ Len(p) <= MaxPhotographs
    BY <1>1, <2>1, <2>2, AtMostHolds
  <2> QED
    BY <2>1, <2>3 DEF Sub
<1> HIDE DEF p, e
<1>3. /\ q \in Seq(Timed) /\ Unique(q) /\ q # <<>> /\ a \in Ids(q)
      /\ Len(q) <= MaxPhotographs \/ q[Len(q)] = e
  BY <1>1, <1>2, AssignHolds
<1>4. Stored(a) = AtMost(q, MaxPhotographs)
  BY DEF Stored, p, e, q
<1> HIDE DEF q
<1>5. /\ Stored(a) \in Seq(Timed) /\ Sub(Stored(a), q) /\ Len(Stored(a)) <= MaxPhotographs
      /\ Len(q) <= MaxPhotographs => Stored(a) = q
      /\ q[Len(q)] \in Range(Stored(a))
  BY <1>1, <1>3, <1>4, AtMostHolds
<1>6. a \in Ids(Stored(a))
  BY <1>1, <1>3, <1>5, IdsRange
<1> QED
  BY <1>3, <1>5, <1>6 DEF Sub

LEMMA RetainedHolds ==
    ASSUME MediaInv, Retain, current.id \in Attempts
    PROVE  /\ snapshots' \in Seq(Timed) /\ Unique(snapshots')
           /\ current.id \in Ids(snapshots')
           /\ \A s \in Range(snapshots') : s \in Range(snapshots) \/ s.id = current.id
<1> DEFINE a == current.id
           r == Alive(snapshots)
           e == [id |-> a, left |-> TTL]
           m == MoveToEnd(r, e)
<1>1. e \in Timed /\ e.id = a /\ MaxSnapshots \in Nat \ {0}
  BY StoresAssumption DEF Timed
<1>2. r \in Seq(Timed) /\ Unique(r) /\ Range(r) \subseteq Range(snapshots)
  BY AliveHolds DEF MediaInv, Sub
<1>3. snapshots' = AtMost(m, MaxSnapshots)
  BY DEF Retain
<1> HIDE DEF a, r, e
<1>4. /\ m \in Seq(Timed) /\ Unique(m) /\ m[Len(m)] = e
      /\ Range(m) = {f \in Range(r) : f.id # e.id} \cup {e}
  BY <1>1, <1>2, MoveHolds
<1> HIDE DEF m
<1>5. m # <<>>
  BY <1>4, RangeOfSeq DEF Range
<1>6. /\ snapshots' \in Seq(Timed) /\ Sub(snapshots', m) /\ e \in Range(snapshots')
  BY <1>1, <1>3, <1>4, <1>5, AtMostHolds
<1>7. a \in Ids(snapshots')
  BY <1>1, <1>6, IdsRange
<1>8. \A s \in Range(snapshots') : s \in Range(snapshots) \/ s.id = a
  BY <1>1, <1>2, <1>4, <1>6 DEF Sub
<1> QED
  BY <1>4, <1>6, <1>7, <1>8 DEF Sub, a

LEMMA AgedTimed ==
    ASSUME NEW s \in Seq(Timed), Unique(s)
    PROVE  /\ Aged(s) \in Seq(Timed) /\ Len(Aged(s)) = Len(s) /\ Ids(Aged(s)) = Ids(s)
           /\ Unique(Aged(s))
           /\ \A f \in Range(Aged(s)) : \E e \in Range(s) :
                 f.id = e.id /\ f.left = IF e.left = 0 THEN 0 ELSE e.left - 1
<1>1. \A e \in Timed :
         /\ OneLess(e) \in Timed /\ OneLess(e).id = e.id
         /\ OneLess(e).left = IF e.left = 0 THEN 0 ELSE e.left - 1
  <2> SUFFICES ASSUME NEW e \in Timed
               PROVE  /\ OneLess(e) \in Timed /\ OneLess(e).id = e.id
                      /\ OneLess(e).left = IF e.left = 0 THEN 0 ELSE e.left - 1
    OBVIOUS
  <2> DEFINE n == IF e.left = 0 THEN 0 ELSE e.left - 1
  <2>1. /\ TTL \in Nat /\ e.left \in 0..TTL /\ e.id \in Attempts
        /\ e = [id |-> e.id, left |-> e.left]
    BY StoresAssumption DEF Timed
  <2>2. n \in 0..TTL
    BY <2>1
  <2>3. OneLess(e) = [e EXCEPT !.left = n]
    BY DEF OneLess
  <2> HIDE DEF n
  <2>4. OneLess(e) = [id |-> e.id, left |-> n]
    BY <2>1, <2>3
  <2>5. OneLess(e) \in Timed /\ OneLess(e).id = e.id /\ OneLess(e).left = n
    BY <2>1, <2>2, <2>4 DEF Timed
  <2> QED
    BY <2>5 DEF n
<1>2. /\ Aged(s) \in Seq(Timed) /\ Len(Aged(s)) = Len(s) /\ Ids(Aged(s)) = Ids(s)
      /\ Unique(Aged(s)) /\ Range(Aged(s)) = {Aged(s)[i] : i \in DOMAIN s}
      /\ \A i \in DOMAIN s : s[i] \in Timed /\ Aged(s)[i] = OneLess(s[i])
  BY <1>1, AgedEntries
<1>3. \A f \in Range(Aged(s)) : \E e \in Range(s) :
         f.id = e.id /\ f.left = IF e.left = 0 THEN 0 ELSE e.left - 1
  <2> SUFFICES ASSUME NEW i \in DOMAIN s
               PROVE  \E e \in Range(s) :
                         /\ Aged(s)[i].id = e.id
                         /\ Aged(s)[i].left = IF e.left = 0 THEN 0 ELSE e.left - 1
    BY <1>2
  <2>1. s[i] \in Range(s)
    BY DEF Range
  <2> QED
    BY <1>1, <1>2, <2>1
<1> QED
  BY <1>2, <1>3

LEMMA MediaStep ==
    ASSUME Inv, Next
    PROVE  /\ MediaInv'
           /\ Tick \/ \A s \in Range(snapshots') :
                         s \in Range(snapshots) \/ (s.id = current.id /\ Retain)
<1>1. /\ MediaInv /\ photographs \in Seq(Timed) /\ Unique(photographs)
      /\ Len(photographs) <= MaxPhotographs /\ Len(photographs) \in Nat
      /\ snapshots \in Seq(Timed) /\ Unique(snapshots) /\ MaxPhotographs \in Nat \ {0}
  BY StoresAssumption DEF Inv, MediaInv
<1>2. current.stage # "none" => current.id \in Attempts
  BY DEF Inv, RoleInv, NoCurrent
<1> DEFINE Fine(p, s) ==
        /\ p \in Seq(Timed) /\ Unique(p) /\ Len(p) <= MaxPhotographs
        /\ s \in Seq(Timed) /\ Unique(s) /\ Range(s) \subseteq Range(snapshots)
<1>3. \A ids : Fine(Without(photographs, ids), Without(snapshots, ids))
  <2> SUFFICES ASSUME NEW ids
               PROVE  Fine(Without(photographs, ids), Without(snapshots, ids))
    OBVIOUS
  <2>1. /\ Without(photographs, ids) \in Seq(Timed)
        /\ Sub(Without(photographs, ids), photographs)
    BY <1>1, WithoutHolds
  <2>2. /\ Without(snapshots, ids) \in Seq(Timed)
        /\ Sub(Without(snapshots, ids), snapshots)
    BY <1>1, WithoutHolds
  <2>3. Len(Without(photographs, ids)) \in Nat
    BY <2>1
  <2> QED
    BY <1>1, <2>1, <2>2, <2>3 DEF Sub
<1>4. ASSUME Fine(photographs', snapshots')
      PROVE  MediaInv' /\ \A s \in Range(snapshots') : s \in Range(snapshots)
  BY <1>4 DEF MediaInv
<1>5. Fine(photographs, snapshots)
  BY <1>1
<1> HIDE DEF Fine
<1>6. ASSUME UNCHANGED media
      PROVE  Fine(photographs', snapshots')
  BY <1>5, <1>6
<1>7. CASE Photograph
  <2>1. photographs' = Stored(current.id) /\ snapshots' = snapshots /\ current.id \in Attempts
    BY <1>2, <1>7 DEF Photograph
  <2>2. MediaInv'
    BY <1>1, <2>1, StoredHolds DEF MediaInv
  <2> QED
    BY <2>1, <2>2
<1>8. CASE Retain
  <2>1. photographs' = photographs /\ current.id \in Attempts
    BY <1>2, <1>8 DEF Retain
  <2>2. /\ snapshots' \in Seq(Timed) /\ Unique(snapshots')
        /\ \A s \in Range(snapshots') : s \in Range(snapshots) \/ s.id = current.id
    BY <1>1, <1>8, <2>1, RetainedHolds
  <2> QED
    BY <1>1, <1>8, <2>1, <2>2 DEF MediaInv
<1>9. CASE Fail
  BY <1>3, <1>4, <1>9 DEF Fail
<1>10. ASSUME NEW ids, Leave(ids)
       PROVE  Fine(photographs', snapshots')
  BY <1>3, <1>10 DEF Leave
<1>11. ASSUME NEW a \in Attempts, BeginAdjust(a)
       PROVE  Fine(photographs', snapshots')
  <2>1. photographs' = photographs /\ snapshots' = Alive(snapshots)
    BY <1>11 DEF BeginAdjust, LookedUp
  <2>2. Alive(snapshots) \in Seq(Timed) /\ Sub(Alive(snapshots), snapshots)
    BY <1>1, AliveHolds
  <2> QED
    BY <1>1, <2>1, <2>2 DEF Sub, Fine
<1>12. CASE ReadPhotograph
  <2>1. photographs' = AtMost(Alive(photographs), MaxPhotographs) /\ snapshots' = snapshots
    BY <1>12 DEF ReadPhotograph
  <2> DEFINE r == Alive(photographs)
  <2>2. r \in Seq(Timed) /\ Unique(r)
    BY <1>1, AliveHolds DEF Sub
  <2>3. photographs' = AtMost(r, MaxPhotographs)
    BY <2>1
  <2> HIDE DEF r
  <2>4. /\ photographs' \in Seq(Timed) /\ Sub(photographs', r)
        /\ Len(photographs') <= MaxPhotographs
    BY <1>1, <2>2, <2>3, AtMostHolds
  <2>5. Fine(photographs', snapshots')
    BY <1>1, <2>1, <2>2, <2>4 DEF Sub, Fine
  <2> QED
    BY <1>4, <2>5
<1>13. CASE Tick
  <2>1. photographs' = Aged(photographs) /\ snapshots' = Aged(snapshots)
    BY <1>13 DEF Tick
  <2>2. MediaInv'
    BY <1>1, <2>1, AgedTimed DEF MediaInv
  <2> QED
    BY <1>13, <2>2
<1>14. CASE Fetch
  BY <1>4, <1>6, <1>14 DEF Fetch
<1>15. ASSUME NEW a \in Attempts, Start(a)
       PROVE  Fine(photographs', snapshots')
  BY <1>6, <1>15 DEF Start
<1>16. ASSUME NEW size \in Sizes, NEW late \in {0, 1},
              Complete(size, late) \/ EndAdjust(size, late)
       PROVE  Fine(photographs', snapshots')
  BY <1>6, <1>16 DEF Complete, EndAdjust
<1>17. CASE Disconnect
  BY <1>4, <1>10, <1>17 DEF Disconnect
<1>18. ASSUME NEW a \in Attempts, RouteLeave(a)
       PROVE  Fine(photographs', snapshots')
  BY <1>10, <1>18 DEF RouteLeave
<1> QED
  BY <1>4, <1>7, <1>8, <1>9, <1>11, <1>12, <1>13, <1>14, <1>15, <1>16, <1>17, <1>18
  DEF Next

LEMMA RoleStep ==
    ASSUME Inv, Next
    PROVE  RoleInv'
<1>1. current' # NoCurrent => Ids(terminals') \subseteq Ids(terminals)
  BY HistoryStep
<1>2. /\ current \in [id : Attempts, stage : {"acquiring", "generating", "rendered"}]
                    \cup {NoCurrent}
      /\ adjusting \in Attempts \cup {NoAttempt}
      /\ current # NoCurrent => current.id \notin Ids(terminals)
  BY DEF Inv, RoleInv
<1>3. ASSUME UNCHANGED current, adjusting' \in Attempts \cup {NoAttempt}
      PROVE  RoleInv'
  BY <1>1, <1>2, <1>3 DEF RoleInv
<1>4. ASSUME current' = NoCurrent, UNCHANGED adjusting
      PROVE  RoleInv'
  BY <1>2, <1>4 DEF RoleInv
<1>5. ASSUME NEW a \in Attempts, Start(a)
      PROVE  RoleInv'
  <2>1. terminals' = Prune(Now).terminals /\ adjusting' = adjusting /\ current = NoCurrent
    BY <1>5 DEF Start, Becomes
  <2>2. CASE a \in Ids(Prune(Now).terminals)
    BY <1>3, <1>5, <1>2, <2>1, <2>2 DEF Start
  <2>3. CASE a \notin Ids(Prune(Now).terminals)
    <3>1. current' = [id |-> a, stage |-> "acquiring"] /\ a \notin Ids(terminals')
      BY <1>5, <2>1, <2>3 DEF Start
    <3> QED
      BY <1>2, <2>1, <3>1 DEF RoleInv
  <2> QED
    BY <2>2, <2>3
<1>6. CASE Photograph \/ Retain
  <2>1. /\ current \in [id : Attempts, stage : {"acquiring", "generating", "rendered"}]
        /\ current # NoCurrent
    BY <1>2, <1>6 DEF Photograph, Retain, NoCurrent
  <2>2. \E stage \in {"generating", "rendered"} : current' = [current EXCEPT !.stage = stage]
    BY <1>6 DEF Photograph, Retain
  <2>3. /\ current' \in [id : Attempts, stage : {"acquiring", "generating", "rendered"}]
        /\ current'.id = current.id /\ adjusting' = adjusting
        /\ terminals' = terminals
    BY <1>6, <2>1, <2>2 DEF Photograph, Retain
  <2> QED
    BY <1>2, <2>1, <2>3 DEF RoleInv
<1>7. ASSUME NEW size \in Sizes, NEW late \in {0, 1}, Complete(size, late)
      PROVE  RoleInv'
  BY <1>4, <1>7 DEF Complete
<1>8. CASE Fail
  BY <1>4, <1>8 DEF Fail
<1>9. ASSUME NEW a \in Attempts, BeginAdjust(a)
      PROVE  RoleInv'
  BY <1>3, <1>9 DEF BeginAdjust
<1>10. ASSUME NEW size \in Sizes, NEW late \in {0, 1}, EndAdjust(size, late)
       PROVE  RoleInv'
  BY <1>3, <1>10 DEF EndAdjust
<1>11. CASE Fetch \/ ReadPhotograph \/ Disconnect \/ Tick
  BY <1>2, <1>3, <1>11 DEF Fetch, ReadPhotograph, Disconnect, Leave, Tick
<1>12. ASSUME NEW a \in Attempts, RouteLeave(a)
       PROVE  RoleInv'
  BY <1>2, <1>3, <1>12 DEF RouteLeave, Leave
<1> QED
  BY <1>5, <1>6, <1>7, <1>8, <1>9, <1>10, <1>11, <1>12 DEF Next

(* A source is retained before there is a result of its attempt, and a renewed *)
(* result starts its time again.                                               *)
LEMMA SourceStep ==
    ASSUME Inv, Next
    PROVE  SourceExpiresFirst'
<1>1. /\ Tick \/ \A e \in Range(results') : e \in Range(results) \/ e.left = TTL
      /\ Tick \/ \A s \in Range(snapshots') :
                    s \in Range(snapshots) \/ (s.id = current.id /\ Retain)
      /\ HistoryInv' /\ MediaInv'
  BY HistoryStep, MediaStep
<1>2. /\ results \in Seq(ResultEntries) /\ snapshots \in Seq(Timed)
      /\ Unique(results) /\ Unique(snapshots)
      /\ results' \in Seq(ResultEntries) /\ snapshots' \in Seq(Timed)
      /\ Granted(Now) /\ Now.results = results /\ Now.terminals = terminals
  <2>1. Now.results = results /\ Now'.results = results' /\ Now.terminals = terminals
    BY DEF Now
  <2>2. Sane(Now) /\ Sane(Now') /\ MediaInv
    BY <1>1 DEF Inv, HistoryInv
  <2> QED
    BY <1>1, <2>1, <2>2 DEF Sane, Histories, MediaInv
<1>3. \A s \in Range(snapshots), e \in Range(results) : s.id = e.id => s.left <= e.left
  BY DEF Inv, SourceExpiresFirst
<1>4. CASE ~Tick
  <2> SUFFICES ASSUME NEW s \in Range(snapshots'), NEW e \in Range(results'), s.id = e.id
               PROVE  s.left <= e.left
    BY DEF SourceExpiresFirst
  <2>1. s \in Timed /\ e \in ResultEntries
    BY <1>2, RangeOfSeq
  <2>2. CASE e.left = TTL
    BY <2>1, <2>2, StoresAssumption DEF Timed
  <2>3. CASE e \in Range(results) /\ s \in Range(snapshots)
    BY <1>3, <2>3
  <2>4. CASE e \in Range(results) /\ s.id = current.id /\ Retain
    <3>1. current.id \notin Ids(terminals)
      BY <2>4 DEF Retain, Inv, RoleInv, NoCurrent
    <3>2. PICK t \in Range(terminals) : t.id = e.id
      BY <1>2, <2>4 DEF Granted
    <3> QED
      BY <2>4, <3>1, <3>2, IdsRange
  <2> QED
    BY <1>1, <1>4, <2>2, <2>3, <2>4
<1>5. CASE Tick
  <2>1. results' = Aged(results) /\ snapshots' = Aged(snapshots)
    BY <1>5 DEF Tick
  <2>2. \A f \in Range(results') : \E e \in Range(results) :
           f.id = e.id /\ f.left = IF e.left = 0 THEN 0 ELSE e.left - 1
    <3>1. \A e \in ResultEntries :
             /\ OneLess(e) \in ResultEntries /\ OneLess(e).id = e.id
             /\ OneLess(e).left = IF e.left = 0 THEN 0 ELSE e.left - 1
      BY StoresAssumption DEF ResultEntries, OneLess
    <3>2. /\ Range(results') = {results'[i] : i \in DOMAIN results}
          /\ \A i \in DOMAIN results :
                results[i] \in ResultEntries /\ results'[i] = OneLess(results[i])
      BY <1>2, <2>1, <3>1, AgedEntries
    <3> SUFFICES ASSUME NEW i \in DOMAIN results
                 PROVE  \E e \in Range(results) :
                           /\ results'[i].id = e.id
                           /\ results'[i].left = IF e.left = 0 THEN 0 ELSE e.left - 1
      BY <3>2
    <3>3. results[i] \in Range(results)
      BY DEF Range
    <3> QED
      BY <3>1, <3>2, <3>3
  <2>3. \A f \in Range(snapshots') : \E e \in Range(snapshots) :
           f.id = e.id /\ f.left = IF e.left = 0 THEN 0 ELSE e.left - 1
    BY <1>2, <2>1, AgedTimed
  <2> SUFFICES ASSUME NEW s \in Range(snapshots'), NEW e \in Range(results'), s.id = e.id
               PROVE  s.left <= e.left
    BY DEF SourceExpiresFirst
  <2>4. PICK u \in Range(snapshots) :
            s.id = u.id /\ s.left = IF u.left = 0 THEN 0 ELSE u.left - 1
    BY <2>3
  <2>5. PICK d \in Range(results) :
            e.id = d.id /\ e.left = IF d.left = 0 THEN 0 ELSE d.left - 1
    BY <2>2
  <2>6. u.left <= d.left
    BY <1>3, <2>4, <2>5
  <2>7. u.left \in Nat /\ d.left \in Nat
    <3>1. u \in Timed /\ d \in ResultEntries
      BY <1>2, RangeOfSeq
    <3> QED
      BY <3>1, StoresAssumption DEF Timed, ResultEntries
  <2> QED
    BY <2>4, <2>5, <2>6, <2>7
<1> QED
  BY <1>4, <1>5

LEMMA NextInv == Inv /\ [Next]_vars => Inv'
<1>1. ASSUME Inv, Next
      PROVE  Inv'
  BY <1>1, HistoryStep, MediaStep, RoleStep, SourceStep DEF Inv
<1>2. ASSUME Inv, UNCHANGED vars
      PROVE  Inv'
  <2>1. Now' = Now
    BY <1>2 DEF Now
  <2>2. HistoryInv'
    BY <1>2, <2>1 DEF Inv, HistoryInv
  <2> QED
    BY <1>2, <2>2 DEF Inv, MediaInv, RoleInv, SourceExpiresFirst
<1> QED
  BY <1>1, <1>2

(* Whatever expires, is displaced, replaced or revoked: the counter is the sum *)
(* of what is held, every bound holds, a result is held exactly for the        *)
(* terminals that grant one, a replay can be fetched, and no source outlives   *)
(* its result (_prune_unlocked, _admit_unlocked and _commit_terminal_unlocked, *)
(* with the stores of photographs and of sources).                             *)
THEOREM StoreInvHolds == Spec => []StoreInv
<1>1. Spec => []Inv
  BY InitInv, NextInv, PTL DEF Spec
<1> QED
  BY <1>1, InvStoreInv, PTL

-----------------------------------------------------------------------------
(* What a step displaces.                                                      *)

RoomStep ==
    \A i \in DisplacedAt :
        /\ \A j \in 1..i - 1 : results[j].id \notin Ids(Front(results'))
        /\ \E j \in DisplacedAt : j >= i /\
             \/ Len(results') = MaxResults \/ Len(terminals) = TerminalMax
             \/ total' + results[j].size > MaxBytes

(* The entry of b goes, though it is live.                                     *)
Displaced(b) ==
    /\ LiveIn(results, b) /\ LiveIn(terminals, b)
    /\ b \notin Ids(results') \cup Ids(terminals')

(* With b goes every older entry, up to one that would not fit.                *)
Justified(b) ==
    /\ \A c : Before(results, c, b) => c \notin Ids(Front(results'))
    /\ \E e \in Range(results) :
          /\ e.left > 0 /\ e.id \notin Ids(results') \cup Ids(terminals')
          /\ e.id = b \/ Before(results, b, e.id)
          /\ \/ Len(results') = MaxResults \/ Len(terminals) = TerminalMax
             \/ total' + e.size > MaxBytes

LEMMA NowSane ==
    ASSUME Inv
    PROVE  /\ Sane(Now) /\ Now.results = results /\ Now.terminals = terminals
           /\ results \in Seq(ResultEntries) /\ Unique(results)
           /\ terminals \in Seq(TerminalEntries) /\ Unique(terminals)
           /\ Len(terminals) <= TerminalMax /\ Len(terminals) \in Nat
           /\ TerminalMax \in Nat /\ TTL \in Nat \ {0}
BY StoresAssumption DEF Inv, HistoryInv, Sane, Histories, Now

LEMMA FrontIds ==
    ASSUME NEW S, NEW s \in Seq(S)
    PROVE  /\ Ids(Front(s)) \subseteq Ids(s)
           /\ \A e \in S : Front(Append(s, e)) = s
<1>1. Ids(Front(s)) \subseteq Ids(s)
  <2>1. CASE s = <<>>
    <3>1. SubSeq(s, 1, Len(s) - 1) = <<>>
      BY <2>1
    <3> QED
      BY <2>1, <3>1 DEF Front, Ids
  <2>2. CASE s # <<>>
    <3>1. /\ Len(s) \in Nat \ {0} /\ DOMAIN s = 1..Len(s)
          /\ \A i \in 1..Len(s) - 1 : SubSeq(s, 1, Len(s) - 1)[i] = s[i]
          /\ DOMAIN SubSeq(s, 1, Len(s) - 1) = 1..Len(s) - 1
      BY <2>2
    <3>2. \A i \in 1..Len(s) - 1 : i \in 1..Len(s)
      BY <3>1
    <3> QED
      BY <3>1, <3>2 DEF Front, Ids
  <2> QED
    BY <2>1, <2>2
<1>2. ASSUME NEW e \in S
      PROVE  Front(Append(s, e)) = s
  <2>1. Len(s) \in Nat /\ Len(Append(s, e)) - 1 = Len(s)
    OBVIOUS
  <2>2. SubSeq(Append(s, e), 1, Len(s)) = s
    BY <2>1
  <2> QED
    BY <2>1, <2>2 DEF Front
<1> QED
  BY <1>1, <1>2

(* A result that is live has a live terminal.                                  *)
LEMMA LiveTerminal ==
    ASSUME NEW h, Sane(h), NEW e \in Range(h.results), e.left > 0
    PROVE  LiveIn(h.terminals, e.id)
<1>1. PICK t \in Range(h.terminals) : t.id = e.id /\ e.left <= t.left
  BY DEF Sane, Granted
<1>2. e \in ResultEntries /\ t \in TerminalEntries
  BY RangeOfSeq DEF Sane, Histories
<1>3. t.left > 0
  BY <1>1, <1>2, StoresAssumption DEF ResultEntries, TerminalEntries
<1> QED
  BY <1>1, <1>3 DEF LiveIn

LEMMA JustifiedHolds ==
    ASSUME Inv, \A b : Displaced(b) => Justified(b)
    PROVE  RoomStep
<1> SUFFICES ASSUME NEW i \in DisplacedAt
             PROVE  /\ \A j \in 1..i - 1 : results[j].id \notin Ids(Front(results'))
                    /\ \E j \in DisplacedAt : j >= i /\
                         \/ Len(results') = MaxResults \/ Len(terminals) = TerminalMax
                         \/ total' + results[j].size > MaxBytes
  BY DEF RoomStep
<1> DEFINE b == results[i].id
<1>1. /\ Sane(Now) /\ Now.results = results /\ Now.terminals = terminals
      /\ results \in Seq(ResultEntries) /\ Unique(results)
      /\ DOMAIN results = 1..Len(results) /\ Len(results) \in Nat
  BY NowSane
<1>2. i \in DOMAIN results /\ Displaced(b)
  <2>1. /\ i \in DOMAIN results /\ results[i].left > 0 /\ LiveIn(terminals, b)
        /\ b \notin Ids(results') \cup Ids(terminals')
    BY DEF DisplacedAt
  <2>2. results[i] \in Range(results)
    BY <2>1 DEF Range
  <2> QED
    BY <2>1, <2>2 DEF Displaced, LiveIn
<1>3. Justified(b)
  BY <1>2
<1>4. ASSUME NEW j \in 1..i - 1
      PROVE  results[j].id \notin Ids(Front(results'))
  <2>1. j \in DOMAIN results /\ j < i
    BY <1>1, <1>2
  <2>2. Before(results, results[j].id, b)
    BY <1>2, <2>1 DEF Before
  <2> QED
    BY <1>3, <2>2 DEF Justified
<1>5. PICK e \in Range(results) :
          /\ e.left > 0 /\ e.id \notin Ids(results') \cup Ids(terminals')
          /\ e.id = b \/ Before(results, b, e.id)
          /\ \/ Len(results') = MaxResults \/ Len(terminals) = TerminalMax
             \/ total' + e.size > MaxBytes
  BY <1>3 DEF Justified
<1>6. PICK j \in DOMAIN results : results[j] = e
  BY DEF Range
<1>7. LiveIn(terminals, e.id)
  BY <1>1, <1>5, LiveTerminal
<1>8. j \in DisplacedAt
  BY <1>5, <1>6, <1>7 DEF DisplacedAt
<1>9. j >= i
  <2>1. CASE e.id = b
    BY <1>1, <1>2, <1>6, <2>1 DEF Unique
  <2>2. CASE Before(results, b, e.id)
    <3>1. PICK m, n \in DOMAIN results : m < n /\ results[m].id = b /\ results[n].id = e.id
      BY <2>2 DEF Before
    <3>2. m = i /\ n = j
      BY <1>1, <1>2, <1>6, <3>1 DEF Unique
    <3> QED
      BY <1>1, <3>1, <3>2
  <2> QED
    BY <1>5, <2>1, <2>2
<1>10. \E k \in DisplacedAt : k >= i /\
          \/ Len(results') = MaxResults \/ Len(terminals) = TerminalMax
          \/ total' + results[k].size > MaxBytes
  BY <1>5, <1>6, <1>8, <1>9
<1> QED
  BY <1>4, <1>10

(* A prune alone displaces nothing, as there are never too many terminals.     *)
LEMMA PruneKeepsLive ==
    ASSUME Inv, NEW b, LiveIn(results, b), LiveIn(terminals, b)
    PROVE  b \in Ids(Prune(Now).terminals)
BY NowSane, PruneDisplaces

LEMMA PutTerminals ==
    ASSUME NEW h, Sane(h), NEW a \in Attempts, NEW size \in Sizes, size <= SingleMax,
           NEW left \in TTL..TTL + 1
    PROVE  /\ Range(Put(h, a, size, left).terminals) =
                 {t \in Range(h.terminals) : t.id \notin Evicted(h, a, size) /\ t.id # a}
                 \cup {Grant(a, left)}
           /\ Put(h, a, size, left).results = Append(Room(h, a, size), Latest(a, size))
           /\ Put(h, a, size, left).total = Bytes(Room(h, a, size)) + size
           /\ Ids(Put(h, a, size, left).results) = Ids(Room(h, a, size)) \cup {a}
           /\ Len(Put(h, a, size, left).results) = Len(Room(h, a, size)) + 1
           /\ Room(h, a, size) \in Seq(ResultEntries) /\ Latest(a, size) \in ResultEntries
           /\ \A b, c : Before(Room(h, a, size), b, c) =>
                           Before(Put(h, a, size, left).results, b, c)
           /\ Grant(a, left).id = a
           /\ Sub(Room(h, a, size), h.results)
           /\ \A e \in Range(Room(h, a, size)) : e.left > 0 /\ e.id # a
<1> DEFINE T == h.terminals
           V == Evicted(h, a, size)
           W == Without(T, V)
           K == Room(h, a, size)
           N == Append(K, Latest(a, size))
           g == Put(h, a, size, left)
<1>1. T \in Seq(TerminalEntries)
  BY DEF Sane, Histories
<1>2. /\ K \in Seq(ResultEntries) /\ Latest(a, size) \in ResultEntries
      /\ Sub(K, h.results) /\ Sub(K, Others(h, a))
      /\ Range(Others(h, a)) = {e \in Range(h.results) : e.left > 0 /\ e.id # a}
  BY AdmitParts
<1>3. /\ g.terminals = MoveToEnd(W, Grant(a, left)) /\ g.results = N
      /\ g.total = Bytes(K) + size
  <2>1. g = [terminals |-> MoveToEnd(W, Grant(a, left)), results |-> N,
             total |-> Bytes(K) + size]
    BY AdmitParts
  <2> HIDE DEF g
  <2> QED
    BY <2>1
<1>4. Grant(a, left) \in TerminalEntries /\ Grant(a, left).id = a /\ Latest(a, size).id = a
  BY StoresAssumption DEF Grant, TerminalEntries, Latest
<1>5. W \in Seq(TerminalEntries) /\ Range(W) = {t \in Range(T) : t.id \notin V}
  BY <1>1, WithoutHolds
<1> HIDE DEF W, K, V, g, T
<1>6. Range(g.terminals) = {t \in Range(W) : t.id # a} \cup {Grant(a, left)}
  BY <1>3, <1>4, <1>5, MoveHolds
<1>7. /\ Len(N) = Len(K) + 1 /\ Ids(N) = Ids(K) \cup {a}
      /\ \A b, c : Before(K, b, c) => Before(N, b, c)
  BY <1>2, <1>4, AppendHolds
<1>8. \A e \in Range(K) : e.left > 0 /\ e.id # a
  BY <1>2 DEF Sub
<1> QED
  BY <1>2, <1>3, <1>4, <1>5, <1>6, <1>7, <1>8 DEF K, V, g, T

LEMMA FailJustified ==
    ASSUME Inv, Fail, NEW b, Displaced(b)
    PROVE  Justified(b)
<1> DEFINE a == current.id
           h == Failed(Now, a)
<1>1. /\ Sane(Now) /\ Now.results = results /\ Now.terminals = terminals
      /\ Len(terminals) <= TerminalMax /\ Len(terminals) \in Nat /\ TerminalMax \in Nat
  BY NowSane
<1>2. a \in Attempts /\ a \notin Ids(terminals) /\ Advances(Prune(h)) /\ Becomes(Prune(h))
  BY FailAdvances
<1> HIDE DEF a
<1>3. /\ Sane(h) /\ h.results = results /\ Range(terminals) \subseteq Range(h.terminals)
      /\ Len(h.terminals) <= Len(terminals) + 1
  BY <1>1, <1>2, FailedSane
<1> HIDE DEF h
<1>4. LiveIn(h.results, b) /\ LiveIn(h.terminals, b) /\ b \notin Ids(terminals')
      /\ LiveIn(results, b) /\ b \notin Ids(results')
  BY <1>3 DEF Displaced, LiveIn
<1>5. /\ terminals' = Prune(h).terminals /\ results' = Prune(h).results
      /\ results' \in Seq(ResultEntries)
  BY <1>2 DEF Becomes, Advances, Sane, Histories
<1>6. /\ ~(Len(h.terminals) <= TerminalMax)
      /\ \A c : Before(results, c, b) => c \notin Ids(results')
  BY <1>3, <1>4, <1>5, PruneDisplaces
<1>7. Len(terminals) = TerminalMax
  <2>1. Len(h.terminals) \in Nat
    BY <1>3 DEF Sane, Histories
  <2> QED
    BY <1>1, <1>3, <1>6, <2>1
<1>8. \A c : Before(results, c, b) => c \notin Ids(Front(results'))
  BY <1>5, <1>6, FrontIds
<1>9. PICK e \in Range(results) : e.id = b /\ e.left > 0
  BY <1>4 DEF LiveIn
<1> QED
  BY <1>4, <1>7, <1>8, <1>9 DEF Justified

LEMMA CompleteJustified ==
    ASSUME Inv, NEW size \in Sizes, NEW late \in {0, 1}, Complete(size, late),
           NEW b, Displaced(b)
    PROVE  Justified(b)
<1> DEFINE a == current.id
           left == TTL + late
           h == Put(Now, a, size, left)
           K == Room(Now, a, size)
<1>1. /\ Sane(Now) /\ Now.results = results /\ Now.terminals = terminals
      /\ results \in Seq(ResultEntries) /\ Unique(results)
      /\ Len(terminals) <= TerminalMax /\ Len(terminals) \in Nat /\ TerminalMax \in Nat
      /\ TTL \in Nat \ {0}
  BY NowSane
<1>2. /\ a \in Attempts /\ a \notin Ids(terminals) /\ size <= SingleMax
      /\ left \in TTL..TTL + 1
  <2>1. current.stage = "rendered" /\ size <= SingleMax
    BY DEF Complete
  <2>2. /\ current \in [id : Attempts, stage : {"acquiring", "generating", "rendered"}]
        /\ current # NoCurrent
    BY <2>1 DEF Inv, RoleInv, NoCurrent
  <2> QED
    BY <1>1, <2>1, <2>2 DEF Inv, RoleInv
<1>3. Advances(Prune(h)) /\ Becomes(Prune(h))
  BY CompleteAdvances
<1> HIDE DEF a, left
<1>4. /\ Sane(h) /\ Len(h.terminals) <= Len(terminals) + 1
      /\ Evicted(Now, a, size) # {} => Len(h.terminals) <= Len(terminals)
      /\ \A e \in Range(h.results) :
            e = Latest(a, size) \/ (e \in Range(results) /\ e.id # a /\ e.left > 0)
  BY <1>1, <1>2, AdmitSane
<1>5. /\ Range(h.terminals) =
            {t \in Range(terminals) : t.id \notin Evicted(Now, a, size) /\ t.id # a}
            \cup {Grant(a, left)}
      /\ h.total = Bytes(K) + size
      /\ Ids(h.results) = Ids(K) \cup {a} /\ Len(h.results) = Len(K) + 1
      /\ \A d, c : Before(K, d, c) => Before(h.results, d, c)
      /\ Grant(a, left).id = a /\ Sub(K, results)
      /\ \A e \in Range(K) : e.left > 0 /\ e.id # a
      /\ h.results = Append(K, Latest(a, size)) /\ K \in Seq(ResultEntries)
      /\ Latest(a, size) \in ResultEntries
  BY <1>1, <1>2, PutTerminals
<1>6. Evicted(Now, a, size) = Ids(results) \ (Ids(K) \cup {a})
  BY <1>1 DEF Evicted
<1> HIDE DEF h, K
<1>7. /\ terminals' = Prune(h).terminals /\ results' = Prune(h).results
      /\ total' = Prune(h).total /\ results' \in Seq(ResultEntries)
  BY <1>3 DEF Becomes, Advances, Sane, Histories
<1>8. /\ Range(terminals') \subseteq Range(h.terminals)
      /\ Ids(results') \subseteq Ids(h.results)
      /\ Ids(Front(results')) \subseteq Ids(results')
  <2>1. /\ Range(terminals') \subseteq Range(h.terminals)
        /\ Range(results') \subseteq Range(h.results)
    BY <1>4, <1>7, PruneSane
  <2>2. Ids(results') \subseteq Ids(h.results)
    BY <2>1, IdsRange
  <2>3. Ids(Front(results')) \subseteq Ids(results')
    BY <1>7, FrontIds
  <2> QED
    BY <2>1, <2>2, <2>3
<1>9. Ids(results) \subseteq Ids(terminals)
  <2> SUFFICES ASSUME NEW c \in Ids(results)
               PROVE  c \in Ids(terminals)
    OBVIOUS
  <2>1. PICK e \in Range(results) : e.id = c
    BY IdsRange
  <2>2. PICK t \in Range(terminals) : t.id = c
    BY <1>1, <2>1 DEF Sane, Granted
  <2> QED
    BY <2>2, IdsRange
<1>10. a \notin Ids(results)
  BY <1>2, <1>9
<1>11. /\ LiveIn(results, b) /\ LiveIn(terminals, b) /\ b \notin Ids(results')
       /\ b \notin Ids(terminals') /\ b \in Ids(results) /\ b # a
  BY <1>10, IdsRange DEF Displaced, LiveIn
<1>12. \A c, d : Before(results, c, d) => c \in Ids(results) /\ c # a
  BY <1>10 DEF Before, Ids
<1>13. CASE b \notin Ids(K)
  <2>1. /\ \A c : Before(results, c, b) => c \notin Ids(K)
        /\ \E e \in Range(results) :
              /\ e.left > 0 /\ e.id # a /\ e.id \notin Ids(K)
              /\ e.id = b \/ Before(results, b, e.id)
              /\ Len(K) + 1 = MaxResults \/ Bytes(K) + size + e.size > MaxBytes
    BY <1>1, <1>2, <1>11, <1>13, AdmitDisplaces DEF K
  <2>2. \A c : Before(results, c, b) => c \notin Ids(Front(results'))
    BY <1>5, <1>8, <1>12, <2>1
  <2>3. PICK e \in Range(results) :
            /\ e.left > 0 /\ e.id # a /\ e.id \notin Ids(K)
            /\ e.id = b \/ Before(results, b, e.id)
            /\ Len(K) + 1 = MaxResults \/ Bytes(K) + size + e.size > MaxBytes
    BY <2>1
  <2>4. e.id \in Evicted(Now, a, size)
    BY <1>6, <2>3, IdsRange
  <2>5. e.id \notin Ids(terminals') /\ e.id \notin Ids(results')
    <3>1. \A t \in Range(h.terminals) : t.id # e.id
      BY <1>5, <2>3, <2>4
    <3> QED
      BY <1>5, <1>8, <2>3, <3>1, IdsRange
  <2>6. Len(h.terminals) <= TerminalMax
    <3>1. Len(h.terminals) \in Nat
      BY <1>4 DEF Sane, Histories
    <3> QED
      BY <1>1, <1>4, <2>4, <3>1
  <2>7. \A f \in Range(h.results) : f.left > 0
    <3>1. Latest(a, size).left > 0
      BY <1>1 DEF Latest
    <3> QED
      BY <1>4, <3>1
  <2>8. results' = h.results /\ total' = h.total
    BY <1>4, <1>7, <2>6, <2>7, PruneAll
  <2>9. Len(results') = MaxResults \/ total' + e.size > MaxBytes
    BY <1>5, <2>3, <2>8
  <2> QED
    BY <2>2, <2>3, <2>5, <2>9 DEF Justified
<1>14. CASE b \in Ids(K)
  <2>1. LiveIn(h.results, b)
    <3>1. PICK e \in Range(K) : e.id = b
      BY <1>14, IdsRange
    <3>2. Range(h.results) = Range(K) \cup {Latest(a, size)}
      BY <1>5, AppendHolds
    <3> QED
      BY <1>5, <3>1, <3>2 DEF LiveIn
  <2>2. LiveIn(h.terminals, b)
    <3>1. PICK t \in Range(terminals) : t.id = b /\ t.left > 0
      BY <1>11 DEF LiveIn
    <3>2. t \in Range(h.terminals)
      BY <1>5, <1>6, <1>11, <1>14, <3>1
    <3> QED
      BY <3>1, <3>2 DEF LiveIn
  <2>3. /\ ~(Len(h.terminals) <= TerminalMax)
        /\ \A c : Before(h.results, c, b) => c \notin Ids(results')
    BY <1>4, <1>7, <1>11, <2>1, <2>2, PruneDisplaces
  <2>4. Len(terminals) = TerminalMax
    <3>1. Len(h.terminals) \in Nat
      BY <1>4 DEF Sane, Histories
    <3> QED
      BY <1>1, <1>4, <2>3, <3>1
  <2>5. ASSUME NEW c, Before(results, c, b)
        PROVE  c \notin Ids(results')
    <3>1. CASE c \in Ids(K)
      <4>1. Before(K, c, b)
        BY <1>1, <1>5, <1>14, <2>5, <3>1 DEF Sub
      <4> QED
        BY <1>5, <2>3, <4>1
    <3>2. CASE c \notin Ids(K)
      BY <1>5, <1>8, <1>12, <2>5, <3>2
    <3> QED
      BY <3>1, <3>2
  <2>6. PICK e \in Range(results) : e.id = b /\ e.left > 0
    BY <1>11 DEF LiveIn
  <2> QED
    BY <1>8, <1>11, <2>4, <2>5, <2>6 DEF Justified
<1> QED
  BY <1>13, <1>14

LEMMA RenewJustified ==
    ASSUME Inv, NEW size \in Sizes, size <= SingleMax, NEW left \in TTL..TTL + 1,
           NEW a \in Attempts, Becomes(Put(Prune(Now), a, size, left)),
           NEW b, Displaced(b)
    PROVE  Justified(b)
<1> DEFINE h == Prune(Now)
           g == Put(h, a, size, left)
           K == Room(h, a, size)
<1>1. /\ Sane(Now) /\ Now.results = results /\ Now.terminals = terminals
      /\ results \in Seq(ResultEntries) /\ Unique(results) /\ Unique(terminals)
  BY NowSane
<1>2. /\ Sane(h) /\ Range(h.terminals) \subseteq Range(terminals)
      /\ Range(h.results) \subseteq Range(results)
      /\ \A e \in Range(h.results) : e.left > 0
  BY <1>1, PruneSane
<1>3. Sub(h.results, results)
  BY <1>1, PruneParts
<1>4. b \in Ids(h.terminals)
  BY PruneKeepsLive DEF Displaced
<1> HIDE DEF h
<1>5. /\ Range(g.terminals) =
            {t \in Range(h.terminals) : t.id \notin Evicted(h, a, size) /\ t.id # a}
            \cup {Grant(a, left)}
      /\ g.results = Append(K, Latest(a, size)) /\ g.total = Bytes(K) + size
      /\ Ids(g.results) = Ids(K) \cup {a} /\ Len(g.results) = Len(K) + 1
      /\ K \in Seq(ResultEntries) /\ Latest(a, size) \in ResultEntries
      /\ Grant(a, left).id = a /\ Sub(K, h.results)
  <2>1. Sane(h)
    BY <1>2
  <2>2. /\ Range(g.terminals) =
              {t \in Range(h.terminals) : t.id \notin Evicted(h, a, size) /\ t.id # a}
              \cup {Grant(a, left)}
        /\ g.results = Append(K, Latest(a, size)) /\ g.total = Bytes(K) + size
    BY <2>1, PutTerminals
  <2>3. /\ Ids(g.results) = Ids(K) \cup {a} /\ Len(g.results) = Len(K) + 1
        /\ K \in Seq(ResultEntries) /\ Latest(a, size) \in ResultEntries
        /\ Grant(a, left).id = a /\ Sub(K, h.results)
    BY <2>1, PutTerminals
  <2> QED
    BY <2>2, <2>3
<1>6. Evicted(h, a, size) = Ids(h.results) \ (Ids(K) \cup {a})
  BY DEF Evicted
<1>7. terminals' = g.terminals /\ results' = g.results /\ total' = g.total
  BY DEF Becomes, h
<1> HIDE DEF g, K
<1>8. /\ LiveIn(results, b) /\ LiveIn(terminals, b) /\ b \notin Ids(results')
      /\ b \notin Ids(terminals') /\ b # a /\ b \notin Ids(K)
  BY <1>5, <1>7 DEF Displaced
<1>9. LiveIn(h.results, b)
  <2>1. PICK e \in Range(results) : e.id = b /\ e.left > 0
    BY <1>8 DEF LiveIn
  <2>2. PICK t \in Range(terminals) : t.id = b /\ t.granted
    BY <1>1, <2>1 DEF Sane, Granted
  <2>3. PICK u \in Range(h.terminals) : u.id = b
    BY <1>4, IdsRange
  <2>4. u = t
    BY <1>1, <1>2, <2>2, <2>3, UniqueRange
  <2>5. b \in Ids(h.results)
    BY <1>2, <2>2, <2>3, <2>4 DEF Sane, Granted
  <2> QED
    BY <1>2, <2>5, IdsRange DEF LiveIn
<1>10. /\ \A c : Before(h.results, c, b) => c \notin Ids(K)
       /\ \E e \in Range(h.results) :
             /\ e.left > 0 /\ e.id # a /\ e.id \notin Ids(K)
             /\ e.id = b \/ Before(h.results, b, e.id)
             /\ Len(K) + 1 = MaxResults \/ Bytes(K) + size + e.size > MaxBytes
  BY <1>2, <1>8, <1>9, AdmitDisplaces DEF K
<1>11. Front(results') = K
  BY <1>5, <1>7, FrontIds
<1>12. ASSUME NEW c, Before(results, c, b), c \in Ids(K)
       PROVE  FALSE
  <2>1. c \in Ids(h.results) /\ b \in Ids(h.results)
    BY <1>5, <1>9, <1>12, IdsRange DEF Sub, LiveIn
  <2>2. Before(h.results, c, b)
    BY <1>1, <1>3, <1>12, <2>1 DEF Sub
  <2> QED
    BY <1>10, <1>12, <2>2
<1>13. PICK e \in Range(h.results) :
           /\ e.left > 0 /\ e.id # a /\ e.id \notin Ids(K)
           /\ e.id = b \/ Before(h.results, b, e.id)
           /\ Len(K) + 1 = MaxResults \/ Bytes(K) + size + e.size > MaxBytes
  BY <1>10
<1>14. e.id \notin Ids(results') \cup Ids(terminals')
  <2>1. e.id \in Evicted(h, a, size)
    BY <1>6, <1>13, IdsRange
  <2>2. \A t \in Range(g.terminals) : t.id # e.id
    BY <1>5, <1>13, <2>1
  <2> QED
    BY <1>5, <1>7, <1>13, <2>2, IdsRange
<1>15. e \in Range(results) /\ (e.id = b \/ Before(results, b, e.id))
  BY <1>2, <1>3, <1>13 DEF Sub
<1>16. Len(results') = MaxResults \/ total' + e.size > MaxBytes
  BY <1>5, <1>7, <1>13
<1>17. \A c : Before(results, c, b) => c \notin Ids(Front(results'))
  BY <1>11, <1>12
<1> QED
  BY <1>13, <1>14, <1>15, <1>16, <1>17 DEF Justified

LEMMA NextJustified ==
    ASSUME Inv, Next, NEW b, Displaced(b)
    PROVE  Justified(b)
<1>1. LiveIn(results, b) /\ LiveIn(terminals, b) /\ b \in Ids(results)
      /\ b \notin Ids(results') \cup Ids(terminals')
  BY IdsRange DEF Displaced, LiveIn
<1>2. b \in Ids(Prune(Now).terminals)
  BY <1>1, PruneKeepsLive
<1>3. ~(UNCHANGED history) /\ ~Becomes(Prune(Now)) /\ ~Becomes(Now)
  BY <1>1, <1>2 DEF Becomes, Now
<1>4. \A a \in Attempts : ~Start(a) /\ ~BeginAdjust(a)
  BY <1>3 DEF Start, BeginAdjust
<1>5. ~Photograph /\ ~Retain /\ ~ReadPhotograph /\ ~Fetch
  BY <1>3 DEF Photograph, Retain, ReadPhotograph, Fetch
<1>6. ASSUME NEW ids, Leave(ids)
      PROVE  FALSE
  <2>1. PICK h : Becomes(h) /\ Ids(h.terminals) = Ids(Prune(Now).terminals)
    BY <1>6, LeaveAdvances
  <2>2. terminals' = h.terminals
    BY <2>1 DEF Becomes
  <2> QED
    BY <1>1, <1>2, <2>1, <2>2
<1>7. ~Disconnect /\ \A a \in Attempts : ~RouteLeave(a)
  BY <1>6 DEF Disconnect, RouteLeave
<1>8. ~Tick
  <2> SUFFICES ASSUME Tick
               PROVE  FALSE
    OBVIOUS
  <2>1. results' = Aged(results)
    BY DEF Tick
  <2>2. \A e \in ResultEntries : OneLess(e) \in ResultEntries /\ OneLess(e).id = e.id
    BY StoresAssumption DEF ResultEntries, OneLess
  <2>3. Ids(results') = Ids(results)
    BY <2>1, <2>2, NowSane, AgedEntries
  <2> QED
    BY <1>1, <2>3
<1>9. CASE Fail
  BY <1>9, FailJustified
<1>10. ASSUME NEW size \in Sizes, NEW late \in {0, 1}, Complete(size, late)
       PROVE  Justified(b)
  BY <1>10, CompleteJustified
<1>11. ASSUME NEW size \in Sizes, NEW late \in {0, 1}, EndAdjust(size, late)
       PROVE  Justified(b)
  <2>1. PICK h : /\ Becomes(h)
                 /\ \/ h = Now \/ h = Prune(Now)
                    \/ /\ h = Put(Prune(Now), adjusting, size, TTL + late)
                       /\ size <= SingleMax /\ adjusting \in Attempts
    BY <1>11, EndAdjustAdvances
  <2>2. TTL + late \in TTL..TTL + 1
    BY NowSane
  <2>3. h = Put(Prune(Now), adjusting, size, TTL + late)
    BY <1>3, <2>1
  <2>4. Becomes(Put(Prune(Now), adjusting, size, TTL + late))
    BY <2>1, <2>3
  <2>5. size <= SingleMax /\ adjusting \in Attempts
    BY <1>3, <2>1
  <2> DEFINE left == TTL + late
  <2>6. left \in TTL..TTL + 1 /\ Becomes(Put(Prune(Now), adjusting, size, left))
    BY <2>2, <2>4
  <2> HIDE DEF left
  <2> QED
    BY <2>5, <2>6, RenewJustified
<1> QED
  BY <1>4, <1>5, <1>7, <1>8, <1>9, <1>10, <1>11 DEF Next

LEMMA RoomHolds == Inv /\ [Next]_vars => RoomStep
<1>1. ASSUME Inv, Next
      PROVE  RoomStep
  BY <1>1, NextJustified, JustifiedHolds
<1>2. ASSUME Inv, UNCHANGED vars
      PROVE  RoomStep
  <2>1. ASSUME NEW b, Displaced(b)
        PROVE  Justified(b)
    <3>1. results' = results
      BY <1>2
    <3> QED
      BY <2>1, <3>1, IdsRange DEF Displaced, LiveIn
  <2> QED
    BY <1>2, <2>1, JustifiedHolds
<1> QED
  BY <1>1, <1>2

(* The media of the attempt that runs.                                         *)
MediaStays ==
    /\ /\ current'.stage = "generating"
       /\ current.stage = "acquiring" \/ LiveIn(photographs, current.id)
       => current'.id \in Ids(photographs')
    /\ /\ current'.stage = "rendered"
       /\ current.stage = "generating" \/ LiveIn(snapshots, current.id)
       => current'.id \in Ids(snapshots')

LEMMA AliveIds ==
    ASSUME NEW s \in Seq(Timed), NEW a, LiveIn(s, a)
    PROVE  a \in Ids(Alive(s)) /\ a \in Ids(s)
BY AliveHolds, IdsRange DEF LiveIn

LEMMA MediaHolds == Inv /\ [Next]_vars => MediaStays
<1> SUFFICES ASSUME Inv, [Next]_vars
             PROVE  MediaStays
  OBVIOUS
<1>1. /\ MediaInv /\ photographs \in Seq(Timed) /\ Unique(photographs)
      /\ Len(photographs) <= MaxPhotographs /\ Len(photographs) \in Nat
      /\ snapshots \in Seq(Timed) /\ Unique(snapshots) /\ MaxPhotographs \in Nat \ {0}
      /\ current \in [id : Attempts, stage : {"acquiring", "generating", "rendered"}]
                    \cup {NoCurrent}
  BY StoresAssumption DEF Inv, MediaInv, RoleInv
<1> DEFINE Kept(s, t) == LiveIn(s, current.id) => current.id \in Ids(t)
<1>2. ASSUME current' = current, Kept(photographs, photographs'), Kept(snapshots, snapshots')
      PROVE  MediaStays
  BY <1>2 DEF MediaStays
<1>3. Kept(photographs, photographs) /\ Kept(snapshots, snapshots)
      /\ Kept(snapshots, Alive(snapshots)) /\ Kept(photographs, Alive(photographs))
  BY <1>1, AliveIds
<1>4. ASSUME current'.stage \notin {"generating", "rendered"}
      PROVE  MediaStays
  BY <1>4 DEF MediaStays
<1> HIDE DEF Kept
<1>5. CASE UNCHANGED vars
  BY <1>2, <1>3, <1>5
<1>6. ASSUME NEW a \in Attempts, Start(a)
      PROVE  MediaStays
  <2>1. current' = NoCurrent \/ current'.stage = "acquiring"
    BY <1>6 DEF Start
  <2> QED
    BY <1>4, <2>1 DEF NoCurrent
<1>7. CASE Photograph
  <2>1. /\ current.stage = "acquiring" /\ photographs' = Stored(current.id)
        /\ current' = [current EXCEPT !.stage = "generating"]
    BY <1>7 DEF Photograph
  <2>2. /\ current.id \in Attempts /\ current'.stage = "generating"
        /\ current'.id = current.id
    BY <1>1, <2>1 DEF NoCurrent
  <2>3. current'.id \in Ids(photographs')
    BY <1>1, <2>1, <2>2, StoredHolds
  <2> QED
    BY <2>2, <2>3 DEF MediaStays
<1>8. CASE Retain
  <2>1. /\ current.stage = "generating"
        /\ current' = [current EXCEPT !.stage = "rendered"]
    BY <1>8 DEF Retain
  <2>2. /\ current.id \in Attempts /\ current'.stage = "rendered"
        /\ current'.id = current.id
    BY <1>1, <2>1 DEF NoCurrent
  <2>3. current'.id \in Ids(snapshots')
    BY <1>1, <1>8, <2>2, RetainedHolds
  <2> QED
    BY <2>2, <2>3 DEF MediaStays
<1>9. ASSUME NEW size \in Sizes, NEW late \in {0, 1}, Complete(size, late)
      PROVE  MediaStays
  BY <1>4, <1>9 DEF Complete, NoCurrent
<1>10. CASE Fail
  BY <1>4, <1>10 DEF Fail, NoCurrent
<1>11. ASSUME NEW a \in Attempts, BeginAdjust(a)
       PROVE  MediaStays
  BY <1>2, <1>3, <1>11 DEF BeginAdjust, LookedUp
<1>12. ASSUME NEW size \in Sizes, NEW late \in {0, 1}, EndAdjust(size, late)
       PROVE  MediaStays
  BY <1>2, <1>3, <1>12 DEF EndAdjust
<1>13. CASE Fetch
  BY <1>2, <1>3, <1>13 DEF Fetch
<1>14. CASE ReadPhotograph
  <2> DEFINE r == Alive(photographs)
  <2>1. /\ photographs' = AtMost(r, MaxPhotographs) /\ UNCHANGED <<snapshots, current>>
    BY <1>14 DEF ReadPhotograph
  <2>2. r \in Seq(Timed) /\ Len(r) <= Len(photographs)
    BY <1>1, AliveHolds DEF Sub
  <2>3. Kept(photographs, r)
    BY <1>3
  <2> HIDE DEF r
  <2>4. Len(r) <= MaxPhotographs
    BY <1>1, <2>2
  <2>5. photographs' = r
    BY <1>1, <2>1, <2>2, <2>4, AtMostHolds
  <2> QED
    BY <1>2, <1>3, <2>1, <2>3, <2>5
<1>15. ASSUME NEW a \in Attempts, RouteLeave(a)
       PROVE  MediaStays
  <2>1. /\ photographs' = Without(photographs, {a}) /\ snapshots' = Without(snapshots, {a})
        /\ current' = current /\ current.id # a
    BY <1>15 DEF RouteLeave, Leave
  <2>2. Ids(photographs') = Ids(photographs) \ {a} /\ Ids(snapshots') = Ids(snapshots) \ {a}
    BY <1>1, <2>1, WithoutHolds
  <2>3. Kept(photographs, photographs') /\ Kept(snapshots, snapshots')
    BY <1>3, <2>1, <2>2 DEF Kept
  <2> QED
    BY <1>2, <2>1, <2>3
<1>16. CASE Disconnect
  <2>1. current' = current /\ current = NoCurrent
    BY <1>16 DEF Disconnect, Leave
  <2> QED
    BY <1>4, <2>1 DEF NoCurrent
<1>17. CASE Tick
  <2>1. /\ photographs' = Aged(photographs) /\ snapshots' = Aged(snapshots)
        /\ current' = current
    BY <1>17 DEF Tick
  <2>2. Ids(photographs') = Ids(photographs) /\ Ids(snapshots') = Ids(snapshots)
    BY <1>1, <2>1, AgedTimed
  <2>3. Kept(photographs, photographs') /\ Kept(snapshots, snapshots')
    BY <1>3, <2>2 DEF Kept
  <2> QED
    BY <1>2, <2>1, <2>3
<1> QED
  BY <1>5, <1>6, <1>7, <1>8, <1>9, <1>10, <1>11, <1>12, <1>13, <1>14, <1>15, <1>16, <1>17
  DEF Next

(* What a customer may still use only goes for a cause: a result makes room if *)
(* it is the oldest and the other does not fit beside it (_admit_unlocked), or *)
(* its terminal is the oldest beyond the bound (_prune_unlocked); the attempt  *)
(* that runs keeps its photograph and its source (CapturedFrameStore and       *)
(* TryOnAdjustmentStore, admit).                                               *)
THEOREM DisplacedForCauseHolds == Spec => DisplacedForCause
<1>1. Spec => []Inv
  BY InitInv, NextInv, PTL DEF Spec
<1>2. Spec => DisplacedForRoom
  BY <1>1, RoomHolds, PTL DEF Spec, DisplacedForRoom, RoomStep
<1>3. Spec => MediaOfCurrent
  BY <1>1, MediaHolds, PTL DEF Spec, MediaOfCurrent, MediaStays
<1> QED
  BY <1>2, <1>3 DEF DisplacedForCause
=============================================================================
