----------------------------- MODULE PoolProofs -----------------------------
(***************************************************************************)
(* Theorems about the pool of a tenant, plain or wrapped in health checks, *)
(* for any addresses, Endpoints objects, thresholds and cursor widths.     *)
(***************************************************************************)
EXTENDS TenantPool, FiniteSetTheorems, WellFoundedInduction, TLAPS

----------------------------------------------------------------------------
(* Induction: a set of numbers has a least element *)

\* The least element of a set of natural numbers.
LEMMA LeastNumber ==
  ASSUME NEW T, T \subseteq Nat, T # {}
  PROVE  \E n \in T : \A m \in T : n <= m
<1>1. \E x \in T : \A y \in T : ~(<<y, x>> \in OpToRel(<, Nat))
  BY NatLessThanWellFounded, WFMin, Zenon
<1>2. \A x, y \in Nat : x < y => <<x, y>> \in OpToRel(<, Nat)
  BY DEF OpToRel
<1>3. \E R : /\ \E x \in T : \A y \in T : ~(<<y, x>> \in R)
             /\ \A x, y \in Nat : x < y => <<x, y>> \in R
  BY <1>1, <1>2, Zenon
<1>4. PICK R : /\ \E x \in T : \A y \in T : ~(<<y, x>> \in R)
               /\ \A x, y \in Nat : x < y => <<x, y>> \in R
  BY <1>3, Zenon
<1>5. PICK x \in T : \A y \in T : ~(<<y, x>> \in R)
  BY <1>4, Zenon
<1>6. \A y \in T : x \in Nat /\ y \in Nat /\ ~(y < x)
  BY <1>4, <1>5, Zenon
<1>7. \A y \in T : x <= y
  BY <1>6
<1> QED BY <1>7, Zenon

\* A set that has 0, and with each number the next one up to n, has them all.
LEMMA UpTo ==
  ASSUME NEW n \in Nat, NEW H, 0 \in H,
         \A m \in 0 .. n : m < n /\ m \in H => m + 1 \in H
  PROVE  \A m \in 0 .. n : m \in H
<1> DEFINE T == {m \in 0 .. n : m \notin H}
<1>1. T \subseteq Nat
  OBVIOUS
<1>2. SUFFICES ASSUME T # {} PROVE FALSE
  BY Zenon
<1>3. PICK l \in T : \A m \in T : l <= m
  BY <1>1, <1>2, LeastNumber, Zenon
<1>4. l # 0 /\ l \in 0 .. n /\ l \notin H
  BY Zenon
<1>5. l - 1 \in 0 .. n /\ l - 1 < n /\ (l - 1) + 1 = l /\ ~(l <= l - 1)
  BY <1>4
<1>6. l - 1 \in H
  BY <1>3, <1>5, Zenon
<1> QED BY <1>4, <1>5, <1>6, Zenon

\* G gives each value of a recursive function from the one before.
Steps(G, n, S) == \A i \in 1 .. n, x \in S : G[<<i, x>>] \in S

\* f is the function that starts from e and goes up to n.
Recurs(f, G, n, e, S) ==
  \A i \in 0 .. n : f[i] \in S /\ f[i] = IF i = 0 THEN e ELSE G[<<i, f[i - 1]>>]

\* There is such a function.
LEMMA Recursion ==
  ASSUME NEW n \in Nat, NEW S, NEW e \in S, NEW G, Steps(G, n, S)
  PROVE  \E f : Recurs(f, G, n, e, S)
<1> DEFINE H == {m \in 0 .. n : \E f : Recurs(f, G, m, e, S)}
<1>1. 0 \in H
  <2>1. \A i \in 0 .. 0 : i = 0
    OBVIOUS
  <2>2. Recurs([i \in 0 .. 0 |-> e], G, 0, e, S)
    BY <2>1, Zenon DEF Recurs
  <2>3. 0 \in 0 .. n
    OBVIOUS
  <2> QED BY <2>2, <2>3, Zenon
<1>2. ASSUME NEW m \in 0 .. n, m < n, m \in H PROVE m + 1 \in H
  <2>1. PICK f : Recurs(f, G, m, e, S)
    BY <1>2, Zenon
  <2> DEFINE g == [i \in 0 .. m + 1 |-> IF i = m + 1 THEN G[<<m + 1, f[m]>>] ELSE f[i]]
  <2>2. ASSUME NEW i \in 0 .. m + 1
        PROVE  g[i] \in S /\ g[i] = IF i = 0 THEN e ELSE G[<<i, g[i - 1]>>]
    <3>1. CASE i = m + 1
      <4>1. /\ i # 0 /\ i - 1 = m /\ m # m + 1 /\ m \in 0 .. m + 1 /\ m \in 0 .. m
            /\ m + 1 \in 1 .. n
        BY <1>2, <3>1
      <4>2. g[i] = G[<<m + 1, f[m]>>] /\ g[i - 1] = f[m]
        BY <3>1, <4>1, Zenon
      <4>3. G[<<m + 1, f[m]>>] \in S
        BY <2>1, <4>1, Zenon DEF Recurs, Steps
      <4> QED BY <3>1, <4>1, <4>2, <4>3, Zenon
    <3>2. CASE i # m + 1
      <4>1. i \in 0 .. m /\ (i # 0 => i - 1 \in 0 .. m + 1 /\ i - 1 # m + 1)
        BY <3>2
      <4>2. f[i] \in S /\ f[i] = IF i = 0 THEN e ELSE G[<<i, f[i - 1]>>]
        BY <2>1, <4>1, Zenon DEF Recurs
      <4>3. g[i] = f[i] /\ (i # 0 => g[i - 1] = f[i - 1])
        BY <3>2, <4>1, Zenon
      <4> QED BY <4>2, <4>3, Zenon
    <3> QED BY <3>1, <3>2, Zenon
  <2>3. Recurs(g, G, m + 1, e, S)
    BY <2>2, Zenon DEF Recurs
  <2>4. m + 1 \in 0 .. n
    BY <1>2
  <2> QED BY <2>3, <2>4, Zenon
<1>3. \A m \in 0 .. n : m < n /\ m \in H => m + 1 \in H
  BY <1>2, Zenon
<1> HIDE DEF H
<1>4. n \in 0 .. n
  OBVIOUS
<1>5. n \in H
  BY <1>1, <1>3, <1>4, UpTo, Zenon
<1> QED BY <1>5, Zenon DEF H

----------------------------------------------------------------------------
(* extract_addresses *)

\* The equation of the list that the loop of extract_addresses builds.
Extracts(f, o, n) ==
  f = [i \in 0 .. n |->
        IF i = 0 THEN <<>>
        ELSE IF o[i].port_matches THEN f[i - 1] \o o[i].addresses ELSE f[i - 1]]

\* It has a solution for every number of subsets.
LEMMA ExtractExists ==
  ASSUME NEW o, NEW n \in Nat, \A i \in 1 .. n : o[i].addresses \in Seq(Address)
  PROVE  \E f : Extracts(f, o, n)
<1> DEFINE step(i, s) == IF o[i].port_matches THEN s \o o[i].addresses ELSE s
           G == [p \in (1 .. n) \X Seq(Address) |-> step(p[1], p[2])]
<1>1. ASSUME NEW i \in 1 .. n, NEW s \in Seq(Address)
      PROVE  step(i, s) \in Seq(Address) /\ G[<<i, s>>] = step(i, s)
  <2>1. o[i].addresses \in Seq(Address) /\ s \o o[i].addresses \in Seq(Address)
    OBVIOUS
  <2>2. <<i, s>> \in (1 .. n) \X Seq(Address) /\ <<i, s>>[1] = i /\ <<i, s>>[2] = s
    BY Zenon
  <2> QED BY <2>1, <2>2, Zenon
<1> HIDE DEF step, G
<1>2. Steps(G, n, Seq(Address)) /\ <<>> \in Seq(Address)
  BY <1>1 DEF Steps
<1> USE DEF step
<1>3. PICK f : Recurs(f, G, n, <<>>, Seq(Address))
  BY <1>2, Recursion, Zenon
<1>4. ASSUME NEW i \in 0 .. n
      PROVE  f[i] = IF i = 0 THEN <<>> ELSE step(i, f[i - 1])
  <2>1. i # 0 => i \in 1 .. n /\ i - 1 \in 0 .. n
    OBVIOUS
  <2> QED BY <1>1, <1>3, <2>1, Zenon DEF Recurs
<1> DEFINE g == [i \in 0 .. n |-> f[i]]
<1>5. ASSUME NEW i \in 0 .. n
      PROVE  g[i] = IF i = 0 THEN <<>> ELSE step(i, g[i - 1])
  <2>1. i # 0 => i - 1 \in 0 .. n
    OBVIOUS
  <2> QED BY <1>4, <2>1, Zenon
<1>6. Extracts(g, o, n)
  BY <1>5, Zenon DEF Extracts
<1> QED BY <1>6, Zenon

\* The elements of two sequences in a row.
LEMMA ConcatElements ==
  ASSUME NEW S, NEW s \in Seq(S), NEW t \in Seq(S)
  PROVE  s \o t \in Seq(S) /\ Range(s \o t) = Range(s) \cup Range(t)
<1>1. /\ s \o t \in Seq(S) /\ DOMAIN (s \o t) = 1 .. Len(s) + Len(t)
      /\ DOMAIN s = 1 .. Len(s) /\ DOMAIN t = 1 .. Len(t)
      /\ Len(s) \in Nat /\ Len(t) \in Nat
      /\ \A i \in 1 .. Len(s) : (s \o t)[i] = s[i]
      /\ \A i \in 1 .. Len(s) + Len(t) : i > Len(s) => (s \o t)[i] = t[i - Len(s)]
  OBVIOUS
<1>2. ASSUME NEW x \in Range(s \o t) PROVE x \in Range(s) \cup Range(t)
  <2>1. PICK i \in 1 .. Len(s) + Len(t) : x = (s \o t)[i]
    BY <1>1, <1>2, Zenon DEF Range
  <2>2. CASE i <= Len(s)
    <3>1. i \in 1 .. Len(s)
      BY <2>2, <1>1
    <3> QED BY <1>1, <2>1, <3>1, Zenon DEF Range
  <2>3. CASE i > Len(s)
    <3>1. i - Len(s) \in 1 .. Len(t)
      BY <2>3, <1>1
    <3> QED BY <1>1, <2>1, <2>3, <3>1, Zenon DEF Range
  <2>4. i <= Len(s) \/ i > Len(s)
    BY <1>1
  <2> QED BY <2>2, <2>3, <2>4, Zenon
<1>3. ASSUME NEW x \in Range(s) PROVE x \in Range(s \o t)
  <2>1. PICK i \in 1 .. Len(s) : x = s[i]
    BY <1>1, <1>3, Zenon DEF Range
  <2>2. i \in 1 .. Len(s) + Len(t)
    BY <1>1
  <2> QED BY <1>1, <2>1, <2>2, Zenon DEF Range
<1>4. ASSUME NEW x \in Range(t) PROVE x \in Range(s \o t)
  <2>1. PICK i \in 1 .. Len(t) : x = t[i]
    BY <1>1, <1>4, Zenon DEF Range
  <2>2. PICK j : j = i + Len(s)
    BY Zenon
  <2>3. j \in 1 .. Len(s) + Len(t) /\ j > Len(s) /\ j - Len(s) = i
    BY <1>1, <2>2
  <2> QED BY <1>1, <2>1, <2>3, Zenon DEF Range
<1> QED BY <1>1, <1>2, <1>3, <1>4, Zenon

\* The list that an Endpoints object gives: the ready pods behind the port.
LEMMA ExtractsReady ==
  ASSUME NEW o \in Objects
  PROVE  /\ extract_addresses(o) \in Seq(Address)
         /\ Range(extract_addresses(o)) =
              UNION {Range(o[i].addresses) : i \in {j \in DOMAIN o : o[j].port_matches}}
<1>1. PICK n \in Nat : n = Len(o) /\ DOMAIN o = 1 .. n /\ \A i \in 1 .. n : o[i] \in Subset
  <2>1. o \in Seq(Subset)
    BY PoolAssumption, Zenon
  <2> QED BY <2>1
<1>2. \A i \in 1 .. n : o[i].port_matches \in BOOLEAN /\ o[i].addresses \in Seq(Address)
  BY <1>1, Zenon DEF Subset
<1> DEFINE f == CHOOSE f : Extracts(f, o, n)
<1>3. Extracts(f, o, n)
  BY <1>2, ExtractExists, Zenon
<1>4. extract_addresses(o) = f[n]
  BY <1>1, Zenon DEF extract_addresses, Extracts
<1> HIDE DEF f
<1> DEFINE All(m) == UNION {Range(o[i].addresses) : i \in {j \in 1 .. m : o[j].port_matches}}
           H == {m \in Nat : f[m] \in Seq(Address) /\ Range(f[m]) = All(m)}
<1>5. 0 \in H
  <2>1. 0 \in 0 .. n /\ 0 \in Nat /\ <<>> \in Seq(Address) /\ Range(<<>>) = {} /\ 1 .. 0 = {}
    BY DEF Range
  <2>2. f[0] = <<>>
    BY <1>3, <2>1, Zenon DEF Extracts
  <2>3. All(0) = {}
    BY <2>1, Zenon
  <2> QED BY <2>1, <2>2, <2>3, Zenon
<1>6. ASSUME NEW m \in 0 .. n, m < n, m \in H PROVE m + 1 \in H
  <2>1. PICK l : l = m + 1
    BY Zenon
  <2>2. /\ l \in 0 .. n /\ l \in 1 .. n /\ l \in Nat /\ l # 0 /\ l - 1 = m
        /\ \A i : i \in 1 .. l <=> i \in 1 .. m \/ i = l
    BY <1>6, <2>1
  <2>3. f[l] = IF o[l].port_matches THEN f[m] \o o[l].addresses ELSE f[m]
    BY <1>3, <2>2, Zenon DEF Extracts
  <2>4. f[m] \in Seq(Address) /\ Range(f[m]) = All(m)
    BY <1>6, Zenon
  <2>5. CASE o[l].port_matches
    <3>1. All(l) = All(m) \cup Range(o[l].addresses)
      BY <2>2, <2>5, Zenon
    <3>2. /\ f[m] \o o[l].addresses \in Seq(Address)
          /\ Range(f[m] \o o[l].addresses) = Range(f[m]) \cup Range(o[l].addresses)
      <4> HIDE DEF All
      <4> QED BY <1>2, <2>2, <2>4, ConcatElements
    <3> QED BY <2>1, <2>2, <2>3, <2>4, <2>5, <3>1, <3>2, Zenon
  <2>6. CASE ~o[l].port_matches
    <3>1. All(l) = All(m)
      BY <2>2, <2>6, Zenon
    <3> QED BY <2>1, <2>2, <2>3, <2>4, <2>6, <3>1, Zenon
  <2> QED BY <2>5, <2>6, Zenon
<1>7. \A m \in 0 .. n : m < n /\ m \in H => m + 1 \in H
  BY <1>6, Zenon
<1>8. n \in H
  <2> HIDE DEF H
  <2>1. n \in 0 .. n
    OBVIOUS
  <2> QED BY <1>5, <1>7, <2>1, UpTo, Zenon
<1> QED BY <1>1, <1>4, <1>8, Zenon

----------------------------------------------------------------------------
(* Round robin *)

\* A multiple of n other than 0 is not closer to 0 than n.
LEMMA Multiple ==
  ASSUME NEW n \in Nat, NEW a \in Int, NEW b \in Int
  PROVE  n * a - n * b = n * (a - b) /\ (a - b >= 1 => n * (a - b) >= n)
OBVIOUS

\* The next number's remainder.
LEMMA NextRemainder ==
  ASSUME NEW c \in Nat, NEW n \in Nat \ {0}
  PROVE  /\ (c % n) \in 0 .. n - 1
         /\ ((c + 1) % n) = IF (c % n) = n - 1 THEN 0 ELSE (c % n) + 1
<1>1. PICK r : r = (c % n)
  BY Zenon
<1>2. PICK s : s = ((c + 1) % n)
  BY Zenon
<1>3. PICK a : a = (c \div n)
  BY Zenon
<1>4. PICK b : b = ((c + 1) \div n)
  BY Zenon
<1>5. r \in 0 .. n - 1 /\ a \in Nat /\ c = n * a + r
  BY <1>1, <1>3
<1>6. s \in 0 .. n - 1 /\ b \in Nat /\ c + 1 = n * b + s
  BY <1>2, <1>4
<1>7. n * b + s = n * a + r + 1
  BY <1>5, <1>6
<1>8. s = IF r = n - 1 THEN 0 ELSE r + 1
  <2>1. CASE b - a >= 1
    BY <1>5, <1>6, <1>7, <2>1, Multiple
  <2>2. CASE b = a
    BY <1>5, <1>6, <1>7, <2>2
  <2>3. CASE a - b >= 1
    BY <1>5, <1>6, <1>7, <2>3, Multiple
  <2> QED BY <1>5, <1>6, <2>1, <2>2, <2>3
<1> QED BY <1>1, <1>2, <1>5, <1>8

\* A cursor of m values wraps to 0, and only from the last of them.
LEMMA CursorStep ==
  ASSUME NEW m \in Nat \ {0}, NEW c \in 0 .. m - 1
  PROVE  /\ ((c + 1) % m) \in 0 .. m - 1
         /\ ((c + 1) % m) # 0 => ((c + 1) % m) = c + 1
<1>1. (c % m) = c
  <2>1. PICK r : r = (c % m)
    BY Zenon
  <2>2. PICK a : a = (c \div m)
    BY Zenon
  <2>3. r \in 0 .. m - 1 /\ a \in Nat /\ c = m * a + r
    BY <2>1, <2>2
  <2>4. a = 0
    <3>1. SUFFICES ASSUME a - 0 >= 1 PROVE FALSE
      BY <2>3
    <3>2. m * a - m * 0 = m * (a - 0) /\ m * (a - 0) >= m
      BY <2>3, <3>1, Multiple
    <3> QED BY <2>3, <3>2
  <2> QED BY <2>1, <2>3, <2>4
<1>2. PICK d : d = ((c + 1) % m)
  BY Zenon
<1>3. c \in Nat
  OBVIOUS
<1>4. d = IF c = m - 1 THEN 0 ELSE c + 1
  BY <1>1, <1>2, <1>3, NextRemainder, Zenon
<1>5. d \in 0 .. m - 1 /\ (d # 0 => d = c + 1)
  BY <1>4
<1> QED BY <1>2, <1>5, Zenon

\* How often a occurs in w.
Count(w, a) == Cardinality({i \in DOMAIN w : w[i] = a})

\* Each pick counts once, for the backend drawn.
LEMMA CountAppend ==
  ASSUME NEW w \in Seq(Address), NEW x \in Address, NEW a
  PROVE  /\ Count(w, a) \in Nat
         /\ Count(Append(w, x), a) = IF a = x THEN Count(w, a) + 1 ELSE Count(w, a)
<1>1. /\ Len(w) \in Nat /\ DOMAIN w = 1 .. Len(w)
      /\ DOMAIN Append(w, x) = 1 .. Len(w) + 1
      /\ Append(w, x)[Len(w) + 1] = x
      /\ \A i \in 1 .. Len(w) : Append(w, x)[i] = w[i]
      /\ Len(w) + 1 \notin 1 .. Len(w)
      /\ \A i : i \in 1 .. Len(w) + 1 <=> i \in 1 .. Len(w) \/ i = Len(w) + 1
  OBVIOUS
<1> DEFINE A == {i \in DOMAIN w : w[i] = a}
<1>2. IsFiniteSet(A)
  <2>1. IsFiniteSet(1 .. Len(w))
    BY <1>1, FS_Interval
  <2> QED BY <1>1, <2>1, FS_Subset
<1>3. Cardinality(A) \in Nat
  BY <1>2, FS_CardinalityType, Zenon
<1>4. {i \in DOMAIN Append(w, x) : Append(w, x)[i] = a} =
        IF a = x THEN A \cup {Len(w) + 1} ELSE A
  BY <1>1, Zenon
<1>5. Len(w) + 1 \notin A
  BY <1>1, Zenon
<1>6. Cardinality(A \cup {Len(w) + 1}) = Cardinality(A) + 1
  BY <1>2, <1>5, FS_AddElement
<1> QED BY <1>3, <1>4, <1>6, Zenon DEF Count

\* Nothing has been drawn yet.
LEMMA CountEmpty == ASSUME NEW a PROVE Count(<<>>, a) = 0
<1>1. {i \in DOMAIN <<>> : <<>>[i] = a} = {}
  OBVIOUS
<1> QED BY <1>1, FS_EmptySet, Zenon DEF Count


\* The picks w went round the list b, of n backends, as far as position r.
Spread(b, n, r, w) ==
  \E s \in 0 .. n - 1, k \in 0 .. Len(w) :
    \A p \in 1 .. n : Count(w, b[p]) = IF Passed(s, p - 1, r) THEN k + 1 ELSE k

\* Even, of a list, a cursor and the picks counted.
EvenAt(b, c, w) == IsInjective(b) /\ b # <<>> => Spread(b, Len(b), c % Len(b), w)

\* EvenAt is Even, before and after a step.
LEMMA EvenIs ==
  /\ Even <=> EvenAt(backends, cursor, window)
  /\ Even' <=> EvenAt(backends', cursor', window')
BY Zenon DEF Even, EvenAt, Spread, Times, Count

\* With no picks counted, any position of the cursor will do.
LEMMA EvenAfresh ==
  ASSUME NEW b \in Seq(Address), NEW c \in Nat
  PROVE  EvenAt(b, c, <<>>)
<1>1. SUFFICES ASSUME b # <<>> PROVE Spread(b, Len(b), c % Len(b), <<>>)
  BY Zenon DEF EvenAt
<1>2. PICK n \in Nat \ {0} : n = Len(b)
  BY <1>1
<1>3. PICK r \in 0 .. n - 1 : r = (c % n)
  BY NextRemainder, Zenon
<1>4. 0 \in 0 .. Len(<<>>)
  OBVIOUS
<1>5. \A p \in 1 .. n : ~Passed(r, p - 1, r)
  BY DEF Passed
<1>6. \A p \in 1 .. n : Count(<<>>, b[p]) = IF Passed(r, p - 1, r) THEN 0 + 1 ELSE 0
  BY <1>5, CountEmpty, Zenon
<1>7. Spread(b, n, r, <<>>)
  BY <1>4, <1>6, Zenon DEF Spread
<1> QED BY <1>2, <1>3, <1>7, Zenon

\* A pick draws the backend under the cursor and moves the cursor on.
LEMMA EvenStep ==
  ASSUME NEW b \in Seq(Address), b # <<>>, NEW c \in Nat, NEW w \in Seq(Address),
         EvenAt(b, c, w)
  PROVE  EvenAt(b, c + 1, Append(w, b[(c % Len(b)) + 1]))
<1>1. PICK n \in Nat \ {0} : n = Len(b)
  OBVIOUS
<1>2. PICK r \in 0 .. n - 1 : r = (c % n)
  BY NextRemainder, Zenon
<1>3. PICK q : q = ((c + 1) % n)
  BY Zenon
<1>4. q = IF r = n - 1 THEN 0 ELSE r + 1
  BY <1>2, <1>3, NextRemainder, Zenon
<1>5. PICK x : x = b[r + 1]
  BY Zenon
<1>6. r + 1 \in 1 .. n /\ x \in Address /\ DOMAIN b = 1 .. n
  BY <1>1, <1>5
<1>7. PICK v : v = Append(w, x)
  BY Zenon
<1>8. Len(v) = Len(w) + 1 /\ Len(w) \in Nat
  BY <1>6, <1>7
<1>9. SUFFICES ASSUME IsInjective(b) PROVE Spread(b, n, q, v)
  BY <1>1, <1>2, <1>3, <1>5, <1>7, Zenon DEF EvenAt
<1>10. PICK s \in 0 .. n - 1, k \in 0 .. Len(w) :
         \A p \in 1 .. n : Count(w, b[p]) = IF Passed(s, p - 1, r) THEN k + 1 ELSE k
  <2>1. Spread(b, n, r, w)
    BY <1>1, <1>2, <1>9, Zenon DEF EvenAt
  <2> QED BY <2>1, Zenon DEF Spread
<1>11. \A p \in 1 .. n : b[p] = x <=> p = r + 1
  <2> TAKE p \in 1 .. n
  <2>1. b[p] = b[r + 1] => p = r + 1
    BY <1>6, <1>9, Zenon DEF IsInjective
  <2> QED BY <1>5, <2>1, Zenon
<1>12. \A p \in 1 .. n : Count(v, b[p]) = IF p = r + 1 THEN Count(w, b[p]) + 1 ELSE Count(w, b[p])
  <2> TAKE p \in 1 .. n
  <2>1. Count(Append(w, x), b[p]) = IF b[p] = x THEN Count(w, b[p]) + 1 ELSE Count(w, b[p])
    BY <1>6, CountAppend, Zenon
  <2> QED BY <1>7, <1>11, <2>1, Zenon
<1>13. \A p \in 1 .. n :
         /\ q # s => (Passed(s, p - 1, q) <=> Passed(s, p - 1, r) \/ p = r + 1)
         /\ q = s => ~Passed(s, p - 1, q) /\ (Passed(s, p - 1, r) \/ p = r + 1)
         /\ p = r + 1 => ~Passed(s, p - 1, r)
  <2> TAKE p \in 1 .. n
  <2> QED BY <1>4 DEF Passed
<1>14. k \in 0 .. Len(v) /\ k + 1 \in 0 .. Len(v)
  BY <1>8
<1>15. CASE q # s
  <2>1. \A p \in 1 .. n : Count(v, b[p]) = IF Passed(s, p - 1, q) THEN k + 1 ELSE k
    <3> TAKE p \in 1 .. n
    <3>1. Count(w, b[p]) = IF Passed(s, p - 1, r) THEN k + 1 ELSE k
      BY <1>10, Zenon
    <3> QED BY <1>12, <1>13, <1>15, <3>1, Zenon
  <2> QED BY <1>14, <2>1, Zenon DEF Spread
<1>16. CASE q = s
  <2>1. \A p \in 1 .. n : Count(v, b[p]) = IF Passed(s, p - 1, q) THEN (k + 1) + 1 ELSE k + 1
    <3> TAKE p \in 1 .. n
    <3>1. Count(w, b[p]) = IF Passed(s, p - 1, r) THEN k + 1 ELSE k
      BY <1>10, Zenon
    <3> QED BY <1>12, <1>13, <1>16, <3>1, Zenon
  <2> QED BY <1>14, <2>1, Zenon DEF Spread
<1> QED BY <1>15, <1>16, Zenon

\* No backend is drawn twice more often than another.
LEMMA EvenIsFair ==
  ASSUME PoolTypeOK, Even
  PROVE  RoundRobinEven
<1>1. SUFFICES ASSUME IsInjective(backends), NEW a \in Range(backends), NEW b \in Range(backends)
               PROVE  Times(a) <= Times(b) + 1
  BY Zenon DEF RoundRobinEven
<1>2. DOMAIN backends = 1 .. Len(backends) /\ Len(window) \in Nat
  BY DEF PoolTypeOK
<1>3. PICK i \in 1 .. Len(backends), j \in 1 .. Len(backends) : a = backends[i] /\ b = backends[j]
  BY <1>1, <1>2, Zenon DEF Range
<1>4. backends # <<>>
  BY <1>3
<1>5. PICK k \in 0 .. Len(window) : Times(a) \in {k, k + 1} /\ Times(b) \in {k, k + 1}
  BY <1>1, <1>3, <1>4, Zenon DEF Even
<1> QED BY <1>2, <1>5

----------------------------------------------------------------------------
(* The steps of the cluster, the watcher and the pool *)

\* What the events carry.
LEMMA EventShape ==
  ASSUME NEW e \in Event
  PROVE  /\ e.type \in {"Init", "InitDone", "Delete", "Err", "Apply", "InitApply"}
         /\ e.type \in {"Apply", "InitApply"} => e.object \in Objects
BY Zenon DEF Event

\* The list is b now, and picks are counted anew if it was another one.
LEMMA SetBackends ==
  ASSUME PoolTypeOK, Even, NEW b \in Seq(Address), set_backends(b)
  PROVE  /\ backends' = b
         /\ pending' \in Nat \cup {None} /\ window' \in Seq(Address)
         /\ UNCHANGED <<gauge, cursor>>
         /\ Even'
<1>1. cursor \in Nat
  <2>1. PICK m \in Nat : m = 2 ^ CursorBits
    BY PoolAssumption, Zenon
  <2>2. cursor \in 0 .. m - 1
    BY <2>1, Zenon DEF PoolTypeOK
  <2> QED BY <2>2
<1>2. CASE backends = b
  BY <1>2, EvenIs, Zenon DEF set_backends, poolVars, pickVars, PoolTypeOK
<1>3. CASE backends # b
  <2>1. /\ backends' = b /\ window' = <<>> /\ pending' = Len(b)
        /\ UNCHANGED <<gauge, cursor>>
    BY <1>3, Zenon DEF set_backends
  <2>2. Len(b) \in Nat /\ <<>> \in Seq(Address)
    OBVIOUS
  <2>3. EvenAt(b, cursor, <<>>)
    BY <1>1, EvenAfresh, Zenon
  <2> QED BY <2>1, <2>2, <2>3, EvenIs, Zenon
<1> QED BY <1>2, <1>3, Zenon

\* The cluster changes only what the watcher has still to see.
LEMMA ClusterType ==
  ASSUME PoolTypeOK, \/ \E o \in Objects \cup {None} : ObjectChange(o)
                     \/ Desync \/ Relist
  PROVE  PoolTypeOK' /\ UNCHANGED <<poolVars, pickVars>>
<1>1. UNCHANGED <<poolVars, pickVars, discovery>>
  BY Zenon DEF ObjectChange, Desync, Relist
<1>2. object' \in Objects \cup {None} /\ watching' \in BOOLEAN
  BY Zenon DEF ObjectChange, Desync, Relist, PoolTypeOK
<1>3. changes' \in 0 .. MaxChanges
  <2>1. changes' = changes \/ (changes < MaxChanges /\ changes' = changes + 1)
    BY Zenon DEF ObjectChange, Desync, Relist, Mishap
  <2> QED BY <2>1, PoolAssumption DEF PoolTypeOK
<1>4. events' \in Seq(Event)
  <2>1. /\ [type |-> "Delete"] \in Event /\ [type |-> "Err"] \in Event
        /\ [type |-> "Init"] \in Event /\ [type |-> "InitDone"] \in Event
        /\ \A o \in Objects : /\ [type |-> "Apply", object |-> o] \in Event
                              /\ [type |-> "InitApply", object |-> o] \in Event
    BY DEF Event
  <2>2. events \in Seq(Event) /\ object \in Objects \cup {None}
    BY Zenon DEF PoolTypeOK
  <2>3. CASE \E e \in Event : events' = Append(events, e)
    BY <2>2, <2>3
  <2>4. CASE Relist /\ object = None
    BY <2>1, <2>2, <2>4 DEF Relist
  <2>5. CASE Relist /\ object # None
    <3>1. PICK a \in Event, b \in Event, c \in Event :
            events' = events \o <<a>> \o <<b>> \o <<c>>
      BY <2>1, <2>2, <2>5, Zenon DEF Relist
    <3> QED BY <2>2, <3>1
  <2> QED BY <2>1, <2>2, <2>3, <2>4, <2>5, Zenon DEF ObjectChange, Desync
<1> QED BY <1>1, <1>2, <1>3, <1>4, Zenon DEF PoolTypeOK, poolVars, pickVars

\* A change of the object is the last event; a relist brings the object.
LEMMA ClusterInStep ==
  ASSUME PoolTypeOK, InStep, \/ \E o \in Objects \cup {None} : ObjectChange(o)
                             \/ Desync \/ Relist
  PROVE  InStep'
<1>0. events \in Seq(Event) /\ Len(events) \in Nat
  BY DEF PoolTypeOK
<1>1. SUFFICES ASSUME watching', object' # None
               PROVE  \E m \in 1 .. Len(events') :
                        /\ events'[m].type \in {"Apply", "InitApply"}
                        /\ events'[m].object = object'
                        /\ \A j \in m + 1 .. Len(events') :
                             events'[j].type \notin {"Apply", "InitApply", "Delete"}
  <2>1. SUFFICES ASSUME watching', object' # None
                 PROVE  /\ \A i \in 1 .. Len(events') :
                             /\ Replaces(i)'
                             /\ \A j \in i + 1 .. Len(events') : ~Replaces(j)'
                             => events'[i].type # "Delete" /\ events'[i].object = object'
                        /\ \E i \in 1 .. Len(events') : Replaces(i)'
    BY Zenon DEF InStep
  <2>2. PICK m \in 1 .. Len(events') :
                        /\ events'[m].type \in {"Apply", "InitApply"}
                        /\ events'[m].object = object'
                        /\ \A j \in m + 1 .. Len(events') :
                             events'[j].type \notin {"Apply", "InitApply", "Delete"}
    BY <1>1, <2>1, Zenon
  <2>3. \A i \in 1 .. Len(events') : i = m \/ i \in m + 1 .. Len(events') \/ m \in i + 1 .. Len(events')
    OBVIOUS
  <2> QED BY <2>2, <2>3, Zenon DEF Replaces
<1>2. CASE \E o \in Objects \cup {None} : ObjectChange(o)
  <2>1. events' = Append(events, [type |-> "Apply", object |-> object'])
    BY <1>1, <1>2, Zenon DEF ObjectChange
  <2>2. Len(events') = Len(events) + 1 /\ events'[Len(events) + 1] = [type |-> "Apply", object |-> object']
    BY <1>0, <2>1
  <2>3. Len(events) + 1 \in 1 .. Len(events') /\ (Len(events) + 1) + 1 .. Len(events') = {}
    BY <1>0, <2>2
  <2>4. /\ events'[Len(events) + 1].type = "Apply"
        /\ events'[Len(events) + 1].object = object'
    BY <2>2
  <2> QED BY <2>3, <2>4, Zenon
<1>3. CASE Desync
  BY <1>1, <1>3, Zenon DEF Desync
<1>4. CASE Relist
  <2>1. /\ object' = object
        /\ events' = events \o <<[type |-> "Init"]>>
                      \o <<[type |-> "InitApply", object |-> object]>>
                      \o <<[type |-> "InitDone"]>>
    BY <1>1, <1>4, Zenon DEF Relist
  <2>2. /\ Len(events') = Len(events) + 3
        /\ events'[Len(events) + 2] = [type |-> "InitApply", object |-> object]
        /\ events'[Len(events) + 3] = [type |-> "InitDone"]
    BY <1>0, <2>1
  <2>3. Len(events) + 2 \in 1 .. Len(events')
        /\ \A j \in (Len(events) + 2) + 1 .. Len(events') : j = Len(events) + 3
    BY <1>0, <2>2
  <2>4. /\ events'[Len(events) + 2].type = "InitApply"
        /\ events'[Len(events) + 2].object = object'
        /\ events'[Len(events) + 3].type = "InitDone"
    BY <2>1, <2>2
  <2> QED BY <2>3, <2>4, Zenon
<1> QED BY <1>2, <1>3, <1>4, Zenon

\* The watcher applies the event at the head of its stream.
LEMMA WatcherApplies ==
  ASSUME PoolTypeOK, Even, watcher_step
  PROVE  LET e == Head(events)
         IN /\ events # <<>> /\ events' = Tail(events) /\ UNCHANGED clusterVars
            /\ PoolTypeOK' /\ Even'
            /\ e.type \in {"Apply", "InitApply"} => backends' = extract_addresses(e.object)
            /\ e.type \notin {"Apply", "InitApply", "Delete"} => backends' = backends
<1>1. PICK e : e = Head(events)
  BY Zenon
<1>2. /\ events # <<>> /\ events' = Tail(events) /\ UNCHANGED clusterVars
      /\ CASE e.type \in {"Apply", "InitApply"} -> set_backends(extract_addresses(e.object))
           [] e.type = "Delete" -> set_backends(<<>>)
           [] e.type \in {"Init", "InitDone", "Err"} -> UNCHANGED <<poolVars, pickVars>>
  BY <1>1, Zenon DEF watcher_step
<1>3. e \in Event /\ events' \in Seq(Event)
  BY <1>1, <1>2 DEF PoolTypeOK
<1>4. ASSUME NEW b \in Seq(Address), set_backends(b)
      PROVE  PoolTypeOK' /\ Even' /\ backends' = b
  BY <1>2, <1>3, <1>4, SetBackends, Zenon DEF PoolTypeOK, clusterVars
<1>5. CASE e.type \in {"Apply", "InitApply"}
  <2>1. extract_addresses(e.object) \in Seq(Address)
    BY <1>3, <1>5, EventShape, ExtractsReady, Zenon
  <2>2. set_backends(extract_addresses(e.object))
    BY <1>2, <1>5, Zenon
  <2> QED BY <1>1, <1>2, <1>4, <1>5, <2>1, <2>2, Zenon
<1>6. CASE e.type = "Delete"
  <2>1. set_backends(<<>>) /\ <<>> \in Seq(Address)
    BY <1>2, <1>6
  <2> QED BY <1>1, <1>2, <1>4, <1>6, <2>1, Zenon
<1>7. CASE e.type \in {"Init", "InitDone", "Err"}
  <2>1. UNCHANGED <<poolVars, pickVars>>
    BY <1>2, <1>7, Zenon
  <2>2. PoolTypeOK' /\ Even'
    BY <1>2, <1>3, <2>1, EvenIs, Zenon DEF PoolTypeOK, clusterVars, poolVars, pickVars
  <2> QED BY <1>1, <1>2, <1>7, <2>1, <2>2, Zenon DEF poolVars
<1> QED BY <1>3, <1>5, <1>6, <1>7, EventShape, Zenon

\* Once no later event replaces the list, it is what the last one brought.
LEMMA WatcherInStep ==
  ASSUME PoolTypeOK, Even, InStep, watcher_step
  PROVE  InStep'
<1>1. /\ events # <<>> /\ events' = Tail(events) /\ object' = object /\ watching' = watching
      /\ Head(events).type \in {"Apply", "InitApply"} =>
           backends' = extract_addresses(Head(events).object)
      /\ Head(events).type \notin {"Apply", "InitApply", "Delete"} => backends' = backends
  BY WatcherApplies, Zenon DEF clusterVars
<1>2. PICK n \in Nat : n = Len(events)
  BY DEF PoolTypeOK
<1>3. /\ n # 0 /\ Head(events) = events[1] /\ Len(events') = n - 1
      /\ \A i \in 1 .. n - 1 : events'[i] = events[i + 1]
  BY <1>1, <1>2 DEF PoolTypeOK
<1>4. SUFFICES ASSUME watching, object # None
               PROVE  /\ \A i \in 1 .. n - 1 :
                           /\ Replaces(i)'
                           /\ \A j \in i + 1 .. n - 1 : ~Replaces(j)'
                           => events'[i].type # "Delete" /\ events'[i].object = object
                      /\ (\A i \in 1 .. n - 1 : ~Replaces(i)') =>
                           backends' = extract_addresses(object)
  BY <1>1, <1>3, Zenon DEF InStep
<1>5. /\ \A i \in 1 .. n :
           Replaces(i) /\ (\A j \in i + 1 .. n : ~Replaces(j)) =>
             events[i].type # "Delete" /\ events[i].object = object
      /\ (\A i \in 1 .. n : ~Replaces(i)) => backends = extract_addresses(object)
  BY <1>2, <1>4, Zenon DEF InStep
<1>6. \A i \in 1 .. n - 1 : i + 1 \in 1 .. n /\ (Replaces(i)' <=> Replaces(i + 1))
  BY <1>3 DEF Replaces
<1>7. ASSUME NEW i \in 1 .. n - 1, Replaces(i)', \A j \in i + 1 .. n - 1 : ~Replaces(j)'
      PROVE  events'[i].type # "Delete" /\ events'[i].object = object
  <2>1. ASSUME NEW j \in (i + 1) + 1 .. n PROVE ~Replaces(j)
    <3>1. PICK l : l = j - 1
      BY Zenon
    <3>2. l \in i + 1 .. n - 1 /\ l \in 1 .. n - 1 /\ l + 1 = j
      BY <3>1
    <3> QED BY <1>6, <1>7, <3>2, Zenon
  <2> QED BY <1>3, <1>5, <1>6, <1>7, <2>1, Zenon
<1>8. ASSUME \A i \in 1 .. n - 1 : ~Replaces(i)'
      PROVE  backends' = extract_addresses(object)
  <2>1. ASSUME NEW j \in 2 .. n PROVE ~Replaces(j)
    <3>1. PICK l : l = j - 1
      BY Zenon
    <3>2. l \in 1 .. n - 1 /\ l + 1 = j
      BY <3>1
    <3> QED BY <1>6, <1>8, <3>2, Zenon
  <2>2. 1 \in 1 .. n /\ 1 + 1 = 2 /\ \A i \in 1 .. n : i = 1 \/ i \in 2 .. n
    BY <1>3
  <2>3. CASE Replaces(1)
    <3>1. events[1].type # "Delete" /\ events[1].object = object
      BY <1>5, <2>1, <2>2, <2>3, Zenon
    <3> QED BY <1>1, <1>3, <2>3, <3>1, Zenon DEF Replaces
  <2>4. CASE ~Replaces(1)
    <3>1. backends = extract_addresses(object)
      BY <1>5, <2>1, <2>2, <2>4, Zenon
    <3> QED BY <1>1, <1>3, <2>4, <3>1, Zenon DEF Replaces
  <2> QED BY <2>3, <2>4, Zenon
<1> QED BY <1>7, <1>8, Zenon

\* A pick moves the cursor; the list and the watch stay as they are.
LEMMA PickKeeps ==
  ASSUME PoolInv, pick
  PROVE  PoolInv'
<1>1. /\ UNCHANGED <<clusterVars, events, poolVars>> /\ backends # <<>>
      /\ cursor' = ((cursor + 1) % (2 ^ CursorBits))
      /\ window' = IF cursor' = 0 THEN <<>>
                   ELSE Append(window, backends[(cursor % Len(backends)) + 1])
  BY Zenon DEF pick
<1>2. PICK m \in Nat \ {0} : m = 2 ^ CursorBits
  BY PoolAssumption, Zenon
<1>3. /\ cursor \in 0 .. m - 1 /\ backends \in Seq(Address) /\ window \in Seq(Address)
      /\ cursor' = ((cursor + 1) % m)
  BY <1>1, <1>2, Zenon DEF PoolInv, PoolTypeOK
<1>4. cursor' \in 0 .. m - 1 /\ (cursor' # 0 => cursor' = cursor + 1)
  BY <1>3, CursorStep, Zenon
<1>5. cursor \in Nat /\ 0 \in Nat
  BY <1>3
<1>6. window' \in Seq(Address) /\ EvenAt(backends, cursor', window')
  <2>1. CASE cursor' = 0
    <3>1. window' = <<>> /\ <<>> \in Seq(Address)
      BY <1>1, <2>1
    <3> QED BY <1>3, <1>5, <2>1, <3>1, EvenAfresh, Zenon
  <2>2. CASE cursor' # 0
    <3>1. PICK x : x = backends[(cursor % Len(backends)) + 1]
      BY Zenon
    <3>2. x \in Address
      <4>1. PICK n \in Nat \ {0} : n = Len(backends)
        BY <1>1, <1>3
      <4>2. PICK r \in 0 .. n - 1 : r = (cursor % n)
        BY <1>5, NextRemainder, Zenon
      <4>3. x = backends[r + 1]
        BY <3>1, <4>1, <4>2, Zenon
      <4> QED BY <1>3, <4>1, <4>3
    <3>3. window' = Append(window, x)
      BY <1>1, <2>2, <3>1, Zenon
    <3>4. EvenAt(backends, cursor, window)
      BY EvenIs, Zenon DEF PoolInv
    <3>5. EvenAt(backends, cursor + 1, Append(window, x))
      BY <1>1, <1>3, <1>5, <3>1, <3>4, EvenStep, Zenon
    <3>6. Append(window, x) \in Seq(Address)
      BY <1>3, <3>2
    <3> QED BY <1>4, <2>2, <3>3, <3>5, <3>6, Zenon
  <2> QED BY <2>1, <2>2, Zenon
<1>7. PoolTypeOK'
  BY <1>1, <1>2, <1>4, <1>6, Zenon DEF PoolInv, PoolTypeOK, clusterVars, poolVars
<1>8. Even'
  BY <1>1, <1>6, EvenIs, Zenon DEF poolVars
<1>9. InStep'
  BY <1>1, Zenon DEF PoolInv, InStep, Replaces, clusterVars, poolVars
<1> QED BY <1>7, <1>8, <1>9, Zenon DEF PoolInv

\* The cluster, the watcher and the observer.
LEMMA MembershipKeeps ==
  ASSUME PoolInv, Membership
  PROVE  PoolInv'
<1>1. CASE (\E o \in Objects \cup {None} : ObjectChange(o)) \/ Desync \/ Relist
  <2>1. PoolTypeOK' /\ UNCHANGED <<poolVars, pickVars>> /\ InStep'
    BY <1>1, ClusterType, ClusterInStep, Zenon DEF PoolInv
  <2>2. Even'
    BY <2>1, EvenIs, Zenon DEF PoolInv, poolVars, pickVars
  <2> QED BY <2>1, <2>2, Zenon DEF PoolInv
<1>2. CASE watcher_step
  BY <1>2, WatcherApplies, WatcherInStep, Zenon DEF PoolInv
<1>3. CASE observe
  <2>1. UNCHANGED <<clusterVars, events, backends, pickVars>>
    BY <1>3, Zenon DEF observe
  <2>2. PoolTypeOK'
    BY <1>3, <2>1, Zenon DEF observe, PoolInv, PoolTypeOK, clusterVars, pickVars
  <2>3. Even' /\ InStep'
    BY <2>1, EvenIs, Zenon DEF PoolInv, InStep, Replaces, clusterVars, pickVars
  <2> QED BY <2>2, <2>3, Zenon DEF PoolInv
<1> QED BY <1>1, <1>2, <1>3, Zenon DEF Membership

\* A step that leaves the pool alone.
LEMMA PoolUnchanged ==
  ASSUME PoolInv, UNCHANGED bpVars
  PROVE  PoolInv'
<1>1. UNCHANGED <<clusterVars, events, poolVars, pickVars>>
  BY Zenon DEF bpVars
<1>2. PoolTypeOK'
  BY <1>1, Zenon DEF PoolInv, PoolTypeOK, clusterVars, poolVars, pickVars
<1>3. Even' /\ InStep'
  BY <1>1, EvenIs, Zenon DEF PoolInv, InStep, Replaces, clusterVars, poolVars, pickVars
<1> QED BY <1>2, <1>3, Zenon DEF PoolInv

\* Both kinds of pool start in step, a watched one with an empty list.
LEMMA PoolInitInv ==
  ASSUME PoolInit
  PROVE  PoolInv
<1>1. /\ <<>> \in Seq(Event) /\ <<>> \in Seq(Address) /\ Len(<<>>) = 0 /\ 0 \in Nat
      /\ 0 \in 0 .. MaxChanges
  BY PoolAssumption
<1>2. PICK m \in Nat \ {0} : m = 2 ^ CursorBits
  BY PoolAssumption, Zenon
<1>3. 0 \in 0 .. m - 1
  OBVIOUS
<1>4. backends \in Seq(Address)
  BY <1>1, PoolAssumption, Zenon DEF PoolInit
<1>5. Len(backends) \in Nat
  BY <1>4
<1>6. PoolTypeOK
  BY <1>1, <1>2, <1>3, <1>4, <1>5, Zenon DEF PoolInit, PoolTypeOK
<1>7. Even
  BY <1>1, <1>4, EvenAfresh, EvenIs, Zenon DEF PoolInit
<1>8. InStep
  BY Zenon DEF PoolInit, InStep
<1> QED BY <1>6, <1>7, <1>8, Zenon DEF PoolInv

\* Every step of a pool.
LEMMA PoolNextInv ==
  ASSUME PoolInv, [PoolNext]_bpVars
  PROVE  PoolInv'
BY MembershipKeeps, PickKeeps, PoolUnchanged, Zenon DEF PoolNext, pick_none

----------------------------------------------------------------------------
(* healthy_snapshot *)

\* The equation of the list that healthy_snapshot filters.
Filters(f, n) ==
  f = [i \in 0 .. n |->
        IF i = 0 THEN <<>>
        ELSE IF healthy(backends[i]) THEN Append(f[i - 1], backends[i]) ELSE f[i - 1]]

\* It has a solution for every number of backends.
LEMMA FilterExists ==
  ASSUME NEW n \in Nat, \A i \in 1 .. n : backends[i] \in Address
  PROVE  \E f : Filters(f, n)
<1> DEFINE step(i, s) == IF healthy(backends[i]) THEN Append(s, backends[i]) ELSE s
           G == [p \in (1 .. n) \X Seq(Address) |-> step(p[1], p[2])]
<1>1. ASSUME NEW i \in 1 .. n, NEW s \in Seq(Address)
      PROVE  step(i, s) \in Seq(Address) /\ G[<<i, s>>] = step(i, s)
  <2>1. Append(s, backends[i]) \in Seq(Address)
    OBVIOUS
  <2>2. <<i, s>> \in (1 .. n) \X Seq(Address) /\ <<i, s>>[1] = i /\ <<i, s>>[2] = s
    BY Zenon
  <2> QED BY <2>1, <2>2, Zenon
<1> HIDE DEF step, G
<1>2. Steps(G, n, Seq(Address)) /\ <<>> \in Seq(Address)
  BY <1>1 DEF Steps
<1> USE DEF step
<1>3. PICK f : Recurs(f, G, n, <<>>, Seq(Address))
  BY <1>2, Recursion, Zenon
<1>4. ASSUME NEW i \in 0 .. n
      PROVE  f[i] = IF i = 0 THEN <<>> ELSE step(i, f[i - 1])
  <2>1. i # 0 => i \in 1 .. n /\ i - 1 \in 0 .. n
    OBVIOUS
  <2> QED BY <1>1, <1>3, <2>1, Zenon DEF Recurs
<1> DEFINE g == [i \in 0 .. n |-> f[i]]
<1>5. ASSUME NEW i \in 0 .. n
      PROVE  g[i] = IF i = 0 THEN <<>> ELSE step(i, g[i - 1])
  <2>1. i # 0 => i - 1 \in 0 .. n
    OBVIOUS
  <2> QED BY <1>4, <2>1, Zenon
<1>6. Filters(g, n)
  BY <1>5, Zenon DEF Filters
<1> QED BY <1>6, Zenon

\* The elements of a sequence that got one more.
LEMMA AppendElements ==
  ASSUME NEW S, NEW s \in Seq(S), NEW x \in S
  PROVE  Append(s, x) \in Seq(S) /\ Range(Append(s, x)) = Range(s) \cup {x}
<1>1. PICK n \in Nat : n = Len(s)
  OBVIOUS
<1>2. /\ Append(s, x) \in Seq(S) /\ DOMAIN Append(s, x) = 1 .. n + 1 /\ DOMAIN s = 1 .. n
      /\ \A i \in 1 .. n : Append(s, x)[i] = s[i]
      /\ Append(s, x)[n + 1] = x
  BY <1>1
<1>3. n + 1 \in 1 .. n + 1 /\ \A i : i \in 1 .. n + 1 <=> i \in 1 .. n \/ i = n + 1
  OBVIOUS
<1>4. Range(Append(s, x)) = Range(s) \cup {x}
  BY <1>2, <1>3, Zenon DEF Range
<1> QED BY <1>2, <1>4, Zenon

\* The list the wrapper draws from: the backends not known to be unhealthy.
LEMMA SnapshotIs ==
  ASSUME backends \in Seq(Address)
  PROVE  /\ healthy_snapshot \in Seq(Address)
         /\ Range(healthy_snapshot) = {a \in Range(backends) : healthy(a)}
<1>1. PICK n \in Nat : n = Len(backends) /\ DOMAIN backends = 1 .. n
                       /\ \A i \in 1 .. n : backends[i] \in Address
  OBVIOUS
<1> DEFINE f == CHOOSE f : Filters(f, n)
<1>2. Filters(f, n)
  BY <1>1, FilterExists, Zenon
<1>3. healthy_snapshot = f[n]
  BY <1>1, Zenon DEF healthy_snapshot, Filters
<1> HIDE DEF f
<1> DEFINE Well(m) == {a \in {backends[i] : i \in 1 .. m} : healthy(a)}
           H == {m \in Nat : f[m] \in Seq(Address) /\ Range(f[m]) = Well(m)}
<1>4. 0 \in H
  <2>1. 0 \in 0 .. n /\ 0 \in Nat /\ <<>> \in Seq(Address) /\ Range(<<>>) = {} /\ 1 .. 0 = {}
    BY DEF Range
  <2>2. f[0] = <<>>
    BY <1>2, <2>1, Zenon DEF Filters
  <2>3. Well(0) = {}
    BY <2>1, Zenon
  <2> QED BY <2>1, <2>2, <2>3, Zenon
<1>5. ASSUME NEW m \in 0 .. n, m < n, m \in H PROVE m + 1 \in H
  <2>1. PICK l : l = m + 1
    BY Zenon
  <2>2. /\ l \in 0 .. n /\ l \in 1 .. n /\ l \in Nat /\ l # 0 /\ l - 1 = m
        /\ \A i : i \in 1 .. l <=> i \in 1 .. m \/ i = l
    BY <1>5, <2>1
  <2>3. f[l] = IF healthy(backends[l]) THEN Append(f[m], backends[l]) ELSE f[m]
    BY <1>2, <2>2, Zenon DEF Filters
  <2>4. f[m] \in Seq(Address) /\ Range(f[m]) = Well(m)
    BY <1>5, Zenon
  <2>5. CASE healthy(backends[l])
    <3>1. Well(l) = Well(m) \cup {backends[l]}
      BY <2>2, <2>5, Zenon
    <3>2. /\ Append(f[m], backends[l]) \in Seq(Address)
          /\ Range(Append(f[m], backends[l])) = Range(f[m]) \cup {backends[l]}
      <4> HIDE DEF Well
      <4> QED BY <1>1, <2>2, <2>4, AppendElements
    <3> QED BY <2>1, <2>2, <2>3, <2>4, <2>5, <3>1, <3>2, Zenon
  <2>6. CASE ~healthy(backends[l])
    <3>1. Well(l) = Well(m)
      BY <2>2, <2>6, Zenon
    <3> QED BY <2>1, <2>2, <2>3, <2>4, <2>6, <3>1, Zenon
  <2> QED BY <2>5, <2>6, Zenon
<1>6. \A m \in 0 .. n : m < n /\ m \in H => m + 1 \in H
  BY <1>5, Zenon
<1>7. n \in H
  <2> HIDE DEF H
  <2>1. n \in 0 .. n
    OBVIOUS
  <2> QED BY <1>4, <1>6, <2>1, UpTo, Zenon
<1>8. {backends[i] : i \in 1 .. n} = Range(backends)
  BY <1>1, Zenon DEF Range
<1> QED BY <1>3, <1>7, <1>8, Zenon

----------------------------------------------------------------------------
(* The entries of the health map *)

\* What HealthInv says of the entry s of a backend and its run h.
Tallies(s, h) ==
  /\ s = None => h = NoRun
  /\ s # None => s.streak = IF s.state = "Healthy" THEN h.bad ELSE h.good
  /\ s # None /\ s.state = "Unhealthy" => s.streak < healthy_threshold

Runs == [bad : 0 .. MaxStreak, good : 0 .. MaxStreak]

\* One more never takes a count past its bound.
LEMMA SaturatingAdd ==
  ASSUME NEW n \in 0 .. MaxStreak
  PROVE  saturating_add(n) \in 0 .. MaxStreak
BY HealthAssumption DEF saturating_add

\* An entry that was just made.
LEMMA FreshTallies ==
  fresh \in Status /\ NoRun \in Runs /\ Tallies(fresh, NoRun) /\ Tallies(None, NoRun)
  /\ fresh.state = "Healthy"
<1>1. 0 \in 0 .. MaxStreak /\ 0 < healthy_threshold
  BY HealthAssumption
<1>2. fresh \in Status /\ NoRun \in Runs
  BY <1>1 DEF fresh, Status, NoRun, Runs
<1>3. fresh.state = "Healthy" /\ fresh.streak = 0 /\ NoRun.bad = 0 /\ NoRun.good = 0
  BY DEF fresh, NoRun
<1>4. "Healthy" # "Unhealthy"
  OBVIOUS
<1>5. fresh # None
  BY <1>2, HealthAssumption, Zenon
<1> QED BY <1>1, <1>2, <1>3, <1>4, <1>5, Zenon DEF Tallies

\* An observation keeps the entry and the run in step, and the state flips
\* exactly when the run reaches the threshold.
LEMMA ApplyTallies ==
  ASSUME NEW s \in Status, NEW h \in Runs, NEW ok \in BOOLEAN, Tallies(s, h),
         NEW t, t = apply_probe(s, ok), NEW g, g = Observe(h, ok)
  PROVE  /\ t \in Status /\ g \in Runs /\ Tallies(t, g)
         /\ s.state = "Healthy" /\ t.state = "Unhealthy" => ~ok /\ g.bad >= unhealthy_threshold
         /\ s.state = "Unhealthy" /\ t.state = "Healthy" => ok /\ g.good >= healthy_threshold
         /\ ok /\ g.good >= healthy_threshold => t.state = "Healthy"
         /\ ~ok /\ g.bad >= unhealthy_threshold => t.state = "Unhealthy"
<1>1. PICK x \in {"Healthy", "Unhealthy"}, k \in 0 .. MaxStreak :
        s = [state |-> x, streak |-> k] /\ s.state = x /\ s.streak = k
  BY DEF Status
<1>2. PICK b \in 0 .. MaxStreak, c \in 0 .. MaxStreak :
        h = [bad |-> b, good |-> c] /\ h.bad = b /\ h.good = c
  BY DEF Runs
<1>3. k = (IF x = "Healthy" THEN b ELSE c) /\ (x = "Unhealthy" => k < healthy_threshold)
  <2>1. s # None
    BY HealthAssumption, Zenon
  <2> QED BY <1>1, <1>2, <2>1, Zenon DEF Tallies
<1>4. PICK sb \in 0 .. MaxStreak, sc \in 0 .. MaxStreak, sk \in 0 .. MaxStreak :
        /\ sb = saturating_add(b) /\ sc = saturating_add(c) /\ sk = saturating_add(k)
        /\ sk = IF x = "Healthy" THEN sb ELSE sc
  BY <1>3, SaturatingAdd, Zenon
<1>5. g = IF ok THEN [bad |-> 0, good |-> sc] ELSE [bad |-> sb, good |-> 0]
  BY <1>2, <1>4, Zenon DEF Observe
<1>6. t = IF x = "Healthy"
          THEN IF ok THEN [state |-> "Healthy", streak |-> 0]
               ELSE IF sk >= unhealthy_threshold THEN [state |-> "Unhealthy", streak |-> 0]
               ELSE [state |-> "Healthy", streak |-> sk]
          ELSE IF ok THEN IF sk >= healthy_threshold THEN fresh
                          ELSE [state |-> "Unhealthy", streak |-> sk]
               ELSE [state |-> "Unhealthy", streak |-> 0]
  <2>1. \A j : [s EXCEPT !.streak = j] = [state |-> x, streak |-> j]
    BY <1>1
  <2> QED BY <1>1, <1>4, <2>1 DEF apply_probe
<1>7. PICK tx \in {"Healthy", "Unhealthy"}, tk \in 0 .. MaxStreak :
        /\ t = [state |-> tx, streak |-> tk]
        /\ tx = (IF x = "Healthy"
                 THEN IF ~ok /\ sk >= unhealthy_threshold THEN "Unhealthy" ELSE "Healthy"
                 ELSE IF ok /\ sk >= healthy_threshold THEN "Healthy" ELSE "Unhealthy")
        /\ tk = IF x = tx /\ (x = "Healthy" <=> ~ok) THEN sk ELSE 0
  BY <1>6, HealthAssumption, SMTT(20) DEF fresh
<1>8. PICK gb \in 0 .. MaxStreak, gc \in 0 .. MaxStreak :
        /\ g = [bad |-> gb, good |-> gc]
        /\ gb = (IF ok THEN 0 ELSE sb) /\ gc = IF ok THEN sc ELSE 0
  BY <1>5, HealthAssumption
<1>9. /\ t \in Status /\ g \in Runs
      /\ t.state = tx /\ t.streak = tk /\ g.bad = gb /\ g.good = gc
  BY <1>7, <1>8 DEF Status, Runs
<1>10. /\ tk = (IF tx = "Healthy" THEN gb ELSE gc)
       /\ tx = "Unhealthy" => tk < healthy_threshold
       /\ x = "Healthy" /\ tx = "Unhealthy" => ~ok /\ gb >= unhealthy_threshold
       /\ x = "Unhealthy" /\ tx = "Healthy" => ok /\ gc >= healthy_threshold
       /\ ok /\ gc >= healthy_threshold => tx = "Healthy"
       /\ ~ok /\ gb >= unhealthy_threshold => tx = "Unhealthy"
  BY <1>3, <1>4, <1>7, <1>8, HealthAssumption
<1>11. t # None
  BY <1>9, HealthAssumption, Zenon
<1>12. Tallies(t, g)
  BY <1>9, <1>10, <1>11, Zenon DEF Tallies
<1> QED BY <1>1, <1>9, <1>10, <1>12, Zenon

----------------------------------------------------------------------------
(* The steps of the wrapper *)

\* The entries and the runs are in step.
Entries == \A a \in Address : Tallies(statuses[a], run[a])

\* HealthInv in these terms, before and after a step.
LEMMA HealthInvIs ==
  /\ HealthInv <=> PoolInv /\ HealthTypeOK /\ Entries
  /\ HealthInv' <=> PoolInv' /\ HealthTypeOK' /\ Entries'
BY Zenon DEF HealthInv, Entries, Tallies, Evicted

\* Mishaps are only counted.
LEMMA MishapKeeps ==
  ASSUME PoolInv, UNCHANGED changes \/ Mishap,
         UNCHANGED <<discovery, object, watching, events, poolVars, pickVars>>
  PROVE  PoolInv'
<1>1. changes' \in 0 .. MaxChanges
  <2>1. changes' = changes \/ (changes < MaxChanges /\ changes' = changes + 1)
    BY Zenon DEF Mishap
  <2> QED BY <2>1, PoolAssumption DEF PoolInv, PoolTypeOK
<1>2. PoolTypeOK'
  BY <1>1, Zenon DEF PoolInv, PoolTypeOK, poolVars, pickVars
<1>3. Even' /\ InStep'
  BY EvenIs, Zenon DEF PoolInv, InStep, Replaces, poolVars, pickVars
<1> QED BY <1>2, <1>3, Zenon DEF PoolInv

\* A step that leaves the entries alone and ends no round flips nothing.
LEMMA SameEntries ==
  ASSUME HealthInv, UNCHANGED <<statuses, run>>, round = None \/ round' # None
  PROVE  /\ Entries' /\ \A a \in Address : FlipStep(a)
         /\ statuses' \in [Address -> Status \cup {None}] /\ run' \in [Address -> Runs]
BY HealthInvIs, Zenon DEF Entries, FlipStep, Evicted, HealthTypeOK, Runs

\* A round under way is no None.
LEMMA RoundIs ==
  ASSUME NEW S \in SUBSET Address, NEW r \in [S -> Outcomes]
  PROVE  r # None
BY HealthAssumption, Zenon

\* What ConditionChange and health_pick do not touch.
LEMMA OutsideKeeps ==
  ASSUME HealthInv, (\E a \in Address : ConditionChange(a)) \/ health_pick
  PROVE  HealthInv' /\ \A a \in Address : FlipStep(a)
<1>1. UNCHANGED healthVars /\ PoolInv'
  BY HealthInvIs, MishapKeeps, PoolUnchanged, Zenon DEF ConditionChange, health_pick
<1>2. UNCHANGED <<statuses, run, round>>
  BY <1>1, Zenon DEF healthVars
<1>3. condition' \in [Address -> {"serving", "no_health", "wedged"}]
  BY Zenon DEF ConditionChange, health_pick, HealthInv, HealthTypeOK
<1>4. hcursor' \in 0 .. (2 ^ HealthCursorBits) - 1
  <2>1. PICK m \in Nat \ {0} : m = 2 ^ HealthCursorBits
    BY HealthAssumption, Zenon
  <2>2. hcursor' = hcursor \/ hcursor' = ((hcursor + 1) % m)
    BY <2>1, Zenon DEF ConditionChange, health_pick
  <2>3. hcursor \in 0 .. m - 1
    BY <2>1, Zenon DEF HealthInv, HealthTypeOK
  <2>4. hcursor' \in 0 .. m - 1
    BY <2>2, <2>3, CursorStep, Zenon
  <2> QED BY <2>1, <2>4, Zenon
<1>5. Entries' /\ \A a \in Address : FlipStep(a)
  BY <1>2, SameEntries, Zenon
<1>6. HealthTypeOK'
  BY <1>1, <1>2, <1>3, <1>4, Zenon DEF HealthInv, HealthTypeOK, PoolInv
<1> QED BY <1>1, <1>5, <1>6, HealthInvIs, Zenon

\* Membership changes leave the wrapper alone.
LEMMA MembershipFlipsNothing ==
  ASSUME HealthInv, Membership, UNCHANGED <<condition, healthVars, hcursor>>
  PROVE  HealthInv' /\ \A a \in Address : FlipStep(a)
<1>1. PoolInv' /\ UNCHANGED <<statuses, run, round>>
  BY HealthInvIs, MembershipKeeps, Zenon DEF healthVars
<1>2. Entries' /\ \A a \in Address : FlipStep(a)
  BY <1>1, SameEntries, Zenon
<1>3. HealthTypeOK'
  BY <1>1, Zenon DEF HealthInv, HealthTypeOK, PoolInv
<1> QED BY <1>1, <1>2, <1>3, HealthInvIs, Zenon

\* A round starts with every backend pending, or the entries are dropped.
LEMMA ProbeStartKeeps ==
  ASSUME HealthInv, probe_start
  PROVE  HealthInv' /\ \A a \in Address : FlipStep(a)
<1>1. /\ UNCHANGED <<bpVars, condition, hcursor>> /\ round = None
      /\ \/ /\ statuses' = [a \in Address |-> None] /\ run' = [a \in Address |-> NoRun]
            /\ UNCHANGED round
         \/ /\ round' = [a \in Range(backends) |-> "pending"]
            /\ UNCHANGED <<statuses, run>>
  BY Zenon DEF probe_start
<1>2. PoolInv'
  BY <1>1, HealthInvIs, PoolUnchanged, Zenon
<1>3. CASE /\ statuses' = [a \in Address |-> None] /\ run' = [a \in Address |-> NoRun]
           /\ UNCHANGED round
  <2>1. Entries'
    BY <1>3, FreshTallies, Zenon DEF Entries
  <2>2. \A a \in Address : FlipStep(a)
    BY <1>1, <1>3, Zenon DEF FlipStep, Evicted
  <2>3. HealthTypeOK'
    BY <1>1, <1>2, <1>3, FreshTallies, Zenon DEF HealthInv, HealthTypeOK, PoolInv, Runs
  <2> QED BY <1>2, <2>1, <2>2, <2>3, HealthInvIs, Zenon
<1>4. CASE round' = [a \in Range(backends) |-> "pending"] /\ UNCHANGED <<statuses, run>>
  <2>1. Range(backends) \in SUBSET Address
    BY DEF HealthInv, PoolInv, PoolTypeOK, Range
  <2>2. round' \in [Range(backends) -> Outcomes]
    BY <1>4, Zenon DEF Outcomes
  <2>3. Entries' /\ \A a \in Address : FlipStep(a)
    BY <1>1, <1>4, SameEntries, Zenon
  <2>4. HealthTypeOK'
    BY <1>1, <1>2, <1>4, <2>1, <2>2, Zenon DEF HealthInv, HealthTypeOK, PoolInv
  <2> QED BY <1>2, <2>3, <2>4, HealthInvIs, Zenon
<1> QED BY <1>1, <1>3, <1>4, Zenon

\* The answer of a probe is only noted.
LEMMA ProbeOneKeeps ==
  ASSUME HealthInv, NEW b \in Address, probe_one(b)
  PROVE  HealthInv' /\ \A a \in Address : FlipStep(a)
<1>1. /\ round # None /\ b \in DOMAIN round /\ UNCHANGED <<statuses, run, condition, hcursor>>
      /\ \E o \in Outcomes : round' = [round EXCEPT ![b] = o]
  BY Zenon DEF probe_one, Blip, Outcomes
<1>2. PoolInv'
  BY HealthInvIs, MishapKeeps, Zenon DEF probe_one, Blip
<1>3. PICK S \in SUBSET Address : round \in [S -> Outcomes]
  BY <1>1, Zenon DEF HealthInv, HealthTypeOK
<1>4. round' \in [S -> Outcomes]
  BY <1>1, <1>3, Zenon
<1>5. round' # None
  BY <1>4, RoundIs, Zenon
<1>6. Entries' /\ \A a \in Address : FlipStep(a)
  BY <1>1, <1>5, SameEntries, Zenon
<1>7. HealthTypeOK'
  BY <1>1, <1>2, <1>4, Zenon DEF HealthInv, HealthTypeOK, PoolInv
<1> QED BY <1>2, <1>6, <1>7, HealthInvIs, Zenon

\* A report of a failed forward counts and flips nothing.
LEMMA MarkKeeps ==
  ASSUME HealthInv, NEW b \in Address, mark_unhealthy(b)
  PROVE  HealthInv' /\ \A a \in Address : FlipStep(a)
<1>1. /\ statuses[b] # None /\ statuses[b].state = "Healthy"
      /\ statuses' = [statuses EXCEPT ![b].streak = saturating_add(@)]
      /\ run' = [run EXCEPT ![b] = Observe(@, FALSE)]
      /\ UNCHANGED <<bpVars, condition, round, hcursor>>
  BY Zenon DEF mark_unhealthy
<1>2. PoolInv'
  BY <1>1, HealthInvIs, PoolUnchanged, Zenon
<1>3. statuses \in [Address -> Status \cup {None}] /\ run \in [Address -> Runs] /\ Entries
  BY HealthInvIs, Zenon DEF HealthTypeOK, Runs
<1>4. PICK k \in 0 .. MaxStreak, n \in 0 .. MaxStreak, m \in 0 .. MaxStreak :
        /\ statuses[b] = [state |-> "Healthy", streak |-> k]
        /\ run[b] = [bad |-> n, good |-> m]
  <2>1. statuses[b] \in Status /\ run[b] \in Runs
    BY <1>1, <1>3, Zenon
  <2> QED BY <1>1, <2>1 DEF Status, Runs
<1>5. k = n
  <2>1. Tallies(statuses[b], run[b])
    BY <1>3, Zenon DEF Entries
  <2>2. statuses[b].streak = k /\ run[b].bad = n
    BY <1>4
  <2> QED BY <1>1, <2>1, <2>2, Zenon DEF Tallies
<1>6. PICK l \in 0 .. MaxStreak : l = saturating_add(k)
  BY SaturatingAdd, Zenon
<1> DEFINE t == [state |-> "Healthy", streak |-> l]
           g == [bad |-> l, good |-> 0]
<1>7. /\ statuses' = [statuses EXCEPT ![b] = t] /\ run' = [run EXCEPT ![b] = g]
  <2>1. [statuses[b] EXCEPT !.streak = saturating_add(@)] = t
    BY <1>4, <1>6
  <2>2. Observe(run[b], FALSE) = g
    <3>1. run[b].bad = k
      BY <1>4, <1>5
    <3> QED BY <1>6, <3>1, Zenon DEF Observe
  <2> QED BY <1>1, <1>3, <2>1, <2>2, Zenon
<1>8. /\ t \in Status /\ g \in Runs /\ t.state = "Healthy" /\ t.streak = l /\ g.bad = l
      /\ "Healthy" # "Unhealthy"
  BY HealthAssumption DEF Status, Runs
<1>9. Tallies(t, g)
  <2>1. t # None
    BY <1>8, HealthAssumption, Zenon
  <2> HIDE DEF t, g
  <2> QED BY <1>8, <2>1, Zenon DEF Tallies
<1> HIDE DEF t, g
<1>10. \A a \in Address : /\ a # b => statuses'[a] = statuses[a] /\ run'[a] = run[a]
                          /\ a = b => statuses'[a] = t /\ run'[a] = g
  BY <1>3, <1>7, Zenon
<1>11. Entries'
  BY <1>3, <1>9, <1>10, Zenon DEF Entries
<1>12. statuses' \in [Address -> Status \cup {None}] /\ run' \in [Address -> Runs]
  BY <1>3, <1>7, <1>8, Zenon
<1>13. HealthTypeOK'
  BY <1>1, <1>2, <1>12, Zenon DEF HealthInv, HealthTypeOK, PoolInv, Runs
<1>14. \A a \in Address : Evicted(a)' <=> Evicted(a)
  BY <1>1, <1>8, <1>10, Zenon DEF Evicted
<1>15. \A a \in Address : FlipStep(a)
  BY <1>1, <1>14, Zenon DEF FlipStep
<1> QED BY <1>2, <1>11, <1>13, <1>15, HealthInvIs, Zenon

\* The end of a round: every outcome is applied to the entry and to the run.
LEMMA ProbeApplyKeeps ==
  ASSUME HealthInv, probe_apply
  PROVE  HealthInv' /\ \A a \in Address : FlipStep(a)
<1> DEFINE entry(a) == IF statuses[a] = None THEN fresh ELSE statuses[a]
<1>1. /\ round # None /\ \A a \in DOMAIN round : round[a] # "pending"
      /\ round' = None /\ UNCHANGED <<bpVars, condition, hcursor>>
      /\ statuses' = [a \in Address |->
           CASE a \notin DOMAIN round -> None
             [] a \in DOMAIN round /\ round[a] = "lost" -> statuses[a]
             [] OTHER -> apply_probe(entry(a), round[a] = "ok")]
      /\ run' = [a \in Address |->
           CASE a \notin DOMAIN round -> NoRun
             [] a \in DOMAIN round /\ round[a] = "lost" -> run[a]
             [] OTHER -> Observe(run[a], round[a] = "ok")]
  BY Zenon DEF probe_apply
<1>2. PoolInv'
  BY <1>1, HealthInvIs, PoolUnchanged, Zenon
<1>3. statuses \in [Address -> Status \cup {None}] /\ run \in [Address -> Runs] /\ Entries
  BY HealthInvIs, Zenon DEF HealthTypeOK, Runs
<1>4. PICK S \in SUBSET Address : round \in [S -> Outcomes]
  BY <1>1, Zenon DEF HealthInv, HealthTypeOK
<1>5. ASSUME NEW a \in Address
      PROVE  /\ statuses'[a] \in Status \cup {None} /\ run'[a] \in Runs
             /\ Tallies(statuses'[a], run'[a]) /\ FlipStep(a)
  <2>1. CASE a \notin DOMAIN round
    <3>1. statuses'[a] = None /\ run'[a] = NoRun
      BY <1>1, <2>1, Zenon
    <3> QED BY <2>1, <3>1, FreshTallies, Zenon DEF FlipStep, Evicted
  <2>2. CASE a \in DOMAIN round /\ round[a] = "lost"
    <3>1. statuses'[a] = statuses[a] /\ run'[a] = run[a]
      BY <1>1, <2>2, Zenon
    <3>2. "lost" # "ok" /\ "lost" # "fail"
      OBVIOUS
    <3> QED BY <1>3, <2>2, <3>1, <3>2, Zenon DEF FlipStep, Evicted, Entries
  <2>3. CASE a \in DOMAIN round /\ round[a] # "lost"
    <3>1. PICK ok \in BOOLEAN : ok = (round[a] = "ok")
      BY Zenon
    <3>2. (ok <=> round[a] = "ok") /\ (~ok <=> round[a] = "fail")
      <4>1. round[a] \in Outcomes /\ round[a] # "pending"
        BY <1>1, <1>4, <2>3, Zenon
      <4>2. "ok" # "fail"
        OBVIOUS
      <4> QED BY <2>3, <3>1, <4>1, <4>2, Zenon DEF Outcomes
    <3>3. statuses'[a] = apply_probe(entry(a), ok) /\ run'[a] = Observe(run[a], ok)
      BY <1>1, <2>3, <3>1, Zenon
    <3>4. entry(a) \in Status /\ run[a] \in Runs /\ Tallies(entry(a), run[a])
      <4>1. /\ statuses[a] \in Status \cup {None} /\ run[a] \in Runs
            /\ Tallies(statuses[a], run[a])
        BY <1>3, Zenon DEF Entries
      <4>2. CASE statuses[a] = None
        <5>1. run[a] = NoRun /\ entry(a) = fresh
          BY <4>1, <4>2, Zenon DEF Tallies
        <5> QED BY <4>1, <5>1, FreshTallies, Zenon
      <4>3. CASE statuses[a] # None
        BY <4>1, <4>3, Zenon
      <4> QED BY <4>2, <4>3, Zenon
    <3>5. PICK s, t, h, g : /\ s = entry(a) /\ t = statuses'[a] /\ h = run[a] /\ g = run'[a]
                            /\ s \in Status /\ h \in Runs
      <4> HIDE DEF entry
      <4> QED BY <3>4, Zenon
    <3>6. /\ t \in Status /\ g \in Runs /\ Tallies(t, g)
          /\ s.state = "Healthy" /\ t.state = "Unhealthy" => ~ok /\ g.bad >= unhealthy_threshold
          /\ s.state = "Unhealthy" /\ t.state = "Healthy" => ok /\ g.good >= healthy_threshold
          /\ ok /\ g.good >= healthy_threshold => t.state = "Healthy"
          /\ ~ok /\ g.bad >= unhealthy_threshold => t.state = "Unhealthy"
      <4>1. t = apply_probe(s, ok) /\ g = Observe(h, ok) /\ Tallies(s, h)
        BY <3>3, <3>4, <3>5, Zenon
      <4> QED BY <3>5, <4>1, ApplyTallies
    <3>7. /\ t # None /\ "Healthy" # "Unhealthy"
          /\ s.state \in {"Healthy", "Unhealthy"} /\ t.state \in {"Healthy", "Unhealthy"}
      <4>1. t # None
        BY <3>6, HealthAssumption, Zenon
      <4> QED BY <3>5, <3>6, <4>1 DEF Status
    <3>8. (Evicted(a) <=> s.state = "Unhealthy") /\ (Evicted(a)' <=> t.state = "Unhealthy")
      BY <3>5, <3>7, FreshTallies, Zenon DEF Evicted
    <3>9. FlipStep(a)
      BY <3>2, <3>5, <3>6, <3>7, <3>8, Zenon DEF FlipStep
    <3> QED BY <3>5, <3>6, <3>9, Zenon
  <2> QED BY <2>1, <2>2, <2>3, Zenon
<1>6. statuses' \in [Address -> Status \cup {None}] /\ run' \in [Address -> Runs]
  <2>1. DOMAIN statuses' = Address /\ DOMAIN run' = Address
    BY <1>1, Zenon
  <2>2. statuses' = [a \in Address |-> statuses'[a]] /\ run' = [a \in Address |-> run'[a]]
    BY <1>1, <2>1, Zenon
  <2> QED BY <1>5, <2>2, Zenon
<1>7. HealthTypeOK'
  BY <1>1, <1>2, <1>6, Zenon DEF HealthInv, HealthTypeOK, PoolInv, Runs
<1>8. Entries'
  BY <1>5, Zenon DEF Entries
<1> QED BY <1>2, <1>5, <1>7, <1>8, HealthInvIs, Zenon

\* No backend has an entry at first.
LEMMA HealthInitInv ==
  ASSUME HealthInit
  PROVE  HealthInv
<1>1. PoolInv
  BY PoolInitInv, Zenon DEF HealthInit
<1>2. hcursor \in 0 .. (2 ^ HealthCursorBits) - 1
  <2>1. PICK m \in Nat \ {0} : m = 2 ^ HealthCursorBits
    BY HealthAssumption, Zenon
  <2>2. 0 \in 0 .. m - 1
    OBVIOUS
  <2> QED BY <2>1, <2>2, Zenon DEF HealthInit
<1>3. HealthTypeOK
  BY <1>1, <1>2, FreshTallies, Zenon DEF HealthInit, HealthTypeOK, PoolInv, Runs
<1>4. Entries
  BY FreshTallies, Zenon DEF HealthInit, Entries
<1> QED BY <1>1, <1>3, <1>4, HealthInvIs, Zenon

\* Every step of the wrapped pool.
LEMMA HealthNextInv ==
  ASSUME HealthInv, [HealthNext]_hVars
  PROVE  HealthInv' /\ \A a \in Address : FlipStep(a)
<1>1. CASE UNCHANGED hVars
  <2>1. UNCHANGED <<bpVars, condition, statuses, round, run, hcursor>>
    BY <1>1, Zenon DEF hVars, healthVars
  <2>2. PoolInv'
    BY <2>1, HealthInvIs, PoolUnchanged, Zenon
  <2>3. Entries' /\ \A a \in Address : FlipStep(a)
    BY <2>1, SameEntries, Zenon
  <2>4. HealthTypeOK'
    BY <2>1, <2>2, Zenon DEF HealthInv, HealthTypeOK, PoolInv
  <2> QED BY <2>2, <2>3, <2>4, HealthInvIs, Zenon
<1>2. CASE HealthNext
  BY <1>2, MembershipFlipsNothing, ProbeStartKeeps, ProbeApplyKeeps, OutsideKeeps,
     ProbeOneKeeps, MarkKeeps, Zenon DEF HealthNext
<1> QED BY <1>1, <1>2, Zenon

----------------------------------------------------------------------------
(* The pool of a tenant, plain or wrapped *)

\* A step of a plain pool leaves what the wrapper would keep alone.
LEMMA PlainKeeps ==
  ASSUME HealthInv, PoolNext, UNCHANGED checkVars
  PROVE  HealthInv' /\ \A a \in Address : FlipStep(a)
<1>1. UNCHANGED <<condition, statuses, round, run, hcursor>>
  BY Zenon DEF checkVars, healthVars
<1>2. PoolInv'
  BY PoolNextInv, HealthInvIs, Zenon
<1>3. Entries' /\ \A a \in Address : FlipStep(a)
  BY <1>1, HealthInvIs, SameEntries, Zenon
<1>4. HealthTypeOK'
  BY <1>1, <1>2, Zenon DEF HealthInv, HealthTypeOK, PoolInv
<1> QED BY <1>2, <1>3, <1>4, HealthInvIs, Zenon

\* Every step of a tenant's pool.
LEMMA TenantPoolNextInv ==
  ASSUME HealthInv, [TenantPoolNext]_tVars
  PROVE  HealthInv' /\ \A a \in Address : FlipStep(a)
BY PlainKeeps, HealthNextInv, Zenon DEF TenantPoolNext, Plain, Checked, tVars

\* Both kinds start in step.
LEMMA TenantPoolInitInv == TenantPoolInit => HealthInv
BY HealthInitInv, Zenon DEF TenantPoolInit

\* A caught up watcher has left exactly the ready pods of the object in the
\* list: however changes, lost watches and relists interleave, no event of
\* before wins over a later one (spawn_watcher, extract_addresses).
THEOREM PoolFollowsObject == TenantPoolSpec => []PoolReflectsObject
<1>1. ASSUME HealthInv PROVE PoolReflectsObject
  <2>1. SUFFICES ASSUME Synced, object # None
                 PROVE  /\ object \in Objects
                        /\ backends = extract_addresses(object)
    BY <2>1, ExtractsReady, Zenon DEF PoolReflectsObject
  <2>2. Len(events) = 0 /\ 1 .. 0 = {}
    BY <2>1 DEF Synced
  <2> QED BY <1>1, <2>1, <2>2, Zenon DEF HealthInv, PoolInv, PoolTypeOK, InStep, Synced
<1>2. HealthInv /\ [TenantPoolNext]_tVars => HealthInv'
  BY TenantPoolNextInv, Zenon
<1> QED BY <1>1, <1>2, TenantPoolInitInv, PTL DEF TenantPoolSpec

\* Picks are spread evenly over the list for any number of backends, any width
\* of the cursor and wherever the cursor stands when the list changes
\* (Pool::pick of StaticPool and K8sPool).
THEOREM PicksSpreadEvenly == TenantPoolSpec => []RoundRobinEven
<1>1. HealthInv => RoundRobinEven
  BY EvenIsFair, Zenon DEF HealthInv, PoolInv
<1>2. HealthInv /\ [TenantPoolNext]_tVars => HealthInv'
  BY TenantPoolNextInv, Zenon
<1> QED BY <1>1, <1>2, TenantPoolInitInv, PTL DEF TenantPoolSpec

\* Backends are evicted and re-admitted exactly when a run of observations
\* reaches its threshold, for any thresholds and however probes, reports and
\* membership changes interleave (apply_probe, probe_all, mark_unhealthy).
THEOREM EvictionsEarned == TenantPoolSpec => FlipsFollowStreaks
<1>1. HealthInv /\ [TenantPoolNext]_tVars => [\A a \in Address : FlipStep(a)]_hVars
  BY TenantPoolNextInv, Zenon
<1>2. HealthInv /\ [TenantPoolNext]_tVars => HealthInv'
  BY TenantPoolNextInv, Zenon
<1> QED BY <1>1, <1>2, TenantPoolInitInv, PTL DEF TenantPoolSpec, FlipsFollowStreaks

\* pick() of the wrapper has a backend to give whenever one is new or answered
\* the last probes, and gives none that is evicted or gone (healthy_snapshot).
THEOREM TrafficKeepsFlowing == TenantPoolSpec => []TrafficFlows
<1>1. ASSUME HealthInv PROVE TrafficFlows
  <2>1. SUFFICES ASSUME NEW a \in Range(backends),
                        statuses[a] = None \/ run[a].good >= healthy_threshold
                 PROVE  healthy_snapshot # <<>> /\ Drawn \in Range(backends) /\ ~Evicted(Drawn)
    BY Zenon DEF TrafficFlows
  <2>2. /\ backends \in Seq(Address) /\ run \in [Address -> Runs]
        /\ statuses \in [Address -> Status \cup {None}] /\ Entries
    BY <1>1, HealthInvIs, Zenon DEF HealthTypeOK, PoolTypeOK, Runs
  <2>3. a \in Address
    BY <2>2 DEF Range
  <2>4. healthy(a)
    <3>1. SUFFICES ASSUME statuses[a] # None, statuses[a].state # "Healthy" PROVE FALSE
      BY Zenon DEF healthy
    <3>2. statuses[a].state = "Unhealthy" /\ run[a].good \in Nat /\ healthy_threshold \in Nat
      <4>1. statuses[a] \in Status /\ run[a] \in Runs
        BY <2>2, <2>3, <3>1, Zenon
      <4> QED BY <3>1, <4>1, HealthAssumption DEF Status, Runs
    <3>3. run[a].good < healthy_threshold
      BY <2>2, <2>3, <3>1, <3>2, Zenon DEF Entries, Tallies
    <3>4. run[a].good >= healthy_threshold
      BY <2>1, <3>1, Zenon
    <3> QED BY <3>2, <3>3, <3>4
  <2>5. PICK s \in Seq(Address) :
          s = healthy_snapshot /\ Range(s) = {b \in Range(backends) : healthy(b)}
    BY <2>2, SnapshotIs, Zenon
  <2>6. a \in Range(s)
    BY <2>4, <2>5, Zenon
  <2>7. PICK n \in Nat \ {0} : n = Len(s) /\ s # <<>>
    BY <2>6 DEF Range
  <2>8. PICK r \in 0 .. n - 1 : r = (hcursor % n)
    <3>1. hcursor \in Nat
      <4>1. PICK m \in Nat \ {0} : m = 2 ^ HealthCursorBits
        BY HealthAssumption, Zenon
      <4>2. hcursor \in 0 .. m - 1
        BY <1>1, <4>1, Zenon DEF HealthInv, HealthTypeOK
      <4> QED BY <4>2
    <3> QED BY <3>1, NextRemainder, Zenon
  <2>9. Drawn = s[r + 1]
    BY <2>5, <2>7, <2>8, Zenon DEF Drawn
  <2>10. s[r + 1] \in Range(s)
    BY <2>7, <2>8 DEF Range
  <2>11. Drawn \in Range(backends) /\ healthy(Drawn)
    BY <2>5, <2>9, <2>10, Zenon
  <2>12. "Healthy" # "Unhealthy"
    OBVIOUS
  <2> QED BY <2>5, <2>7, <2>11, <2>12, Zenon DEF healthy, Evicted
<1>2. HealthInv /\ [TenantPoolNext]_tVars => HealthInv'
  BY TenantPoolNextInv, Zenon
<1> QED BY <1>1, <1>2, TenantPoolInitInv, PTL DEF TenantPoolSpec
=============================================================================
