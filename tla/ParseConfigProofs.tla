--------------------------- MODULE ParseConfigProofs ---------------------------
(***************************************************************************)
(* Proofs that AnalyseLine reads every regular line as it is meant, of any *)
(* characters and length, and that ReadConfig keeps what a file of such    *)
(* lines says.                                                             *)
(***************************************************************************)
EXTENDS ParseConfig, SequenceTheorems, WellFoundedInduction, TLAPS

-----------------------------------------------------------------------------
(* Positions and parts of a line.                                          *)

\* A set of numbers that is not empty has a least element.
LEMMA HasLeast ==
  ASSUME NEW S, S \subseteq Nat, S # {}
  PROVE  \E x \in S : \A y \in S : x <= y
<1> DEFINE R == OpToRel(<, Nat)
<1>1. IsWellFoundedOn(R, Nat)
  BY NatLessThanWellFounded
<1>2. \A x, y \in Nat : x < y => <<x, y>> \in R
  BY DEF OpToRel
<1> HIDE DEF R
<1>3. PICK x \in S : \A y \in S : ~(<<y, x>> \in R)
  BY <1>1, WFMin
<1>4. ASSUME NEW y \in S
      PROVE  x <= y
  <2>1. x \in Nat /\ y \in Nat
    OBVIOUS
  <2>2. ~(y < x)
    BY <1>2, <1>3, <2>1, Zenon
  <2> QED
    BY <2>1, <2>2
<1> QED
  BY <1>4

\* Min and Max are in the set and bound it.
LEMMA MinIs ==
  ASSUME NEW S, S \subseteq Nat, S # {}
  PROVE  Min(S) \in S /\ \A y \in S : Min(S) <= y
<1>1. \E x \in S : \A y \in S : x <= y
  BY HasLeast
<1> QED
  BY <1>1, Zenon DEF Min

LEMMA MaxIs ==
  ASSUME NEW n \in Nat, NEW S, S \subseteq 1 .. n, S # {}
  PROVE  Max(S) \in S /\ \A y \in S : y <= Max(S)
<1> DEFINE T == {n - y : y \in S}
<1>1. T \subseteq Nat /\ T # {}
  <2>1. PICK e \in S : TRUE
    OBVIOUS
  <2>2. n - e \in T
    OBVIOUS
  <2>3. \A y \in S : n - y \in Nat
    OBVIOUS
  <2> QED
    BY <2>2, <2>3
<1>2. PICK t \in T : \A u \in T : t <= u
  BY <1>1, HasLeast
<1>3. PICK x \in S : t = n - x
  OBVIOUS
<1>4. ASSUME NEW y \in S
      PROVE  x >= y
  <2>1. n - y \in T
    OBVIOUS
  <2>2. t <= n - y
    BY <1>2, <2>1
  <2> QED
    BY <1>3, <2>2
<1>5. Max(S) \in S /\ \A y \in S : Max(S) >= y
  BY <1>4, Zenon DEF Max
<1> QED
  BY <1>5

\* p is where the first c of s stands, or 0.
IsFirst(s, c, p) ==
  \/ p = 0 /\ \A i \in 1 .. Len(s) : s[i] # c
  \/ p \in 1 .. Len(s) /\ s[p] = c /\ \A i \in 1 .. Len(s) : i < p => s[i] # c

LEMMA FirstIs ==
  ASSUME NEW C, NEW s \in Seq(C), NEW c
  PROVE  FirstAt(s, c) \in 0 .. Len(s) /\ IsFirst(s, c, FirstAt(s, c))
<1> DEFINE I == {i \in 1 .. Len(s) : s[i] = c}
<1>1. FirstAt(s, c) = IF I # {} THEN Min(I) ELSE 0
  BY DEF FirstAt, SelectInSeq
<1>2. Len(s) \in Nat
  OBVIOUS
<1>3. CASE I = {}
  <2>1. FirstAt(s, c) = 0
    BY <1>1, <1>3
  <2>2. \A i \in 1 .. Len(s) : s[i] # c
    BY <1>3
  <2> QED
    BY <1>2, <2>1, <2>2 DEF IsFirst
<1>4. CASE I # {}
  <2>1. FirstAt(s, c) = Min(I)
    BY <1>1, <1>4
  <2>2. I \subseteq Nat
    BY <1>2
  <2>3. Min(I) \in I /\ \A y \in I : Min(I) <= y
    BY <1>4, <2>2, MinIs
  <2>4. PICK p \in I : p = Min(I) /\ \A y \in I : p <= y
    BY <2>3
  <2>5. p \in 1 .. Len(s) /\ s[p] = c
    OBVIOUS
  <2>6. ASSUME NEW i \in 1 .. Len(s), i < p
        PROVE  s[i] # c
    <3>1. i \in I => p <= i
      BY <2>4
    <3> QED
      BY <1>2, <2>5, <2>6, <3>1
  <2> QED
    BY <1>2, <2>1, <2>4, <2>5, <2>6 DEF IsFirst
<1> QED
  BY <1>3, <1>4

\* There is one such place.
LEMMA FirstIsOne ==
  ASSUME NEW C, NEW s \in Seq(C), NEW c, NEW p \in 0 .. Len(s), IsFirst(s, c, p)
  PROVE  FirstAt(s, c) = p
<1>1. PICK q : q = FirstAt(s, c)
  OBVIOUS
<1>2. q \in 0 .. Len(s) /\ IsFirst(s, c, q) /\ Len(s) \in Nat
  BY <1>1, FirstIs
<1>3. ~(q < p) /\ ~(p < q)
  BY <1>2 DEF IsFirst
<1> QED
  BY <1>1, <1>2, <1>3

\* The part of s from a to b.
LEMMA PartIs ==
  ASSUME NEW C, NEW s \in Seq(C), NEW a \in 1 .. Len(s) + 1, NEW b \in a - 1 .. Len(s)
  PROVE  /\ SubSeq(s, a, b) \in Seq(C)
         /\ Len(SubSeq(s, a, b)) = b - a + 1
         /\ \A i \in 1 .. b - a + 1 : SubSeq(s, a, b)[i] = s[a + i - 1]
<1>1. Len(s) \in Nat /\ a \in Int /\ b \in Int
  OBVIOUS
<1>2. \A i \in a .. b : s[i] \in C
  BY <1>1
<1>3. a <= b \/ (b - a + 1 = 0)
  BY <1>1
<1> QED
  BY <1>1, <1>2, <1>3, SubSeqProperties

\* A part of a part.
LEMMA PartOfPart ==
  ASSUME NEW C, NEW s \in Seq(C), NEW a \in 1 .. Len(s) + 1, NEW b \in a - 1 .. Len(s),
         NEW c \in a .. b + 1, NEW d \in c - 1 .. b
  PROVE  SubSeq(SubSeq(s, a, b), c - a + 1, d - a + 1) = SubSeq(s, c, d)
<1>1. Len(s) \in Nat /\ a \in Nat /\ b \in Nat /\ c \in Nat /\ d \in Nat
  OBVIOUS
<1>2. PICK t : t = SubSeq(s, a, b)
  OBVIOUS
<1>3. /\ t \in Seq(C) /\ Len(t) = b - a + 1
      /\ \A i \in 1 .. b - a + 1 : t[i] = s[a + i - 1]
  BY <1>2, PartIs
<1>4. PICK m \in Nat, n \in Nat : m = c - a + 1 /\ n = d - a + 1
  BY <1>1
<1>5. m \in 1 .. Len(t) + 1 /\ n \in m - 1 .. Len(t) /\ n - m = d - c
  BY <1>1, <1>3, <1>4
<1>6. PICK u : u = SubSeq(t, m, n)
  OBVIOUS
<1>7. u \in Seq(C) /\ Len(u) = d - c + 1 /\ \A i \in 1 .. d - c + 1 : u[i] = t[m + i - 1]
  BY <1>1, <1>3, <1>5, <1>6, PartIs
<1>8. PICK v : v = SubSeq(s, c, d)
  OBVIOUS
<1>9. v \in Seq(C) /\ Len(v) = d - c + 1 /\ \A i \in 1 .. d - c + 1 : v[i] = s[c + i - 1]
  <2>1. c \in 1 .. Len(s) + 1 /\ d \in c - 1 .. Len(s)
    BY <1>1
  <2> QED
    BY <1>8, <2>1, PartIs
<1>10. ASSUME NEW i \in 1 .. Len(u)
       PROVE  u[i] = v[i]
  <2>1. i \in 1 .. d - c + 1 /\ m + i - 1 \in 1 .. b - a + 1
    BY <1>1, <1>4, <1>7
  <2>2. u[i] = s[a + (m + i - 1) - 1]
    BY <1>3, <1>7, <2>1
  <2>3. a + (m + i - 1) - 1 = c + i - 1
    BY <1>1, <1>4, <2>1
  <2> QED
    BY <1>9, <2>1, <2>2, <2>3
<1>11. u = v
  BY <1>7, <1>9, <1>10, SeqEqual
<1> QED
  BY <1>2, <1>4, <1>6, <1>8, <1>11

-----------------------------------------------------------------------------
(* Trim.                                                                   *)

\* Nothing but blanks from a to b.
Blank(s, a, b) == \A i \in 1 .. Len(s) : a <= i /\ i <= b => IsSpace(s[i])

LEMMA TrimBlank ==
  ASSUME NEW C, NEW s \in Seq(C), NEW a \in 1 .. Len(s) + 1, NEW b \in a - 1 .. Len(s),
         Blank(s, a, b)
  PROVE  Trim(SubSeq(s, a, b)) = <<>>
<1>1. Len(s) \in Nat /\ a \in Nat /\ b \in Nat
  OBVIOUS
<1>2. PICK t : t = SubSeq(s, a, b)
  OBVIOUS
<1>3. /\ t \in Seq(C) /\ Len(t) = b - a + 1
      /\ \A i \in 1 .. b - a + 1 : t[i] = s[a + i - 1]
  BY <1>2, PartIs
<1>4. ASSUME NEW i \in DOMAIN t
      PROVE  IsSpace(t[i])
  <2>1. i \in 1 .. b - a + 1
    BY <1>3
  <2>2. a + i - 1 \in 1 .. Len(s) /\ a <= a + i - 1 /\ a + i - 1 <= b
    BY <1>1, <2>1
  <2>3. IsSpace(s[a + i - 1])
    BY <2>2 DEF Blank
  <2> QED
    BY <1>3, <2>1, <2>3
<1>5. {i \in DOMAIN t : ~IsSpace(t[i])} = {}
  BY <1>4
<1>6. Trim(t) = <<>>
  BY <1>5 DEF Trim
<1> QED
  BY <1>2, <1>6

\* x and y are the first and the last place from a to b with no blank.
Within(s, a, b, x, y) ==
  /\ x \in a .. b /\ y \in x .. b /\ ~IsSpace(s[x]) /\ ~IsSpace(s[y])
  /\ Blank(s, a, x - 1) /\ Blank(s, y + 1, b)

LEMMA TrimWithin ==
  ASSUME NEW C, NEW s \in Seq(C), NEW a \in 1 .. Len(s) + 1, NEW b \in a - 1 .. Len(s),
         NEW x, NEW y, Within(s, a, b, x, y)
  PROVE  Trim(SubSeq(s, a, b)) = SubSeq(s, x, y)
<1>1. /\ Len(s) \in Nat /\ a \in Nat /\ b \in Nat /\ x \in Nat /\ y \in Nat
      /\ a <= x /\ x <= y /\ y <= b /\ b <= Len(s) /\ 1 <= a
  BY DEF Within
<1>2. PICK t : t = SubSeq(s, a, b)
  OBVIOUS
<1>3. /\ t \in Seq(C) /\ Len(t) = b - a + 1
      /\ \A i \in 1 .. b - a + 1 : t[i] = s[a + i - 1]
  BY <1>2, PartIs
<1>4. PICK K : K = {i \in DOMAIN t : ~IsSpace(t[i])}
  OBVIOUS
<1>5. PICK m \in Nat, n \in Nat : m = x - a + 1 /\ n = y - a + 1
  BY <1>1
<1>6. DOMAIN t = 1 .. b - a + 1
  BY <1>3
<1>7. /\ m \in DOMAIN t /\ a + m - 1 = x /\ n \in DOMAIN t /\ a + n - 1 = y
  BY <1>1, <1>5, <1>6
<1>8. m \in K /\ n \in K
  <2>1. t[m] = s[x] /\ t[n] = s[y]
    BY <1>3, <1>6, <1>7
  <2> QED
    BY <1>4, <1>7, <2>1 DEF Within
<1>9. ASSUME NEW i \in K
      PROVE  m <= i /\ i <= n
  <2>1. i \in 1 .. b - a + 1 /\ ~IsSpace(t[i])
    BY <1>4, <1>6
  <2>2. PICK j \in 1 .. Len(s) : j = a + i - 1 /\ j <= b /\ a <= j
    BY <1>1, <2>1
  <2>3. ~IsSpace(s[j])
    BY <1>3, <2>1, <2>2
  <2>4. ~(j <= x - 1) /\ ~(y + 1 <= j)
    BY <2>2, <2>3 DEF Within, Blank
  <2> QED
    BY <1>1, <1>5, <2>1, <2>2, <2>4
<1>10. K \subseteq 1 .. Len(t) /\ K \subseteq Nat /\ K # {} /\ Len(t) \in Nat
  <2>1. K \subseteq 1 .. b - a + 1
    BY <1>4, <1>6
  <2>2. K # {}
    BY <1>8
  <2>3. 1 .. b - a + 1 = 1 .. Len(t) /\ 1 .. Len(t) \subseteq Nat /\ Len(t) \in Nat
    BY <1>1, <1>3
  <2> QED
    BY <2>1, <2>2, <2>3
<1>11. Min(K) = m
  <2>1. Min(K) \in K /\ \A z \in K : Min(K) <= z
    BY <1>10, MinIs
  <2>2. Min(K) \in Nat /\ m <= Min(K) /\ Min(K) <= m
    BY <1>8, <1>9, <1>10, <2>1
  <2> QED
    BY <2>2
<1>12. Max(K) = n
  <2>1. Max(K) \in K /\ \A z \in K : z <= Max(K)
    BY <1>10, MaxIs
  <2>2. Max(K) \in Nat /\ n <= Max(K) /\ Max(K) <= n
    BY <1>8, <1>9, <1>10, <2>1
  <2> QED
    BY <2>2
<1>13. Trim(t) = SubSeq(t, m, n)
  <2>1. Trim(t) = IF K = {} THEN <<>> ELSE SubSeq(t, Min(K), Max(K))
    BY <1>4, Zenon DEF Trim
  <2> QED
    BY <1>10, <1>11, <1>12, <2>1
<1>14. SubSeq(SubSeq(s, a, b), m, n) = SubSeq(s, x, y)
  <2>1. x \in a .. b + 1 /\ y \in x - 1 .. b
    BY <1>1
  <2> QED
    BY <1>5, <2>1, PartOfPart
<1> QED
  BY <1>2, <1>13, <1>14

\* A part is blank, or there are such places.
LEMMA BlankOrWithin ==
  ASSUME NEW C, NEW s \in Seq(C), NEW a \in 1 .. Len(s) + 1, NEW b \in a - 1 .. Len(s)
  PROVE  Blank(s, a, b) \/ \E x, y \in 1 .. Len(s) : Within(s, a, b, x, y)
<1> SUFFICES ASSUME ~Blank(s, a, b)
             PROVE  \E x, y \in 1 .. Len(s) : Within(s, a, b, x, y)
  OBVIOUS
<1>1. Len(s) \in Nat /\ a \in Nat /\ b \in Nat /\ 1 <= a /\ b <= Len(s)
  OBVIOUS
<1>2. PICK K : K = {i \in 1 .. Len(s) : a <= i /\ i <= b /\ ~IsSpace(s[i])}
  OBVIOUS
<1>3. K \subseteq 1 .. Len(s) /\ K \subseteq Nat /\ K # {}
  BY <1>1, <1>2 DEF Blank
<1>4. PICK x \in K : \A z \in K : x <= z
  BY <1>3, HasLeast
<1>5. PICK y \in K : \A z \in K : z <= y
  BY <1>1, <1>3, MaxIs
<1>6. /\ x \in 1 .. Len(s) /\ a <= x /\ x <= b /\ ~IsSpace(s[x])
      /\ y \in 1 .. Len(s) /\ a <= y /\ y <= b /\ ~IsSpace(s[y])
  BY <1>2
<1>7. x <= y
  BY <1>4
<1>8. ASSUME NEW i \in 1 .. Len(s), a <= i, i <= b, ~IsSpace(s[i])
      PROVE  ~(i <= x - 1) /\ ~(y + 1 <= i)
  <2>1. i \in K
    BY <1>2, <1>8
  <2>2. x <= i /\ i <= y
    BY <1>4, <1>5, <2>1
  <2> QED
    BY <1>1, <1>6, <2>2
<1>9. Blank(s, a, x - 1)
  <2>1. ASSUME NEW i \in 1 .. Len(s), a <= i, i <= x - 1
        PROVE  IsSpace(s[i])
    <3>1. i <= b
      BY <1>1, <1>6, <2>1
    <3> QED
      BY <1>8, <2>1, <3>1
  <2> QED
    BY <2>1 DEF Blank
<1>10. Blank(s, y + 1, b)
  <2>1. ASSUME NEW i \in 1 .. Len(s), y + 1 <= i, i <= b
        PROVE  IsSpace(s[i])
    <3>1. a <= i
      BY <1>1, <1>6, <2>1
    <3> QED
      BY <1>8, <2>1, <3>1
  <2> QED
    BY <2>1 DEF Blank
<1>11. x \in a .. b /\ y \in x .. b
  BY <1>1, <1>6, <1>7
<1>12. Within(s, a, b, x, y)
  BY <1>6, <1>9, <1>10, <1>11 DEF Within
<1> QED
  BY <1>6, <1>12

LEMMA WithinSame ==
  ASSUME NEW C, NEW s \in Seq(C), NEW a \in 1 .. Len(s) + 1, NEW b \in a - 1 .. Len(s),
         NEW c \in a .. b + 1, NEW d \in c - 1 .. b,
         Blank(s, a, c - 1), Blank(s, d + 1, b), NEW x, NEW y, Within(s, c, d, x, y)
  PROVE  Trim(SubSeq(s, a, b)) = Trim(SubSeq(s, c, d))
<1>1. Len(s) \in Nat /\ a \in Nat /\ b \in Nat /\ c \in Nat /\ d \in Nat
      /\ a <= c /\ d <= b /\ b <= Len(s) /\ 1 <= a
  OBVIOUS
<1>2. c \in 1 .. Len(s) + 1 /\ d \in c - 1 .. Len(s)
  BY <1>1
<1>3. x \in Nat /\ y \in Nat /\ c <= x /\ x <= y /\ y <= d
  BY <1>1 DEF Within
<1>4. Blank(s, a, x - 1) /\ Blank(s, y + 1, b)
  BY <1>1, <1>3 DEF Within, Blank
<1>5. x \in a .. b /\ y \in x .. b
  BY <1>1, <1>3
<1>6. Within(s, a, b, x, y)
  BY <1>4, <1>5 DEF Within
<1>7. Trim(SubSeq(s, a, b)) = SubSeq(s, x, y)
  BY <1>6, TrimWithin
<1>8. Trim(SubSeq(s, c, d)) = SubSeq(s, x, y)
  BY <1>2, TrimWithin
<1> QED
  BY <1>7, <1>8

\* Blanks around a part are trimmed away with its own.
LEMMA TrimSame ==
  ASSUME NEW C, NEW s \in Seq(C), NEW a \in 1 .. Len(s) + 1, NEW b \in a - 1 .. Len(s),
         NEW c \in a .. b + 1, NEW d \in c - 1 .. b,
         Blank(s, a, c - 1), Blank(s, d + 1, b)
  PROVE  Trim(SubSeq(s, a, b)) = Trim(SubSeq(s, c, d))
<1>1. Len(s) \in Nat /\ a \in Nat /\ b \in Nat /\ c \in Nat /\ d \in Nat
      /\ a <= c /\ d <= b /\ b <= Len(s) /\ 1 <= a
  OBVIOUS
<1>2. c \in 1 .. Len(s) + 1 /\ d \in c - 1 .. Len(s)
  BY <1>1
<1>3. CASE Blank(s, c, d)
  <2>1. Blank(s, a, b)
    BY <1>1, <1>3 DEF Blank
  <2> QED
    BY <1>2, <1>3, <2>1, TrimBlank
<1>4. ASSUME NEW x \in 1 .. Len(s), NEW y \in 1 .. Len(s), Within(s, c, d, x, y)
      PROVE  Trim(SubSeq(s, a, b)) = Trim(SubSeq(s, c, d))
  BY <1>4, WithinSame
<1> QED
  BY <1>2, <1>3, <1>4, BlankOrWithin

-----------------------------------------------------------------------------
(* What AnalyseLine cuts out of a line.                                    *)

\* The first c of a part.
LEMMA FirstInPart ==
  ASSUME NEW C, NEW s \in Seq(C), NEW a \in 1 .. Len(s) + 1, NEW b \in a - 1 .. Len(s),
         NEW c
  PROVE  /\ (\A i \in a .. b : s[i] # c) => FirstAt(SubSeq(s, a, b), c) = 0
         /\ \A p \in a .. b : s[p] = c /\ (\A i \in a .. p - 1 : s[i] # c)
              => FirstAt(SubSeq(s, a, b), c) = p - a + 1
<1>1. Len(s) \in Nat /\ a \in Nat /\ b \in Nat
  OBVIOUS
<1>2. PICK t : t = SubSeq(s, a, b)
  OBVIOUS
<1>3. /\ t \in Seq(C) /\ Len(t) = b - a + 1
      /\ \A i \in 1 .. b - a + 1 : t[i] = s[a + i - 1]
  BY <1>2, PartIs
<1>4. ASSUME \A i \in a .. b : s[i] # c
      PROVE  FirstAt(t, c) = 0
  <2>1. ASSUME NEW i \in 1 .. Len(t)
        PROVE  t[i] # c
    <3>1. a + i - 1 \in a .. b /\ i \in 1 .. b - a + 1
      BY <1>1, <1>3
    <3> QED
      BY <1>3, <1>4, <3>1
  <2>2. IsFirst(t, c, 0) /\ 0 \in 0 .. Len(t)
    BY <1>3, <2>1 DEF IsFirst
  <2> QED
    BY <1>3, <2>2, FirstIsOne
<1>5. ASSUME NEW p \in a .. b, s[p] = c, \A i \in a .. p - 1 : s[i] # c
      PROVE  FirstAt(t, c) = p - a + 1
  <2>1. PICK q \in Nat : q = p - a + 1
    BY <1>1
  <2>2. q \in 1 .. Len(t) /\ q \in 0 .. Len(t) /\ q \in 1 .. b - a + 1 /\ a + q - 1 = p
    BY <1>1, <1>3, <2>1
  <2>3. t[q] = c
    BY <1>3, <1>5, <2>2
  <2>4. ASSUME NEW i \in 1 .. Len(t), i < q
        PROVE  t[i] # c
    <3>1. a + i - 1 \in a .. p - 1 /\ i \in 1 .. b - a + 1
      BY <1>1, <1>3, <2>2, <2>4
    <3> QED
      BY <1>3, <1>5, <3>1
  <2>5. IsFirst(t, c, q)
    BY <2>2, <2>3, <2>4 DEF IsFirst
  <2> QED
    BY <1>3, <2>1, <2>2, <2>5, FirstIsOne
<1> QED
  BY <1>2, <1>4, <1>5

LEMMA SubstrIs ==
  ASSUME NEW C, NEW s \in Seq(C), NEW pos \in 0 .. Len(s), NEW length \in Int
  PROVE  /\ length < 0 => Substr(s, pos, length) = SubSeq(s, pos + 1, Len(s))
         /\ length >= 0 /\ pos + length <= Len(s) =>
              Substr(s, pos, length) = SubSeq(s, pos + 1, pos + length)
<1>1. Len(s) \in Nat /\ pos \in Nat
  OBVIOUS
<1>2. length < 0 => Substr(s, pos, length) = SubSeq(s, pos + 1, Len(s))
  BY DEF Substr
<1>3. ASSUME length >= 0, pos + length <= Len(s)
      PROVE  Substr(s, pos, length) = SubSeq(s, pos + 1, pos + length)
  <2>1. PICK m \in Nat, n \in Nat : m = pos + length /\ n = Len(s) /\ m <= n
    BY <1>1, <1>3
  <2>2. Min({m, n}) \in {m, n} /\ \A y \in {m, n} : Min({m, n}) <= y
    BY MinIs
  <2>3. Min({m, n}) = m
    BY <2>1, <2>2
  <2>4. ~(length < 0)
    BY <1>3
  <2>5. Substr(s, pos, length) = SubSeq(s, pos + 1, Min({pos + length, Len(s)}))
    BY <2>4, Zenon DEF Substr
  <2>6. Min({pos + length, Len(s)}) = pos + length
    BY <2>1, <2>3, Zenon
  <2> QED
    BY <2>5, <2>6, Zenon
<1> QED
  BY <1>2, <1>3

\* How many characters stand in front of a comment, and in front of the carriage return
\* behind them.
End(line) == EndPos(line) + 1

TextEnd(line) ==
  IF End(line) > 0 /\ line[End(line)] = "\r" THEN End(line) - 1 ELSE End(line)

LEMMA EndIs ==
  ASSUME NEW C, NEW line \in Seq(C)
  PROVE  /\ Len(line) \in Nat /\ End(line) \in 0 .. Len(line) /\ TextEnd(line) \in 0 .. End(line)
         /\ FirstAt(line, "#") = 0 => End(line) = Len(line)
         /\ FirstAt(line, "#") # 0 => End(line) = FirstAt(line, "#") - 1
         /\ TextEnd(line) # End(line) =>
              TextEnd(line) = End(line) - 1 /\ line[End(line)] = "\r"
         /\ End(line) > 0 /\ line[End(line)] = "\r" => TextEnd(line) = End(line) - 1
<1>1. PICK h : h = FirstAt(line, "#")
  OBVIOUS
<1>2. h \in 0 .. Len(line) /\ Len(line) \in Nat
  BY <1>1, FirstIs
<1>3. End(line) = IF h = 0 THEN Len(line) ELSE h - 1
  BY <1>1, <1>2 DEF End, EndPos, Find
<1>4. End(line) \in 0 .. Len(line)
  BY <1>2, <1>3
<1> QED
  BY <1>1, <1>2, <1>3, <1>4 DEF TextEnd

LEMMA SaidIs ==
  ASSUME NEW C, NEW line \in Seq(C)
  PROVE  Said(line) = Trim(SubSeq(line, 1, TextEnd(line)))
<1>1. PICK e, n : e = End(line) /\ n = Len(line)
  OBVIOUS
<1>2. n \in Nat /\ e \in 0 .. n
  BY <1>1, EndIs
<1>3. PICK text : text = SubSeq(line, 1, e)
  OBVIOUS
<1>4. text \in Seq(C) /\ Len(text) = e /\ \A i \in 1 .. e : text[i] = line[i]
  <2>1. 1 \in 1 .. n + 1 /\ e \in 1 - 1 .. n
    BY <1>2
  <2> QED
    BY <1>1, <1>2, <1>3, <2>1, PartIs
<1>5. e = IF FirstAt(line, "#") = 0 THEN Len(line) ELSE FirstAt(line, "#") - 1
  BY <1>1, EndIs
<1>6. Said(line) = Trim(IF text # <<>> /\ Last(text) = "\r" THEN Front(text) ELSE text)
  BY <1>3, <1>5 DEF Said
<1>7. text # <<>> <=> e > 0
  BY <1>2, <1>4
<1>8. e > 0 => Last(text) = line[e]
  BY <1>2, <1>4 DEF Last
<1>9. e > 0 => Front(text) = SubSeq(line, 1, e - 1)
  <2>1. SUFFICES ASSUME e > 0 PROVE SubSeq(SubSeq(line, 1, e), 1, e - 1) = SubSeq(line, 1, e - 1)
    BY <1>3, <1>4 DEF Front
  <2>2. 1 \in 1 .. Len(line) + 1 /\ e \in 1 - 1 .. Len(line) /\ 1 \in 1 .. e + 1 /\ e - 1 \in 1 - 1 .. e
    BY <1>1, <1>2, <2>1
  <2>3. SubSeq(SubSeq(line, 1, e), 1 - 1 + 1, (e - 1) - 1 + 1) = SubSeq(line, 1, e - 1)
    BY <2>2, PartOfPart
  <2>4. 1 - 1 + 1 = 1 /\ (e - 1) - 1 + 1 = e - 1
    BY <1>2
  <2> QED
    BY <2>3, <2>4
<1>10. CASE e > 0 /\ line[e] = "\r"
  BY <1>1, <1>6, <1>7, <1>8, <1>9, <1>10 DEF TextEnd
<1>11. CASE ~(e > 0 /\ line[e] = "\r")
  BY <1>1, <1>3, <1>6, <1>7, <1>8, <1>11 DEF TextEnd
<1> QED
  BY <1>10, <1>11

\* What a line says is nothing, or a part of it without blanks at its ends.
LEMMA SaidShape ==
  ASSUME NEW C, NEW line \in Seq(C)
  PROVE  \/ Blank(line, 1, TextEnd(line)) /\ Said(line) = <<>>
         \/ \E x, y \in 1 .. Len(line) :
              /\ Within(line, 1, TextEnd(line), x, y) /\ Said(line) = SubSeq(line, x, y)
<1>1. PICK t : t = TextEnd(line)
  OBVIOUS
<1>2. 1 \in 1 .. Len(line) + 1 /\ t \in 1 - 1 .. Len(line)
  BY <1>1, EndIs
<1>3. Said(line) = Trim(SubSeq(line, 1, t))
  BY <1>1, SaidIs
<1>4. CASE Blank(line, 1, t)
  BY <1>1, <1>2, <1>3, <1>4, TrimBlank
<1>5. \A x, y : Within(line, 1, t, x, y) => Trim(SubSeq(line, 1, t)) = SubSeq(line, x, y)
  BY <1>2, TrimWithin
<1>6. Blank(line, 1, t) \/ \E x, y \in 1 .. Len(line) : Within(line, 1, t, x, y)
  BY <1>2, BlankOrWithin
<1> QED
  BY <1>1, <1>3, <1>4, <1>5, <1>6

-----------------------------------------------------------------------------
(* What a line means.                                                      *)

Equals(line) == FirstAt(Said(line), "=")

KeySaid(line) == Trim(SubSeq(Said(line), 1, Equals(line) - 1))

ValueSaid(line) == Trim(SubSeq(Said(line), Equals(line) + 1, Len(Said(line))))

SaysSection(line) ==
  LET said == Said(line) n == Len(said) IN n > 1 /\ said[1] = "[" /\ said[n] = "]"

LEMMA MeaningIs ==
  ASSUME NEW line
  PROVE  /\ SaysSection(line) =>
              Meaning(line) = [kind |-> "section",
                               name |-> SubSeq(Said(line), 2, Len(Said(line)) - 1)]
         /\ ~SaysSection(line) /\ Equals(line) > 0 /\ KeySaid(line) # <<>> =>
              Meaning(line) = [kind |-> "setting", key |-> KeySaid(line),
                               value |-> ValueSaid(line)]
         /\ ~SaysSection(line) /\ ~(Equals(line) > 0 /\ KeySaid(line) # <<>>) =>
              Meaning(line) = [kind |-> "nothing"]
BY DEF Meaning, SaysSection, Equals, KeySaid, ValueSaid

\* A line says nothing of a key when no equals sign stands in its text.
LEMMA NoEquals ==
  ASSUME NEW C, NEW line \in Seq(C), \A i \in 1 .. TextEnd(line) : line[i] # "="
  PROVE  Equals(line) = 0
<1>1. PICK t : t = TextEnd(line)
  OBVIOUS
<1>2. t \in 0 .. Len(line) /\ Len(line) \in Nat /\ t \in Nat
  BY <1>1, EndIs
<1>3. CASE Said(line) = <<>>
  <2>1. IsFirst(<<>>, "=", 0) /\ <<>> \in Seq(C) /\ 0 \in 0 .. Len(<<>>)
    BY DEF IsFirst
  <2>2. FirstAt(<<>>, "=") = 0
    BY <2>1, FirstIsOne
  <2> QED
    BY <1>3, <2>2 DEF Equals
<1>4. ASSUME NEW x \in 1 .. Len(line), NEW y \in 1 .. Len(line), Within(line, 1, t, x, y),
             Said(line) = SubSeq(line, x, y)
      PROVE  Equals(line) = 0
  <2>1. x \in 1 .. Len(line) + 1 /\ y \in x - 1 .. Len(line) /\ y <= t
    BY <1>2, <1>4 DEF Within
  <2>2. \A i \in x .. y : line[i] # "="
    BY <1>1, <1>2, <2>1
  <2>3. FirstAt(SubSeq(line, x, y), "=") = 0
    BY <2>1, <2>2, FirstInPart
  <2> QED
    BY <1>4, <2>3 DEF Equals
<1> QED
  BY <1>1, <1>3, <1>4, SaidShape

\* Otherwise its key and value stand on both sides of the first one.
LEMMA KeyAndValue ==
  ASSUME NEW C, NEW line \in Seq(C), NEW q \in 1 .. TextEnd(line), q = FirstAt(line, "=")
  PROVE  /\ Equals(line) > 0
         /\ KeySaid(line) = Trim(SubSeq(line, 1, q - 1))
         /\ ValueSaid(line) = Trim(SubSeq(line, q + 1, TextEnd(line)))
<1>1. PICK t : t = TextEnd(line)
  OBVIOUS
<1>2. t \in 0 .. Len(line) /\ Len(line) \in Nat /\ t \in Nat /\ t <= Len(line)
  BY <1>1, EndIs
<1>3. q \in Nat /\ 1 <= q /\ q <= t /\ q \in 1 .. Len(line)
  BY <1>1, <1>2
<1>4. line[q] = "=" /\ \A i \in 1 .. Len(line) : i < q => line[i] # "="
  BY <1>2, <1>3, FirstIs DEF IsFirst
<1>5. ~IsSpace(line[q])
  BY <1>4 DEF IsSpace
<1>6. ~Blank(line, 1, t)
  BY <1>3, <1>5 DEF Blank
<1>7. PICK x \in 1 .. Len(line), y \in 1 .. Len(line) :
        Within(line, 1, t, x, y) /\ Said(line) = SubSeq(line, x, y)
  BY <1>1, <1>6, SaidShape
<1>8. /\ x \in Nat /\ y \in Nat /\ 1 <= x /\ x <= y /\ y <= t
      /\ Blank(line, 1, x - 1) /\ Blank(line, y + 1, t)
  BY <1>2, <1>7 DEF Within
<1>9. x <= q /\ q <= y
  <2>1. ~(q <= x - 1) /\ ~(y + 1 <= q)
    BY <1>3, <1>5, <1>8 DEF Blank
  <2> QED
    BY <1>3, <1>8, <2>1
<1>10. x \in 1 .. Len(line) + 1 /\ y \in x - 1 .. Len(line)
  BY <1>2, <1>8
<1>11. Equals(line) = q - x + 1
  <2>1. q \in x .. y /\ \A i \in x .. q - 1 : line[i] # "="
    BY <1>2, <1>3, <1>4, <1>8, <1>9
  <2>2. FirstAt(SubSeq(line, x, y), "=") = q - x + 1
    BY <1>4, <1>10, <2>1, FirstInPart
  <2> QED
    BY <1>7, <2>2 DEF Equals
<1>12. Len(Said(line)) = y - x + 1
  BY <1>7, <1>10, PartIs
<1>13. KeySaid(line) = Trim(SubSeq(line, 1, q - 1))
  <2>1. x \in x .. y + 1 /\ q - 1 \in x - 1 .. y
    BY <1>3, <1>8, <1>9
  <2>2. SubSeq(SubSeq(line, x, y), x - x + 1, (q - 1) - x + 1) = SubSeq(line, x, q - 1)
    BY <1>10, <2>1, PartOfPart
  <2>3. x - x + 1 = 1 /\ (q - 1) - x + 1 = (q - x + 1) - 1
    BY <1>3, <1>8
  <2>4. KeySaid(line) = Trim(SubSeq(line, x, q - 1))
    BY <1>7, <1>11, <2>2, <2>3 DEF KeySaid
  <2>5. /\ 1 \in 1 .. Len(line) + 1 /\ q - 1 \in 1 - 1 .. Len(line)
        /\ x \in 1 .. (q - 1) + 1 /\ q - 1 \in x - 1 .. q - 1
    BY <1>2, <1>3, <1>8, <1>9
  <2>6. Blank(line, (q - 1) + 1, q - 1)
    BY <1>3 DEF Blank
  <2>7. Trim(SubSeq(line, 1, q - 1)) = Trim(SubSeq(line, x, q - 1))
    BY <1>8, <2>5, <2>6, TrimSame
  <2> QED
    BY <2>4, <2>7
<1>14. ValueSaid(line) = Trim(SubSeq(line, q + 1, t))
  <2>1. q + 1 \in x .. y + 1 /\ y \in (q + 1) - 1 .. y
    BY <1>3, <1>8, <1>9
  <2>2. SubSeq(SubSeq(line, x, y), (q + 1) - x + 1, y - x + 1) = SubSeq(line, q + 1, y)
    BY <1>10, <2>1, PartOfPart
  <2>3. (q + 1) - x + 1 = (q - x + 1) + 1
    BY <1>3, <1>8
  <2>4. ValueSaid(line) = Trim(SubSeq(line, q + 1, y))
    BY <1>7, <1>11, <1>12, <2>2, <2>3 DEF ValueSaid
  <2>5. /\ q + 1 \in 1 .. Len(line) + 1 /\ t \in (q + 1) - 1 .. Len(line)
        /\ q + 1 \in q + 1 .. t + 1 /\ y \in (q + 1) - 1 .. t
    BY <1>2, <1>3, <1>8, <1>9
  <2>6. Blank(line, q + 1, (q + 1) - 1)
    BY <1>3 DEF Blank
  <2>7. Trim(SubSeq(line, q + 1, t)) = Trim(SubSeq(line, q + 1, y))
    BY <1>8, <2>5, <2>6, TrimSame
  <2> QED
    BY <2>4, <2>7
<1> QED
  BY <1>1, <1>3, <1>8, <1>9, <1>11, <1>13, <1>14

\* A line without both brackets does not say a section.
LEMMA NoSection ==
  ASSUME NEW C, NEW line \in Seq(C),
         FirstAt(line, "[") = 0 \/ FirstAt(line, "]") = 0 \/ TextEnd(line) = 0
  PROVE  ~SaysSection(line)
<1>1. PICK t : t = TextEnd(line)
  OBVIOUS
<1>2. t \in 0 .. Len(line) /\ Len(line) \in Nat /\ t \in Nat
  BY <1>1, EndIs
<1>3. CASE Said(line) = <<>>
  BY <1>3 DEF SaysSection
<1>4. ASSUME NEW x \in 1 .. Len(line), NEW y \in 1 .. Len(line), Within(line, 1, t, x, y),
             Said(line) = SubSeq(line, x, y), SaysSection(line)
      PROVE  FALSE
  <2>1. /\ x \in Nat /\ y \in Nat /\ x <= y /\ 1 <= t
        /\ x \in 1 .. Len(line) + 1 /\ y \in x - 1 .. Len(line)
    BY <1>2, <1>4 DEF Within
  <2>2. PICK n, said : said = Said(line) /\ n = Len(said)
    OBVIOUS
  <2>3. n = y - x + 1 /\ \A i \in 1 .. y - x + 1 : said[i] = line[x + i - 1]
    BY <1>4, <2>1, <2>2, PartIs
  <2>4. said[1] = line[x] /\ said[n] = line[y]
    <3>1. 1 \in 1 .. y - x + 1 /\ n \in 1 .. y - x + 1 /\ x + 1 - 1 = x /\ x + n - 1 = y
      BY <2>1, <2>3
    <3> QED
      BY <2>3, <3>1
  <2>5. line[x] = "[" /\ line[y] = "]"
    BY <1>4, <2>2, <2>4 DEF SaysSection
  <2>6. FirstAt(line, "[") # 0
    BY <2>5, FirstIs DEF IsFirst
  <2>7. FirstAt(line, "]") # 0
    BY <2>5, FirstIs DEF IsFirst
  <2> QED
    BY <1>1, <2>1, <2>6, <2>7
<1> QED
  BY <1>1, <1>3, <1>4, SaidShape

-----------------------------------------------------------------------------
(* What AnalyseLine finds in a regular line.                               *)

\* A carriage return of a regular line is its last character.
LEMMA ReturnIs ==
  ASSUME NEW C, NEW line \in Seq(C), RegularEnd(line), NEW i \in 1 .. Len(line),
         line[i] = "\r"
  PROVE  /\ i = Len(line) /\ FirstAt(line, "\r") = i /\ i > 1
         /\ line[i - 1] # "=" /\ ~IsSpace(line[i - 1])
<1>1. PICK r : r = FirstAt(line, "\r")
  OBVIOUS
<1>2. r \in 0 .. Len(line) /\ IsFirst(line, "\r", r) /\ Len(line) \in Nat
  BY <1>1, FirstIs
<1>3. r # 0 /\ r <= i
  BY <1>2 DEF IsFirst
<1>4. Find(line, "\r") = r - 1 /\ r - 1 # -1
  BY <1>1, <1>2, <1>3 DEF Find
<1>5. r - 1 = Len(line) - 1 /\ r - 1 > 0 /\ line[r - 1] \notin {" ", "\t", "="}
  BY <1>4 DEF RegularEnd
<1>6. i = r /\ r > 1 /\ i = Len(line)
  <2>1. Len(line) \in Nat /\ i \in Nat /\ i <= Len(line) /\ r \in Nat
    BY <1>2
  <2>2. r - 1 = Len(line) - 1 /\ r - 1 > 0
    BY <1>5
  <2> QED
    BY <1>3, <2>1, <2>2
<1>7. line[i - 1] \notin {" ", "\t", "="}
  BY <1>5, <1>6
<1> QED
  BY <1>1, <1>6, <1>7 DEF IsSpace

LEMMA NoneInTrim ==
  ASSUME NEW C, NEW s \in Seq(C), NEW a \in 1 .. Len(s) + 1, NEW b \in a - 1 .. Len(s),
         NEW c, \A i \in a .. b : s[i] # c
  PROVE  FirstAt(Trim(SubSeq(s, a, b)), c) = 0
<1>1. Len(s) \in Nat /\ a \in Nat /\ b \in Nat
  OBVIOUS
<1>2. CASE Blank(s, a, b)
  <2>1. IsFirst(<<>>, c, 0) /\ <<>> \in Seq(C) /\ 0 \in 0 .. Len(<<>>)
    BY DEF IsFirst
  <2>2. FirstAt(<<>>, c) = 0
    BY <2>1, FirstIsOne
  <2> QED
    BY <1>2, <2>2, TrimBlank
<1>3. \A x, y : Within(s, a, b, x, y) => Trim(SubSeq(s, a, b)) = SubSeq(s, x, y)
  BY TrimWithin
<1>4. ASSUME NEW x \in 1 .. Len(s), NEW y \in 1 .. Len(s), Within(s, a, b, x, y)
      PROVE  FirstAt(SubSeq(s, x, y), c) = 0
  <2>1. x \in 1 .. Len(s) + 1 /\ y \in x - 1 .. Len(s) /\ a <= x /\ y <= b
    BY <1>1, <1>4 DEF Within
  <2>2. \A i \in x .. y : s[i] # c
    BY <1>1, <2>1
  <2> QED
    BY <2>1, <2>2, FirstInPart
<1> QED
  BY <1>2, <1>3, <1>4, BlankOrWithin

\* The value without the carriage return.
LEMMA ValueFound ==
  ASSUME NEW C, NEW line \in Seq(C), RegularEnd(line), NEW q \in 1 .. TextEnd(line),
         line[q] = "="
  PROVE  WithoutReturn(Trim(SubSeq(line, q + 1, End(line)))) =
           Trim(SubSeq(line, q + 1, TextEnd(line)))
<1>1. PICK e, t, n : e = End(line) /\ t = TextEnd(line) /\ n = Len(line)
  OBVIOUS
<1>2. /\ n \in Nat /\ e \in 0 .. n /\ t \in 0 .. e
      /\ t # e => t = e - 1 /\ line[e] = "\r"
      /\ e > 0 /\ line[e] = "\r" => t = e - 1
  BY <1>1, EndIs
<1>3. q \in Nat /\ 1 <= q /\ q <= t /\ e \in Nat /\ t \in Nat /\ t <= e /\ e <= n
  BY <1>1, <1>2
<1>4. CASE t = e
  <2>1. ASSUME NEW i \in q + 1 .. e
        PROVE  line[i] # "\r"
    <3>1. i \in 1 .. Len(line) /\ i <= e /\ e > 0 /\ i \in Nat
      BY <1>1, <1>3
    <3>2. line[i] = "\r" => i = n
      BY <1>1, <3>1, ReturnIs
    <3> QED
      BY <1>2, <1>3, <1>4, <3>1, <3>2
  <2>2. q + 1 \in 1 .. Len(line) + 1 /\ e \in (q + 1) - 1 .. Len(line)
    BY <1>1, <1>3
  <2>3. PICK v : v = Trim(SubSeq(line, q + 1, e))
    OBVIOUS
  <2>4. FirstAt(v, "\r") = 0
    BY <2>1, <2>2, <2>3, NoneInTrim
  <2>5. WithoutReturn(v) = v
    BY <2>4 DEF WithoutReturn, Find
  <2> QED
    BY <1>1, <1>4, <2>3, <2>5
<1>5. CASE t # e
  <2>1. t = e - 1 /\ line[e] = "\r" /\ e \in 1 .. Len(line)
    BY <1>1, <1>2, <1>3, <1>5
  <2>2. e = n /\ FirstAt(line, "\r") = n /\ n > 1 /\ line[n - 1] # "=" /\ ~IsSpace(line[n - 1])
    BY <1>1, <2>1, ReturnIs
  <2>3. t = n - 1 /\ q # t /\ q + 1 <= t /\ ~IsSpace(line[t])
    BY <1>1, <1>2, <1>3, <2>1, <2>2
  <2>4. q + 1 \in 1 .. Len(line) + 1 /\ t \in (q + 1) - 1 .. Len(line)
        /\ n \in (q + 1) - 1 .. Len(line)
    BY <1>1, <1>2, <1>3
  <2>5. t \in 1 .. Len(line) /\ q + 1 <= t
    BY <1>1, <1>2, <1>3, <2>3
  <2>6. ~Blank(line, q + 1, t)
    BY <1>3, <2>3, <2>5 DEF Blank
  <2>7. PICK x \in 1 .. Len(line), y \in 1 .. Len(line) : Within(line, q + 1, t, x, y)
    BY <2>4, <2>6, BlankOrWithin
  <2>8. /\ x \in Nat /\ y \in Nat /\ q + 1 <= x /\ x <= y /\ y <= t
        /\ ~IsSpace(line[x]) /\ Blank(line, q + 1, x - 1) /\ Blank(line, y + 1, t)
    BY <1>1, <1>2, <1>3, <2>7 DEF Within
  <2>9. y = t
    <3>1. ~(y + 1 <= t)
      BY <2>3, <2>5, <2>8 DEF Blank
    <3> QED
      BY <1>3, <2>8, <3>1
  <2>10. Trim(SubSeq(line, q + 1, t)) = SubSeq(line, x, t)
    <3>1. \A u, w : Within(line, q + 1, t, u, w) =>
                      Trim(SubSeq(line, q + 1, t)) = SubSeq(line, u, w)
      BY <2>4, TrimWithin
    <3> QED
      BY <2>7, <2>9, <3>1
  <2>11. Trim(SubSeq(line, q + 1, n)) = SubSeq(line, x, n)
    <3>1. \A u, w : Within(line, q + 1, n, u, w) =>
                      Trim(SubSeq(line, q + 1, n)) = SubSeq(line, u, w)
      BY <2>4, TrimWithin
    <3>2. ~IsSpace(line[n]) /\ Blank(line, n + 1, n)
      <4>1. ~IsSpace("\r")
        BY DEF IsSpace
      <4>2. line[n] = "\r"
        BY <2>1, <2>2
      <4>3. Blank(line, n + 1, n)
        BY <1>1, <1>2 DEF Blank
      <4> QED
        BY <4>1, <4>2, <4>3
    <3>3. x \in q + 1 .. n /\ n \in x .. n
      BY <1>2, <1>3, <2>8
    <3>4. Within(line, q + 1, n, x, n)
      BY <2>8, <3>2, <3>3 DEF Within
    <3> QED
      BY <3>1, <3>4
  <2>12. PICK v : v = SubSeq(line, x, n)
    OBVIOUS
  <2>13. x \in 1 .. Len(line) + 1 /\ n \in x - 1 .. Len(line)
    BY <1>1, <1>2, <1>3, <2>8
  <2>14. v \in Seq(C) /\ Len(v) = n - x + 1
    BY <2>12, <2>13, PartIs
  <2>15. FirstAt(v, "\r") = n - x + 1
    <3>1. ASSUME NEW i \in x .. n - 1
          PROVE  line[i] # "\r"
      <4>1. i \in 1 .. Len(line) /\ i # n
        BY <1>1, <1>2, <2>8
      <4> QED
        BY <1>1, <4>1, ReturnIs
    <3>2. n \in x .. n /\ line[n] = "\r"
      BY <1>2, <1>3, <2>1, <2>2, <2>8
    <3> QED
      BY <2>12, <2>13, <3>1, <3>2, FirstInPart
  <2>16. Find(v, "\r") = n - x /\ n - x > 0 /\ n - x + 1 = (n - x) + 1
    BY <1>2, <1>3, <2>3, <2>8, <2>15 DEF Find
  <2>17. WithoutReturn(v) = RemoveAt(v, n - x + 1)
    BY <2>16 DEF WithoutReturn
  <2>18. RemoveAt(v, n - x + 1) = SubSeq(line, x, n - 1)
    <3>1. SubSeq(v, (n - x + 1) + 1, Len(v)) = <<>>
      BY <1>2, <2>8, <2>14, SubSeqEmpty
    <3>2. x \in x .. n + 1 /\ n - 1 \in x - 1 .. n
      BY <1>2, <1>3, <2>3, <2>8
    <3>3. SubSeq(SubSeq(line, x, n), x - x + 1, (n - 1) - x + 1) = SubSeq(line, x, n - 1)
      BY <2>13, <3>2, PartOfPart
    <3>4. x - x + 1 = 1 /\ (n - 1) - x + 1 = (n - x + 1) - 1
      BY <1>2, <2>8
    <3>5. SubSeq(v, 1, (n - x + 1) - 1) = SubSeq(line, x, n - 1)
      BY <2>12, <3>3, <3>4
    <3>6. x \in 1 .. Len(line) + 1 /\ n - 1 \in x - 1 .. Len(line)
      BY <1>1, <1>2, <1>3, <2>3, <2>8
    <3>7. SubSeq(line, x, n - 1) \in Seq(C)
      BY <3>6, PartIs
    <3>8. SubSeq(line, x, n - 1) \o <<>> = SubSeq(line, x, n - 1)
      BY <3>7, ConcatEmptySeq
    <3> QED
      BY <3>1, <3>5, <3>8 DEF RemoveAt
  <2> QED
    BY <1>1, <2>2, <2>3, <2>10, <2>11, <2>12, <2>17, <2>18
<1> QED
  BY <1>4, <1>5

LEMMA SectionRead ==
  ASSUME NEW C, NEW line \in Seq(C), RegularEnd(line), RegularSection(line)
  PROVE  Analysed(line) = Meaning(line)
<1>1. PICK c, e, t, n : c = FirstAt(line, "]") /\ e = End(line) /\ t = TextEnd(line)
                        /\ n = Len(line)
  OBVIOUS
<1>2. /\ n \in Nat /\ e \in 0 .. n /\ t \in 0 .. e
      /\ FirstAt(line, "#") = 0 => e = n
      /\ FirstAt(line, "#") # 0 => e = FirstAt(line, "#") - 1
      /\ t # e => t = e - 1 /\ line[e] = "\r"
      /\ e > 0 /\ line[e] = "\r" => t = e - 1
  BY <1>1, EndIs
<1>3. /\ FirstAt(line, "[") \in 0 .. n /\ IsFirst(line, "[", FirstAt(line, "["))
      /\ FirstAt(line, "#") \in 0 .. n
      /\ c \in 0 .. n /\ IsFirst(line, "]", c)
  BY <1>1, FirstIs
<1>4. FirstAt(line, "[") = 1 /\ c # 0 /\ (FirstAt(line, "#") = 0 \/ FirstAt(line, "#") > c)
      /\ \A i \in c + 1 .. e : IsSpace(line[i]) \/ line[i] = "\r"
  <2>1. Find(line, "[") = 0 /\ Find(line, "]") # -1
        /\ (Find(line, "#") = -1 \/ Find(line, "#") > Find(line, "]"))
        /\ \A i \in Find(line, "]") + 2 .. EndPos(line) + 1 :
              IsSpace(line[i]) \/ line[i] = "\r"
    BY DEF RegularSection
  <2>2. Find(line, "[") = FirstAt(line, "[") - 1 /\ Find(line, "#") = FirstAt(line, "#") - 1
        /\ Find(line, "]") = c - 1
    BY <1>1 DEF Find
  <2>3. Find(line, "]") + 2 = c + 1 /\ EndPos(line) + 1 = e
    BY <1>1, <1>3, <2>2 DEF End
  <2>4. FirstAt(line, "[") = 1 /\ c # 0 /\ (FirstAt(line, "#") = 0 \/ FirstAt(line, "#") > c)
    BY <1>2, <1>3, <2>1, <2>2
  <2> QED
    BY <2>1, <2>3, <2>4
<1>5. line[1] = "[" /\ line[c] = "]" /\ c \in 1 .. n /\ 1 \in 1 .. n
  BY <1>1, <1>3, <1>4 DEF IsFirst
<1>6. c \in Nat /\ 2 <= c /\ c <= e /\ e <= n
  <2>1. c # 1
    BY <1>5
  <2>2. c \in Nat /\ 2 <= c
    BY <1>2, <1>5, <2>1
  <2>3. c <= e
    BY <1>2, <1>3, <1>4, <1>5
  <2> QED
    BY <1>2, <2>2, <2>3
<1>7. e \in Nat /\ t \in Nat /\ c <= t /\ t <= e
  <2>1. t # c - 1
    BY <1>2, <1>5, <1>6
  <2> QED
    BY <1>2, <1>6, <2>1
<1>8. Blank(line, c + 1, t)
  <2>1. ASSUME NEW i \in 1 .. Len(line), c + 1 <= i, i <= t, line[i] = "\r"
        PROVE  FALSE
    <3>1. i = n
      BY <1>1, <2>1, ReturnIs
    <3> QED
      BY <1>2, <1>6, <1>7, <2>1, <3>1
  <2>2. ASSUME NEW i \in 1 .. Len(line), c + 1 <= i, i <= t
        PROVE  IsSpace(line[i])
    <3>1. i \in c + 1 .. e
      BY <1>6, <1>7, <2>2
    <3> QED
      BY <1>4, <2>1, <2>2, <3>1
  <2> QED
    BY <2>2 DEF Blank
<1>9. Within(line, 1, t, 1, c)
  <2>1. ~IsSpace("[") /\ ~IsSpace("]")
    BY DEF IsSpace
  <2>2. Blank(line, 1, 1 - 1)
    BY DEF Blank
  <2>3. 1 \in 1 .. t /\ c \in 1 .. t
    BY <1>6, <1>7
  <2> QED
    BY <1>5, <1>8, <2>1, <2>2, <2>3 DEF Within
<1>10. Said(line) = SubSeq(line, 1, c)
  <2>1. 1 \in 1 .. Len(line) + 1 /\ t \in 1 - 1 .. Len(line)
    BY <1>1, <1>2
  <2>2. \A x, y : Within(line, 1, t, x, y) => Trim(SubSeq(line, 1, t)) = SubSeq(line, x, y)
    BY <2>1, TrimWithin
  <2> QED
    BY <1>1, <1>9, <2>2, SaidIs
<1>11. 1 \in 1 .. Len(line) + 1 /\ c \in 1 - 1 .. Len(line)
  BY <1>1, <1>5, <1>2
<1>12. PICK said : said = Said(line)
  OBVIOUS
<1>13. Len(said) = c /\ \A i \in 1 .. c : said[i] = line[i]
  <2>1. Len(said) = c - 1 + 1 /\ \A i \in 1 .. c - 1 + 1 : said[i] = line[1 + i - 1]
    BY <1>10, <1>11, <1>12, PartIs
  <2>2. c - 1 + 1 = c
    BY <1>6
  <2>3. \A i \in 1 .. c : 1 + i - 1 = i
    BY <1>6
  <2> QED
    BY <2>1, <2>2, <2>3
<1>14. SaysSection(line)
  <2>1. said[1] = "[" /\ said[c] = "]" /\ c > 1
    BY <1>5, <1>6, <1>13
  <2> QED
    BY <1>12, <1>13, <2>1 DEF SaysSection
<1>15. SubSeq(said, 2, c - 1) = SubSeq(line, 2, c - 1)
  <2>1. 2 \in 1 .. c + 1 /\ c - 1 \in 2 - 1 .. c
    BY <1>6
  <2>2. SubSeq(SubSeq(line, 1, c), 2 - 1 + 1, (c - 1) - 1 + 1) = SubSeq(line, 2, c - 1)
    BY <1>11, <2>1, PartOfPart
  <2>3. 2 - 1 + 1 = 2 /\ (c - 1) - 1 + 1 = c - 1
    BY <1>6
  <2> QED
    BY <1>10, <1>12, <2>2, <2>3
<1>16. Meaning(line) = [kind |-> "section", name |-> SubSeq(line, 2, c - 1)]
  BY <1>12, <1>13, <1>14, <1>15, MeaningIs
<1>17. IsSection(line)
  <2>1. line # <<>>
    BY <1>1, <1>2, <1>5
  <2>2. Find(line, "#") # 0 /\ Find(line, "[") # -1 /\ Find(line, "]") # -1
    BY <1>1, <1>3, <1>4, <1>6 DEF Find
  <2> QED
    BY <2>1, <2>2 DEF IsSection, Skipped
<1>18. SectionName(line) = SubSeq(line, 2, c - 1)
  <2>1. Find(line, "[") + 1 = 1 /\ Find(line, "]") - 1 = c - 2
    BY <1>1, <1>4, <1>6 DEF Find
  <2>2. 1 \in 0 .. Len(line) /\ c - 2 \in Int /\ c - 2 >= 0 /\ 1 + (c - 2) <= Len(line)
    BY <1>1, <1>6, <1>2
  <2>3. Substr(line, 1, c - 2) = SubSeq(line, 1 + 1, 1 + (c - 2))
    BY <2>2, SubstrIs
  <2>4. 1 + 1 = 2 /\ 1 + (c - 2) = c - 1
    BY <1>6
  <2> QED
    BY <2>1, <2>3, <2>4 DEF SectionName
<1> QED
  BY <1>16, <1>17, <1>18 DEF Analysed

\* A line says nothing when its first equals sign, if any, is its first character.
LEMMA NothingSaid ==
  ASSUME NEW C, NEW line \in Seq(C), ~SaysSection(line),
         FirstAt(line, "=") \notin 2 .. TextEnd(line)
  PROVE  Meaning(line) = [kind |-> "nothing"]
<1>1. PICK q, t, n : q = FirstAt(line, "=") /\ t = TextEnd(line) /\ n = Len(line)
  OBVIOUS
<1>2. n \in Nat /\ t \in Nat /\ t <= n
  BY <1>1, EndIs
<1>3. q \in 0 .. n /\ IsFirst(line, "=", q)
  BY <1>1, FirstIs
<1>4. CASE t > 0 /\ q = 1
  <2>1. 1 \in 1 .. TextEnd(line)
    BY <1>1, <1>2, <1>4
  <2>2. KeySaid(line) = Trim(SubSeq(line, 1, 1 - 1))
    BY <1>1, <1>4, <2>1, KeyAndValue
  <2>3. Blank(line, 1, 1 - 1) /\ 1 \in 1 .. Len(line) + 1 /\ 1 - 1 \in 1 - 1 .. Len(line)
    BY <1>1, <1>2 DEF Blank
  <2>4. KeySaid(line) = <<>>
    BY <2>2, <2>3, TrimBlank
  <2> QED
    BY <2>4, MeaningIs
<1>5. CASE ~(t > 0 /\ q = 1)
  <2>1. q = 0 \/ q > t
    BY <1>1, <1>2, <1>3, <1>5
  <2>2. \A i \in 1 .. t : i \in 1 .. Len(line) /\ (q = 0 \/ i < q)
    BY <1>1, <1>2, <1>3, <2>1
  <2>3. \A i \in 1 .. t : line[i] # "="
    BY <1>3, <2>2 DEF IsFirst
  <2>4. ~(Equals(line) > 0)
    BY <1>1, <2>3, NoEquals
  <2> QED
    BY <2>4, MeaningIs
<1> QED
  BY <1>4, <1>5

\* Of one character or none no key is cut.
LEMMA ShortIsNone ==
  ASSUME NEW C, NEW line, NewLine(line) \in Seq(C), Len(NewLine(line)) <= 1
  PROVE  ~IsSetting(line)
<1>1. PICK s \in Seq(C) : s = NewLine(line)
  OBVIOUS
<1>2. PICK p : p = FirstAt(s, "=")
  OBVIOUS
<1>3. Len(s) \in Nat /\ Len(s) <= 1 /\ p \in 0 .. Len(s)
  BY <1>1, <1>2, FirstIs
<1>4. p = 0 \/ p = 1
  BY <1>3
<1>5. CASE p = 0
  <2>1. Find(s, "=") = -1
    BY <1>2, <1>5 DEF Find
  <2> QED
    BY <1>1, <2>1 DEF IsSetting
<1>6. CASE p = 1
  <2>1. Find(s, "=") = 0
    BY <1>2, <1>6 DEF Find
  <2>2. 0 \in 0 .. Len(s) /\ 0 \in Int /\ 0 >= 0 /\ 0 + 0 <= Len(s)
    BY <1>3
  <2>3. Substr(s, 0, 0) = SubSeq(s, 0 + 1, 0 + 0)
    BY <2>2, SubstrIs
  <2>4. 0 + 1 \in 1 .. Len(s) + 1 /\ 0 + 0 \in (0 + 1) - 1 .. Len(s)
    BY <1>3
  <2>5. Blank(s, 0 + 1, 0 + 0)
    BY DEF Blank
  <2>6. Trim(Substr(s, 0, 0)) = <<>>
    BY <2>3, <2>4, <2>5, TrimBlank
  <2> QED
    BY <1>1, <2>1, <2>6 DEF IsSetting, KeyOf
<1> QED
  BY <1>4, <1>5, <1>6

\* The key and the value of a line of more than two characters.
LEMMA SettingRead ==
  ASSUME NEW C, NEW line \in Seq(C), RegularEnd(line), End(line) > 2, ~Skipped(line),
         ~IsSection(line), ~SaysSection(line),
         FirstAt(line, "=") <= End(line)
  PROVE  Analysed(line) = Meaning(line)
<1>1. PICK q, e, t, n : q = FirstAt(line, "=") /\ e = End(line) /\ t = TextEnd(line)
                        /\ n = Len(line)
  OBVIOUS
<1>2. /\ n \in Nat /\ e \in 0 .. n /\ t \in 0 .. e /\ e > 2
      /\ t # e => t = e - 1 /\ line[e] = "\r"
  BY <1>1, EndIs
<1>3. q \in 0 .. n /\ IsFirst(line, "=", q) /\ q <= e
  BY <1>1, FirstIs
<1>4. NewLine(line) = line
  <2>1. EndPos(line) = e - 1
    <3>1. e = EndPos(line) + 1 /\ EndPos(line) \in Int
      <4>1. FirstAt(line, "#") \in 0 .. Len(line)
        BY FirstIs
      <4> QED
        BY <1>1, <1>2, <4>1 DEF End, EndPos, Find
    <3> QED
      BY <3>1
  <2>2. 0 \in 0 .. Len(line) /\ 1 - EndPos(line) \in Int /\ 1 - EndPos(line) < 0
    BY <1>1, <1>2, <2>1
  <2>3. Substr(line, 0, 1 - EndPos(line)) = SubSeq(line, 0 + 1, Len(line))
    BY <2>2, SubstrIs
  <2>4. SubSeq(line, 1, Len(line)) = line
    BY SubSeqFull
  <2> QED
    BY <2>3, <2>4 DEF NewLine
<1>5. CASE q = 0
  <2>1. Find(NewLine(line), "=") = -1
    BY <1>1, <1>4, <1>5 DEF Find
  <2>2. ~IsSetting(line)
    BY <2>1 DEF IsSetting
  <2>3. FirstAt(line, "=") \notin 2 .. TextEnd(line)
    BY <1>1, <1>5
  <2>4. Meaning(line) = [kind |-> "nothing"]
    BY <2>3, NothingSaid
  <2> QED
    BY <2>2, <2>4 DEF Analysed
<1>6. CASE q # 0
  <2>1. q \in Nat /\ 1 <= q /\ line[q] = "="
    BY <1>2, <1>3, <1>6 DEF IsFirst
  <2>2. q \in 1 .. TextEnd(line) /\ q <= t
    BY <1>1, <1>2, <1>3, <2>1
  <2>3. /\ Equals(line) > 0 /\ KeySaid(line) = Trim(SubSeq(line, 1, q - 1))
        /\ ValueSaid(line) = Trim(SubSeq(line, q + 1, t))
    BY <1>1, <2>2, KeyAndValue
  <2>4. Find(line, "=") = q - 1 /\ q - 1 # -1
    BY <1>1, <2>1 DEF Find
  <2>5. KeyOf(line) = KeySaid(line)
    <3>1. 0 \in 0 .. Len(line) /\ q - 1 \in Int /\ q - 1 >= 0 /\ 0 + (q - 1) <= Len(line)
      BY <1>1, <1>2, <1>3, <2>1
    <3>2. Substr(line, 0, q - 1) = SubSeq(line, 0 + 1, 0 + (q - 1))
      BY <3>1, SubstrIs
    <3>3. 0 + 1 = 1 /\ 0 + (q - 1) = q - 1
      BY <2>1
    <3> QED
      BY <1>4, <2>3, <2>4, <3>2, <3>3 DEF KeyOf
  <2>6. ValueOf(line) = ValueSaid(line)
    <3>1. EndPos(line) - (q - 1) = e - q
      <4>1. FirstAt(line, "#") \in 0 .. Len(line)
        BY FirstIs
      <4>2. EndPos(line) \in Int /\ e = EndPos(line) + 1
        BY <1>1, <1>2, <4>1 DEF End, EndPos, Find
      <4> QED
        BY <2>1, <4>2
    <3>2. q - 1 + 1 = q /\ q \in 0 .. Len(line) /\ e - q \in Int /\ e - q >= 0
          /\ q + (e - q) <= Len(line) /\ q + (e - q) = e
      BY <1>1, <1>2, <1>3, <2>1
    <3>3. Substr(line, q, e - q) = SubSeq(line, q + 1, q + (e - q))
      BY <3>2, SubstrIs
    <3>4. Substr(line, q - 1 + 1, EndPos(line) - (q - 1)) = SubSeq(line, q + 1, e)
      BY <3>1, <3>2, <3>3
    <3>5. ValueOf(line) = WithoutReturn(Trim(SubSeq(line, q + 1, e)))
      BY <1>4, <2>4, <3>4 DEF ValueOf
    <3> QED
      BY <1>1, <2>1, <2>2, <2>3, <3>5, ValueFound
  <2>7. IsSetting(line) <=> KeySaid(line) # <<>>
    BY <1>4, <2>4, <2>5 DEF IsSetting
  <2> QED
    BY <2>3, <2>5, <2>6, <2>7, MeaningIs DEF Analysed
<1> QED
  BY <1>5, <1>6

LEMMA OtherRead ==
  ASSUME NEW C, NEW line \in Seq(C), RegularEnd(line), RegularOther(line)
  PROVE  Analysed(line) = Meaning(line)
<1>1. PICK h, q, e, t, n : h = FirstAt(line, "#") /\ q = FirstAt(line, "=")
        /\ e = End(line) /\ t = TextEnd(line) /\ n = Len(line)
  OBVIOUS
<1>2. /\ n \in Nat /\ e \in 0 .. n /\ t \in 0 .. e
      /\ h = 0 => e = n
      /\ h # 0 => e = h - 1
  BY <1>1, EndIs
<1>3. h \in 0 .. n /\ q \in 0 .. n /\ IsFirst(line, "=", q)
  BY <1>1, FirstIs
<1>4. Find(line, "#") = h - 1 /\ Find(line, "=") = q - 1 /\ EndPos(line) = e - 1
  <2>1. Find(line, "#") = h - 1 /\ Find(line, "=") = q - 1
    BY <1>1 DEF Find
  <2>2. EndPos(line) \in Int /\ e = EndPos(line) + 1
    BY <1>1, <1>2, <1>3 DEF End, EndPos, Find
  <2> QED
    BY <2>1, <2>2
<1>5. /\ h = 1 \/ Find(line, "[") = -1 \/ Find(line, "]") = -1
      /\ h > 1 => q # 0 /\ q < h
      /\ q = 2 => e # 2
  <2>1. /\ h - 1 = 0 \/ Find(line, "[") = -1 \/ Find(line, "]") = -1
        /\ h - 1 > 0 => q - 1 # -1 /\ q - 1 < h - 1
        /\ q - 1 = 1 => e - 1 # 1
    BY <1>4 DEF RegularOther
  <2> QED
    BY <1>2, <1>3, <2>1
<1>6. ~IsSection(line)
  BY <1>2, <1>3, <1>4, <1>5 DEF IsSection, Skipped
<1>7. ~SaysSection(line)
  <2>1. h = 1 => t = 0
    BY <1>2
  <2>2. Find(line, "[") = -1 => FirstAt(line, "[") = 0
    <3>1. FirstAt(line, "[") \in 0 .. Len(line) /\ Find(line, "[") = FirstAt(line, "[") - 1
      BY FirstIs DEF Find
    <3> QED
      BY <1>1, <1>2, <3>1
  <2>3. Find(line, "]") = -1 => FirstAt(line, "]") = 0
    <3>1. FirstAt(line, "]") \in 0 .. Len(line) /\ Find(line, "]") = FirstAt(line, "]") - 1
      BY FirstIs DEF Find
    <3> QED
      BY <1>1, <1>2, <3>1
  <2> QED
    BY <1>1, <1>5, <2>1, <2>2, <2>3, NoSection
<1>8. CASE Skipped(line)
  <2>1. e = 0
    <3>1. CASE line = <<>>
      BY <1>1, <1>2, <3>1
    <3>2. CASE Find(line, "#") = 0
      BY <1>2, <1>3, <1>4, <3>2
    <3> QED
      BY <1>8, <3>1, <3>2 DEF Skipped
  <2>2. FirstAt(line, "=") \notin 2 .. TextEnd(line)
    BY <1>1, <1>2, <1>3, <2>1
  <2>3. Meaning(line) = [kind |-> "nothing"]
    BY <1>7, <2>2, NothingSaid
  <2> QED
    BY <1>6, <1>8, <2>3 DEF Analysed, IsSetting
<1>9. CASE ~Skipped(line) /\ e > 2
  <2>1. q <= e
    BY <1>2, <1>3, <1>5, <1>9
  <2> QED
    BY <1>1, <1>6, <1>7, <1>9, <2>1, SettingRead
<1>10. CASE ~Skipped(line) /\ ~(e > 2)
  <2>1. e = 1 \/ e = 2
    <3>1. e # 0
      <4>1. n # 0
        BY <1>1, <1>10 DEF Skipped
      <4>2. h # 1
        BY <1>3, <1>4, <1>10 DEF Skipped
      <4> QED
        BY <1>2, <1>3, <4>1, <4>2
    <3> QED
      BY <1>2, <1>10, <3>1
  <2>2. NewLine(line) \in Seq(C) /\ Len(NewLine(line)) <= 1
    <3>1. PICK d : d = 2 - e
      OBVIOUS
    <3>2. 1 - EndPos(line) = d /\ (d = 0 \/ d = 1) /\ 0 + d <= Len(line) /\ d <= 1
      BY <1>1, <1>2, <1>4, <2>1, <3>1
    <3>3. 0 \in 0 .. Len(line) /\ d \in Int /\ d >= 0
      BY <1>1, <1>2, <3>2
    <3>4. NewLine(line) = SubSeq(line, 0 + 1, 0 + d)
      BY <3>2, <3>3, SubstrIs DEF NewLine
    <3>5. 0 + 1 \in 1 .. Len(line) + 1 /\ 0 + d \in (0 + 1) - 1 .. Len(line)
      BY <1>1, <1>2, <3>2, <3>3
    <3>6. NewLine(line) \in Seq(C) /\ Len(NewLine(line)) = (0 + d) - (0 + 1) + 1
      BY <3>4, <3>5, PartIs
    <3> QED
      BY <3>2, <3>3, <3>6
  <2>3. ~IsSetting(line)
    BY <2>2, ShortIsNone
  <2>4. FirstAt(line, "=") \notin 2 .. TextEnd(line)
    <3>1. q \in 2 .. t => q = 2 /\ e = 2
      BY <1>2, <1>3, <2>1
    <3> QED
      BY <1>1, <1>5, <3>1
  <2>5. Meaning(line) = [kind |-> "nothing"]
    BY <1>7, <2>4, NothingSaid
  <2> QED
    BY <1>6, <2>3, <2>5 DEF Analysed
<1> QED
  BY <1>8, <1>9, <1>10

LEMMA LineRead ==
  ASSUME NEW line \in Lines \cup Sample, Regular(line)
  PROVE  Analysed(line) = Meaning(line)
<1>1. PICK C : C = Range(line) \ {"\n"}
  OBVIOUS
<1>2. line \in Seq(C)
  BY <1>1, ParseConfigAssumption
<1>3. RegularEnd(line) /\ (RegularSection(line) \/ RegularOther(line))
  BY DEF Regular
<1> QED
  BY <1>2, <1>3, SectionRead, OtherRead

\* AnalyseLine finds the section, the key and the value of every regular line, whatever
\* its characters and its length (ParseConfig.cc:55-92).
THEOREM LinesCorrect == Spec => []LinesRead
<1>1. LinesRead
  BY LineRead DEF LinesRead
<1> QED
  BY <1>1, PTL

-----------------------------------------------------------------------------
(* What is kept of a file.                                                 *)

\* The lines of files are regular.
LinesRegular == \A line \in Lines : Regular(line)

\* As long as every setting has its section and none begins twice, the section the loop
\* is in is the one the file is in, and k_v holds the pairs of that section and no others.
SettingsInv ==
  orderly =>
    /\ settings = written
    /\ section = last
    /\ last \in DOMAIN settings => k_v = settings[last]

\* What a line was found to be decides which branch reads it.
LEMMA Branches ==
  ASSUME NEW line, Analysed(line) = Meaning(line)
  PROVE  /\ Meaning(line).kind = "section" <=> IsSection(line)
         /\ Meaning(line).kind = "setting" <=> IsSetting(line)
         /\ IsSection(line) => Meaning(line).name = SectionName(line)
         /\ IsSetting(line) => /\ Meaning(line).key = KeyOf(line)
                               /\ Meaning(line).value = ValueOf(line)
<1>1. ~(IsSection(line) /\ IsSetting(line))
  BY DEF IsSetting
<1> QED
  BY <1>1 DEF Analysed

\* A section line: the section is new, or the file is orderly no more.
LEMMA SectionKeeps ==
  ASSUME SettingsInv, NEW line, Analysed(line) = Meaning(line), IsSection(line),
         ReadLine(line)
  PROVE  SettingsInv'
<1> SUFFICES ASSUME orderly'
             PROVE  /\ settings' = written' /\ section' = last'
                    /\ last' \in DOMAIN settings' => k_v' = settings'[last']
  BY DEF SettingsInv
<1> DEFINE name == Meaning(line).name
<1>1. Meaning(line).kind = "section" /\ name = SectionName(line) /\ ~IsSetting(line)
  BY Branches DEF IsSetting
<1>2. /\ last' = name
      /\ orderly' = (orderly /\ name \notin DOMAIN written)
      /\ written' = IF name \in DOMAIN written THEN written ELSE With(written, name, Empty)
  BY <1>1 DEF ReadLine, Says
<1>3. section' = name /\ Store(name, <<>>, <<>>)
  BY <1>1 DEF ReadLine, ReadSection, ReadSetting, ReadNothing
<1> HIDE DEF name
<1>4. settings = written /\ name \notin DOMAIN settings
  BY <1>2 DEF SettingsInv
<1>5. k_v' = Empty /\ settings' = With(settings, name, Empty)
  BY <1>3, <1>4 DEF Store
<1>6. settings' = written'
  BY <1>2, <1>4, <1>5
<1>7. settings'[name] = k_v'
  <2>1. With(settings, name, Empty)[name] = Empty
    BY DEF With
  <2> QED
    BY <1>5, <2>1, Zenon
<1> QED
  BY <1>2, <1>3, <1>6, <1>7

\* A setting: it goes to the section the file is in.
LEMMA SettingKeeps ==
  ASSUME SettingsInv, NEW line, Analysed(line) = Meaning(line), IsSetting(line),
         ReadLine(line)
  PROVE  SettingsInv'
<1> SUFFICES ASSUME orderly'
             PROVE  /\ settings' = written' /\ section' = last'
                    /\ last' \in DOMAIN settings' => k_v' = settings'[last']
  BY DEF SettingsInv
<1> DEFINE key == Meaning(line).key
           value == Meaning(line).value
<1>1. /\ Meaning(line).kind = "setting" /\ ~IsSection(line)
      /\ key = KeyOf(line) /\ value = ValueOf(line)
  BY Branches DEF IsSetting
<1>2. /\ last' = last
      /\ orderly' = (orderly /\ last \in DOMAIN written)
      /\ written' = IF last \in DOMAIN written
                    THEN [written EXCEPT ![last] = With(@, key, value)] ELSE written
  BY <1>1 DEF ReadLine, Says
<1>3. section' = section /\ Store(section, key, value)
  BY <1>1 DEF ReadLine, ReadSection, ReadSetting, ReadNothing
<1> HIDE DEF key, value
<1>4. /\ settings = written /\ section = last /\ last \in DOMAIN settings
      /\ k_v = settings[last]
  BY <1>2 DEF SettingsInv
<1>5. /\ k_v' = With(k_v, key, value)
      /\ settings' = [settings EXCEPT ![last] = k_v']
  BY <1>3, <1>4 DEF Store
<1>6. settings' = written'
  BY <1>2, <1>4, <1>5
<1>7. settings'[last] = k_v'
  BY <1>4, <1>5
<1> QED
  BY <1>2, <1>3, <1>4, <1>6, <1>7

\* Any other line changes nothing.
LEMMA NothingKeeps ==
  ASSUME SettingsInv, NEW line, Analysed(line) = Meaning(line),
         ~IsSection(line), ~IsSetting(line), ReadLine(line)
  PROVE  SettingsInv'
<1>1. Meaning(line).kind # "section" /\ Meaning(line).kind # "setting"
  BY Branches
<1>2. UNCHANGED <<last, orderly, written>>
  BY <1>1 DEF ReadLine, Says
<1>3. UNCHANGED <<settings, section, k_v>>
  BY DEF ReadLine, ReadSection, ReadSetting, ReadNothing
<1> QED
  BY <1>2, <1>3 DEF SettingsInv

\* What is kept of a file is what it says, section by section, for all files of
\* regular lines (ParseConfig.cc:55-125).
THEOREM SettingsCorrect ==
  ASSUME LinesRegular
  PROVE  Spec => []SettingsAsWritten
<1>1. Init => SettingsInv
  BY DEF Init, SettingsInv, Empty
<1>2. SettingsInv /\ [Next]_vars => SettingsInv'
  <2> SUFFICES ASSUME SettingsInv, [Next]_vars
               PROVE  SettingsInv'
    OBVIOUS
  <2>0. \A line \in Lines : Analysed(line) = Meaning(line)
    BY LineRead DEF LinesRegular
  <2>1. CASE Open
    BY <2>1 DEF Open, SettingsInv, Empty
  <2>2. ASSUME NEW line \in Lines, ReadLine(line)
        PROVE  SettingsInv'
    BY <2>2, <2>0, SectionKeeps, SettingKeeps, NothingKeeps
  <2>3. CASE UNCHANGED vars
    BY <2>3 DEF SettingsInv, vars
  <2> QED
    BY <2>1, <2>2, <2>3 DEF Next
<1>3. SettingsInv => SettingsAsWritten
  BY DEF SettingsInv, SettingsAsWritten
<1> QED
  BY <1>1, <1>2, <1>3, PTL DEF Spec

\* A setting of a known section is found at once under its key, in its section and in no
\* other, for all files of regular lines (ParseConfig.cc:55-92, 109-113, 127-147).
THEOREM SettingCorrect ==
  ASSUME LinesRegular
  PROVE  Spec => SettingFound
<1> DEFINE Found(line) ==
      /\ Meaning(line).key \in DOMAIN settings'[section]
      /\ settings'[section][Meaning(line).key] = Meaning(line).value
      /\ \A s \in DOMAIN settings \ {section} : settings'[s] = settings[s]
<1>1. ASSUME NEW line \in Lines, IsSetting(line), section \in DOMAIN settings, ReadLine(line)
      PROVE  Found(line)
  <2>1. PICK key, value : key = Meaning(line).key /\ value = Meaning(line).value
    OBVIOUS
  <2>2. /\ ~IsSection(line) /\ key = KeyOf(line) /\ value = ValueOf(line)
    <3>1. Analysed(line) = Meaning(line)
      BY LineRead DEF LinesRegular
    <3> QED
      BY <1>1, <2>1, <3>1, Branches DEF IsSetting
  <2>3. Store(section, key, value)
    BY <1>1, <2>2 DEF ReadLine, ReadSection, ReadSetting, ReadNothing
  <2>4. settings' = [settings EXCEPT ![section] = With(k_v, key, value)]
    BY <1>1, <2>3 DEF Store
  <2>5. settings'[section] = With(k_v, key, value)
    BY <1>1, <2>4
  <2>6. key \in DOMAIN With(k_v, key, value) /\ With(k_v, key, value)[key] = value
    BY DEF With
  <2> QED
    BY <2>1, <2>4, <2>5, <2>6
<1>2. [Next]_vars =>
        [\A line \in Lines :
           IsSetting(line) /\ section \in DOMAIN settings /\ ReadLine(line) => Found(line)]_vars
  BY <1>1
<1> QED
  BY <1>2, PTL DEF Spec, SettingFound

=============================================================================
