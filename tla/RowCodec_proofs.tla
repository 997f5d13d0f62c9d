--------------------------- MODULE RowCodec_proofs ---------------------------
(***************************************************************************)
(* Rows of any schema whose variable columns come before the others, with  *)
(* any texts, numbers and dates of the calendar: a row reads back as it    *)
(* was stored, also by way of a map or JSON, and its day numbers count     *)
(* days.                                                                   *)
(***************************************************************************)
EXTENDS RowMaps, FiniteSetTheorems, SequenceTheorems, WellFoundedInduction, TLAPS

-----------------------------------------------------------------------------
(* Induction and recursion over the naturals *)

LEMMA InductionOnSet ==
    ASSUME NEW S, 0 \in S, \A n \in Nat : n \in S => n + 1 \in S
    PROVE  \A n \in Nat : n \in S
<1> SUFFICES ASSUME NEW n \in Nat, n \notin S PROVE FALSE
  OBVIOUS
<1> DEFINE Missing == {m \in Nat : m \notin S}
<1>1. PICK m \in Missing : \A k \in Missing : <<k, m>> \notin OpToRel(<, Nat)
  BY WFMin, NatLessThanWellFounded
<1>2. m \in Nat /\ m \notin S /\ m # 0
  OBVIOUS
<1>3. m - 1 \in Nat /\ m - 1 < m /\ (m - 1) + 1 = m
  BY <1>2
<1>4. m - 1 \notin Missing
  BY <1>1, <1>2, <1>3 DEF OpToRel
<1>5. m - 1 \in S
  BY <1>3, <1>4
<1>6. (m - 1) + 1 \in S
  BY <1>3, <1>5
<1> QED
  BY <1>2, <1>3, <1>6

\* Up to a bound.
LEMMA InductionUpTo ==
    ASSUME NEW L \in Nat, NEW S, 0 \in S, \A n \in 0..L : n \in S /\ n < L => n + 1 \in S
    PROVE  \A n \in 0..L : n \in S
<1> DEFINE Q == S \cup {n \in Nat : n > L}
<1>1. 0 \in Q
  OBVIOUS
<1>2. \A n \in Nat : n \in Q => n + 1 \in Q
  OBVIOUS
<1> HIDE DEF Q
<1>3. \A n \in Nat : n \in Q
  BY <1>1, <1>2, InductionOnSet
<1> QED
  BY <1>3 DEF Q

\* f[0] is base, and G[n] makes f[n] of what is before it.
Recurs(f, L, base, G) == f = [n \in 0..L |-> IF n = 0 THEN base ELSE G[n][f[n-1]]]

\* There is a function by such a recursion.
LEMMA Recursion ==
    ASSUME NEW L \in Nat, NEW T, NEW base \in T, NEW G,
           \A n \in 1..L : \A x \in T : G[n][x] \in T
    PROVE  \E f \in [0..L -> T] : Recurs(f, L, base, G)
<1> DEFINE S == {k \in Nat : k <= L => \E f \in [0..k -> T] : Recurs(f, k, base, G)}
<1>1. 0 \in S
  <2>1. /\ [n \in 0..0 |-> base] \in [0..0 -> T]
        /\ Recurs([n \in 0..0 |-> base], 0, base, G)
    BY DEF Recurs
  <2> QED
    BY <2>1
<1>2. ASSUME NEW k \in Nat, k \in S PROVE k + 1 \in S
  <2> SUFFICES ASSUME k + 1 <= L
               PROVE  \E f \in [0..k+1 -> T] : Recurs(f, k + 1, base, G)
    OBVIOUS
  <2>1. PICK f \in [0..k -> T] : Recurs(f, k, base, G)
    BY <1>2
  <2>2. G[k+1][f[k]] \in T
    OBVIOUS
  <2> DEFINE g == [n \in 0..k+1 |-> IF n = k + 1 THEN G[k+1][f[k]] ELSE f[n]]
  <2>3. ASSUME NEW n \in 0..k+1 PROVE g[n] = IF n = 0 THEN base ELSE G[n][g[n-1]]
    <3>1. CASE n = k + 1
      <4>1. n # 0 /\ n - 1 = k /\ k \in 0..k+1 /\ k # k + 1
        BY <3>1
      <4> QED
        BY <3>1, <4>1
    <3>2. CASE n # k + 1
      <4>1. n \in 0..k /\ (n # 0 => n - 1 \in 0..k+1 /\ n - 1 # k + 1)
        BY <3>2
      <4>2. f[n] = IF n = 0 THEN base ELSE G[n][f[n-1]]
        BY <2>1, <4>1 DEF Recurs
      <4> QED
        BY <3>2, <4>1, <4>2
    <3> QED
      BY <3>1, <3>2
  <2>4. Recurs(g, k + 1, base, G)
    BY <2>3 DEF Recurs
  <2>5. g \in [0..k+1 -> T]
    BY <2>1, <2>2
  <2> QED
    BY <2>4, <2>5
<1>3. L \in S
  <2> HIDE DEF S
  <2> QED
    BY <1>1, <1>2, InductionOnSet
<1> QED
  BY <1>3

\* A set of naturals with a member has a least one, and a greatest one if it is bounded.
LEMMA MinIn ==
    ASSUME NEW S, S \subseteq Nat, NEW n \in S
    PROVE  Min(S) \in S /\ \A k \in S : Min(S) <= k
<1>1. PICK m \in S : \A k \in S : <<k, m>> \notin OpToRel(<, Nat)
  BY WFMin, NatLessThanWellFounded
<1>2. ASSUME NEW k \in S PROVE m <= k
  <2> SUFFICES ASSUME k < m PROVE FALSE
    OBVIOUS
  <2>1. k \in Nat /\ m \in Nat
    OBVIOUS
  <2>2. <<k, m>> \in OpToRel(<, Nat)
    BY <2>1 DEF OpToRel
  <2> QED
    BY <1>1, <2>2
<1> QED
  BY <1>2 DEF Min

LEMMA MaxIn ==
    ASSUME NEW L \in Nat, NEW S, S \subseteq 0..L, NEW n \in S
    PROVE  Max(S) \in S /\ \A k \in S : k <= Max(S)
<1> DEFINE Above == {L - k : k \in S}
<1>1. Above \subseteq Nat /\ L - n \in Above
  OBVIOUS
<1> HIDE DEF Above
<1>2. Min(Above) \in Above /\ \A k \in Above : Min(Above) <= k
  BY <1>1, MinIn
<1>3. PICK m \in S : Min(Above) = L - m
  BY <1>2 DEF Above
<1>4. \A k \in S : L - m <= L - k
  BY <1>2, <1>3 DEF Above
<1>5. \A k \in S : m >= k
  BY <1>4
<1> QED
  BY <1>5 DEF Max

-----------------------------------------------------------------------------
(* Dates *)

\* Years that begin in March.
YearOf(y, m) == IF m <= 2 THEN y + 4799 ELSE y + 4800
MonthOf(m) == IF m <= 2 THEN m + 9 ELSE m - 3

\* The year Y that a date is in when years begin in March, its month, its century,
\* the year of the century and the day of the year, counted from 0.
Parts(y, m, d, Y, M, C, r, D) ==
    /\ Y = YearOf(y, m) /\ M = MonthOf(m)
    /\ C = (Y + 100) \div 100 /\ r = (Y + 100) % 100
    /\ D = (367 * (M + 1)) \div 12 + d - 31

LEMMA JulianDateMeans ==
    ASSUME NEW y, NEW m, NEW d, IsDate(y, m, d), NEW Y, NEW M, NEW C, NEW r, NEW D,
           Parts(y, m, d, Y, M, C, r, D)
    PROVE  /\ julianDate(y, m, d) = (1461 * Y) \div 4 + (367 * (M + 1)) \div 12 - (3 * C) \div 4
                                        + d - 32075
           /\ Y \in Nat /\ M \in 0..11
<1>0. /\ y \in Nat /\ m \in 1..12 /\ d \in Nat
      /\ Y = YearOf(y, m) /\ M = MonthOf(m) /\ C = (Y + 100) \div 100
  BY SMT DEF IsDate, Parts
<1>1. Quo(m - 14, 12) = IF m <= 2 THEN -1 ELSE 0
  BY <1>0, SMT DEF Quo
<1>2. /\ y + 4800 + Quo(m - 14, 12) = Y /\ m - 2 - 12 * Quo(m - 14, 12) = M + 1
      /\ y + 4900 + Quo(m - 14, 12) = Y + 100
  BY <1>0, <1>1, SMT DEF YearOf, MonthOf
<1>3. Y \in Nat /\ Y >= 4799 /\ M \in 0..11
  BY <1>0, SMT DEF YearOf, MonthOf
<1>4. \A x \in Nat, k \in Nat : Quo(x, k) = x \div k
  BY SMT DEF Quo
<1>5. 1461 * Y \in Nat /\ 367 * (M + 1) \in Nat /\ C \in Nat /\ Y + 100 \in Nat /\ 3 * C \in Nat
  BY <1>0, <1>3, SMT
<1> QED
  BY <1>0, <1>2, <1>3, <1>4, <1>5, SMT DEF julianDate

\* A century is 36524 or 36525 days, a year of it 365 or 366.
LEMMA Century ==
    ASSUME NEW Y \in Nat, NEW C, NEW r, C = (Y + 100) \div 100, r = (Y + 100) % 100
    PROVE  /\ C \in Nat /\ r \in 0..99 /\ Y + 100 = 100 * C + r
           /\ (1461 * Y) \div 4 = 36525 * C - 36525 + (1461 * r) \div 4
           /\ 36525 * C - (3 * C) \div 4 = (146097 * C + 3) \div 4
<1>1. C \in Nat /\ r \in 0..99 /\ Y + 100 = 100 * C + r
  OBVIOUS
<1>2. 1461 * Y = 4 * (36525 * C - 36525) + 1461 * r
  BY <1>1
<1>3. (1461 * Y) \div 4 = 36525 * C - 36525 + (1461 * r) \div 4
  BY <1>1, <1>2
<1>4. 36525 * C - (3 * C) \div 4 = (146097 * C + 3) \div 4
  BY <1>1
<1> QED
  BY <1>1, <1>3, <1>4

\* The last day of a year that begins in March is a leap day.
LEMMA LeapDay ==
    ASSUME NEW y, NEW m, NEW d, IsDate(y, m, d), NEW Y, NEW M, NEW C, NEW r, NEW D,
           Parts(y, m, d, Y, M, C, r, D)
    PROVE  D \in 0..365 /\ (D = 365 => r % 4 = 3 /\ (r = 99 => C % 4 = 0))
<1>0. y \in Nat /\ m \in 1..12 /\ d \in 1..31
  BY DEF IsDate
<1>1. D \in 0..365 /\ (D = 365 => m = 2 /\ d = 29)
  <2>1. m \in {4, 6, 9, 11} => d <= 30
    BY DEF IsDate, MonthLength
  <2>2. m = 2 => d <= 29
    BY DEF IsDate, MonthLength
  <2>3. m \in {1, 2, 3, 4, 5, 6, 7, 8, 9, 10, 11, 12}
    BY <1>0
  <2> QED
    BY <1>0, <2>1, <2>2, <2>3 DEF MonthOf, Parts
<1>2. D = 365 => IsLeap(y) /\ Y = y + 4799
  BY <1>0, <1>1 DEF IsDate, MonthLength, YearOf, Parts
<1>3. IsLeap(y) => y % 4 = 0 /\ (y % 100 = 0 => y % 400 = 0)
  BY <1>0 DEF IsLeap
<1>4. ASSUME IsLeap(y), Y = y + 4799 PROVE r % 4 = 3 /\ (r = 99 => C % 4 = 0)
  BY <1>0, <1>3, <1>4 DEF Parts
<1> QED
  BY <1>1, <1>2, <1>4

\* The month and the day come back from the day of the year.
LEMMA MonthAndDay ==
    ASSUME NEW y, NEW m, NEW d, IsDate(y, m, d), NEW Y, NEW M, NEW C, NEW r, NEW D,
           Parts(y, m, d, Y, M, C, r, D), NEW j, j = (80 * (D + 31)) \div 2447
    PROVE  /\ j = M + 1
           /\ D + 31 - (2447 * j) \div 80 = d
           /\ j + 2 - 12 * (j \div 11) = m
           /\ Y - 4800 + j \div 11 = y
<1>1. y \in Nat /\ m \in 1..12 /\ d \in 1..31
  BY DEF IsDate
<1>2. m \in {4, 6, 9, 11} => d <= 30
  BY DEF IsDate, MonthLength
<1>3. m = 2 => d <= 29
  BY DEF IsDate, MonthLength
<1>4. m \in {1, 2, 3, 4, 5, 6, 7, 8, 9, 10, 11, 12}
  BY <1>1
<1> QED
  BY <1>1, <1>2, <1>3, <1>4 DEF MonthOf, YearOf, Parts

\* The days that come before a century, and the days from there to the date.
Days(C, r, D, start, l) ==
    /\ C \in Nat /\ r \in 0..99 /\ D \in 0..365
    /\ D = 365 => r % 4 = 3 /\ (r = 99 => C % 4 = 0)
    /\ start = (146097 * C + 3) \div 4 /\ l = (1461 * r) \div 4 + D

LEMMA DayOfCentury ==
    ASSUME NEW C, NEW r, NEW D, NEW start, NEW l, Days(C, r, D, start, l)
    PROVE  /\ start \in Nat /\ l \in Nat
           /\ (4 * (start + l)) \div 146097 = C
           /\ (4000 * (l + 1)) \div 1461001 = r
<1>1. /\ start = (146097 * C + 3) \div 4 /\ l = (1461 * r) \div 4 + D
      /\ C \in Nat /\ r \in 0..99 /\ D \in 0..365
      /\ D = 365 => r % 4 = 3 /\ (r = 99 => C % 4 = 0)
  BY SMT DEF Days
<1>2. start \in Nat /\ l \in Nat
  BY <1>1, SMT
<1>3. (4 * (start + l)) \div 146097 = C
  <2>1. 4 * start >= 146097 * C /\ 4 * start <= 146097 * C + 3 /\ (C % 4 = 0 => 4 * start = 146097 * C)
    BY <1>1, SMT
  <2>2. l <= 36524 /\ (l = 36524 => r = 99 /\ D = 365)
    BY <1>1, SMT
  <2>3. 4 * (start + l) >= 146097 * C /\ 4 * (start + l) < 146097 * C + 146097
    BY <1>1, <1>2, <2>1, <2>2, SMT
  <2> QED
    BY <1>1, <1>2, <2>3, SMT
<1>4. (4000 * (l + 1)) \div 1461001 = r
  <2>1. 4 * l = 1461 * r + 4 * D - (r % 4)
    BY <1>1, SMT
  <2>2. 4000 * (l + 1) >= 1461001 * r /\ 4000 * (l + 1) < 1461001 * r + 1461001
    BY <1>1, <1>2, <2>1, SMT
  <2> QED
    BY <1>1, <1>2, <2>2, SMT
<1> QED
  BY <1>1, <1>2, <1>3, <1>4, SMT

Steps(jd, n, l, i, k, j) ==
    /\ n = Quo(4 * (jd + 68569), 146097)
    /\ l = jd + 68569 - Quo(146097 * n + 3, 4)
    /\ i = Quo(4000 * (l + 1), 1461001)
    /\ k = l - Quo(1461 * i, 4) + 31
    /\ j = Quo(80 * k, 2447)

LEMMA JulianToDateMeans ==
    ASSUME NEW jd, NEW n, NEW l, NEW i, NEW k, NEW j, Steps(jd, n, l, i, k, j)
    PROVE  julianToDate(jd) = <<100 * (n - 49) + i + Quo(j, 11), j + 2 - 12 * Quo(j, 11),
                                k - Quo(2447 * j, 80)>>
BY SMT DEF julianToDate, Steps

\* julianToDate is the inverse of julianDate on the dates of the calendar.
LEMMA DateComesBack ==
    ASSUME NEW y, NEW m, NEW d, IsDate(y, m, d)
    PROVE  julianToDate(julianDate(y, m, d)) = <<y, m, d>>
<1>1. PICK Y, M, C, r, D : Parts(y, m, d, Y, M, C, r, D)
  BY SMT DEF Parts
<1>2. PICK jd, start, l, j : /\ jd = julianDate(y, m, d)
                             /\ start = (146097 * C + 3) \div 4
                             /\ l = (1461 * r) \div 4 + D
                             /\ j = (80 * (D + 31)) \div 2447
  BY SMT
<1>3. y \in Nat /\ m \in 1..12 /\ d \in Nat
  BY SMT DEF IsDate
<1>4. /\ jd = (1461 * Y) \div 4 + (367 * (M + 1)) \div 12 - (3 * C) \div 4 + d - 32075
      /\ Y \in Nat /\ M \in 0..11
  BY <1>1, <1>2, JulianDateMeans, SMT
<1>5. /\ C \in Nat /\ r \in 0..99 /\ Y + 100 = 100 * C + r
      /\ (1461 * Y) \div 4 = 36525 * C - 36525 + (1461 * r) \div 4
      /\ 36525 * C - (3 * C) \div 4 = start
  BY <1>1, <1>2, <1>4, Century, SMT DEF Parts
<1>6. D \in 0..365 /\ (D = 365 => r % 4 = 3 /\ (r = 99 => C % 4 = 0))
  BY <1>1, LeapDay, SMT
<1>7. /\ j = M + 1 /\ D + 31 - (2447 * j) \div 80 = d
      /\ j + 2 - 12 * (j \div 11) = m /\ Y - 4800 + j \div 11 = y
  BY <1>1, <1>2, MonthAndDay, SMT
<1>8. /\ start \in Nat /\ l \in Nat
      /\ (4 * (start + l)) \div 146097 = C /\ (4000 * (l + 1)) \div 1461001 = r
  <2>1. Days(C, r, D, start, l)
    BY <1>2, <1>5, <1>6, SMT DEF Days
  <2> QED
    BY <2>1, DayOfCentury, SMT
<1>9. jd + 68569 = start + l /\ jd \in Int
  <2>1. D = (367 * (M + 1)) \div 12 + d - 31
    BY <1>1, SMT DEF Parts
  <2>2. PICK a, b, c, e : /\ a = (1461 * Y) \div 4 /\ b = (367 * (M + 1)) \div 12
                          /\ c = (3 * C) \div 4 /\ e = (1461 * r) \div 4
    BY SMT
  <2>3. /\ jd = a + b - c + d - 32075 /\ a = 36525 * C - 36525 + e /\ 36525 * C - c = start
        /\ D = b + d - 31 /\ l = e + D
    BY <1>2, <1>4, <1>5, <2>1, <2>2, SMT
  <2>4. a \in Int /\ b \in Int /\ c \in Int /\ e \in Int
    BY <1>4, <1>5, <2>2, SMT
  <2> QED
    BY <1>3, <1>5, <2>3, <2>4, SMT
<1>10. Quo(4 * (jd + 68569), 146097) = C
  BY <1>8, <1>9, SMT DEF Quo
<1>11. jd + 68569 - Quo(146097 * C + 3, 4) = l
  BY <1>2, <1>5, <1>8, <1>9, SMT DEF Quo
<1>12. Quo(4000 * (l + 1), 1461001) = r
  BY <1>8, SMT DEF Quo
<1>13. l - Quo(1461 * r, 4) + 31 = D + 31
  BY <1>2, <1>5, <1>6, SMT DEF Quo
<1>14. Quo(80 * (D + 31), 2447) = j
  BY <1>2, <1>6, SMT DEF Quo
<1>15. j \in Nat /\ Quo(2447 * j, 80) = (2447 * j) \div 80 /\ Quo(j, 11) = j \div 11
  BY <1>4, <1>7, SMT DEF Quo
<1>16. julianToDate(jd) = <<100 * (C - 49) + r + Quo(j, 11), j + 2 - 12 * Quo(j, 11),
                            D + 31 - Quo(2447 * j, 80)>>
  <2>1. PICK k : k = D + 31
    BY SMT
  <2>2. Steps(jd, C, l, r, k, j)
    BY <1>10, <1>11, <1>12, <1>13, <1>14, <2>1, SMT DEF Steps
  <2> QED
    BY <1>5, <1>6, <1>8, <1>9, <1>15, <2>1, <2>2, JulianToDateMeans, SMT
<1>17. 100 * (C - 49) + r + j \div 11 = y
  <2>1. j \div 11 \in Int
    BY <1>15, SMT
  <2> QED
    BY <1>4, <1>5, <1>7, <2>1, SMT
<1> QED
  BY <1>2, <1>7, <1>15, <1>16, <1>17, SMT

-----------------------------------------------------------------------------
(* Texts and digits *)

Bytes == Seq(0..255)

LEMMA BytesMean ==
    ASSUME NEW s \in Bytes
    PROVE  Len(s) \in Nat /\ DOMAIN s = 1..Len(s) /\ \A k \in 1..Len(s) : s[k] \in 0..255
<1>1. s \in Seq(0..255)
  BY DEF Bytes
<1> QED
  BY <1>1, LenProperties

LEMMA MakesBytes ==
    ASSUME NEW n \in Nat, NEW s, s \in [1..n -> 0..255]
    PROVE  s \in Bytes /\ Len(s) = n
<1>1. s = [i \in 1..n |-> s[i]] /\ \A i \in 1..n : s[i] \in 0..255
  OBVIOUS
<1>2. [i \in 1..n |-> s[i]] \in Seq(0..255)
  <2> HIDE <1>1
  <2>1. \A i \in 1..n : s[i] \in 0..255
    BY <1>1
  <2> QED
    BY <2>1, IsASeq
<1>3. s \in Seq(0..255)
  BY <1>1, <1>2
<1>4. DOMAIN s = 1..n /\ DOMAIN s = 1..Len(s) /\ Len(s) \in Nat
  BY <1>3, LenProperties
<1> QED
  BY <1>3, <1>4 DEF Bytes

LEMMA SameBytes ==
    ASSUME NEW s \in Bytes, NEW t \in Bytes, Len(s) = Len(t),
           \A k \in 1..Len(s) : s[k] = t[k]
    PROVE  s = t
<1>1. s \in Seq(0..255) /\ t \in Seq(0..255)
  BY DEF Bytes
<1> QED
  BY <1>1, SeqEqual

LEMMA AppendsByte ==
    ASSUME NEW s \in Bytes, NEW b \in 0..255
    PROVE  /\ Append(s, b) \in Bytes /\ Len(Append(s, b)) = Len(s) + 1
           /\ Append(s, b)[Len(s) + 1] = b
           /\ \A k \in 1..Len(s) : Append(s, b)[k] = s[k]
<1>1. s \in Seq(0..255)
  BY DEF Bytes
<1> QED
  BY <1>1, AppendProperties DEF Bytes

\* Without leaves out one byte after the other.
KeepsAllBut(kept, s, byte) ==
    /\ kept[0] = <<>>
    /\ \A n \in 1..Len(s) :
          kept[n] = IF s[n] = byte THEN kept[n-1] ELSE Append(kept[n-1], s[n])

LEMMA WithoutUnrolls ==
    ASSUME NEW s \in Bytes, NEW byte
    PROVE  \E kept \in [0..Len(s) -> Bytes] :
              KeepsAllBut(kept, s, byte) /\ Without(s, byte) = kept[Len(s)]
<1> DEFINE Unrolls(f) ==
               f = [n \in 0..Len(s) |->
                       IF n = 0 THEN <<>>
                       ELSE IF s[n] = byte THEN f[n-1] ELSE Append(f[n-1], s[n])]
<1>0. Len(s) \in Nat /\ \A n \in 1..Len(s) : s[n] \in 0..255
  BY BytesMean
<1>1. \E f : Unrolls(f)
  <2> DEFINE G == [n \in 1..Len(s) |->
                      [x \in Bytes |-> IF s[n] = byte THEN x ELSE Append(x, s[n])]]
  <2>1. \A n \in 1..Len(s) : \A x \in Bytes : G[n][x] \in Bytes
    BY <1>0 DEF Bytes
  <2>2. <<>> \in Bytes
    BY DEF Bytes
  <2>3. PICK f \in [0..Len(s) -> Bytes] : Recurs(f, Len(s), <<>>, G)
    <3> HIDE DEF G
    <3> QED
      BY <1>0, <2>1, <2>2, Recursion
  <2>4. ASSUME NEW n \in 0..Len(s), n # 0
        PROVE  G[n][f[n-1]] = IF s[n] = byte THEN f[n-1] ELSE Append(f[n-1], s[n])
    <3>1. n \in 1..Len(s) /\ f[n-1] \in Bytes
      BY <1>0, <2>4
    <3> QED
      BY <3>1
  <2>5. f = [n \in 0..Len(s) |-> IF n = 0 THEN <<>> ELSE G[n][f[n-1]]]
    BY <2>3 DEF Recurs
  <2>6. Unrolls(f)
    <3> HIDE DEF G
    <3> QED
      BY <2>4, <2>5
  <2> QED
    BY <2>6
<1> DEFINE kept == CHOOSE f : Unrolls(f)
<1>2. Without(s, byte) = kept[Len(s)]
  BY Zenon DEF Without
<1>3. Unrolls(kept)
  BY <1>1, Zenon
<1> HIDE DEF kept
<1>4. KeepsAllBut(kept, s, byte)
  <2>1. 0 \in 0..Len(s) /\ \A n \in 1..Len(s) : n \in 0..Len(s) /\ n # 0
    BY <1>0
  <2> QED
    BY <1>3, <2>1 DEF KeepsAllBut
<1>5. \A n \in 0..Len(s) : kept[n] \in Bytes
  <2> DEFINE S == {n \in 0..Len(s) : kept[n] \in Bytes}
  <2>1. 0 \in S
    <3>1. kept[0] = <<>> /\ <<>> \in Bytes /\ 0 \in 0..Len(s)
      BY <1>0, <1>4 DEF KeepsAllBut, Bytes
    <3> QED
      BY <3>1
  <2>2. ASSUME NEW n \in 0..Len(s), n \in S, n < Len(s) PROVE n + 1 \in S
    <3>1. n + 1 \in 1..Len(s) /\ (n + 1) - 1 = n /\ n + 1 \in 0..Len(s)
      BY <1>0, <2>2
    <3>2. kept[n + 1] = IF s[n + 1] = byte THEN kept[n] ELSE Append(kept[n], s[n + 1])
      BY <1>4, <3>1 DEF KeepsAllBut
    <3>3. s[n + 1] \in 0..255 /\ kept[n] \in Bytes
      BY <1>0, <2>2, <3>1
    <3> QED
      BY <3>1, <3>2, <3>3, AppendsByte
  <2> HIDE DEF S
  <2>3. \A n \in 0..Len(s) : n \in S
    BY <1>0, <2>1, <2>2, InductionUpTo
  <2> QED
    BY <2>3 DEF S
<1>6. kept \in [0..Len(s) -> Bytes]
  BY <1>3, <1>5
<1> QED
  BY <1>2, <1>4, <1>6

LEMMA WithoutTyped ==
    ASSUME NEW s \in Bytes, NEW byte
    PROVE  Without(s, byte) \in Bytes
<1>1. Len(s) \in 0..Len(s)
  BY DEF Bytes
<1> QED
  BY <1>1, WithoutUnrolls

\* What is left of s from a position on.
From(s, p) == [k \in 1..Len(s) - p |-> s[p + k]]

LEMMA FromTyped ==
    ASSUME NEW s \in Bytes, NEW p \in 0..Len(s)
    PROVE  From(s, p) \in Bytes /\ Len(From(s, p)) = Len(s) - p
<1>1. Len(s) \in Nat /\ Len(s) - p \in Nat /\ \A k \in 1..Len(s) : s[k] \in 0..255
  BY BytesMean
<1>2. \A k \in 1..Len(s) - p : s[p + k] \in 0..255
  BY <1>1
<1>3. From(s, p) \in [1..Len(s) - p -> 0..255]
  BY <1>2 DEF From
<1> QED
  BY <1>1, <1>3, MakesBytes

\* Where the byte only stands in front, it is what is cut off.
LEMMA WithoutInFront ==
    ASSUME NEW s \in Bytes, NEW byte, NEW p \in 0..Len(s),
           \A k \in 1..p : s[k] = byte, \A k \in p+1..Len(s) : s[k] # byte
    PROVE  Without(s, byte) = From(s, p)
<1>0. Len(s) \in Nat /\ Len(s) - p \in Nat /\ p \in Nat /\ \A k \in 1..Len(s) : s[k] \in 0..255
  BY BytesMean
<1>1. PICK kept \in [0..Len(s) -> Bytes] :
          KeepsAllBut(kept, s, byte) /\ Without(s, byte) = kept[Len(s)]
  BY WithoutUnrolls
<1> DEFINE S == {n \in 0..Len(s) :
                    /\ n <= p => kept[n] = <<>>
                    /\ n > p => kept[n] = [k \in 1..n - p |-> s[p + k]]}
<1>2. 0 \in S
  BY <1>0, <1>1 DEF KeepsAllBut
<1>3. ASSUME NEW n \in 0..Len(s), n \in S, n < Len(s) PROVE n + 1 \in S
  <2>1. n + 1 \in 1..Len(s) /\ (n + 1) - 1 = n /\ n + 1 \in 0..Len(s)
    BY <1>0, <1>3
  <2>2. kept[n + 1] = IF s[n + 1] = byte THEN kept[n] ELSE Append(kept[n], s[n + 1])
    BY <1>1, <2>1 DEF KeepsAllBut
  <2>3. CASE n + 1 <= p
    <3>1. s[n + 1] = byte /\ kept[n] = <<>>
      BY <1>0, <1>3, <2>1, <2>3
    <3> QED
      BY <1>0, <2>1, <2>2, <2>3, <3>1
  <2>4. CASE n + 1 > p
    <3>1. s[n + 1] # byte /\ kept[n] \in Bytes
      BY <1>0, <2>1, <2>4
    <3>2. kept[n] = [k \in 1..n - p |-> s[p + k]] /\ Len(kept[n]) = n - p
      <4>1. CASE n = p
        <5>1. kept[n] = <<>>
          BY <1>0, <1>3, <4>1
        <5>2. [k \in 1..n - p |-> s[p + k]] = <<>>
          BY <1>0, <4>1
        <5> QED
          BY <1>0, <4>1, <5>1, <5>2
      <4>2. CASE n > p
        <5>1. kept[n] = [k \in 1..n - p |-> s[p + k]]
          BY <1>3, <4>2
        <5>2. DOMAIN kept[n] = 1..n - p /\ n - p \in Nat
          BY <1>0, <5>1, <4>2
        <5>3. Len(kept[n]) \in Nat /\ DOMAIN kept[n] = 1..Len(kept[n])
          BY <3>1, BytesMean
        <5> QED
          BY <5>1, <5>2, <5>3
      <4> QED
        BY <1>0, <2>4, <4>1, <4>2
    <3>3. s[n + 1] \in 0..255
      BY <1>0, <2>1
    <3>4. /\ Append(kept[n], s[n + 1]) \in Bytes
          /\ Len(Append(kept[n], s[n + 1])) = n + 1 - p
          /\ Append(kept[n], s[n + 1])[n + 1 - p] = s[n + 1]
          /\ \A k \in 1..n - p : Append(kept[n], s[n + 1])[k] = s[p + k]
      <4>1. \A k \in 1..n - p : kept[n][k] = s[p + k]
        BY <3>2
      <4>2. (n - p) + 1 = n + 1 - p
        BY <1>0
      <4>3. PICK f, b : f = kept[n] /\ b = s[n + 1]
        OBVIOUS
      <4>4. /\ Append(f, b) \in Bytes /\ Len(Append(f, b)) = Len(f) + 1
            /\ Append(f, b)[Len(f) + 1] = b
            /\ \A k \in 1..Len(f) : Append(f, b)[k] = f[k]
        <5>1. f \in Bytes /\ b \in 0..255
          BY <3>1, <3>3, <4>3
        <5> QED
          BY <5>1, AppendsByte
      <4> QED
        BY <3>2, <4>1, <4>2, <4>3, <4>4
    <3>5. Append(kept[n], s[n + 1]) = [k \in 1..n + 1 - p |-> s[p + k]]
      <4>1. DOMAIN Append(kept[n], s[n + 1]) = 1..n + 1 - p
        BY <3>4, BytesMean
      <4>2. ASSUME NEW k \in 1..n + 1 - p PROVE Append(kept[n], s[n + 1])[k] = s[p + k]
        <5>1. k \in 1..n - p \/ (k = n + 1 - p /\ p + k = n + 1)
          BY <1>0, <2>1
        <5> QED
          BY <3>4, <5>1
      <4>3. Append(kept[n], s[n + 1])
              = [k \in DOMAIN Append(kept[n], s[n + 1]) |-> Append(kept[n], s[n + 1])[k]]
        <5>1. Append(kept[n], s[n + 1]) \in Seq(0..255)
          BY <3>4 DEF Bytes
        <5> QED
          BY <5>1, LenProperties
      <4> QED
        BY <4>1, <4>2, <4>3
    <3>6. kept[n + 1] = Append(kept[n], s[n + 1])
      BY <2>2, <3>1
    <3>7. kept[n + 1] = [k \in 1..(n + 1) - p |-> s[p + k]] /\ ~(n + 1 <= p)
      BY <1>0, <2>4, <3>5, <3>6
    <3> QED
      BY <2>1, <3>7
  <2> QED
    BY <1>0, <2>1, <2>3, <2>4
<1>4. \A n \in 0..Len(s) : n \in S
  <2> HIDE DEF S
  <2> QED
    BY <1>0, <1>2, <1>3, InductionUpTo
<1>5. Len(s) \in 0..Len(s) /\ (Len(s) <= p => Len(s) - p = 0)
  BY <1>0
<1>6. Len(s) - p = 0 => [k \in 1..Len(s) - p |-> s[p + k]] = <<>>
  BY <1>0
<1>7. kept[Len(s)] = [k \in 1..Len(s) - p |-> s[p + k]]
  <2>1. Len(s) \in S
    BY <1>4, <1>5
  <2>2. CASE Len(s) <= p
    BY <1>5, <1>6, <2>1, <2>2
  <2>3. CASE Len(s) > p
    BY <2>1, <2>3
  <2> QED
    BY <1>0, <2>2, <2>3
<1> QED
  BY <1>1, <1>7 DEF From

\* Of bytes that do not hold it, nothing is left out.
LEMMA WithoutNone ==
    ASSUME NEW s \in Bytes, NEW byte, \A k \in 1..Len(s) : s[k] # byte
    PROVE  Without(s, byte) = s
<1>1. Len(s) \in Nat /\ 0 \in 0..Len(s) /\ Len(s) \in 0..Len(s) /\ Len(s) - 0 = Len(s)
  BY BytesMean
<1>2. \A k \in 1..Len(s) : 0 + k = k
  BY <1>1
<1>3. Without(s, byte) = From(s, 0)
  BY <1>1, WithoutInFront
<1>4. From(s, 0) = [k \in 1..Len(s) |-> s[k]]
  BY <1>1, <1>2 DEF From
<1>5. s = [k \in 1..Len(s) |-> s[k]]
  <2>1. s \in Seq(0..255)
    BY DEF Bytes
  <2> QED
    BY <2>1, LenProperties
<1> QED
  BY <1>3, <1>4, <1>5

LEMMA WithoutAll ==
    ASSUME NEW s \in Bytes, NEW byte, \A k \in 1..Len(s) : s[k] = byte
    PROVE  Without(s, byte) = <<>>
<1>1. Len(s) \in Nat /\ Len(s) \in 0..Len(s) /\ Len(s) - Len(s) = 0
  BY BytesMean
<1>2. Without(s, byte) = From(s, Len(s))
  BY <1>1, WithoutInFront
<1>3. From(s, Len(s)) = [k \in 1..0 |-> s[Len(s) + k]]
  BY <1>1 DEF From
<1> QED
  BY <1>2, <1>3

\* A part of s.
LEMMA PartTyped ==
    ASSUME NEW s \in Bytes, NEW m \in 1..Len(s), NEW n \in 0..Len(s)
    PROVE  SubSeq(s, m, n) \in Bytes
<1>1. s \in Seq(0..255) /\ Len(s) \in Nat /\ \A k \in 1..Len(s) : s[k] \in 0..255
  BY BytesMean DEF Bytes
<1>2. SubSeq(s, m, n) \in Seq(0..255)
  <2>1. m \in Int /\ n \in Int /\ n <= Len(s) /\ m >= 1
    BY <1>1
  <2>2. ASSUME NEW k \in m..n PROVE s[k] \in 0..255
    <3>1. k \in 1..Len(s)
      BY <1>1, <2>1
    <3> QED
      BY <1>1, <3>1
  <2> QED
    BY <2>1, <2>2, SubSeqProperties
<1> QED
  BY <1>2 DEF Bytes

LEMMA TrimmedTyped ==
    ASSUME NEW s \in Bytes
    PROVE  Trimmed(s) \in Bytes
<1> DEFINE kept == {k \in DOMAIN s : s[k] \notin Blanks}
<1>1. Len(s) \in Nat /\ DOMAIN s = 1..Len(s)
  BY BytesMean
<1>2. CASE kept = {}
  <2>1. Trimmed(s) = <<>>
    BY <1>2 DEF Trimmed
  <2> QED
    BY <2>1 DEF Bytes
<1>3. CASE kept # {}
  <2>1. PICK n : n \in kept
    BY <1>3
  <2>2. kept \subseteq Nat /\ kept \subseteq 0..Len(s)
    BY <1>1
  <2> HIDE DEF kept
  <2>3. Min(kept) \in kept
    BY <2>1, <2>2, MinIn
  <2>4. Max(kept) \in kept
    BY <1>1, <2>1, <2>2, MaxIn
  <2>5. Min(kept) \in 1..Len(s) /\ Max(kept) \in 0..Len(s)
    BY <1>1, <2>2, <2>3, <2>4 DEF kept
  <2>6. Trimmed(s) = SubSeq(s, Min(kept), Max(kept))
    BY <1>3 DEF Trimmed, kept
  <2> QED
    BY <2>5, <2>6, PartTyped
<1> QED
  BY <1>2, <1>3

\* White space that only stands in front is trimmed.
LEMMA TrimmedInFront ==
    ASSUME NEW s \in Bytes, NEW p \in 0..Len(s) - 1,
           \A k \in 1..p : s[k] \in Blanks, s[p + 1] \notin Blanks, s[Len(s)] \notin Blanks
    PROVE  Trimmed(s) = From(s, p)
<1> DEFINE kept == {k \in DOMAIN s : s[k] \notin Blanks}
<1>1. Len(s) \in Nat /\ DOMAIN s = 1..Len(s) /\ p \in Nat /\ p + 1 \in 1..Len(s) /\ Len(s) \in 1..Len(s)
  BY BytesMean
<1>2. p + 1 \in kept /\ Len(s) \in kept /\ kept \subseteq Nat /\ kept \subseteq 0..Len(s)
  BY <1>1
<1>3. \A k \in kept : p + 1 <= k /\ k <= Len(s)
  BY <1>1
<1>4. Trimmed(s) = SubSeq(s, Min(kept), Max(kept))
  BY <1>2 DEF Trimmed
<1> HIDE DEF kept
<1>5. Min(kept) \in kept /\ \A k \in kept : Min(kept) <= k
  BY <1>2, MinIn
<1>6. Max(kept) \in kept /\ \A k \in kept : k <= Max(kept)
  BY <1>1, <1>2, MaxIn
<1>7. Min(kept) = p + 1
  <2>1. Min(kept) <= p + 1 /\ p + 1 <= Min(kept) /\ Min(kept) \in Nat
    BY <1>2, <1>3, <1>5
  <2> QED
    BY <1>1, <2>1
<1>8. Max(kept) = Len(s)
  <2>1. Max(kept) <= Len(s) /\ Len(s) <= Max(kept) /\ Max(kept) \in Nat
    BY <1>2, <1>3, <1>6
  <2> QED
    BY <1>1, <2>1
<1>9. SubSeq(s, p + 1, Len(s)) = [k \in 1..Len(s) - p |-> s[p + k]]
  <2>1. s \in Seq(0..255)
    BY DEF Bytes
  <2>2. Len(s) - (p + 1) + 1 = Len(s) - p /\ \A k \in 1..Len(s) - p : k + (p + 1) - 1 = p + k /\ (p + 1) + k - 1 = p + k
    BY <1>1
  <2>3. SubSeq(s, p + 1, Len(s)) = [k \in 1..(1 + Len(s) - (p + 1)) |-> s[k + (p + 1) - 1]]
    BY <1>1, <2>1
  <2>4. 1 + Len(s) - (p + 1) = Len(s) - p
    BY <1>1
  <2> QED
    BY <2>2, <2>3, <2>4
<1> QED
  BY <1>4, <1>7, <1>8, <1>9 DEF From

LEMMA TrimmedAll ==
    ASSUME NEW s \in Bytes, \A k \in 1..Len(s) : s[k] \in Blanks
    PROVE  Trimmed(s) = <<>>
<1>1. DOMAIN s = 1..Len(s)
  BY BytesMean
<1> QED
  BY <1>1 DEF Trimmed

-----------------------------------------------------------------------------
(* Numbers and their digits *)

\* rest[k] is what is left of n after k digits.
Left(rest, n) ==
    /\ rest \in [0..n+1 -> Nat]
    /\ rest[0] = n /\ \A k \in 1..n+1 : rest[k] = rest[k-1] \div 10

DigitsLeft(rest, count) == [j \in 1..count |-> 48 + (rest[count - j] % 10)]

LEMMA DigitsUnroll ==
    ASSUME NEW n \in Nat
    PROVE  \E rest, count : /\ Left(rest, n) /\ count \in 1..n+1 /\ rest[count] = 0
                            /\ \A k \in 1..count-1 : rest[k] # 0
                            /\ Digits(n) = DigitsLeft(rest, count)
<1> DEFINE Unrolls(f) == f = [k \in 0..n+1 |-> IF k = 0 THEN n ELSE f[k-1] \div 10]
<1>1. \E f : Unrolls(f)
  <2> DEFINE G == [k \in 1..n+1 |-> [x \in Nat |-> x \div 10]]
  <2>1. \A k \in 1..n+1 : \A x \in Nat : G[k][x] \in Nat
    OBVIOUS
  <2>2. PICK f \in [0..n+1 -> Nat] : Recurs(f, n + 1, n, G)
    <3> HIDE DEF G
    <3>1. n + 1 \in Nat
      OBVIOUS
    <3> QED
      BY <2>1, <3>1, Recursion
  <2>3. ASSUME NEW k \in 0..n+1, k # 0 PROVE G[k][f[k-1]] = f[k-1] \div 10
    <3>1. k \in 1..n+1 /\ f[k-1] \in Nat
      BY <2>3
    <3> QED
      BY <3>1
  <2>4. Unrolls(f)
    <3> HIDE DEF G
    <3> QED
      BY <2>2, <2>3 DEF Recurs
  <2> QED
    BY <2>4
<1> DEFINE rest == CHOOSE f : Unrolls(f)
           ends == {k \in 1..n+1 : rest[k] = 0}
<1>2. Digits(n) = DigitsLeft(rest, Min(ends))
  BY Zenon DEF Digits, DigitsLeft
<1>3. Unrolls(rest)
  BY <1>1, Zenon
<1> HIDE DEF rest
<1>4. rest[0] = n /\ \A k \in 1..n+1 : rest[k] = rest[k-1] \div 10
  <2>1. 0 \in 0..n+1 /\ \A k \in 1..n+1 : k \in 0..n+1 /\ k # 0
    OBVIOUS
  <2> QED
    BY <1>3, <2>1
<1> DEFINE S == {k \in 0..n+1 : rest[k] \in Nat /\ (rest[k] = 0 \/ rest[k] + k <= n)}
<1>5. 0 \in S
  BY <1>4
<1>6. ASSUME NEW k \in 0..n+1, k \in S, k < n + 1 PROVE k + 1 \in S
  <2>1. k + 1 \in 1..n+1 /\ (k + 1) - 1 = k
    BY <1>6
  <2>2. rest[k+1] = rest[k] \div 10
    BY <1>4, <2>1
  <2>3. rest[k] \in Nat /\ (rest[k] = 0 \/ rest[k] + k <= n)
    BY <1>6
  <2>4. rest[k+1] \in Nat /\ (rest[k+1] = 0 \/ rest[k+1] + (k + 1) <= n)
    BY <2>2, <2>3
  <2> QED
    BY <2>1, <2>4
<1>7. \A k \in 0..n+1 : k \in S
  <2> HIDE DEF S
  <2>1. n + 1 \in Nat
    OBVIOUS
  <2> QED
    BY <1>5, <1>6, <2>1, InductionUpTo
<1>8. rest \in [0..n+1 -> Nat]
  BY <1>3, <1>7
<1>9. n + 1 \in ends /\ ends \subseteq Nat
  <2>1. n + 1 \in S
    BY <1>7
  <2> QED
    BY <2>1
<1>10. Min(ends) \in ends /\ \A k \in ends : Min(ends) <= k
  <2> HIDE DEF ends
  <2> QED
    BY <1>9, MinIn
<1>11. PICK count : count = Min(ends)
  OBVIOUS
<1>12. count \in 1..n+1 /\ rest[count] = 0
  BY <1>10, <1>11
<1>13. ASSUME NEW k \in 1..count-1 PROVE rest[k] # 0
  <2>1. k \in 1..n+1 /\ k < count
    BY <1>12
  <2> QED
    BY <1>10, <1>11, <2>1
<1> QED
  BY <1>2, <1>4, <1>8, <1>11, <1>12, <1>13 DEF Left

LEMMA DigitsTyped ==
    ASSUME NEW n \in Nat
    PROVE  /\ Digits(n) \in Bytes /\ Len(Digits(n)) \in Nat \ {0}
           /\ \A k \in 1..Len(Digits(n)) : Digits(n)[k] \in 48..57
<1>1. PICK rest, count : /\ Left(rest, n) /\ count \in 1..n+1
                         /\ Digits(n) = DigitsLeft(rest, count)
  BY DigitsUnroll
<1>2. ASSUME NEW j \in 1..count PROVE 48 + (rest[count - j] % 10) \in 48..57
  <2>1. count - j \in 0..n+1
    BY <1>1
  <2>2. rest[count - j] \in Nat
    BY <1>1, <2>1 DEF Left
  <2> QED
    BY <2>2
<1>3. Digits(n) \in [1..count -> 48..57]
  BY <1>1, <1>2 DEF DigitsLeft
<1>4. Digits(n) \in [1..count -> 0..255] /\ count \in Nat
  BY <1>1, <1>3
<1>5. Digits(n) \in Bytes /\ Len(Digits(n)) = count
  BY <1>4, MakesBytes
<1> QED
  BY <1>1, <1>3, <1>5

NumberSoFar(number, digits) ==
    /\ number[0] = 0
    /\ \A j \in 1..Len(digits) : number[j] = 10 * number[j-1] + digits[j] - 48

LEMMA NumberUnrolls ==
    ASSUME NEW digits \in Bytes
    PROVE  \E number : NumberSoFar(number, digits) /\ NumberIn(digits) = number[Len(digits)]
<1> DEFINE Unrolls(f) == f = [n \in 0..Len(digits) |->
                                 IF n = 0 THEN 0 ELSE 10 * f[n-1] + digits[n] - 48]
<1>0. Len(digits) \in Nat /\ \A n \in 1..Len(digits) : digits[n] \in Int
  <2>1. Len(digits) \in Nat /\ \A n \in 1..Len(digits) : digits[n] \in 0..255
    BY BytesMean
  <2>2. \A b \in 0..255 : b \in Int
    OBVIOUS
  <2> QED
    BY <2>1, <2>2, Zenon
<1>1. \E f : Unrolls(f)
  <2> DEFINE G == [n \in 1..Len(digits) |-> [x \in Int |-> 10 * x + digits[n] - 48]]
  <2>1. ASSUME NEW n \in 1..Len(digits), NEW x \in Int PROVE G[n][x] \in Int
    <3>1. digits[n] \in Int
      BY <1>0, Zenon
    <3>2. G[n][x] = 10 * x + digits[n] - 48
      OBVIOUS
    <3> HIDE DEF G
    <3> QED
      BY <3>1, <3>2
  <2>2. PICK f \in [0..Len(digits) -> Int] : Recurs(f, Len(digits), 0, G)
    <3> HIDE DEF G
    <3>1. 0 \in Int /\ \A n \in 1..Len(digits) : \A x \in Int : G[n][x] \in Int
      BY <2>1
    <3> QED
      BY <1>0, <3>1, Recursion, Zenon
  <2>3. ASSUME NEW n \in 0..Len(digits), n # 0 PROVE G[n][f[n-1]] = 10 * f[n-1] + digits[n] - 48
    <3>1. n \in 1..Len(digits) /\ f[n-1] \in Int
      BY <1>0, <2>3
    <3> QED
      BY <3>1
  <2>4. Unrolls(f)
    <3> HIDE DEF G
    <3> QED
      BY <2>2, <2>3 DEF Recurs
  <2> QED
    BY <2>4
<1> DEFINE number == CHOOSE f : Unrolls(f)
<1>2. NumberIn(digits) = number[Len(digits)]
  BY Zenon DEF NumberIn
<1>3. Unrolls(number)
  BY <1>1, Zenon
<1> HIDE DEF number
<1>4. NumberSoFar(number, digits)
  <2>1. 0 \in 0..Len(digits) /\ \A n \in 1..Len(digits) : n \in 0..Len(digits) /\ n # 0
    BY <1>0
  <2> QED
    BY <1>3, <2>1 DEF NumberSoFar
<1> QED
  BY <1>2, <1>4

\* The digits of a number stand for it.
LEMMA DigitsComeBack ==
    ASSUME NEW n \in Nat
    PROVE  NumberIn(Digits(n)) = n
<1>1. PICK rest, count : /\ Left(rest, n) /\ count \in 1..n+1 /\ rest[count] = 0
                         /\ Digits(n) = DigitsLeft(rest, count)
  BY DigitsUnroll
<1>2. Digits(n) \in Bytes
  BY DigitsTyped
<1>3. Len(Digits(n)) = count
  <2>1. DOMAIN Digits(n) = 1..count /\ Len(Digits(n)) \in Nat /\ DOMAIN Digits(n) = 1..Len(Digits(n))
    BY <1>1, <1>2, BytesMean DEF DigitsLeft
  <2> QED
    BY <1>1, <2>1
<1>4. PICK number : NumberSoFar(number, Digits(n)) /\ NumberIn(Digits(n)) = number[count]
  BY <1>2, <1>3, NumberUnrolls
<1> DEFINE S == {j \in 0..count : number[j] = rest[count - j]}
<1>5. 0 \in S
  BY <1>1, <1>4 DEF NumberSoFar
<1>6. ASSUME NEW j \in 0..count, j \in S, j < count PROVE j + 1 \in S
  <2>1. j + 1 \in 1..count /\ (j + 1) - 1 = j /\ count - j \in 1..n+1
        /\ (count - j) - 1 = count - (j + 1) /\ count - (j + 1) \in 0..n+1
    BY <1>1, <1>6
  <2>2. number[j + 1] = 10 * number[j] + Digits(n)[j + 1] - 48
    BY <1>3, <1>4, <2>1 DEF NumberSoFar
  <2>3. Digits(n)[j + 1] = 48 + (rest[count - (j + 1)] % 10)
    BY <1>1, <2>1 DEF DigitsLeft
  <2>4. rest[count - j] = rest[count - (j + 1)] \div 10
    BY <1>1, <2>1 DEF Left
  <2>5. rest[count - (j + 1)] \in Nat
    BY <1>1, <2>1 DEF Left
  <2>6. number[j] = rest[count - j]
    BY <1>6
  <2>7. number[j + 1] = rest[count - (j + 1)]
    BY <2>2, <2>3, <2>4, <2>5, <2>6
  <2> QED
    BY <1>1, <2>1, <2>7
<1>7. \A j \in 0..count : j \in S
  <2> HIDE DEF S
  <2>1. count \in Nat
    BY <1>1
  <2> QED
    BY <1>5, <1>6, <2>1, InductionUpTo
<1>8. count \in 0..count /\ count - count = 0
  BY <1>1
<1>9. number[count] = rest[0]
  BY <1>7, <1>8
<1> QED
  BY <1>1, <1>4, <1>9 DEF Left

\* What FormatInt writes: a minus or none, then the digits of the magnitude.
Magnitude(n) == IF n < 0 THEN -n ELSE n

LEMMA FormatIntMeans ==
    ASSUME NEW n \in Int
    PROVE  /\ FormatInt(n) \in Bytes /\ Len(FormatInt(n)) \in Nat \ {0}
           /\ \A k \in 1..Len(FormatInt(n)) : FormatInt(n)[k] \in 45..57
           /\ n < 0 => FormatInt(n)[1] = Minus
           /\ n < 0 => From(FormatInt(n), 1) = Digits(-n)
           /\ n < 0 => \A k \in 2..Len(FormatInt(n)) : FormatInt(n)[k] # Minus
           /\ n < 0 => Len(FormatInt(n)) > 1
           /\ n >= 0 => FormatInt(n) = Digits(n)
           /\ n >= 0 => \A k \in 1..Len(FormatInt(n)) : FormatInt(n)[k] # Minus
<1>1. CASE n >= 0
  <2>1. n \in Nat /\ ~(n < 0) /\ FormatInt(n) = Digits(n)
    BY <1>1 DEF FormatInt
  <2>2. /\ Digits(n) \in Bytes /\ Len(Digits(n)) \in Nat \ {0}
        /\ \A k \in 1..Len(Digits(n)) : Digits(n)[k] \in 48..57
    BY <2>1, DigitsTyped
  <2>3. \A k \in 1..Len(Digits(n)) : Digits(n)[k] \in 45..57 /\ Digits(n)[k] # 45
    BY <2>2
  <2> QED
    BY <2>1, <2>2, <2>3 DEF Minus
<1>2. CASE n < 0
  <2>1. -n \in Nat /\ ~(n >= 0) /\ FormatInt(n) = <<Minus>> \o Digits(-n)
    BY <1>2 DEF FormatInt
  <2>2. PICK d : d = Digits(-n)
    OBVIOUS
  <2>3. d \in Bytes /\ Len(d) \in Nat \ {0} /\ \A k \in 1..Len(d) : d[k] \in 48..57
    BY <2>1, <2>2, DigitsTyped
  <2>4. PICK f : f = FormatInt(n)
    OBVIOUS
  <2>5. f = <<45>> \o d
    BY <2>1, <2>2, <2>4 DEF Minus
  <2>6. d \in Seq(0..255) /\ <<45>> \in Seq(0..255) /\ Len(<<45>>) = 1
    BY <2>3 DEF Bytes
  <2>7. /\ f \in Bytes /\ Len(f) = 1 + Len(d)
        /\ \A k \in 1..1 + Len(d) : f[k] = IF k <= 1 THEN <<45>>[k] ELSE d[k - 1]
    <3>1. /\ <<45>> \o d \in Seq(0..255)
          /\ Len(<<45>> \o d) = Len(<<45>>) + Len(d)
          /\ \A k \in 1..Len(<<45>>) + Len(d) :
                (<<45>> \o d)[k] = IF k <= Len(<<45>>) THEN <<45>>[k] ELSE d[k - Len(<<45>>)]
      BY <2>6, ConcatProperties
    <3> QED
      BY <2>5, <2>6, <3>1 DEF Bytes
  <2>8. f[1] = 45
    BY <2>3, <2>7
  <2>9. \A k \in 2..Len(f) : f[k] = d[k - 1] /\ k - 1 \in 1..Len(d)
    BY <2>3, <2>7
  <2>10. \A k \in 2..Len(f) : f[k] \in 48..57
    BY <2>3, <2>9
  <2>11. \A k \in 1..Len(f) : k = 1 \/ k \in 2..Len(f)
    BY <2>3, <2>7
  <2>12. \A k \in 1..Len(f) : f[k] \in 45..57
    BY <2>8, <2>10, <2>11
  <2>13. From(f, 1) = d
    <3>1. Len(f) - 1 = Len(d) /\ \A k \in 1..Len(d) : 1 + k \in 2..Len(f) /\ (1 + k) - 1 = k
      BY <2>3, <2>7
    <3>2. \A k \in 1..Len(d) : f[1 + k] = d[k]
      BY <2>9, <3>1
    <3>3. From(f, 1) = [k \in 1..Len(d) |-> d[k]]
      BY <3>1, <3>2 DEF From
    <3>4. d = [k \in 1..Len(d) |-> d[k]]
      BY <2>6, LenProperties
    <3> QED
      BY <3>3, <3>4
  <2>14. Len(f) > 1 /\ Len(f) \in Nat \ {0}
    BY <2>3, <2>7
  <2>15. \A k \in 2..Len(f) : f[k] # 45
    BY <2>10
  <2> QED
    BY <2>1, <2>2, <2>4, <2>7, <2>8, <2>12, <2>13, <2>14, <2>15 DEF Minus
<1> QED
  BY <1>1, <1>2

\* A number that fits its column is right-aligned.
LEMMA AlignedMeans ==
    ASSUME NEW s \in Bytes, NEW n \in Nat
    PROVE  /\ Aligned(s, n) \in Bytes /\ Len(Aligned(s, n)) = n
           /\ Len(s) <= n => /\ \A k \in 1..n - Len(s) : Aligned(s, n)[k] = Space
                             /\ \A k \in n - Len(s) + 1..n : Aligned(s, n)[k] = s[k - (n - Len(s))]
<1>0. Len(s) \in Nat /\ (\A k \in 1..Len(s) : s[k] \in 0..255) /\ s \in Seq(0..255)
  BY BytesMean DEF Bytes
<1>1. CASE Len(s) < n
  <2> DEFINE a == [k \in 1..n |-> IF k <= n - Len(s) THEN 32 ELSE s[k - n + Len(s)]]
  <2>1. Aligned(s, n) = a
    BY <1>1 DEF Aligned, Space
  <2>2. \A k \in n - Len(s) + 1..n : k \in 1..n /\ ~(k <= n - Len(s))
                                     /\ k - n + Len(s) = k - (n - Len(s))
                                     /\ k - n + Len(s) \in 1..Len(s)
    BY <1>0, <1>1
  <2>3. \A k \in 1..n : k \in n - Len(s) + 1..n \/ k <= n - Len(s)
    BY <1>0
  <2>4. ASSUME NEW k \in 1..n PROVE a[k] \in 0..255
    BY <1>0, <2>2, <2>3
  <2>5. a \in [1..n -> 0..255]
    BY <2>4
  <2>6. \A k \in 1..n - Len(s) : k \in 1..n /\ k <= n - Len(s)
    BY <1>0
  <2>7. /\ \A k \in 1..n - Len(s) : a[k] = 32
        /\ \A k \in n - Len(s) + 1..n : a[k] = s[k - (n - Len(s))]
    BY <2>2, <2>6
  <2> HIDE DEF a
  <2>8. a \in Bytes /\ Len(a) = n
    BY <2>5, MakesBytes
  <2> QED
    BY <2>1, <2>7, <2>8 DEF Space
<1>2. CASE Len(s) >= n
  <2>1. Aligned(s, n) = SubSeq(s, 1, n)
    <3>1. Aligned(s, n) = SubSeq(s, 1, IF Len(s) < n THEN Len(s) ELSE n)
      BY <1>0, <1>2 DEF Aligned, Cut
    <3> QED
      BY <1>0, <1>2, <3>1
  <2>2. /\ SubSeq(s, 1, n) \in Seq(0..255) /\ Len(SubSeq(s, 1, n)) = n
        /\ \A k \in 1..n : SubSeq(s, 1, n)[k] = s[k]
    <3>1. \A k \in 1..n : s[k] \in 0..255 /\ 1 + k - 1 = k
      BY <1>0, <1>2
    <3>2. 1 \in Int /\ n \in Int /\ n - 1 + 1 = n /\ (1 <= n \/ n = 0)
      OBVIOUS
    <3> QED
      BY <3>1, <3>2, SubSeqProperties
  <2>3. Len(s) <= n => n - Len(s) = 0 /\ n - Len(s) + 1 = 1
    BY <1>0, <1>2
  <2> QED
    BY <1>0, <2>1, <2>2, <2>3 DEF Bytes
<1> QED
  BY <1>0, <1>1, <1>2

\* The integers of both widths, zero among them.
LEMMA WordsMean ==
    /\ MaxInt32 \in Nat /\ MaxInt64 \in Nat /\ MaxInt32 <= MaxInt64 /\ MaxInt32 + 1 <= MaxExact
    /\ MaxInt64 + 1 <= 1024 * MaxExact
    /\ Int32s \subseteq Int64s /\ Int64s \subseteq Int /\ 0 \in Int32s
<1>1. PICK W, h, V, g : W = Word32 /\ h = Word32 \div 2 /\ V = Word64 /\ g = Word64 \div 2
  OBVIOUS
<1>2. /\ W \in Nat /\ W % 2 = 0 /\ W > 0 /\ V \in Nat /\ V % 2 = 0 /\ W <= V
      /\ MaxExact \in Nat /\ W <= MaxExact /\ V <= 2048 * MaxExact
  BY <1>1, ValuesAssumption, WordsAssumption
<1>3. W = 2 * h /\ h \in Nat /\ V = 2 * g /\ g \in Nat /\ h >= 1 /\ h <= g
  BY <1>1, <1>2
<1>4. MaxInt32 = h - 1 /\ MaxInt64 = g - 1
  BY <1>1 DEF MaxInt32, MaxInt64
<1>5. h <= MaxExact /\ g <= 1024 * MaxExact
  BY <1>2, <1>3
<1> QED
  BY <1>2, <1>3, <1>4, <1>5 DEF Int32s, Int64s

\* A float64 stands for a whole number, up to MaxExact for the one it is made of.
LEMMA RoundedMeans ==
    ASSUME NEW n \in Int64s
    PROVE  /\ Rounded(n) \in Int
           /\ n \in 0..MaxInt32 => Rounded(n) = n
<1>0. n \in Int /\ MaxExact \in Nat /\ -MaxInt64-1 <= n /\ n <= MaxInt64 /\ MaxInt64 \in Nat
  BY WordsMean, WordsAssumption DEF Int64s
<1>1. PICK size : size = IF n < 0 THEN -n ELSE n
  OBVIOUS
<1>2. size \in Nat /\ size <= 1024 * MaxExact
  BY <1>0, <1>1, WordsMean
<1>3. PICK spacing : spacing = Min({s \in Spacings : size <= s * MaxExact})
  OBVIOUS
<1>4. spacing \in Nat /\ spacing > 0
  <2>1. \A s \in Spacings : s \in Nat /\ s > 0
    BY DEF Spacings
  <2>2. 1024 \in {s \in Spacings : size <= s * MaxExact}
    BY <1>2 DEF Spacings
  <2>3. spacing \in {s \in Spacings : size <= s * MaxExact}
    BY <1>3, <2>1, <2>2, MinIn
  <2> QED
    BY <2>1, <2>3
<1>5. PICK below, up : /\ below = size \div spacing
                       /\ up = \/ 2 * (size % spacing) > spacing
                               \/ 2 * (size % spacing) = spacing /\ below % 2 = 1
  OBVIOUS
<1>6. PICK rounded : rounded = spacing * (IF up THEN below + 1 ELSE below)
  OBVIOUS
<1>7. rounded \in Int
  <2>1. below \in Int
    BY <1>2, <1>4, <1>5
  <2>2. (IF up THEN below + 1 ELSE below) \in Int
    BY <2>1
  <2> QED
    BY <1>4, <1>6, <2>2
<1>8. Rounded(n) = IF size <= MaxExact THEN n ELSE IF n < 0 THEN -rounded ELSE rounded
  BY <1>1, <1>3, <1>5, <1>6, Zenon DEF Rounded
<1>9. n \in 0..MaxInt32 => size <= MaxExact
  BY <1>0, <1>1, WordsMean
<1> QED
  BY <1>0, <1>7, <1>8, <1>9

\* The bytes of a number column are read as the number.
LEMMA NumberComesBack ==
    ASSUME NEW n \in Int, n \in Int64s, NEW length \in Nat, Len(FormatInt(n)) <= length
    PROVE  parseNumericInt(Aligned(FormatInt(n), length)) = [long |-> n]
<1>1. PICK f : f = FormatInt(n)
  OBVIOUS
<1>2. /\ f \in Bytes /\ Len(f) \in Nat \ {0} /\ Len(f) <= length
      /\ \A k \in 1..Len(f) : f[k] \in 45..57
      /\ n < 0 => /\ f[1] = Minus /\ From(f, 1) = Digits(-n) /\ Len(f) > 1
                  /\ \A k \in 2..Len(f) : f[k] # Minus
      /\ n >= 0 => f = Digits(n) /\ \A k \in 1..Len(f) : f[k] # Minus
  BY <1>1, FormatIntMeans
<1>3. PICK a, p : a = Aligned(f, length) /\ p = length - Len(f)
  OBVIOUS
<1>4. /\ a \in Bytes /\ Len(a) = length
      /\ \A k \in 1..p : a[k] = Space
      /\ \A k \in p + 1..length : a[k] = f[k - p]
  BY <1>2, <1>3, AlignedMeans
<1>5. p \in Nat /\ p \in 0..length - 1 /\ length - p = Len(f)
  BY <1>2, <1>3
<1>6. \A k \in p + 1..length : k - p \in 1..Len(f) /\ a[k] \in 45..57
  <2>1. \A k \in p + 1..length : k - p \in 1..Len(f)
    BY <1>2, <1>5
  <2> QED
    BY <1>2, <1>4, <2>1
<1> \A k \in p + 1..length : a[k] # 0 /\ a[k] \notin Blanks
  <2>1. \A b \in 45..57 : b # 0 /\ b \notin Blanks
    BY DEF Blanks
  <2> QED
    BY <1>6, <2>1, Zenon
<1>7. WithoutZeros(a) = a
  <2>1. \A k \in 1..length : k \in 1..p \/ k \in p + 1..length
    BY <1>5
  <2>2. \A k \in 1..Len(a) : a[k] # 0
    BY <1>4, <2>1 DEF Space
  <2> QED
    BY <1>4, <2>2, WithoutNone DEF WithoutZeros
<1>8. Trimmed(a) = f
  <2>1. p + 1 \in p + 1..length /\ length \in p + 1..length
    BY <1>5
  <2>2. a[p + 1] \notin Blanks /\ a[length] \notin Blanks
    BY <2>1, Zenon
  <2>3. \A k \in 1..p : a[k] \in Blanks
    BY <1>4 DEF Space, Blanks
  <2>4. Trimmed(a) = From(a, p)
    BY <1>4, <1>5, <2>2, <2>3, TrimmedInFront
  <2>5. From(a, p) = [k \in 1..Len(f) |-> f[k]]
    <3>1. \A k \in 1..Len(f) : p + k \in p + 1..length /\ (p + k) - p = k
      BY <1>5
    <3>2. \A k \in 1..Len(f) : a[p + k] = f[k]
      BY <1>4, <3>1
    <3> QED
      BY <1>4, <1>5, <3>2 DEF From
  <2>6. f = [k \in 1..Len(f) |-> f[k]]
    <3>1. f \in Seq(0..255)
      BY <1>2 DEF Bytes
    <3> QED
      BY <3>1, LenProperties
  <2> QED
    BY <2>4, <2>5, <2>6
<1>0. PICK number : number = IF f # Without(f, Minus) THEN -NumberIn(Without(f, Minus))
                             ELSE NumberIn(Without(f, Minus))
  OBVIOUS
<1>9. parseNumericInt(a) =
        IF f = <<Minus>> \/ number \notin Int64s THEN Unreadable ELSE [long |-> number]
  <2>1. PICK text, digits : text = Trimmed(WithoutZeros(a)) /\ digits = Without(text, Minus)
    OBVIOUS
  <2>2. text = f /\ number = IF text # digits THEN -NumberIn(digits) ELSE NumberIn(digits)
    BY <1>0, <1>7, <1>8, <2>1
  <2>3. parseNumericInt(a) =
          IF text = <<Minus>> \/ number \notin Int64s THEN Unreadable ELSE [long |-> number]
    BY <2>1, <2>2, Zenon DEF parseNumericInt
  <2> QED
    BY <2>2, <2>3
<1>10. f # <<Minus>>
  <2> SUFFICES ASSUME f = <<Minus>> PROVE FALSE
    OBVIOUS
  <2>1. Len(f) = 1 /\ f[1] = 45
    BY DEF Minus
  <2> QED
    BY <1>2, <2>1 DEF Minus
<1>11. CASE n >= 0
  <2>1. Without(f, Minus) = f
    BY <1>2, <1>11, WithoutNone
  <2>2. NumberIn(f) = n
    BY <1>2, <1>11, DigitsComeBack
  <2> QED
    BY <1>0, <1>1, <1>3, <1>9, <1>10, <2>1, <2>2, Zenon
<1>12. CASE n < 0
  <2>1. -n \in Nat /\ 1 \in 0..Len(f) /\ ~(n >= 0)
    BY <1>2, <1>12
  <2>2. Without(f, Minus) = From(f, 1)
    <3>1. \A k \in 1..1 : f[k] = Minus
      BY <1>2, <1>12
    <3>2. \A k \in 1 + 1..Len(f) : f[k] # Minus
      BY <1>2, <1>12
    <3> QED
      BY <1>2, <2>1, <3>1, <3>2, WithoutInFront
  <2>3. From(f, 1) = Digits(-n)
    BY <1>2, <1>12
  <2>4. NumberIn(Digits(-n)) = -n
    BY <2>1, DigitsComeBack
  <2>5. f # Without(f, Minus)
    <3>1. Len(From(f, 1)) = Len(f) - 1
      BY <1>2, <2>1, FromTyped
    <3>2. Len(f) - 1 # Len(f)
      BY <1>2
    <3> QED
      BY <2>2, <3>1, <3>2
  <2>6. -(-n) = n
    OBVIOUS
  <2> QED
    BY <1>0, <1>1, <1>3, <1>9, <1>10, <2>2, <2>3, <2>4, <2>5, <2>6, Zenon
<1> QED
  BY <1>11, <1>12

-----------------------------------------------------------------------------
(* Values and the columns that take them *)

Times == Dates \cup {ZeroTime}

AllValues ==
    {Nil} \cup [text : Bytes] \cup [raw : Bytes] \cup [int : Int32s] \cup [long : Int64s]
        \cup [float : Int] \cup [bool : BOOLEAN] \cup [date : Times]

IsNil(v) == v = Nil
IsText(v) == \E s \in Bytes : v = [text |-> s]
IsRaw(v) == \E s \in Bytes : v = [raw |-> s]
IsInt(v) == \E n \in Int32s : v = [int |-> n]
IsLong(v) == \E n \in Int64s : v = [long |-> n]
IsFloat(v) == \E n \in Int : v = [float |-> n]
IsBool(v) == \E b \in BOOLEAN : v = [bool |-> b]
IsTime(v) == \E d \in Times : v = [date |-> d]

LEMMA ValueKinds ==
    ASSUME NEW v
    PROVE  v \in AllValues <=> IsNil(v) \/ IsText(v) \/ IsRaw(v) \/ IsInt(v) \/ IsLong(v)
                                  \/ IsFloat(v) \/ IsBool(v) \/ IsTime(v)
<1>1. v \in [text : Bytes] <=> IsText(v)
  BY DEF IsText
<1>2. v \in [raw : Bytes] <=> IsRaw(v)
  BY DEF IsRaw
<1>3. v \in [int : Int32s] <=> IsInt(v)
  BY DEF IsInt
<1>4. v \in [long : Int64s] <=> IsLong(v)
  BY DEF IsLong
<1>5. v \in [float : Int] <=> IsFloat(v)
  BY DEF IsFloat
<1>6. v \in [bool : BOOLEAN] <=> IsBool(v)
  <2>1. ASSUME v \in [bool : BOOLEAN] PROVE IsBool(v)
    <3>1. v.bool \in BOOLEAN /\ v = [bool |-> v.bool]
      BY <2>1
    <3> QED
      BY <3>1 DEF IsBool
  <2>2. ASSUME IsBool(v) PROVE v \in [bool : BOOLEAN]
    <3>1. PICK b \in BOOLEAN : v = [bool |-> b]
      BY <2>2 DEF IsBool
    <3> QED
      BY <3>1
  <2> QED
    BY <2>1, <2>2
<1>7. v \in [date : Times] <=> IsTime(v)
  BY DEF IsTime
<1> QED
  BY <1>1, <1>2, <1>3, <1>4, <1>5, <1>6, <1>7, Zenon DEF AllValues, IsNil

LEMMA FieldsOf ==
    ASSUME NEW v
    PROVE  /\ IsNil(v) => DOMAIN v = {"nil"}
           /\ IsText(v) => DOMAIN v = {"text"} /\ v.text \in Bytes /\ BytesOf(v) = v.text /\ v = Text(v.text)
           /\ IsRaw(v) => DOMAIN v = {"raw"} /\ v.raw \in Bytes /\ BytesOf(v) = v.raw /\ v = Raw(v.raw)
           /\ IsInt(v) => DOMAIN v = {"int"} /\ v.int \in Int32s /\ v = [int |-> v.int]
           /\ IsLong(v) => DOMAIN v = {"long"} /\ v.long \in Int64s /\ v = [long |-> v.long]
           /\ IsFloat(v) => DOMAIN v = {"float"} /\ v.float \in Int /\ v = [float |-> v.float]
           /\ IsBool(v) => DOMAIN v = {"bool"} /\ v.bool \in BOOLEAN /\ v = [bool |-> v.bool]
           /\ IsTime(v) => DOMAIN v = {"date"} /\ v.date \in Times /\ v = [date |-> v.date]
<1>1. IsNil(v) => DOMAIN v = {"nil"}
  BY Zenon DEF IsNil, Nil
<1>2. IsText(v) => DOMAIN v = {"text"} /\ v.text \in Bytes /\ BytesOf(v) = v.text /\ v = Text(v.text)
  BY DEF IsText, BytesOf, Text
<1>3. IsRaw(v) => DOMAIN v = {"raw"} /\ v.raw \in Bytes /\ BytesOf(v) = v.raw /\ v = Raw(v.raw)
  BY DEF IsRaw, BytesOf, Raw
<1>4. IsInt(v) => DOMAIN v = {"int"} /\ v.int \in Int32s /\ v = [int |-> v.int]
  BY DEF IsInt
<1>5. IsLong(v) => DOMAIN v = {"long"} /\ v.long \in Int64s /\ v = [long |-> v.long]
  BY DEF IsLong
<1>6. IsFloat(v) => DOMAIN v = {"float"} /\ v.float \in Int /\ v = [float |-> v.float]
  BY DEF IsFloat
<1>7. IsBool(v) => DOMAIN v = {"bool"} /\ v.bool \in BOOLEAN /\ v = [bool |-> v.bool]
  BY DEF IsBool
<1>8. IsTime(v) => DOMAIN v = {"date"} /\ v.date \in Times /\ v = [date |-> v.date]
  BY DEF IsTime
<1> QED
  BY <1>1, <1>2, <1>3, <1>4, <1>5, <1>6, <1>7, <1>8

LEMMA NotNil ==
    ASSUME NEW v, IsText(v) \/ IsRaw(v) \/ IsInt(v) \/ IsLong(v) \/ IsFloat(v) \/ IsBool(v) \/ IsTime(v)
    PROVE  v # Nil
<1>1. DOMAIN Nil = {"nil"}
  BY FieldsOf DEF IsNil
<1>2. DOMAIN v # {"nil"}
  BY FieldsOf
<1> QED
  BY <1>1, <1>2

\* What a column takes.
LEMMA AcceptsMeans ==
    ASSUME NEW v \in AllValues, NEW column \in Columns, Accepts(column, v)
    PROVE  /\ column.kind = "char" => IsNil(v) \/ IsText(v)
           /\ column.kind \in {"var", "raw"} => IsNil(v) \/ IsText(v) \/ IsRaw(v)
           /\ column.kind = "varbinary" => IsNil(v) \/ IsRaw(v)
           /\ column.kind = "int" => IsNil(v) \/ IsInt(v) \/ IsFloat(v)
           /\ column.kind = "num" => IsNil(v) \/ IsInt(v) \/ IsLong(v) \/ IsFloat(v)
           /\ column.kind = "logical" => IsNil(v) \/ IsBool(v)
           /\ column.kind \in {"date", "dateTime"} => IsNil(v) \/ IsTime(v)
<1>1. IsNil(v) \/ IsText(v) \/ IsRaw(v) \/ IsInt(v) \/ IsLong(v) \/ IsFloat(v) \/ IsBool(v) \/ IsTime(v)
  BY ValueKinds
<1> DEFINE Taken == CASE column.kind = "char" -> {"text"}
                      [] column.kind \in {"var", "raw"} -> {"text", "raw"}
                      [] column.kind = "varbinary" -> {"raw"}
                      [] column.kind = "int" -> {"int", "float"}
                      [] column.kind = "num" -> {"int", "long", "float"}
                      [] column.kind = "logical" -> {"bool"}
                      [] column.kind \in {"date", "dateTime"} -> {"date"}
<1>2. IsNil(v) \/ DOMAIN v \subseteq Taken
  BY Zenon DEF Accepts, IsNil
<1>3. /\ column.kind = "char" => Taken = {"text"}
      /\ column.kind \in {"var", "raw"} => Taken = {"text", "raw"}
      /\ column.kind = "varbinary" => Taken = {"raw"}
      /\ column.kind = "int" => Taken = {"int", "float"}
      /\ column.kind = "num" => Taken = {"int", "long", "float"}
      /\ column.kind = "logical" => Taken = {"bool"}
      /\ column.kind \in {"date", "dateTime"} => Taken = {"date"}
  OBVIOUS
<1> HIDE DEF Taken
<1>4. /\ IsText(v) => DOMAIN v = {"text"}
      /\ IsRaw(v) => DOMAIN v = {"raw"}
      /\ IsInt(v) => DOMAIN v = {"int"}
      /\ IsLong(v) => DOMAIN v = {"long"}
      /\ IsFloat(v) => DOMAIN v = {"float"}
      /\ IsBool(v) => DOMAIN v = {"bool"}
      /\ IsTime(v) => DOMAIN v = {"date"}
  BY FieldsOf
<1> QED
  BY <1>1, <1>2, <1>3, <1>4

-----------------------------------------------------------------------------
(* Cells, kind by kind *)

LEMMA ColumnKinds ==
    ASSUME NEW column \in Columns
    PROVE  /\ column.kind \in {"char", "var", "varbinary", "raw", "int", "num", "logical",
                               "date", "dateTime"}
           /\ column.length \in Nat /\ column.length >= 1 /\ column.length <= 255
           /\ column.nullable \in BOOLEAN
           /\ IsVar(column) <=> column.kind \in {"var", "varbinary"}
<1>1. /\ column.kind \in Kinds /\ column.length \in 1..255 /\ column.nullable \in BOOLEAN
  BY DEF Columns
<1> QED
  BY <1>1 DEF Kinds, IsVar

LEMMA CellMeans ==
    ASSUME NEW column \in Columns, NEW v
    PROVE  /\ column.kind = "int" =>
                 Cell(column, v) = [word |-> IF v = Nil THEN 0 ELSE Int32(v) % Word32]
           /\ column.kind = "dateTime" =>
                 Cell(column, v) = [day |-> IF v = Nil THEN 0 ELSE JulianDay(v.date)]
           /\ column.kind = "date" => Cell(column, v) = DateCell(v)
           /\ column.kind = "logical" =>
                 Cell(column, v) = [flag |-> IF v = Nil THEN 0 ELSE IF v.bool THEN 84 ELSE 70]
           /\ column.kind = "num" =>
                 Cell(column, v) = [bytes |-> IF v = Nil THEN Zeros(column.length)
                                              ELSE Aligned(FormatInt(NumberOf(v)), column.length)]
           /\ column.kind = "char" =>
                 Cell(column, v) = [bytes |-> IF v = Nil THEN Zeros(column.length)
                                              ELSE Filled(v.text, column.length, Space)]
           /\ column.kind = "raw" =>
                 Cell(column, v) = [bytes |-> IF v = Nil THEN Zeros(column.length)
                                              ELSE Filled(BytesOf(v), column.length, 0)]
           /\ column.kind \in {"var", "varbinary"} =>
                 Cell(column, v) = [bytes |-> IF v = Nil THEN Zeros(column.length)
                                              ELSE IF IsShort(BytesOf(v), column.length)
                                              THEN ShortCell(BytesOf(v), column.length)
                                              ELSE Filled(BytesOf(v), column.length, 0)]
BY DEF Cell, IsVar

LEMMA ValueMeans ==
    ASSUME NEW i, NEW row
    PROVE  /\ schema[i].kind = "int" =>
                 Value(i, row) = [int |-> IF row.cells[i].word > MaxInt32
                                          THEN row.cells[i].word - Word32 ELSE row.cells[i].word]
           /\ schema[i].kind = "dateTime" => Value(i, row) = [date |-> DateOfDay(row.cells[i].day)]
           /\ schema[i].kind = "date" =>
                 Value(i, row) = [date |-> IF "digits" \in DOMAIN row.cells[i]
                                           THEN row.cells[i].digits ELSE ZeroTime]
           /\ schema[i].kind = "logical" => Value(i, row) = [bool |-> row.cells[i].flag = 84]
           /\ schema[i].kind = "num" => Value(i, row) = parseNumericInt(row.cells[i].bytes)
           /\ schema[i].kind = "char" => Value(i, row) = Returned(row.cells[i].bytes)
           /\ schema[i].kind = "raw" => Value(i, row) = ReturnedRaw(row.cells[i].bytes)
           /\ schema[i].kind = "var" =>
                 Value(i, row) = IF ReadNullFlag(i, row.nullFlag).null THEN Raw(<<>>)
                                 ELSE Returned(VarText(i, row.cells[i].bytes, row.nullFlag))
           /\ schema[i].kind = "varbinary" =>
                 Value(i, row) = ReturnedRaw(VarText(i, row.cells[i].bytes, row.nullFlag))
BY DEF Value

\* The bytes that are written: zeros, filled up texts, the length behind a short one.
LEMMA ZerosTyped ==
    ASSUME NEW n \in Nat
    PROVE  Zeros(n) \in Bytes /\ Len(Zeros(n)) = n /\ \A k \in 1..n : Zeros(n)[k] = 0
<1>1. Zeros(n) \in [1..n -> 0..255]
  BY DEF Zeros
<1> QED
  BY <1>1, MakesBytes DEF Zeros

LEMMA FilledTyped ==
    ASSUME NEW s \in Bytes, NEW n \in Nat, NEW byte \in 0..255
    PROVE  /\ Filled(s, n, byte) \in Bytes /\ Len(Filled(s, n, byte)) = n
           /\ \A k \in 1..n : Filled(s, n, byte)[k] = IF k <= Len(s) THEN s[k] ELSE byte
<1>1. Len(s) \in Nat /\ \A k \in 1..Len(s) : s[k] \in 0..255
  BY BytesMean
<1>2. \A k \in 1..n : (IF k <= Len(s) THEN s[k] ELSE byte) \in 0..255
  BY <1>1
<1>3. Filled(s, n, byte) \in [1..n -> 0..255]
  BY <1>2 DEF Filled
<1> QED
  BY <1>3, MakesBytes DEF Filled

LEMMA ShortTyped ==
    ASSUME NEW s \in Bytes, NEW n \in 1..255, IsShort(s, n)
    PROVE  /\ ShortCell(s, n) \in Bytes /\ Len(ShortCell(s, n)) = n
           /\ ShortCell(s, n)[n] = Len(s)
           /\ \A k \in 1..Len(s) : ShortCell(s, n)[k] = s[k]
<1>1. Len(s) \in Nat /\ n \in Nat /\ n <= 255 /\ Len(s) < n /\ Len(s) > 0 /\ n \in 1..n
  BY BytesMean DEF IsShort
<1>2. /\ Filled(s, n, 0) \in Bytes /\ Len(Filled(s, n, 0)) = n
      /\ \A k \in 1..n : Filled(s, n, 0)[k] = IF k <= Len(s) THEN s[k] ELSE 0
  <2>1. 0 \in 0..255
    OBVIOUS
  <2> QED
    BY <1>1, <2>1, FilledTyped
<1>3. PICK f : f = Filled(s, n, 0)
  OBVIOUS
<1>4. f \in Seq(0..255) /\ Len(f) = n /\ Len(s) \in 0..255
  <2>1. f \in Seq(0..255) /\ Len(f) = n
    BY <1>2, <1>3 DEF Bytes
  <2>2. Len(s) \in 0..255
    <3>1. \A a \in Nat, b \in Nat : a < b /\ b <= 255 => a \in 0..255
      OBVIOUS
    <3> QED
      BY <1>1, <3>1, Zenon
  <2> QED
    BY <2>1, <2>2
<1>5. PICK l : l = Len(s)
  OBVIOUS
<1>6. /\ [f EXCEPT ![n] = l] \in Seq(0..255) /\ Len([f EXCEPT ![n] = l]) = n
      /\ \A k \in 1..n : [f EXCEPT ![n] = l][k] = IF k = n THEN l ELSE f[k]
  <2>1. n \in 1..Len(f) /\ l \in 0..255
    BY <1>1, <1>4, <1>5
  <2> QED
    BY <1>4, <2>1, ExceptSeq
<1>7. ShortCell(s, n) = [f EXCEPT ![n] = l]
  BY <1>3, <1>5, Zenon DEF ShortCell
<1>8. \A k \in 1..Len(s) : k \in 1..n /\ k # n /\ f[k] = s[k]
  BY <1>1, <1>2, <1>3
<1> QED
  BY <1>1, <1>5, <1>6, <1>7, <1>8 DEF Bytes

LEMMA CutMeans ==
    ASSUME NEW s \in Bytes, NEW n \in Nat
    PROVE  /\ Cut(s, n) \in Bytes
           /\ Len(Cut(s, n)) = IF Len(s) < n THEN Len(s) ELSE n
           /\ \A k \in 1..Len(Cut(s, n)) : Cut(s, n)[k] = s[k]
<1>1. Len(s) \in Nat /\ \A k \in 1..Len(s) : s[k] \in 0..255
  BY BytesMean
<1>2. PICK l : l = IF Len(s) < n THEN Len(s) ELSE n
  OBVIOUS
<1>3. l \in Nat /\ \A k \in 1..l : s[k] \in 0..255
  BY <1>1, <1>2
<1>4. Cut(s, n) = SubSeq(s, 1, l)
  BY <1>2, Zenon DEF Cut
<1>5. /\ SubSeq(s, 1, l) \in Seq(0..255) /\ Len(SubSeq(s, 1, l)) = l
      /\ \A k \in 1..l : SubSeq(s, 1, l)[k] = s[k]
  <2>1. 1 \in Int /\ l \in Int /\ l - 1 + 1 = l /\ (1 <= l \/ l = 0) /\ \A k \in 1..l : 1 + k - 1 = k
    BY <1>3
  <2> QED
    BY <1>3, <2>1, SubSeqProperties
<1> QED
  BY <1>2, <1>4, <1>5 DEF Bytes

LEMMA TextsTyped ==
    ASSUME NEW s \in Bytes, trimSpaces \in BOOLEAN
    PROVE  IsText(Returned(s)) /\ IsRaw(ReturnedRaw(s))
<1>1. Trimmed(s) \in Bytes /\ Trimmed(WithoutZeros(s)) \in Bytes
  BY TrimmedTyped, WithoutTyped DEF WithoutZeros
<1> QED
  BY <1>1 DEF IsText, IsRaw, Returned, ReturnedRaw, Text, Raw

-----------------------------------------------------------------------------
(* What comes back, but for the columns of variable length *)

LEMMA WordComesBack ==
    ASSUME NEW n \in Int32s
    PROVE  /\ n % Word32 \in 0..Word32-1
           /\ (IF n % Word32 > MaxInt32 THEN (n % Word32) - Word32 ELSE n % Word32) = n
<1>1. PICK W, h : W = Word32 /\ h = Word32 \div 2
  OBVIOUS
<1>2. W \in Nat \ {0} /\ h \in Nat /\ W = 2 * h
  BY <1>1, ValuesAssumption
<1>3. MaxInt32 = h - 1 /\ n \in Int /\ n >= -h /\ n <= h - 1
  BY <1>1, <1>2 DEF MaxInt32, Int32s
<1>4. CASE n >= 0
  <2>1. n % W = n
    BY <1>2, <1>3, <1>4
  <2> QED
    BY <1>1, <1>2, <1>3, <1>4, <2>1
<1>5. CASE n < 0
  <2>1. n % W = n + W
    BY <1>2, <1>3, <1>5
  <2> QED
    BY <1>1, <1>2, <1>3, <1>5, <2>1
<1> QED
  BY <1>3, <1>4, <1>5

\* The integer a field stands for, whether it is given as one or as a float64.
LEMMA Int32Means ==
    ASSUME NEW v, IsInt(v) \/ IsFloat(v)
    PROVE  /\ Int32(v) \in Int32s
           /\ IsInt(v) => Int32(v) = v.int
           /\ IsFloat(v) => Int32(v) = IF v.float \in 1..MaxInt32 THEN v.float ELSE 0
<1>1. PICK W, h : W = Word32 /\ h = Word32 \div 2
  OBVIOUS
<1>2. MaxInt32 = h - 1 /\ h \in Nat /\ h >= 1
  BY <1>1, ValuesAssumption DEF MaxInt32
<1>3. CASE IsInt(v)
  <2>1. DOMAIN v = {"int"} /\ v.int \in Int32s
    BY <1>3, FieldsOf
  <2>2. ~IsFloat(v)
    <3>1. IsFloat(v) => DOMAIN v = {"float"}
      BY FieldsOf
    <3> QED
      BY <2>1, <3>1
  <2> QED
    BY <2>1, <2>2 DEF Int32
<1>4. CASE IsFloat(v)
  <2>1. DOMAIN v = {"float"} /\ v.float \in Int
    BY <1>4, FieldsOf
  <2>2. ~IsInt(v)
    <3>1. IsInt(v) => DOMAIN v = {"int"}
      BY FieldsOf
    <3> QED
      BY <2>1, <3>1
  <2>3. Int32(v) = IF v.float > 0 /\ v.float <= MaxInt32 THEN v.float ELSE 0
    BY <2>1 DEF Int32
  <2>4. v.float \in 1..MaxInt32 <=> v.float > 0 /\ v.float <= MaxInt32
    BY <1>2, <2>1
  <2>5. Int32(v) \in Int32s
    BY <1>2, <2>1, <2>3 DEF Int32s
  <2> QED
    BY <2>2, <2>3, <2>4, <2>5
<1> QED
  BY <1>3, <1>4

\* The day number of the zero time is none of a date, and the day of a date is its own.
LEMMA DayComesBack ==
    ASSUME NEW d \in Times
    PROVE  JulianDay(d) \in Nat /\ DateOfDay(JulianDay(d)) = d
<1>1. CASE d = ZeroTime
  <2>1. JulianDay(d) = 0
    BY <1>1 DEF JulianDay
  <2>2. PICK date : date = julianToDate(0)
    OBVIOUS
  <2>3. date[1] < 0
    <3>1. Steps(0, 1, 32044, 87, 299, 9)
      BY SMT DEF Steps, Quo
    <3>2. date = <<100 * (1 - 49) + 87 + Quo(9, 11), 9 + 2 - 12 * Quo(9, 11), 299 - Quo(2447 * 9, 80)>>
      BY <2>2, <3>1, JulianToDateMeans, SMT
    <3>3. Quo(9, 11) = 0
      BY SMT DEF Quo
    <3> QED
      BY <3>2, <3>3, SMT
  <2> QED
    BY <1>1, <2>1, <2>2, <2>3, SMT DEF DateOfDay
<1>2. CASE d # ZeroTime
  <2>1. d \in Nat \X Nat \X Nat /\ IsDate(d[1], d[2], d[3])
    BY <1>2, ValuesAssumption DEF Times
  <2>2. PICK y, m, n : y = d[1] /\ m = d[2] /\ n = d[3]
    OBVIOUS
  <2>3. d = <<y, m, n>> /\ IsDate(y, m, n)
    BY <2>1, <2>2
  <2>4. JulianDay(d) = julianDate(y, m, n)
    BY <1>2, <2>2 DEF JulianDay
  <2>5. julianToDate(julianDate(y, m, n)) = <<y, m, n>>
    BY <2>3, DateComesBack
  <2>6. y \in 1..9999
    BY <2>3, SMT DEF IsDate
  <2>7. DateOfDay(JulianDay(d)) = d
    <3>1. PICK day : day = julianDate(y, m, n)
      OBVIOUS
    <3>2. julianToDate(day) = d /\ d[1] = y
      BY <2>2, <2>3, <2>5, <3>1
    <3> QED
      BY <2>4, <2>6, <3>1, <3>2, SMT DEF DateOfDay
  <2>8. JulianDay(d) \in Nat
    <3>1. PICK Y, M, C, r, D : Parts(y, m, n, Y, M, C, r, D)
      BY SMT DEF Parts
    <3>2. /\ julianDate(y, m, n) = (1461 * Y) \div 4 + (367 * (M + 1)) \div 12 - (3 * C) \div 4
                                        + n - 32075
          /\ Y \in Nat /\ M \in 0..11
      BY <2>3, <3>1, JulianDateMeans, SMT
    <3>3. Y >= 4799 /\ C = (Y + 100) \div 100 /\ n \in Nat /\ n >= 1
      BY <2>3, <3>1, SMT DEF Parts, YearOf, IsDate
    <3> QED
      BY <2>4, <3>2, <3>3, SMT
  <2> QED
    BY <2>7, <2>8
<1> QED
  BY <1>1, <1>2

\* A row that may be stored.
Storable(row) ==
    /\ row \in [DOMAIN schema -> AllValues]
    /\ \A i \in DOMAIN schema : Accepts(schema[i], row[i]) /\ InBounds(schema[i], row[i])

LEMMA CellOf ==
    ASSUME NEW row, NEW i \in DOMAIN schema
    PROVE  ToBytes(row).cells[i] = Cell(schema[i], row[i]) /\ ToBytes(row).nullFlag = NullFlag(row)
BY DEF ToBytes

LEMMA SchemaMeans ==
    ASSUME schema \in Schemas
    PROVE  /\ Len(schema) \in Nat /\ DOMAIN schema = 1..Len(schema)
           /\ \A i \in DOMAIN schema : schema[i] \in Columns
           /\ FlagBits(schema, DOMAIN schema) <= 8
<1>1. schema \in Seq(Columns) /\ FlagBits(schema, DOMAIN schema) <= 8
  BY SchemasAssumption
<1> QED
  BY <1>1, LenProperties

LEMMA IntComesBack ==
    ASSUME schema \in Schemas, NEW row, Storable(row), NEW i \in DOMAIN schema,
           schema[i].kind = "int"
    PROVE  /\ ToBytes(row).cells[i].word \in 0..Word32-1
           /\ IsInt(Value(i, ToBytes(row)))
           /\ Value(i, ToBytes(row)) = Expected(schema[i], row[i])
           /\ Cell(schema[i], Expected(schema[i], row[i])) = Cell(schema[i], row[i])
<1>1. schema[i] \in Columns /\ row[i] \in AllValues /\ Accepts(schema[i], row[i])
  BY SchemaMeans DEF Storable
<1>2. PICK v, column : v = row[i] /\ column = schema[i]
  OBVIOUS
<1>3. column \in Columns /\ column.kind = "int" /\ (IsNil(v) \/ IsInt(v) \/ IsFloat(v))
  BY <1>1, <1>2, AcceptsMeans
<1>4. PICK n : n = IF v = Nil THEN 0 ELSE Int32(v)
  OBVIOUS
<1>5. n \in Int32s
  <2>1. PICK W, h : W = Word32 /\ h = Word32 \div 2
    OBVIOUS
  <2>2. 0 \in Int32s
    BY <2>1, ValuesAssumption DEF Int32s, MaxInt32
  <2> QED
    BY <1>3, <1>4, <2>2, Int32Means DEF IsNil
<1>6. Cell(column, v) = [word |-> n % Word32]
  <2>1. 0 % Word32 = 0
    <3>1. PICK W : W = Word32
      OBVIOUS
    <3> QED
      BY <3>1, ValuesAssumption
  <2> QED
    BY <1>3, <1>4, <2>1, CellMeans
<1>7. ToBytes(row).cells[i] = [word |-> n % Word32]
  BY <1>2, <1>6, CellOf
<1>8. Value(i, ToBytes(row)) = [int |-> n]
  <2>1. PICK word : word = n % Word32
    OBVIOUS
  <2>2. ToBytes(row).cells[i].word = word
    BY <1>7, <2>1
  <2>3. Value(i, ToBytes(row)) = [int |-> IF word > MaxInt32 THEN word - Word32 ELSE word]
    BY <1>2, <1>3, <2>2, ValueMeans
  <2>4. (IF word > MaxInt32 THEN word - Word32 ELSE word) = n
    BY <1>5, <2>1, WordComesBack
  <2> QED
    BY <2>3, <2>4
<1>9. Expected(column, v) = [int |-> n]
  <2>1. Expected(column, v) = IF v = Nil THEN [int |-> 0]
                              ELSE IF "int" \in DOMAIN v THEN v
                              ELSE [int |-> IF v.float \in 1..MaxInt32 THEN v.float ELSE 0]
    BY <1>3 DEF Expected
  <2>2. CASE IsNil(v)
    BY <1>4, <2>1, <2>2 DEF IsNil
  <2>3. CASE IsInt(v)
    <3>1. DOMAIN v = {"int"} /\ v = [int |-> v.int] /\ Int32(v) = v.int
      BY <2>3, FieldsOf, Int32Means
    <3>2. v # Nil
      BY <2>3, NotNil
    <3> QED
      BY <1>4, <2>1, <3>1, <3>2
  <2>4. CASE IsFloat(v)
    <3>1. DOMAIN v = {"float"} /\ Int32(v) = IF v.float \in 1..MaxInt32 THEN v.float ELSE 0
      BY <2>4, FieldsOf, Int32Means
    <3>2. v # Nil
      BY <2>4, NotNil
    <3> QED
      BY <1>4, <2>1, <3>1, <3>2
  <2> QED
    BY <1>3, <2>2, <2>3, <2>4
<1>10. Cell(column, [int |-> n]) = [word |-> n % Word32]
  <2>1. PICK w : w = [int |-> n]
    OBVIOUS
  <2>2. IsInt(w) /\ w.int = n
    BY <1>5, <2>1 DEF IsInt
  <2>3. Int32(w) = n /\ DOMAIN w = {"int"}
    BY <2>2, Int32Means, FieldsOf
  <2>4. w # Nil
    BY <2>2, NotNil
  <2> QED
    BY <1>3, <2>1, <2>3, <2>4, CellMeans
<1>11. IsInt([int |-> n]) /\ n % Word32 \in 0..Word32-1
  BY <1>5, WordComesBack DEF IsInt
<1> QED
  BY <1>2, <1>6, <1>7, <1>8, <1>9, <1>10, <1>11

LEMMA ExpectedMeans ==
    ASSUME NEW column \in Columns, NEW v
    PROVE  /\ column.kind \in {"date", "dateTime"} =>
                 Expected(column, v) = IF v = Nil THEN [date |-> ZeroTime] ELSE v
           /\ column.kind = "logical" =>
                 Expected(column, v) = IF v = Nil THEN [bool |-> FALSE] ELSE v
           /\ column.kind = "num" =>
                 Expected(column, v) = [long |-> IF v = Nil THEN 0 ELSE NumberOf(v)]
           /\ column.kind = "char" =>
                 Expected(column, v) = Returned(Filled(IF v = Nil THEN Zeros(column.length)
                                                       ELSE BytesOf(v), column.length, Space))
           /\ column.kind = "raw" =>
                 Expected(column, v) = ReturnedRaw(Filled(IF v = Nil THEN Zeros(column.length)
                                                          ELSE BytesOf(v), column.length, 0))
           /\ column.kind = "varbinary" =>
                 Expected(column, v) = ReturnedRaw(Cut(IF v = Nil THEN Zeros(column.length)
                                                       ELSE BytesOf(v), column.length))
           /\ column.kind = "var" =>
                 Expected(column, v) =
                    IF column.nullable /\ v # Nil /\ BytesOf(v) = <<>> THEN Raw(<<>>)
                    ELSE Returned(Cut(IF v = Nil THEN Zeros(column.length) ELSE BytesOf(v),
                                      column.length))
BY DEF Expected

\* Is a value that comes back written as the same cell again?
WrittenAlike(i, row) ==
    ~trimSpaces /\ (row[i] = Nil => schema[i].kind \notin {"num", "logical", "date"})
        => Cell(schema[i], Expected(schema[i], row[i])) = Cell(schema[i], row[i])

LEMMA TimeComesBack ==
    ASSUME schema \in Schemas, NEW row, Storable(row), NEW i \in DOMAIN schema,
           schema[i].kind \in {"date", "dateTime"}
    PROVE  /\ schema[i].kind = "dateTime" => ToBytes(row).cells[i].day \in Nat
           /\ schema[i].kind = "date" =>
                 ToBytes(row).cells[i] \in [blank : {0, Space}] \cup [digits : Dates]
           /\ IsTime(Value(i, ToBytes(row)))
           /\ Value(i, ToBytes(row)) = Expected(schema[i], row[i])
           /\ WrittenAlike(i, row)
<1>1. schema[i] \in Columns /\ row[i] \in AllValues /\ Accepts(schema[i], row[i])
  BY SchemaMeans DEF Storable
<1>2. PICK v, column : v = row[i] /\ column = schema[i]
  OBVIOUS
<1>3. column \in Columns /\ column.kind \in {"date", "dateTime"} /\ (IsNil(v) \/ IsTime(v))
  BY <1>1, <1>2, AcceptsMeans
<1>4. PICK d : d = IF v = Nil THEN ZeroTime ELSE v.date
  OBVIOUS
<1>5. d \in Times /\ (v # Nil => v = [date |-> d] /\ v.date = d)
  BY <1>3, <1>4, FieldsOf DEF IsNil, Times
<1>6. Expected(column, v) = [date |-> d] /\ IsTime([date |-> d])
  BY <1>3, <1>4, <1>5, ExpectedMeans DEF IsTime
<1>7. [date |-> d] # Nil /\ [date |-> d].date = d
  BY <1>6, NotNil
<1>8. PICK cell : cell = ToBytes(row).cells[i]
  OBVIOUS
<1>9. cell = Cell(column, v)
  BY <1>2, <1>8, CellOf
<1>10. CASE column.kind = "dateTime"
  <2>1. JulianDay(ZeroTime) = 0
    BY DEF JulianDay
  <2>2. cell = [day |-> JulianDay(d)]
    BY <1>3, <1>4, <1>9, <1>10, <2>1, CellMeans
  <2>3. cell.day = JulianDay(d) /\ JulianDay(d) \in Nat /\ DateOfDay(JulianDay(d)) = d
    BY <1>5, <2>2, DayComesBack
  <2>4. Value(i, ToBytes(row)) = [date |-> d]
    BY <1>2, <1>8, <1>10, <2>3, ValueMeans
  <2>5. Cell(column, [date |-> d]) = [day |-> JulianDay(d)]
    BY <1>3, <1>7, <1>10, CellMeans
  <2> QED
    BY <1>2, <1>6, <1>8, <1>9, <1>10, <2>2, <2>3, <2>4, <2>5 DEF WrittenAlike
<1>11. CASE column.kind = "date"
  <2>1. cell = DateCell(v)
    BY <1>3, <1>9, <1>11, CellMeans
  <2>2. cell = IF v = Nil THEN [blank |-> 0] ELSE IF d = ZeroTime THEN [blank |-> Space]
               ELSE [digits |-> d]
    BY <1>4, <2>1 DEF DateCell
  <2>3. cell \in [blank : {0, Space}] \cup [digits : Dates]
    BY <1>5, <2>2 DEF Times
  <2>4. Value(i, ToBytes(row)) = [date |-> d]
    <3>1. Value(i, ToBytes(row)) = [date |-> IF "digits" \in DOMAIN cell THEN cell.digits ELSE ZeroTime]
      BY <1>2, <1>8, <1>11, ValueMeans
    <3>2. (IF "digits" \in DOMAIN cell THEN cell.digits ELSE ZeroTime) = d
      BY <1>4, <2>2
    <3> QED
      BY <3>1, <3>2
  <2>5. v # Nil => Expected(column, v) = v
    BY <1>5, <1>6
  <2>6. WrittenAlike(i, row)
    BY <1>2, <1>11, <2>5 DEF WrittenAlike
  <2> QED
    BY <1>2, <1>6, <1>8, <1>11, <2>3, <2>4, <2>6
<1> QED
  BY <1>3, <1>10, <1>11

LEMMA BoolComesBack ==
    ASSUME schema \in Schemas, NEW row, Storable(row), NEW i \in DOMAIN schema,
           schema[i].kind = "logical"
    PROVE  /\ ToBytes(row).cells[i].flag \in 0..255
           /\ IsBool(Value(i, ToBytes(row)))
           /\ Value(i, ToBytes(row)) = Expected(schema[i], row[i])
           /\ WrittenAlike(i, row)
<1>1. schema[i] \in Columns /\ row[i] \in AllValues /\ Accepts(schema[i], row[i])
  BY SchemaMeans DEF Storable
<1>2. PICK v, column : v = row[i] /\ column = schema[i]
  OBVIOUS
<1>3. column \in Columns /\ column.kind = "logical" /\ (IsNil(v) \/ IsBool(v))
  BY <1>1, <1>2, AcceptsMeans
<1>4. PICK cell : cell = ToBytes(row).cells[i]
  OBVIOUS
<1>5. cell = [flag |-> IF v = Nil THEN 0 ELSE IF v.bool THEN 84 ELSE 70]
  BY <1>2, <1>3, <1>4, CellOf, CellMeans
<1>6. Value(i, ToBytes(row)) = [bool |-> cell.flag = 84]
  BY <1>2, <1>3, <1>4, ValueMeans
<1>7. Expected(column, v) = IF v = Nil THEN [bool |-> FALSE] ELSE v
  BY <1>3, ExpectedMeans
<1>8. CASE v = Nil
  <2>1. cell.flag = 0 /\ ~(cell.flag = 84)
    BY <1>5, <1>8
  <2>2. Value(i, ToBytes(row)) = [bool |-> FALSE]
    BY <1>6, <2>1, Zenon
  <2>3. IsBool([bool |-> FALSE])
    BY Zenon DEF IsBool
  <2> QED
    BY <1>2, <1>3, <1>4, <1>7, <1>8, <2>1, <2>2, <2>3 DEF WrittenAlike
<1>9. CASE v # Nil
  <2>1. v.bool \in BOOLEAN /\ v = [bool |-> v.bool] /\ IsBool(v)
    BY <1>3, <1>9, FieldsOf DEF IsNil
  <2>2. CASE v.bool = TRUE
    <3>1. cell.flag = 84
      BY <1>5, <1>9, <2>2
    <3>2. Value(i, ToBytes(row)) = v
      BY <1>6, <2>1, <2>2, <3>1, Zenon
    <3> QED
      BY <1>2, <1>4, <1>7, <1>9, <2>1, <3>1, <3>2 DEF WrittenAlike
  <2>3. CASE v.bool = FALSE
    <3>1. cell.flag = 70 /\ ~(cell.flag = 84)
      BY <1>5, <1>9, <2>3
    <3>2. Value(i, ToBytes(row)) = v
      BY <1>6, <2>1, <2>3, <3>1, Zenon
    <3> QED
      BY <1>2, <1>4, <1>7, <1>9, <2>1, <3>1, <3>2 DEF WrittenAlike
  <2> QED
    BY <2>1, <2>2, <2>3
<1> QED
  BY <1>8, <1>9

LEMMA FilledAgain ==
    ASSUME NEW s \in Bytes, NEW byte
    PROVE  Filled(s, Len(s), byte) = s
<1>1. s \in Seq(0..255)
  BY DEF Bytes
<1>2. s = [k \in 1..Len(s) |-> s[k]]
  BY <1>1, LenProperties
<1>3. Filled(s, Len(s), byte) = [k \in 1..Len(s) |-> s[k]]
  BY <1>1 DEF Filled
<1> QED
  BY <1>2, <1>3

\* What is read from the bytes of a number column is a number, or nothing.
LEMMA ParsedTyped ==
    ASSUME NEW bytes \in Bytes, parseNumericInt(bytes) # Unreadable
    PROVE  IsLong(parseNumericInt(bytes))
<1>1. PICK text, digits : text = Trimmed(WithoutZeros(bytes)) /\ digits = Without(text, Minus)
  OBVIOUS
<1>3. PICK n : n = IF text # digits THEN -NumberIn(digits) ELSE NumberIn(digits)
  OBVIOUS
<1>4. parseNumericInt(bytes) =
        IF text = <<Minus>> \/ n \notin Int64s THEN Unreadable ELSE [long |-> n]
  BY <1>1, <1>3, Zenon DEF parseNumericInt
<1> QED
  BY <1>4 DEF IsLong

\* A blank number column reads as zero.
LEMMA ZerosAreNoNumber ==
    ASSUME NEW n \in Nat
    PROVE  parseNumericInt(Zeros(n)) = [long |-> 0]
<1>1. WithoutZeros(Zeros(n)) = <<>>
  BY ZerosTyped, WithoutAll DEF WithoutZeros
<1>2. <<>> \in Bytes /\ Len(<<>>) = 0
  BY DEF Bytes
<1>3. Trimmed(<<>>) = <<>>
  BY <1>2, TrimmedAll
<1>4. Without(<<>>, Minus) = <<>>
  BY <1>2, WithoutNone
<1>5. NumberIn(<<>>) = 0
  <2>1. PICK number : NumberSoFar(number, <<>>) /\ NumberIn(<<>>) = number[Len(<<>>)]
    BY <1>2, NumberUnrolls
  <2> QED
    BY <1>2, <2>1 DEF NumberSoFar
<1>6. <<>> # <<Minus>>
  OBVIOUS
<1>7. parseNumericInt(Zeros(n)) =
        IF <<>> = <<Minus>> \/ 0 \notin Int64s THEN Unreadable ELSE [long |-> 0]
  BY <1>1, <1>3, <1>4, <1>5, Zenon DEF parseNumericInt
<1>8. 0 \in Int64s
  BY WordsMean
<1> QED
  BY <1>6, <1>7, <1>8

LEMMA NumberOfMeans ==
    ASSUME NEW v, IsInt(v) \/ IsLong(v) \/ IsFloat(v)
    PROVE  /\ NumberOf(v) \in Int64s
           /\ IsInt(v) => NumberOf(v) = v.int
           /\ IsLong(v) => NumberOf(v) = v.long
           /\ IsFloat(v) => NumberOf(v) = IF v.float \in Int64s THEN v.float ELSE Indefinite
<1>1. IsInt(v) => NumberOf(v) = v.int /\ NumberOf(v) \in Int64s
  BY WordsMean, FieldsOf DEF NumberOf
<1>2. IsLong(v) => NumberOf(v) = v.long /\ NumberOf(v) \in Int64s
  BY FieldsOf DEF NumberOf
<1>3. IsFloat(v) => NumberOf(v) = IF v.float \in Int64s THEN v.float ELSE Indefinite
  BY FieldsOf DEF NumberOf
<1>4. Indefinite \in Int64s
  BY WordsAssumption
<1> QED
  BY <1>1, <1>2, <1>3, <1>4

LEMMA NumComesBack ==
    ASSUME schema \in Schemas, NEW row, Storable(row), NEW i \in DOMAIN schema,
           schema[i].kind = "num"
    PROVE  /\ ToBytes(row).cells[i].bytes \in Bytes
           /\ Len(ToBytes(row).cells[i].bytes) = schema[i].length
           /\ Value(i, ToBytes(row)) # Unreadable => IsLong(Value(i, ToBytes(row)))
           /\ MayBeCut = FALSE => Value(i, ToBytes(row)) = Expected(schema[i], row[i])
           /\ WrittenAlike(i, row)
<1>1. schema[i] \in Columns /\ row[i] \in AllValues /\ Accepts(schema[i], row[i])
      /\ InBounds(schema[i], row[i])
  BY SchemaMeans DEF Storable
<1>2. PICK v, column : v = row[i] /\ column = schema[i]
  OBVIOUS
<1>3. /\ column \in Columns /\ column.kind = "num" /\ column.length \in Nat
      /\ IsNil(v) \/ IsInt(v) \/ IsLong(v) \/ IsFloat(v)
  BY <1>1, <1>2, AcceptsMeans, ColumnKinds
<1>4. PICK cell : cell = ToBytes(row).cells[i]
  OBVIOUS
<1>5. cell = [bytes |-> IF v = Nil THEN Zeros(column.length)
                        ELSE Aligned(FormatInt(NumberOf(v)), column.length)]
  BY <1>2, <1>3, <1>4, CellOf, CellMeans
<1>6. Value(i, ToBytes(row)) = parseNumericInt(cell.bytes)
  BY <1>2, <1>3, <1>4, ValueMeans
<1>7. Expected(column, v) = [long |-> IF v = Nil THEN 0 ELSE NumberOf(v)]
  BY <1>3, ExpectedMeans
<1>8. CASE v = Nil
  <2>1. cell.bytes = Zeros(column.length)
    BY <1>5, <1>8
  <2>2. Value(i, ToBytes(row)) = [long |-> 0]
    BY <1>3, <1>6, <2>1, ZerosAreNoNumber
  <2>3. IsLong([long |-> 0])
    BY WordsMean DEF IsLong
  <2> QED
    BY <1>2, <1>3, <1>4, <1>7, <1>8, <2>1, <2>2, <2>3, ZerosTyped DEF WrittenAlike
<1>9. CASE v # Nil
  <2>1. NumberOf(v) \in Int64s /\ NumberOf(v) \in Int
    BY <1>3, <1>9, NumberOfMeans, WordsMean DEF IsNil
  <2>2. PICK n : n = NumberOf(v)
    OBVIOUS
  <2>3. cell.bytes = Aligned(FormatInt(n), column.length) /\ FormatInt(n) \in Bytes
        /\ n \in Int /\ n \in Int64s
    BY <1>5, <1>9, <2>1, <2>2, FormatIntMeans
  <2>4. cell.bytes \in Bytes /\ Len(cell.bytes) = column.length
    BY <1>3, <2>3, AlignedMeans
  <2>5. MayBeCut = FALSE => Len(FormatInt(n)) <= column.length
    BY <1>1, <1>2, <1>3, <1>9, <2>2 DEF InBounds
  <2>6. MayBeCut = FALSE => Value(i, ToBytes(row)) = [long |-> n]
    BY <1>3, <1>6, <2>3, <2>5, NumberComesBack
  <2>7. Cell(column, [long |-> n]) = Cell(column, v)
    <3>1. PICK w : w = [long |-> n]
      OBVIOUS
    <3>2. IsLong(w) /\ w.long = n
      BY <2>3, <3>1 DEF IsLong
    <3>3. w # Nil /\ NumberOf(w) = n
      BY <3>2, NotNil, NumberOfMeans
    <3> QED
      BY <1>3, <1>9, <2>2, <3>1, <3>3, CellMeans
  <2>8. Expected(column, v) = [long |-> n]
    BY <1>7, <1>9, <2>2
  <2> QED
    BY <1>2, <1>4, <1>6, <2>4, <2>6, <2>7, <2>8, ParsedTyped DEF WrittenAlike
<1> QED
  BY <1>8, <1>9

LEMMA TextComesBack ==
    ASSUME schema \in Schemas, trimSpaces \in BOOLEAN, NEW row, Storable(row),
           NEW i \in DOMAIN schema, schema[i].kind \in {"char", "raw"}
    PROVE  /\ ToBytes(row).cells[i].bytes \in Bytes
           /\ Len(ToBytes(row).cells[i].bytes) = schema[i].length
           /\ IsText(Value(i, ToBytes(row))) \/ IsRaw(Value(i, ToBytes(row)))
           /\ Value(i, ToBytes(row)) = Expected(schema[i], row[i])
           /\ WrittenAlike(i, row)
<1>1. schema[i] \in Columns /\ row[i] \in AllValues /\ Accepts(schema[i], row[i])
  BY SchemaMeans DEF Storable
<1>2. PICK v, column : v = row[i] /\ column = schema[i]
  OBVIOUS
<1>3. /\ column \in Columns /\ column.kind \in {"char", "raw"} /\ column.length \in Nat
      /\ IsNil(v) \/ IsText(v) \/ (IsRaw(v) /\ column.kind = "raw")
  BY <1>1, <1>2, AcceptsMeans, ColumnKinds
<1>4. PICK cell, byte, s :
         /\ cell = ToBytes(row).cells[i]
         /\ byte = IF column.kind = "char" THEN Space ELSE 0
         /\ s = IF v = Nil THEN Zeros(column.length) ELSE BytesOf(v)
  OBVIOUS
<1>5. s \in Bytes /\ byte \in 0..255
  BY <1>3, <1>4, FieldsOf, ZerosTyped DEF IsNil, Space
<1>6. Filled(Zeros(column.length), column.length, byte) = Zeros(column.length)
  BY <1>3, ZerosTyped, FilledAgain
<1>7. cell = [bytes |-> Filled(s, column.length, byte)]
  <2>1. column.kind = "char" /\ v # Nil => v.text = BytesOf(v)
    BY <1>3, FieldsOf DEF IsNil
  <2>2. cell = Cell(column, v)
    BY <1>2, <1>4, CellOf
  <2> QED
    BY <1>3, <1>4, <1>6, <2>1, <2>2, CellMeans
<1>8. PICK f : f = Filled(s, column.length, byte)
  OBVIOUS
<1>9. f \in Bytes /\ Len(f) = column.length /\ cell.bytes = f
  <2>1. f \in Bytes /\ Len(f) = column.length
    BY <1>3, <1>5, <1>8, FilledTyped
  <2>2. cell = [bytes |-> f]
    BY <1>7, <1>8
  <2> QED
    BY <2>1, <2>2
<1>10. Value(i, ToBytes(row)) = IF column.kind = "char" THEN Returned(f) ELSE ReturnedRaw(f)
  BY <1>2, <1>3, <1>4, <1>9, ValueMeans
<1>11. Expected(column, v) = IF column.kind = "char" THEN Returned(f) ELSE ReturnedRaw(f)
  BY <1>3, <1>4, <1>8, ExpectedMeans
<1>12. IsText(Returned(f)) /\ IsRaw(ReturnedRaw(f))
  BY <1>9, TextsTyped
<1>13. WrittenAlike(i, row)
  <2> SUFFICES ASSUME ~trimSpaces
               PROVE  Cell(column, Expected(column, v)) = Cell(column, v)
    BY <1>2 DEF WrittenAlike
  <2>1. Returned(f) = Text(f) /\ ReturnedRaw(f) = Raw(f)
    BY DEF Returned, ReturnedRaw
  <2>2. PICK w : w = Expected(column, v)
    OBVIOUS
  <2>3. /\ w # Nil /\ BytesOf(w) = f
        /\ column.kind = "char" => w.text = f
    <3>1. CASE column.kind = "char"
      <4>1. w = [text |-> f] /\ IsText(w)
        BY <1>11, <1>12, <2>1, <2>2, <3>1 DEF Text
      <4>2. w.text = f
        BY <4>1
      <4> QED
        BY <4>1, <4>2, FieldsOf, NotNil
    <3>2. CASE column.kind = "raw"
      <4>1. w = [raw |-> f] /\ IsRaw(w)
        BY <1>11, <1>12, <2>1, <2>2, <3>2 DEF Raw
      <4>2. w.raw = f
        BY <4>1
      <4> QED
        BY <3>2, <4>1, <4>2, FieldsOf, NotNil
    <3> QED
      BY <1>3, <3>1, <3>2
  <2>4. Filled(f, column.length, byte) = f
    BY <1>9, FilledAgain
  <2>5. Cell(column, w) = [bytes |-> f]
    BY <1>3, <1>4, <2>3, <2>4, CellMeans
  <2>6. Cell(column, v) = [bytes |-> f]
    BY <1>2, <1>4, <1>7, <1>8, CellOf
  <2> QED
    BY <2>2, <2>5, <2>6
<1> QED
  BY <1>2, <1>4, <1>9, <1>10, <1>11, <1>12, <1>13

-----------------------------------------------------------------------------
(* Columns of variable length and their null flag bits *)

\* The hypothesis of what follows: nullFlagPosition stops at the first column that
\* is not variable.
VarsInFront ==
    \A s \in Schemas : \A i \in DOMAIN s : IsVar(s[i]) => \A k \in 1..i : IsVar(s[k])

\* The bits of a column: its first, and the next one if it is nullable.
OwnBits(i) ==
    {VarPosition(i)} \cup (IF schema[i].nullable THEN {VarPosition(i) + 1} ELSE {})

\* A column's bits are counted on top of those of the columns before it.
LEMMA FlagBitsGrow ==
    ASSUME schema \in Schemas, NEW A, NEW B, B \subseteq DOMAIN schema, A \subseteq B,
           NEW i \in B, i \notin A, IsVar(schema[i])
    PROVE  /\ FlagBits(schema, A) \in Nat /\ FlagBits(schema, B) \in Nat
           /\ FlagBits(schema, A) + 1 <= FlagBits(schema, B)
           /\ schema[i].nullable => FlagBits(schema, A) + 2 <= FlagBits(schema, B)
<1> DEFINE V(s) == {j \in s : IsVar(schema[j])}
           N(s) == {j \in s : IsVar(schema[j]) /\ schema[j].nullable}
<1>1. IsFiniteSet(DOMAIN schema)
  BY SchemaMeans, FS_Interval
<1>2. IsFiniteSet(V(A)) /\ IsFiniteSet(V(B)) /\ IsFiniteSet(N(A)) /\ IsFiniteSet(N(B))
  <2>1. V(A) \subseteq DOMAIN schema /\ V(B) \subseteq DOMAIN schema
        /\ N(A) \subseteq DOMAIN schema /\ N(B) \subseteq DOMAIN schema
    OBVIOUS
  <2> QED
    BY <1>1, <2>1, FS_Subset
<1>3. V(A) \cup {i} \subseteq V(B) /\ i \notin V(A)
      /\ N(A) \subseteq N(B) /\ i \notin N(A) /\ (schema[i].nullable => N(A) \cup {i} \subseteq N(B))
  OBVIOUS
<1> HIDE DEF V, N
<1>4. /\ Cardinality(V(A)) \in Nat /\ Cardinality(V(B)) \in Nat
      /\ Cardinality(N(A)) \in Nat /\ Cardinality(N(B)) \in Nat
  BY <1>2, FS_CardinalityType
<1>5. Cardinality(V(A) \cup {i}) = Cardinality(V(A)) + 1
  BY <1>2, <1>3, FS_AddElement
<1>6. Cardinality(N(A) \cup {i}) = Cardinality(N(A)) + 1
  BY <1>2, <1>3, FS_AddElement
<1>7. Cardinality(V(A) \cup {i}) <= Cardinality(V(B))
  BY <1>2, <1>3, FS_Subset
<1>8. Cardinality(N(A)) <= Cardinality(N(B))
  BY <1>2, <1>3, FS_Subset
<1>9. schema[i].nullable => Cardinality(N(A) \cup {i}) <= Cardinality(N(B))
  BY <1>2, <1>3, FS_Subset
<1>10. FlagBits(schema, A) = Cardinality(V(A)) + Cardinality(N(A))
       /\ FlagBits(schema, B) = Cardinality(V(B)) + Cardinality(N(B))
  BY DEF FlagBits, V, N
<1> QED
  BY <1>4, <1>5, <1>6, <1>7, <1>8, <1>9, <1>10

LEMMA BitsApart ==
    ASSUME schema \in Schemas, NEW i \in DOMAIN schema, IsVar(schema[i])
    PROVE  /\ VarPosition(i) \in Nat /\ OwnBits(i) \subseteq 0..7
           /\ \A j \in DOMAIN schema : IsVar(schema[j]) /\ j # i => OwnBits(j) \cap OwnBits(i) = {}
<1>1. /\ Len(schema) \in Nat /\ DOMAIN schema = 1..Len(schema)
      /\ FlagBits(schema, DOMAIN schema) <= 8
  BY SchemaMeans
<1>2. /\ VarPosition(i) \in Nat /\ VarPosition(i) + 1 <= 8
      /\ schema[i].nullable => VarPosition(i) + 2 <= 8
  <2>1. 1..i-1 \subseteq DOMAIN schema /\ i \notin 1..i-1
    BY <1>1
  <2>2. /\ FlagBits(schema, 1..i-1) \in Nat /\ FlagBits(schema, DOMAIN schema) \in Nat
        /\ FlagBits(schema, 1..i-1) + 1 <= FlagBits(schema, DOMAIN schema)
        /\ schema[i].nullable => FlagBits(schema, 1..i-1) + 2 <= FlagBits(schema, DOMAIN schema)
    BY <2>1, FlagBitsGrow
  <2> QED
    BY <1>1, <2>2 DEF VarPosition
<1>3. ASSUME NEW j \in DOMAIN schema, NEW k \in DOMAIN schema, j < k, IsVar(schema[j])
      PROVE  /\ VarPosition(j) \in Nat /\ VarPosition(k) \in Nat
             /\ VarPosition(j) + 1 <= VarPosition(k)
             /\ schema[j].nullable => VarPosition(j) + 2 <= VarPosition(k)
  <2>1. 1..k-1 \subseteq DOMAIN schema /\ 1..j-1 \subseteq 1..k-1 /\ j \in 1..k-1 /\ j \notin 1..j-1
    BY <1>1, <1>3
  <2> QED
    BY <1>3, <2>1, FlagBitsGrow DEF VarPosition
<1>4. ASSUME NEW j \in DOMAIN schema, NEW k \in DOMAIN schema, j < k, IsVar(schema[j])
      PROVE  OwnBits(j) \cap OwnBits(k) = {}
  <2>1. /\ VarPosition(j) \in Nat /\ VarPosition(k) \in Nat
        /\ VarPosition(j) + 1 <= VarPosition(k)
        /\ schema[j].nullable => VarPosition(j) + 2 <= VarPosition(k)
    BY <1>3, <1>4
  <2>2. \A x \in OwnBits(j) : x < VarPosition(k) /\ x \in Nat
    BY <2>1 DEF OwnBits
  <2>3. \A x \in OwnBits(k) : x >= VarPosition(k)
    BY <2>1 DEF OwnBits
  <2>4. \A x \in OwnBits(j) : x \notin OwnBits(k)
    BY <2>1, <2>2, <2>3
  <2> QED
    BY <2>4
<1>5. OwnBits(i) \subseteq 0..7
  BY <1>2 DEF OwnBits
<1>6. \A j \in DOMAIN schema : j # i => j < i \/ i < j
  BY <1>1
<1> QED
  BY <1>2, <1>4, <1>5, <1>6

\* The bits that ToBytes sets for a field are the column's own, unless an empty
\* string goes into a column that is not nullable.
LEMMA BitsAreOwn ==
    ASSUME schema \in Schemas, MayBeEmpty = FALSE, NEW row, Storable(row), NEW i \in DOMAIN schema
    PROVE  /\ BitsSet(i, row[i]) \subseteq OwnBits(i)
           /\ ~IsVar(schema[i]) => BitsSet(i, row[i]) = {}
<1>1. InBounds(schema[i], row[i])
  BY DEF Storable
<1>2. IsVar(schema[i]) /\ row[i] # Nil /\ BytesOf(row[i]) = <<>> => schema[i].nullable
  BY <1>1 DEF InBounds
<1> QED
  BY <1>2 DEF BitsSet, OwnBits

\* The reader finds the bits that the writer set for the column.
LEMMA FlagsFound ==
    ASSUME schema \in Schemas, VarsInFront, MayBeEmpty = FALSE, NEW row, Storable(row),
           NEW i \in DOMAIN schema, IsVar(schema[i])
    PROVE  /\ ReadNullFlag(i, NullFlag(row)).short <=> VarPosition(i) \in BitsSet(i, row[i])
           /\ ReadNullFlag(i, NullFlag(row)).null
                 <=> schema[i].nullable /\ VarPosition(i) + 1 \in BitsSet(i, row[i])
<1>1. nullFlagPosition(i) = VarPosition(i)
  <2>1. \A j \in 1..i-1 : \A k \in 1..j : IsVar(schema[k])
    <3>1. \A k \in 1..i : IsVar(schema[k])
      BY DEF VarsInFront
    <3>2. i \in Nat
      BY SchemaMeans
    <3>3. \A j \in 1..i-1 : \A k \in 1..j : k \in 1..i
      BY <3>2
    <3> QED
      BY <3>1, <3>3
  <2>2. {j \in 1..i-1 : \A k \in 1..j : IsVar(schema[k])} = 1..i-1
    BY <2>1
  <2> QED
    BY <2>2, Zenon DEF nullFlagPosition, VarPosition
<1>2. ASSUME NEW x \in OwnBits(i) PROVE x \in NullFlag(row) <=> x \in BitsSet(i, row[i])
  <2>1. x \in 0..7
    BY BitsApart
  <2>2. ASSUME NEW j \in DOMAIN schema, j # i PROVE x \notin BitsSet(j, row[j])
    <3>1. BitsSet(j, row[j]) \subseteq OwnBits(j) /\ (~IsVar(schema[j]) => BitsSet(j, row[j]) = {})
      BY BitsAreOwn
    <3>2. IsVar(schema[j]) => OwnBits(j) \cap OwnBits(i) = {}
      BY <2>2, BitsApart
    <3> QED
      BY <3>1, <3>2
  <2> DEFINE U == UNION {BitsSet(j, row[j]) : j \in DOMAIN schema}
  <2>3. x \in U <=> x \in BitsSet(i, row[i])
    BY <2>2
  <2>4. NullFlag(row) = U \cap 0..7
    BY Zenon DEF NullFlag
  <2> HIDE DEF U
  <2> QED
    BY <2>1, <2>3, <2>4
<1>3. VarPosition(i) \in OwnBits(i) /\ (schema[i].nullable => VarPosition(i) + 1 \in OwnBits(i))
  BY DEF OwnBits
<1>4. /\ ReadNullFlag(i, NullFlag(row)).short = (VarPosition(i) \in NullFlag(row))
      /\ ReadNullFlag(i, NullFlag(row)).null
            = (schema[i].nullable /\ VarPosition(i) + 1 \in NullFlag(row))
  BY <1>1, Zenon DEF ReadNullFlag
<1> QED
  BY <1>2, <1>3, <1>4

\* The text that a column of variable length holds, and what is read of its cell.
VarBytes(column, s) == IF IsShort(s, column.length) THEN ShortCell(s, column.length)
                       ELSE Filled(s, column.length, 0)

LEMMA VarBytesTyped ==
    ASSUME NEW column \in Columns, NEW s \in Bytes
    PROVE  /\ VarBytes(column, s) \in Bytes /\ Len(VarBytes(column, s)) = column.length
           /\ IsShort(s, column.length) => /\ VarBytes(column, s)[column.length] = Len(s)
                                           /\ Cut(VarBytes(column, s), Len(s)) = s
                                           /\ Cut(s, column.length) = s
           /\ ~IsShort(s, column.length) /\ s # <<>> => VarBytes(column, s) = Cut(s, column.length)
<1>1. column.length \in 1..255 /\ column.length \in Nat
  BY ColumnKinds
<1>2. PICK n, b : n = column.length /\ b = VarBytes(column, s)
  OBVIOUS
<1>3. Len(s) \in Nat /\ (s # <<>> => Len(s) > 0)
  <2>1. s \in Seq(0..255)
    BY DEF Bytes
  <2>2. s # <<>> => Len(s) \in Nat \ {0}
    BY <2>1, EmptySeq
  <2> QED
    BY <2>1, <2>2
<1>4. CASE IsShort(s, n)
  <2>1. b = ShortCell(s, n)
    BY <1>2, <1>4 DEF VarBytes
  <2>2. /\ b \in Bytes /\ Len(b) = n /\ b[n] = Len(s)
        /\ \A k \in 1..Len(s) : b[k] = s[k]
    <3>1. n \in 1..255
      BY <1>1, <1>2
    <3> QED
      BY <1>4, <2>1, <3>1, ShortTyped
  <2>3. Len(s) < n
    BY <1>4 DEF IsShort
  <2>4. Cut(b, Len(s)) = s
    <3>1. /\ Cut(b, Len(s)) \in Bytes /\ Len(Cut(b, Len(s))) = Len(s)
          /\ \A k \in 1..Len(s) : Cut(b, Len(s))[k] = b[k]
      BY <1>1, <1>2, <1>3, <2>2, <2>3, CutMeans
    <3> QED
      BY <2>2, <3>1, SameBytes
  <2>5. Cut(s, n) = s
    <3>1. /\ Cut(s, n) \in Bytes /\ Len(Cut(s, n)) = Len(s)
          /\ \A k \in 1..Len(s) : Cut(s, n)[k] = s[k]
      BY <1>1, <1>2, <2>3, CutMeans
    <3> QED
      BY <3>1, SameBytes
  <2> QED
    BY <1>2, <1>4, <2>2, <2>4, <2>5
<1>5. CASE ~IsShort(s, n)
  <2>1. b = Filled(s, n, 0)
    BY <1>2, <1>5 DEF VarBytes
  <2>2. /\ b \in Bytes /\ Len(b) = n
        /\ \A k \in 1..n : b[k] = IF k <= Len(s) THEN s[k] ELSE 0
    <3>1. 0 \in 0..255 /\ n \in Nat
      BY <1>1, <1>2
    <3> QED
      BY <2>1, <3>1, FilledTyped
  <2>3. ASSUME s # <<>> PROVE b = Cut(s, n)
    <3>1. Len(s) >= n
      BY <1>1, <1>2, <1>3, <1>5, <2>3 DEF IsShort
    <3>2. /\ Cut(s, n) \in Bytes /\ Len(Cut(s, n)) = n
          /\ \A k \in 1..n : Cut(s, n)[k] = s[k]
      BY <1>1, <1>2, <1>3, <3>1, CutMeans
    <3>3. \A k \in 1..n : b[k] = s[k]
      BY <1>1, <1>2, <1>3, <2>2, <3>1
    <3> QED
      BY <2>2, <3>2, <3>3, SameBytes
  <2> QED
    BY <1>2, <1>5, <2>2, <2>3
<1> QED
  BY <1>2, <1>4, <1>5

LEMMA VarTextTyped ==
    ASSUME NEW i, NEW bytes \in Bytes, Len(bytes) > 0, NEW flags
    PROVE  VarText(i, bytes, flags) \in Bytes
<1>1. Len(bytes) \in 1..Len(bytes)
  BY BytesMean
<1>2. bytes[Len(bytes)] \in Nat
  <2>1. bytes[Len(bytes)] \in 0..255
    BY <1>1, BytesMean, Zenon
  <2>2. \A b \in 0..255 : b \in Nat
    OBVIOUS
  <2> QED
    BY <2>1, <2>2, Zenon
<1>3. Cut(bytes, bytes[Len(bytes)]) \in Bytes
  BY <1>2, CutMeans
<1>4. <<>> \in Bytes
  BY DEF Bytes
<1>5. VarText(i, bytes, flags) \in {<<>>, Cut(bytes, bytes[Len(bytes)]), bytes}
  BY Zenon DEF VarText
<1> QED
  BY <1>3, <1>4, <1>5

LEMMA VarTyped ==
    ASSUME schema \in Schemas, trimSpaces \in BOOLEAN, NEW row, Storable(row),
           NEW i \in DOMAIN schema, IsVar(schema[i])
    PROVE  /\ ToBytes(row).cells[i] =
                 [bytes |-> IF row[i] = Nil THEN Zeros(schema[i].length)
                            ELSE VarBytes(schema[i], BytesOf(row[i]))]
           /\ row[i] # Nil => BytesOf(row[i]) \in Bytes
           /\ ToBytes(row).cells[i].bytes \in Bytes
           /\ Len(ToBytes(row).cells[i].bytes) = schema[i].length
           /\ IsText(Value(i, ToBytes(row))) \/ IsRaw(Value(i, ToBytes(row)))
<1>1. schema[i] \in Columns /\ row[i] \in AllValues /\ Accepts(schema[i], row[i])
  BY SchemaMeans DEF Storable
<1>2. PICK v, column : v = row[i] /\ column = schema[i]
  OBVIOUS
<1>3. /\ column \in Columns /\ column.kind \in {"var", "varbinary"} /\ column.length \in Nat
      /\ column.length >= 1 /\ (IsNil(v) \/ IsText(v) \/ IsRaw(v))
  BY <1>1, <1>2, AcceptsMeans, ColumnKinds
<1>4. v # Nil => BytesOf(v) \in Bytes
  BY <1>3, FieldsOf DEF IsNil
<1>5. PICK cell, flags : cell = ToBytes(row).cells[i] /\ flags = ToBytes(row).nullFlag
  OBVIOUS
<1>6. cell = [bytes |-> IF v = Nil THEN Zeros(column.length) ELSE VarBytes(column, BytesOf(v))]
  BY <1>2, <1>3, <1>5, CellOf, CellMeans DEF VarBytes
<1>7. cell.bytes \in Bytes /\ Len(cell.bytes) = column.length
  BY <1>3, <1>4, <1>6, ZerosTyped, VarBytesTyped
<1>8. VarText(i, cell.bytes, flags) \in Bytes
  BY <1>3, <1>7, VarTextTyped
<1>9. <<>> \in Bytes
  BY DEF Bytes
<1>10. IsRaw(Raw(<<>>))
  BY <1>9 DEF IsRaw, Raw
<1>11. IsText(Value(i, ToBytes(row))) \/ IsRaw(Value(i, ToBytes(row)))
  BY <1>2, <1>3, <1>5, <1>8, <1>10, ValueMeans, TextsTyped
<1> QED
  BY <1>2, <1>4, <1>5, <1>6, <1>7, <1>11

LEMMA VarComesBack ==
    ASSUME schema \in Schemas, trimSpaces \in BOOLEAN, VarsInFront, MayBeEmpty = FALSE,
           NEW row, Storable(row), NEW i \in DOMAIN schema, IsVar(schema[i])
    PROVE  Value(i, ToBytes(row)) = Expected(schema[i], row[i])
<1>1. schema[i] \in Columns /\ InBounds(schema[i], row[i])
  BY SchemaMeans DEF Storable
<1>2. PICK v, column : v = row[i] /\ column = schema[i]
  OBVIOUS
<1>3. /\ column \in Columns /\ column.kind \in {"var", "varbinary"} /\ column.length \in Nat
      /\ column.length >= 1
  BY <1>1, <1>2, ColumnKinds
<1>4. PICK cell, flags, p : /\ cell = ToBytes(row).cells[i] /\ flags = NullFlag(row)
                            /\ p = VarPosition(i)
  OBVIOUS
<1>5. /\ cell = [bytes |-> IF v = Nil THEN Zeros(column.length) ELSE VarBytes(column, BytesOf(v))]
      /\ v # Nil => BytesOf(v) \in Bytes
      /\ cell.bytes \in Bytes /\ Len(cell.bytes) = column.length
  BY <1>2, <1>4, VarTyped
<1>6. ToBytes(row).nullFlag = flags
  BY <1>4, CellOf
<1>7. /\ ReadNullFlag(i, flags).short <=> p \in BitsSet(i, v)
      /\ ReadNullFlag(i, flags).null <=> column.nullable /\ p + 1 \in BitsSet(i, v)
  BY <1>2, <1>4, FlagsFound
<1>8. p \in Nat
  BY <1>4, BitsApart
<1>9. /\ column.kind = "var" =>
            Value(i, ToBytes(row)) = IF ReadNullFlag(i, flags).null THEN Raw(<<>>)
                                     ELSE Returned(VarText(i, cell.bytes, flags))
      /\ column.kind = "varbinary" =>
            Value(i, ToBytes(row)) = ReturnedRaw(VarText(i, cell.bytes, flags))
  BY <1>2, <1>4, <1>6, ValueMeans
<1>10. /\ ReadNullFlag(i, flags).null => VarText(i, cell.bytes, flags) = <<>>
       /\ ~ReadNullFlag(i, flags).null /\ ReadNullFlag(i, flags).short =>
             VarText(i, cell.bytes, flags) = Cut(cell.bytes, cell.bytes[column.length])
       /\ ~ReadNullFlag(i, flags).null /\ ~ReadNullFlag(i, flags).short =>
             VarText(i, cell.bytes, flags) = cell.bytes
  BY <1>5, Zenon DEF VarText
<1>11. PICK s : s = IF v = Nil THEN Zeros(column.length) ELSE BytesOf(v)
  OBVIOUS
<1>12. s \in Bytes
  BY <1>3, <1>5, <1>11, ZerosTyped
<1>13. /\ column.kind = "varbinary" => Expected(column, v) = ReturnedRaw(Cut(s, column.length))
       /\ column.kind = "var" =>
             Expected(column, v) = IF column.nullable /\ v # Nil /\ s = <<>> THEN Raw(<<>>)
                                   ELSE Returned(Cut(s, column.length))
  BY <1>3, <1>11, ExpectedMeans
<1>14. CASE v = Nil
  <2>1. BitsSet(i, v) = {}
    BY <1>14 DEF BitsSet
  <2>2. VarText(i, cell.bytes, flags) = s /\ ~ReadNullFlag(i, flags).null
    BY <1>5, <1>7, <1>10, <1>11, <1>14, <2>1
  <2>3. Cut(s, column.length) = s
    <3>1. s \in Bytes /\ Len(s) = column.length
      BY <1>3, <1>11, <1>14, ZerosTyped
    <3>2. /\ Cut(s, column.length) \in Bytes /\ Len(Cut(s, column.length)) = Len(s)
          /\ \A k \in 1..Len(s) : Cut(s, column.length)[k] = s[k]
      BY <1>3, <3>1, CutMeans
    <3> QED
      BY <3>1, <3>2, SameBytes
  <2> QED
    BY <1>2, <1>3, <1>9, <1>13, <1>14, <2>2, <2>3
<1>15. CASE v # Nil /\ s = <<>>
  <2>1. column.nullable
    BY <1>1, <1>2, <1>11, <1>15 DEF InBounds
  <2>2. BitsSet(i, v) = {p + 1}
    BY <1>2, <1>4, <1>11, <1>15 DEF BitsSet
  <2>3. ReadNullFlag(i, flags).null /\ VarText(i, cell.bytes, flags) = <<>>
    BY <1>7, <1>10, <2>1, <2>2
  <2>4. Cut(s, column.length) = s
    <3>1. Len(s) = 0
      BY <1>15
    <3>2. /\ Cut(s, column.length) \in Bytes /\ Len(Cut(s, column.length)) = Len(s)
          /\ \A k \in 1..Len(s) : Cut(s, column.length)[k] = s[k]
      BY <1>3, <1>12, <3>1, CutMeans
    <3> QED
      BY <1>12, <3>2, SameBytes
  <2> QED
    BY <1>2, <1>3, <1>9, <1>13, <1>15, <2>1, <2>3, <2>4
<1>16. CASE v # Nil /\ s # <<>> /\ IsShort(s, column.length)
  <2>1. BitsSet(i, v) = {p}
    BY <1>2, <1>4, <1>11, <1>16 DEF BitsSet
  <2>2. ReadNullFlag(i, flags).short /\ ~ReadNullFlag(i, flags).null
    BY <1>7, <1>8, <2>1
  <2>3. cell.bytes = VarBytes(column, s)
    BY <1>5, <1>11, <1>16
  <2>4. VarText(i, cell.bytes, flags) = s /\ Cut(s, column.length) = s
    BY <1>3, <1>10, <1>12, <1>16, <2>2, <2>3, VarBytesTyped
  <2> QED
    BY <1>2, <1>3, <1>9, <1>13, <1>16, <2>2, <2>4
<1>17. CASE v # Nil /\ s # <<>> /\ ~IsShort(s, column.length)
  <2>1. BitsSet(i, v) = {}
    BY <1>2, <1>11, <1>17 DEF BitsSet
  <2>2. ~ReadNullFlag(i, flags).short /\ ~ReadNullFlag(i, flags).null
    BY <1>7, <2>1
  <2>3. cell.bytes = VarBytes(column, s)
    BY <1>5, <1>11, <1>17
  <2>4. VarText(i, cell.bytes, flags) = Cut(s, column.length)
    BY <1>3, <1>10, <1>12, <1>17, <2>2, <2>3, VarBytesTyped
  <2> QED
    BY <1>2, <1>3, <1>9, <1>13, <1>17, <2>2, <2>4
<1> QED
  BY <1>14, <1>15, <1>16, <1>17

\* A value of such a column that comes back is written as the same cell and with
\* the same bits.
LEMMA VarWrittenAlike ==
    ASSUME schema \in Schemas, trimSpaces = FALSE, NEW row, Storable(row),
           NEW i \in DOMAIN schema, IsVar(schema[i])
    PROVE  /\ Cell(schema[i], Expected(schema[i], row[i])) = Cell(schema[i], row[i])
           /\ BitsSet(i, Expected(schema[i], row[i])) = BitsSet(i, row[i])
<1>1. schema[i] \in Columns /\ trimSpaces \in BOOLEAN
  BY SchemaMeans
<1>2. PICK v, column : v = row[i] /\ column = schema[i]
  OBVIOUS
<1>3. /\ column \in Columns /\ column.kind \in {"var", "varbinary"} /\ column.length \in Nat
      /\ column.length >= 1 /\ IsVar(column)
  BY <1>1, <1>2, ColumnKinds
<1>4. v # Nil => BytesOf(v) \in Bytes
  BY <1>1, <1>2, VarTyped
<1>5. PICK s : s = IF v = Nil THEN Zeros(column.length) ELSE BytesOf(v)
  OBVIOUS
<1>6. s \in Bytes /\ Zeros(column.length) \in Bytes /\ Len(Zeros(column.length)) = column.length
  BY <1>3, <1>4, <1>5, ZerosTyped
<1>7. PICK e, c : e = Expected(column, v) /\ c = Cut(s, column.length)
  OBVIOUS
<1>8. c \in Bytes /\ <<>> \in Bytes
  BY <1>3, <1>6, <1>7, CutMeans DEF Bytes
<1>9. Returned(c) = Text(c) /\ ReturnedRaw(c) = Raw(c)
  BY DEF Returned, ReturnedRaw
<1>10. e = Raw(c) \/ e = Text(c) \/ (e = Raw(<<>>) /\ v # Nil /\ s = <<>>)
  BY <1>3, <1>5, <1>7, <1>9, ExpectedMeans
<1>11. IsRaw(Raw(c)) /\ IsText(Text(c)) /\ IsRaw(Raw(<<>>))
  BY <1>8 DEF IsRaw, IsText, Raw, Text
<1>12. /\ Raw(c) # Nil /\ Text(c) # Nil /\ Raw(<<>>) # Nil
       /\ BytesOf(Raw(c)) = c /\ BytesOf(Text(c)) = c /\ BytesOf(Raw(<<>>)) = <<>>
  <2>1. Raw(c).raw = c /\ Text(c).text = c /\ Raw(<<>>).raw = <<>>
    BY DEF Raw, Text
  <2> QED
    BY <1>11, <2>1, FieldsOf, NotNil
<1>13. s = <<>> => c = <<>>
  <2> SUFFICES ASSUME s = <<>> PROVE c = <<>>
    OBVIOUS
  <2>1. Len(s) = 0
    OBVIOUS
  <2>2. Len(c) = 0
    BY <1>3, <1>6, <1>7, <2>1, CutMeans
  <2> QED
    BY <1>6, <1>8, <2>1, <2>2, SameBytes
<1>14. e # Nil /\ BytesOf(e) = c
  BY <1>10, <1>12, <1>13
<1>15. /\ Cell(column, e) = [bytes |-> VarBytes(column, c)]
       /\ Cell(column, v) = [bytes |-> IF v = Nil THEN Zeros(column.length) ELSE VarBytes(column, s)]
  BY <1>3, <1>5, <1>14, CellMeans DEF VarBytes
<1>16. /\ BitsSet(i, e) = IF c = <<>> THEN {VarPosition(i) + 1}
                          ELSE IF IsShort(c, column.length) THEN {VarPosition(i)} ELSE {}
       /\ BitsSet(i, v) = IF v = Nil THEN {}
                          ELSE IF s = <<>> THEN {VarPosition(i) + 1}
                          ELSE IF IsShort(s, column.length) THEN {VarPosition(i)} ELSE {}
  BY <1>2, <1>3, <1>5, <1>14 DEF BitsSet
<1>17. Len(s) \in Nat /\ Len(c) = (IF Len(s) < column.length THEN Len(s) ELSE column.length)
       /\ \A k \in 1..Len(c) : c[k] = s[k]
  BY <1>3, <1>6, <1>7, BytesMean, CutMeans
<1>18. CASE Len(s) < column.length
  <2>1. c = s
    BY <1>6, <1>8, <1>17, <1>18, SameBytes
  <2>2. v # Nil
    BY <1>3, <1>5, <1>6, <1>18
  <2> QED
    BY <1>2, <1>7, <1>15, <1>16, <2>1, <2>2
<1>19. CASE Len(s) >= column.length
  <2>1. Len(c) = column.length /\ c # <<>> /\ s # <<>>
    <3>1. Len(c) = column.length
      BY <1>3, <1>17, <1>19
    <3>2. Len(<<>>) = 0 /\ Len(s) > 0 /\ Len(c) > 0
      BY <1>3, <1>17, <1>19, <3>1
    <3> QED
      BY <3>1, <3>2
  <2>2. ~IsShort(c, column.length) /\ ~IsShort(s, column.length)
    BY <1>3, <1>17, <1>19, <2>1 DEF IsShort
  <2>3. VarBytes(column, c) = c
    BY <2>1, <2>2, <1>8, FilledAgain DEF VarBytes
  <2>4. v = Nil => Zeros(column.length) = c
    BY <1>5, <1>6, <1>8, <1>17, <2>1, SameBytes
  <2>5. v # Nil => VarBytes(column, s) = c
    <3>1. VarBytes(column, s) = Cut(s, column.length)
      BY <1>3, <1>6, <2>1, <2>2, VarBytesTyped
    <3> QED
      BY <1>7, <3>1
  <2>6. Cell(column, e) = Cell(column, v)
    BY <1>15, <2>3, <2>4, <2>5
  <2>7. BitsSet(i, e) = BitsSet(i, v)
    BY <1>16, <2>1, <2>2
  <2> QED
    BY <1>2, <1>7, <2>6, <2>7
<1> QED
  BY <1>3, <1>17, <1>18, <1>19

-----------------------------------------------------------------------------
(* The invariant: the file holds the bytes of a row that may be stored *)

CodecInv ==
    /\ schema \in Schemas /\ trimSpaces \in BOOLEAN
    /\ fields \in [DOMAIN schema -> AllValues]
    /\ deleted \in BOOLEAN /\ mark \in {Active, Deleted}
    /\ Storable(stored)
    /\ disk = ToBytes(stored)

LEMMA NilIsValue == Nil \in AllValues
BY DEF AllValues

LEMMA InitStorable ==
    ASSUME schema \in Schemas
    PROVE  Storable([i \in DOMAIN schema |-> Nil])
BY NilIsValue DEF Storable, Accepts, InBounds

\* What a client sets a field to.
LEMMA ValuesTyped ==
    ASSUME NEW kind \in Kinds, NEW v \in ValuesOf(kind)
    PROVE  v \in AllValues
<1>1. Texts \subseteq Bytes /\ Dates \cup {ZeroTime} = Times
  BY ValuesAssumption DEF Bytes, Times
<1>2. Numbers \subseteq Int64s /\ Floats \subseteq Int
  BY ValuesAssumption, RoundedMeans DEF Floats
<1>3. CASE kind \in {"char", "var"}
  <2>1. ValuesOf(kind) = {Text(s) : s \in Texts}
    BY <1>3 DEF ValuesOf
  <2>2. IsText(v)
    BY <1>1, <2>1 DEF IsText, Text
  <2> QED
    BY <2>2, ValueKinds
<1>4. CASE kind \in {"varbinary", "raw"}
  <2>1. ValuesOf(kind) = {Raw(s) : s \in Texts}
    BY <1>4 DEF ValuesOf
  <2>2. IsRaw(v)
    BY <1>1, <2>1 DEF IsRaw, Raw
  <2> QED
    BY <2>2, ValueKinds
<1>5. CASE kind = "int"
  <2>1. ValuesOf(kind) = [int : Numbers \cap Int32s] \cup [float : Floats]
    BY <1>5 DEF ValuesOf
  <2>2. v \in [int : Int32s] \/ v \in [float : Int]
    BY <1>2, <2>1
  <2> QED
    BY <2>2 DEF AllValues
<1>6. CASE kind = "num"
  <2>1. ValuesOf(kind) = [long : Numbers] \cup [float : Floats]
    BY <1>6 DEF ValuesOf
  <2>2. v \in [long : Int64s] \/ v \in [float : Int]
    BY <1>2, <2>1
  <2> QED
    BY <2>2 DEF AllValues
<1>7. CASE kind = "logical"
  <2>1. ValuesOf(kind) = [bool : BOOLEAN]
    BY <1>7, Zenon DEF ValuesOf
  <2>2. v \in [bool : BOOLEAN]
    BY <2>1, Zenon
  <2> QED
    BY <2>2, Zenon DEF AllValues
<1>8. CASE kind \in {"date", "dateTime"}
  <2>1. ValuesOf(kind) = [date : Dates \cup {ZeroTime}]
    BY <1>8 DEF ValuesOf
  <2>2. v \in [date : Times]
    BY <1>1, <2>1
  <2> QED
    BY <2>2 DEF AllValues
<1> QED
  BY <1>3, <1>4, <1>5, <1>6, <1>7, <1>8 DEF Kinds

\* What is read from the file.
LEMMA ReadTyped ==
    ASSUME schema \in Schemas, trimSpaces \in BOOLEAN, NEW row, Storable(row),
           NEW i \in DOMAIN schema, Value(i, ToBytes(row)) # Unreadable
    PROVE  Value(i, ToBytes(row)) \in AllValues
<1>1. schema[i] \in Columns
  BY SchemaMeans
<1>2. /\ schema[i].kind \in {"char", "var", "varbinary", "raw", "int", "num", "logical", "date", "dateTime"}
      /\ IsVar(schema[i]) <=> schema[i].kind \in {"var", "varbinary"}
  BY <1>1, ColumnKinds
<1>3. PICK w : w = Value(i, ToBytes(row))
  OBVIOUS
<1>4. IsText(w) \/ IsRaw(w) \/ IsInt(w) \/ IsLong(w) \/ IsBool(w) \/ IsTime(w)
  <2>1. CASE schema[i].kind = "int"
    BY <1>3, <2>1, IntComesBack
  <2>2. CASE schema[i].kind \in {"date", "dateTime"}
    BY <1>3, <2>2, TimeComesBack
  <2>3. CASE schema[i].kind = "logical"
    BY <1>3, <2>3, BoolComesBack
  <2>4. CASE schema[i].kind = "num"
    BY <1>3, <2>4, NumComesBack
  <2>5. CASE schema[i].kind \in {"char", "raw"}
    BY <1>3, <2>5, TextComesBack
  <2>6. CASE schema[i].kind \in {"var", "varbinary"}
    BY <1>2, <1>3, <2>6, VarTyped
  <2> QED
    BY <1>2, <2>1, <2>2, <2>3, <2>4, <2>5, <2>6
<1> QED
  BY <1>3, <1>4, ValueKinds

-----------------------------------------------------------------------------
(* Through maps and JSON a field keeps its type *)

LEMMA Base64Typed ==
    ASSUME NEW s \in Bytes
    PROVE  Base64(s) \in Bytes
<1>1. Len(s) \in Nat /\ DOMAIN s = 1..Len(s) /\ \A k \in 1..Len(s) : s[k] \in 0..255
  BY BytesMean
<1> DEFINE byte(k) == IF k \in DOMAIN s THEN s[k] ELSE 0
           letter(n) == IF n < 26 THEN 65 + n ELSE IF n < 52 THEN 71 + n
                        ELSE IF n < 62 THEN n - 4 ELSE IF n = 62 THEN 43 ELSE 47
           group(g) == 65536 * byte(3*g + 1) + 256 * byte(3*g + 2) + byte(3*g + 3)
           places == <<262144, 4096, 64, 1>>
           code(g, place) == IF place > 1 /\ 3 * g + place > Len(s) THEN 61
                             ELSE letter((group(g) \div places[place + 1]) % 64)
           length == 4 * ((Len(s) + 2) \div 3)
<1>2. length \in Nat
  BY <1>1
<1>3. Base64(s) = [k \in 1..length |-> code((k - 1) \div 4, (k - 1) % 4)]
  BY SMT DEF Base64
<1>4. ASSUME NEW g \in Nat, NEW place \in 0..3 PROVE code(g, place) \in 0..255
  <2>1. \A k : byte(k) \in Nat
    <3>1. \A k \in 1..Len(s) : s[k] \in Nat
      <4>1. \A b \in 0..255 : b \in Nat
        OBVIOUS
      <4> QED
        BY <1>1, <4>1, Zenon
    <3> QED
      BY <1>1, <3>1
  <2> HIDE DEF byte
  <2>2. group(g) \in Nat
    <3>1. PICK a, b, c : a = byte(3*g + 1) /\ b = byte(3*g + 2) /\ c = byte(3*g + 3)
      BY SMT
    <3>2. a \in Nat /\ b \in Nat /\ c \in Nat
      BY <2>1, <3>1, SMT
    <3>3. group(g) = 65536 * a + 256 * b + c
      BY <3>1, SMT
    <3> HIDE DEF group
    <3> QED
      BY <3>2, <3>3, SMT
  <2> HIDE DEF group
  <2>3. PICK x, d : x = group(g) /\ d = places[place + 1]
    BY SMT
  <2>4. x \in Nat /\ d \in {262144, 4096, 64, 1}
    <3>1. place = 0 \/ place = 1 \/ place = 2 \/ place = 3
      BY SMT
    <3> QED
      BY <2>2, <2>3, <3>1, SMT
  <2>5. (x \div d) % 64 \in 0..63
    BY <2>4, SMT
  <2>6. \A n \in 0..63 : letter(n) \in 0..255
    BY SMT
  <2>7. letter((x \div d) % 64) \in 0..255
    <3> HIDE DEF letter
    <3> QED
      BY <2>5, <2>6, SMT
  <2>8. code(g, place) = 61 \/ code(g, place) = letter((x \div d) % 64)
    BY <2>3, SMT
  <2> HIDE DEF code, letter
  <2> QED
    BY <2>7, <2>8, SMT
<1> HIDE DEF code, length, byte, letter, group, places
<1>5. \A k \in 1..length : (k - 1) \div 4 \in Nat /\ (k - 1) % 4 \in 0..3
  BY <1>2
<1>6. \A k \in 1..length : code((k - 1) \div 4, (k - 1) % 4) \in 0..255
  BY <1>4, <1>5
<1>7. Base64(s) \in [1..length -> 0..255]
  BY <1>3, <1>6
<1> QED
  BY <1>2, <1>7, MakesBytes

LEMMA ModificationMeans ==
    ASSUME NEW m \in Modifications
    PROVE  m.trimSpaces \in BOOLEAN /\ m.negate \in BOOLEAN /\ m.externalKey \in Nat
BY ModificationsAssumption

\* The kinds of values exclude each other.
LEMMA KindsDiffer ==
    ASSUME NEW v \in AllValues
    PROVE  /\ "text" \in DOMAIN v <=> IsText(v)
           /\ "raw" \in DOMAIN v <=> IsRaw(v)
           /\ "bool" \in DOMAIN v <=> IsBool(v)
           /\ "int" \in DOMAIN v <=> IsInt(v)
           /\ DOMAIN v \subseteq {"int", "long"} <=> IsInt(v) \/ IsLong(v)
<1>1. IsNil(v) \/ IsText(v) \/ IsRaw(v) \/ IsInt(v) \/ IsLong(v) \/ IsFloat(v) \/ IsBool(v) \/ IsTime(v)
  BY ValueKinds
<1>2. /\ IsNil(v) => DOMAIN v = {"nil"}
      /\ IsText(v) => DOMAIN v = {"text"}
      /\ IsRaw(v) => DOMAIN v = {"raw"}
      /\ IsInt(v) => DOMAIN v = {"int"}
      /\ IsLong(v) => DOMAIN v = {"long"}
      /\ IsFloat(v) => DOMAIN v = {"float"}
      /\ IsBool(v) => DOMAIN v = {"bool"}
      /\ IsTime(v) => DOMAIN v = {"date"}
  BY FieldsOf
<1> QED
  BY <1>1, <1>2

LEMMA SanitizedTyped ==
    ASSUME NEW v \in AllValues, NEW m \in Modifications
    PROVE  /\ Sanitized(m, v) \in AllValues
           /\ IsText(v) => IsText(Sanitized(m, v))
           /\ IsRaw(v) => IsRaw(Sanitized(m, v))
           /\ ~IsText(v) /\ ~IsRaw(v) => Sanitized(m, v) = v
<1>1. m.trimSpaces \in BOOLEAN
  BY ModificationMeans
<1>2. ("text" \in DOMAIN v <=> IsText(v)) /\ ("raw" \in DOMAIN v <=> IsRaw(v))
  BY KindsDiffer
<1>3. IsText(v) => v.text \in Bytes
  BY FieldsOf
<1>4. IsRaw(v) => v.raw \in Bytes
  BY FieldsOf
<1>5. IsText(v) => IsText(Text(Trimmed(v.text)))
  BY <1>3, TrimmedTyped DEF IsText, Text
<1>6. IsRaw(v) => IsRaw(Raw(Trimmed(WithoutZeros(v.raw))))
  BY <1>4, TrimmedTyped, WithoutTyped DEF IsRaw, Raw, WithoutZeros
<1>7. IsText(v) => ~IsRaw(v)
  BY FieldsOf
<1>8. Sanitized(m, v) = IF ~m.trimSpaces THEN v
                        ELSE IF IsText(v) THEN Text(Trimmed(v.text))
                        ELSE IF IsRaw(v) THEN Raw(Trimmed(WithoutZeros(v.raw))) ELSE v
  BY <1>2, Zenon DEF Sanitized
<1>9. /\ IsText(v) => IsText(Sanitized(m, v))
      /\ IsRaw(v) => IsRaw(Sanitized(m, v))
      /\ ~IsText(v) /\ ~IsRaw(v) => Sanitized(m, v) = v
  BY <1>1, <1>5, <1>6, <1>7, <1>8
<1>10. Sanitized(m, v) \in AllValues
  BY <1>9, ValueKinds
<1> QED
  BY <1>9, <1>10

\* Convert, where it does not fail, is its own inverse.
LEMMA ConvertTwice ==
    ASSUME NEW v \in AllValues, NEW m \in Modifications, Converts(m, v)
    PROVE  /\ Convert(m, v) \in AllValues
           /\ m.negate => IsBool(v) /\ IsBool(Convert(m, v))
           /\ ~m.negate => Convert(m, v) = v
           /\ Convert(m, Convert(m, v)) = v
<1>1. m.negate \in BOOLEAN
  BY ModificationMeans
<1>2. CASE m.negate = FALSE
  <2>1. \A w : Convert(m, w) = w
    BY <1>2, Zenon DEF Convert
  <2> QED
    BY <1>2, <2>1, Zenon
<1>3. CASE m.negate = TRUE
  <2>1. IsBool(v)
    BY <1>3, KindsDiffer DEF Converts
  <2>2. v.bool \in BOOLEAN /\ v = [bool |-> v.bool]
    BY <2>1, FieldsOf
  <2>3. \A w : Convert(m, w) = [bool |-> ~w.bool]
    BY <1>3, Zenon DEF Convert
  <2>4. CASE v.bool = TRUE
    <3>1. Convert(m, v) = [bool |-> FALSE]
      BY <2>3, <2>4, Zenon
    <3>2. [bool |-> FALSE].bool = FALSE
      BY Zenon
    <3>3. Convert(m, [bool |-> FALSE]) = [bool |-> TRUE]
      BY <2>3, <3>2, Zenon
    <3>4. IsBool([bool |-> FALSE]) /\ v = [bool |-> TRUE]
      BY <2>2, <2>4, Zenon DEF IsBool
    <3>5. [bool |-> FALSE] \in AllValues
      BY <3>4, ValueKinds, Zenon
    <3> QED
      BY <1>3, <2>1, <3>1, <3>3, <3>4, <3>5, Zenon
  <2>5. CASE v.bool = FALSE
    <3>1. Convert(m, v) = [bool |-> TRUE]
      BY <2>3, <2>5, Zenon
    <3>2. [bool |-> TRUE].bool = TRUE
      BY Zenon
    <3>3. Convert(m, [bool |-> TRUE]) = [bool |-> FALSE]
      BY <2>3, <3>2, Zenon
    <3>4. IsBool([bool |-> TRUE]) /\ v = [bool |-> FALSE]
      BY <2>2, <2>5, Zenon DEF IsBool
    <3>5. [bool |-> TRUE] \in AllValues
      BY <3>4, ValueKinds, Zenon
    <3> QED
      BY <1>3, <2>1, <3>1, <3>3, <3>4, <3>5, Zenon
  <2> QED
    BY <2>2, <2>4, <2>5
<1> QED
  BY <1>1, <1>2, <1>3

LEMMA ToJSONTyped ==
    ASSUME NEW v \in AllValues
    PROVE  /\ ToJSON(v) \in AllValues
           /\ IsInt(v) \/ IsLong(v) => ToJSON(v) = [float |-> Rounded(NumberOf(v))]
           /\ ~IsInt(v) /\ ~IsLong(v) /\ ~IsRaw(v) => ToJSON(v) = v
<1>1. /\ "raw" \in DOMAIN v <=> IsRaw(v)
      /\ DOMAIN v \subseteq {"int", "long"} <=> IsInt(v) \/ IsLong(v)
  BY KindsDiffer
<1>2. ToJSON(v) = IF IsInt(v) \/ IsLong(v) THEN [float |-> Rounded(NumberOf(v))]
                  ELSE IF IsRaw(v) THEN Text(Base64(v.raw)) ELSE v
  BY <1>1, Zenon DEF ToJSON
<1>3. IsInt(v) \/ IsLong(v) => IsFloat([float |-> Rounded(NumberOf(v))])
  BY NumberOfMeans, RoundedMeans DEF IsFloat
<1>4. IsRaw(v) => IsText(Text(Base64(v.raw)))
  <2>1. IsRaw(v) => v.raw \in Bytes
    BY FieldsOf
  <2> QED
    BY <2>1, Base64Typed DEF IsText, Text
<1>5. ToJSON(v) \in AllValues
  BY <1>2, <1>3, <1>4, ValueKinds
<1> QED
  BY <1>2, <1>5

-----------------------------------------------------------------------------
(* What the map of a row holds *)

LEMMA MapMeans ==
    ASSUME CodecInv, NEW mods \in Modified
    PROVE  /\ DOMAIN ToMap(mods) = {KeyOf(i, mods) : i \in DOMAIN schema}
           /\ \A key \in DOMAIN ToMap(mods) : \E i \in DOMAIN schema :
                 /\ KeyOf(i, mods) = key
                 /\ \A j \in DOMAIN schema : KeyOf(j, mods) = key => j <= i
                 /\ ToMap(mods)[key] = Convert(mods[i], Sanitized(mods[i], fields[i]))
<1> DEFINE Keys == {KeyOf(i, mods) : i \in DOMAIN schema}
           At(key) == {i \in DOMAIN schema : KeyOf(i, mods) = key}
<1>1. Len(schema) \in Nat /\ DOMAIN schema = 1..Len(schema)
  BY SchemaMeans DEF CodecInv
<1>2. ToMap(mods) = [key \in Keys |-> Convert(mods[Max(At(key))],
                                      Sanitized(mods[Max(At(key))], fields[Max(At(key))]))]
  BY Zenon DEF ToMap
<1>3. ASSUME NEW key \in Keys
      PROVE  Max(At(key)) \in At(key) /\ \A j \in At(key) : j <= Max(At(key))
  <2>1. PICK i \in DOMAIN schema : KeyOf(i, mods) = key
    OBVIOUS
  <2>2. i \in At(key) /\ At(key) \subseteq 0..Len(schema)
    BY <1>1, <2>1
  <2> HIDE DEF At
  <2> QED
    BY <1>1, <2>2, MaxIn
<1>4. \A key \in Keys : \E i \in DOMAIN schema :
         /\ KeyOf(i, mods) = key
         /\ \A j \in DOMAIN schema : KeyOf(j, mods) = key => j <= i
         /\ ToMap(mods)[key] = Convert(mods[i], Sanitized(mods[i], fields[i]))
  <2> TAKE key \in Keys
  <2>1. PICK i : i = Max(At(key))
    OBVIOUS
  <2>2. i \in At(key) /\ \A j \in At(key) : j <= i
    BY <1>3, <2>1
  <2>3. ToMap(mods)[key] = Convert(mods[i], Sanitized(mods[i], fields[i]))
    BY <1>2, <2>1
  <2> QED
    BY <2>2, <2>3
<1> QED
  BY <1>2, <1>4

\* A map of values in which no Convert fails makes a row of values.
LEMMA MapTyped ==
    ASSUME CodecInv, NEW mods \in Modified, \A i \in DOMAIN schema : Converts(mods[i], fields[i])
    PROVE  \A key \in DOMAIN ToMap(mods) : ToMap(mods)[key] \in AllValues
<1> TAKE key \in DOMAIN ToMap(mods)
<1>1. PICK i \in DOMAIN schema :
         ToMap(mods)[key] = Convert(mods[i], Sanitized(mods[i], fields[i]))
  BY MapMeans
<1>2. mods[i] \in Modifications /\ fields[i] \in AllValues /\ Converts(mods[i], fields[i])
  BY DEF Modified, CodecInv
<1>3. PICK m, v, w : m = mods[i] /\ v = fields[i] /\ w = Sanitized(m, v)
  OBVIOUS
<1>4. w \in AllValues /\ Converts(m, w)
  <2>1. w \in AllValues
    BY <1>2, <1>3, SanitizedTyped
  <2>2. m.negate => IsBool(v)
    BY <1>2, <1>3, KindsDiffer DEF Converts
  <2>3. IsBool(v) => w = v
    <3>1. IsBool(v) => ~IsText(v) /\ ~IsRaw(v)
      BY FieldsOf
    <3> QED
      BY <1>2, <1>3, <3>1, SanitizedTyped
  <2> QED
    BY <1>2, <1>3, <2>1, <2>2, <2>3 DEF Converts
<1>5. Convert(m, w) \in AllValues
  BY <1>2, <1>3, <1>4, ConvertTwice
<1> QED
  BY <1>1, <1>3, <1>5

LEMMA RowTyped ==
    ASSUME CodecInv, NEW mods \in Modified, NEW map,
           \A key \in DOMAIN map : map[key] \in AllValues,
           \A i \in DOMAIN schema : Converts(mods[i], ValueFromMap(i, map, mods))
    PROVE  /\ RowFromMap(map, mods).fields \in [DOMAIN schema -> AllValues]
           /\ RowFromMap(map, mods).deleted = FALSE
<1>1. ASSUME NEW i \in DOMAIN schema
      PROVE  Convert(mods[i], ValueFromMap(i, map, mods)) \in AllValues
  <2>1. ValueFromMap(i, map, mods) \in AllValues
    BY NilIsValue DEF ValueFromMap
  <2>2. mods[i] \in Modifications
    BY DEF Modified
  <2> QED
    BY <2>1, <2>2, ConvertTwice
<1> QED
  BY <1>1 DEF RowFromMap

-----------------------------------------------------------------------------
(* Every step keeps the invariant *)

LEMMA InitCodec == Init => CodecInv
<1> SUFFICES ASSUME Init PROVE CodecInv
  OBVIOUS
<1>1. schema \in Schemas /\ trimSpaces \in BOOLEAN /\ stored = fields /\ disk = ToBytes(fields)
      /\ fields = [i \in DOMAIN schema |-> Nil] /\ deleted = FALSE /\ mark = Active
  BY DEF Init, Mark
<1>2. Storable(stored)
  BY <1>1, InitStorable
<1> QED
  BY <1>1, <1>2, NilIsValue DEF CodecInv

\* What is on disk and what was stored stay as they are.
LEMMA StoredStays ==
    ASSUME CodecInv, UNCHANGED <<schema, trimSpaces, disk, mark, stored>>,
           fields' \in [DOMAIN schema -> AllValues], deleted' \in BOOLEAN
    PROVE  CodecInv'
<1>1. Storable(stored)' = Storable(stored)
  BY DEF Storable
<1>2. ToBytes(stored)' = ToBytes(stored)
  BY DEF ToBytes, NullFlag, BitsSet, VarPosition
<1> QED
  BY <1>1, <1>2 DEF CodecInv

LEMMA NextCodec == CodecInv /\ [NextWithMaps]_vars => CodecInv'
<1> SUFFICES ASSUME CodecInv, [NextWithMaps]_vars PROVE CodecInv'
  OBVIOUS
<1>0. /\ schema \in Schemas /\ trimSpaces \in BOOLEAN /\ Storable(stored) /\ disk = ToBytes(stored)
      /\ fields \in [DOMAIN schema -> AllValues] /\ deleted \in BOOLEAN /\ mark \in {Active, Deleted}
  BY DEF CodecInv
<1>1. ASSUME NEW i \in DOMAIN schema, NEW v \in ValuesOf(schema[i].kind) \cup {Nil}, SetValue(i, v)
      PROVE  CodecInv'
  <2>1. schema[i].kind \in Kinds
    BY <1>0, SchemaMeans DEF Columns
  <2>2. v \in AllValues
    BY <2>1, ValuesTyped, NilIsValue
  <2>3. /\ fields' \in [DOMAIN schema -> AllValues] /\ deleted' = deleted
        /\ UNCHANGED <<schema, trimSpaces, disk, mark, stored>>
    BY <1>0, <1>1, <2>2 DEF SetValue
  <2> QED
    BY <1>0, <2>3, StoredStays
<1>2. CASE Store
  <2>1. /\ \A i \in DOMAIN schema : Accepts(schema[i], fields[i]) /\ InBounds(schema[i], fields[i])
        /\ disk' = ToBytes(fields) /\ stored' = fields /\ mark' \in {Active, Deleted}
        /\ UNCHANGED <<schema, trimSpaces, fields, deleted>>
    BY <1>2 DEF Store, Mark
  <2>2. Storable(fields)
    BY <1>0, <2>1 DEF Storable
  <2>3. Storable(stored)' = Storable(fields)
    BY <2>1 DEF Storable
  <2>4. ToBytes(stored)' = ToBytes(fields)
    BY <2>1 DEF ToBytes, NullFlag, BitsSet, VarPosition
  <2> QED
    BY <1>0, <2>1, <2>2, <2>3, <2>4 DEF CodecInv
<1>3. CASE Fetch
  <2>1. /\ \A i \in DOMAIN schema : Value(i, disk) # Unreadable
        /\ fields' = [i \in DOMAIN schema |-> Value(i, disk)] /\ deleted' \in BOOLEAN
        /\ UNCHANGED <<schema, trimSpaces, disk, mark, stored>>
    BY <1>3 DEF Fetch
  <2>2. \A i \in DOMAIN schema : Value(i, disk) \in AllValues
    BY <1>0, <2>1, ReadTyped
  <2> QED
    BY <2>1, <2>2, StoredStays
<1>4. ASSUME NEW mods \in Modified, ThroughMap(mods) PROVE CodecInv'
  <2>1. AllConvert(ToMap(mods), mods) /\ Becomes(RowFromMap(ToMap(mods), mods))
    BY <1>4 DEF ThroughMap
  <2>2. \A key \in DOMAIN ToMap(mods) : ToMap(mods)[key] \in AllValues
    BY <2>1, MapTyped DEF AllConvert
  <2>3. /\ RowFromMap(ToMap(mods), mods).fields \in [DOMAIN schema -> AllValues]
        /\ RowFromMap(ToMap(mods), mods).deleted = FALSE
    BY <2>1, <2>2, RowTyped DEF AllConvert
  <2> QED
    BY <2>1, <2>3, StoredStays DEF Becomes
<1>5. ASSUME NEW mods \in Modified, ThroughJSON(mods) PROVE CodecInv'
  <2>1. AllConvert(JSONMap(ToMap(mods)), mods) /\ Becomes(RowFromMap(JSONMap(ToMap(mods)), mods))
    BY <1>5 DEF ThroughJSON
  <2>2. \A key \in DOMAIN ToMap(mods) : ToMap(mods)[key] \in AllValues
    BY <2>1, MapTyped DEF AllConvert
  <2>3. \A key \in DOMAIN JSONMap(ToMap(mods)) : JSONMap(ToMap(mods))[key] \in AllValues
    BY <2>2, ToJSONTyped DEF JSONMap
  <2>4. /\ RowFromMap(JSONMap(ToMap(mods)), mods).fields \in [DOMAIN schema -> AllValues]
        /\ RowFromMap(JSONMap(ToMap(mods)), mods).deleted = FALSE
    BY <2>1, <2>3, RowTyped DEF AllConvert
  <2> QED
    BY <2>1, <2>4, StoredStays DEF Becomes
<1>6. CASE SetDeleted
  BY <1>0, <1>6, StoredStays DEF SetDeleted
<1>7. CASE UNCHANGED vars
  BY <1>0, <1>7, StoredStays DEF vars
<1> QED
  BY <1>1, <1>2, <1>3, <1>4, <1>5, <1>6, <1>7 DEF NextWithMaps, Next

LEMMA CodecInvariant == MapsSpec => []CodecInv
BY InitCodec, NextCodec, PTL DEF MapsSpec

-----------------------------------------------------------------------------
(* Theorems *)

\* Rows keep their types, on disk and in memory, whatever is stored or comes out of
\* a map: cells are as long as their columns, words and flags have their bytes.
THEOREM RowsTypeCorrect == MapsSpec => []TypeOK
<1>1. ASSUME CodecInv PROVE TypeOK
  <2>0. /\ schema \in Schemas /\ trimSpaces \in BOOLEAN /\ Storable(stored) /\ disk = ToBytes(stored)
        /\ DOMAIN fields = DOMAIN schema /\ DOMAIN stored = DOMAIN schema
        /\ deleted \in BOOLEAN /\ mark \in {Active, Deleted}
    BY <1>1 DEF CodecInv, Storable
  <2>1. disk.nullFlag \subseteq 0..7
    <3>1. disk.nullFlag = NullFlag(stored)
      BY <2>0 DEF ToBytes
    <3> QED
      BY <3>1 DEF NullFlag
  <2>2. ASSUME NEW i \in DOMAIN schema
        PROVE  CASE schema[i].kind = "int" -> disk.cells[i].word \in 0..Word32-1
                 [] schema[i].kind = "dateTime" -> disk.cells[i].day \in Nat
                 [] schema[i].kind = "date" ->
                       disk.cells[i] \in [blank : {0, Space}] \cup [digits : Dates]
                 [] schema[i].kind = "logical" -> disk.cells[i].flag \in 0..255
                 [] OTHER -> disk.cells[i].bytes \in Seq(0..255)
                             /\ Len(disk.cells[i].bytes) = schema[i].length
    <3>1. schema[i] \in Columns
      BY <2>0, SchemaMeans
    <3>2. /\ schema[i].kind \in {"char", "var", "varbinary", "raw", "int", "num", "logical",
                                 "date", "dateTime"}
          /\ IsVar(schema[i]) <=> schema[i].kind \in {"var", "varbinary"}
      BY <3>1, ColumnKinds
    <3>3. CASE schema[i].kind = "int"
      BY <2>0, <3>3, IntComesBack
    <3>4. CASE schema[i].kind \in {"date", "dateTime"}
      BY <2>0, <3>4, TimeComesBack
    <3>5. CASE schema[i].kind = "logical"
      BY <2>0, <3>5, BoolComesBack
    <3>6. CASE schema[i].kind \in {"char", "var", "varbinary", "raw", "num"}
      <4>1. disk.cells[i].bytes \in Bytes /\ Len(disk.cells[i].bytes) = schema[i].length
        BY <2>0, <3>2, <3>6, NumComesBack, TextComesBack, VarTyped
      <4> QED
        BY <3>6, <4>1 DEF Bytes
    <3> QED
      BY <3>2, <3>3, <3>4, <3>5, <3>6
  <2> QED
    BY <2>0, <2>1, <2>2 DEF TypeOK
<1> QED
  BY <1>1, CodecInvariant, PTL

\* Every field of a row that may be stored comes back.
LEMMA FieldsComeBack ==
    ASSUME VarsInFront, MayBeEmpty = FALSE, MayBeCut = FALSE,
           schema \in Schemas, trimSpaces \in BOOLEAN, NEW row, Storable(row)
    PROVE  \A i \in DOMAIN schema : Value(i, ToBytes(row)) = Expected(schema[i], row[i])
<1> TAKE i \in DOMAIN schema
<1>1. schema[i] \in Columns
  BY SchemaMeans
<1>2. /\ schema[i].kind \in {"char", "var", "varbinary", "raw", "int", "num", "logical",
                             "date", "dateTime"}
      /\ IsVar(schema[i]) <=> schema[i].kind \in {"var", "varbinary"}
  BY <1>1, ColumnKinds
<1>3. CASE schema[i].kind = "int"
  BY <1>3, IntComesBack
<1>4. CASE schema[i].kind \in {"date", "dateTime"}
  BY <1>4, TimeComesBack
<1>5. CASE schema[i].kind = "logical"
  BY <1>5, BoolComesBack
<1>6. CASE schema[i].kind = "num"
  BY <1>6, NumComesBack
<1>7. CASE schema[i].kind \in {"char", "raw"}
  BY <1>7, TextComesBack
<1>8. CASE schema[i].kind \in {"var", "varbinary"}
  BY <1>2, <1>8, VarComesBack
<1> QED
  BY <1>2, <1>3, <1>4, <1>5, <1>6, <1>7, <1>8

\* Every row reads back as it was stored, for any schema whose variable columns are
\* in front, when empty strings go into nullable columns only and numbers fit theirs.
THEOREM StoredRowsReadBack ==
    ASSUME VarsInFront, MayBeEmpty = FALSE, MayBeCut = FALSE
    PROVE  MapsSpec => []ReadsBack
<1>1. CodecInv => ReadsBack
  BY FieldsComeBack DEF CodecInv, ReadsBack
<1> QED
  BY <1>1, CodecInvariant, PTL

\* A value that came back is written as the same cell and the same bits.
LEMMA FieldWrittenAlike ==
    ASSUME CodecInv, trimSpaces = FALSE, NEW i \in DOMAIN schema,
           stored[i] = Nil => schema[i].kind \notin {"num", "logical", "date"}
    PROVE  /\ Cell(schema[i], Expected(schema[i], stored[i])) = Cell(schema[i], stored[i])
           /\ BitsSet(i, Expected(schema[i], stored[i])) = BitsSet(i, stored[i])
<1>0. schema \in Schemas /\ trimSpaces \in BOOLEAN /\ Storable(stored)
  BY DEF CodecInv
<1>1. schema[i] \in Columns
  BY <1>0, SchemaMeans
<1>2. /\ schema[i].kind \in {"char", "var", "varbinary", "raw", "int", "num", "logical",
                             "date", "dateTime"}
      /\ IsVar(schema[i]) <=> schema[i].kind \in {"var", "varbinary"}
  BY <1>1, ColumnKinds
<1>3. CASE IsVar(schema[i])
  BY <1>0, <1>3, VarWrittenAlike
<1>4. CASE ~IsVar(schema[i])
  <2>1. BitsSet(i, Expected(schema[i], stored[i])) = {} /\ BitsSet(i, stored[i]) = {}
    BY <1>4 DEF BitsSet
  <2>2. CASE schema[i].kind = "int"
    BY <1>0, <2>1, <2>2, IntComesBack
  <2>3. CASE schema[i].kind # "int"
    <3>1. WrittenAlike(i, stored)
      BY <1>0, <1>2, <1>4, <2>3, TimeComesBack, BoolComesBack, NumComesBack, TextComesBack
    <3> QED
      BY <2>1, <3>1 DEF WrittenAlike
  <2> QED
    BY <2>2, <2>3
<1> QED
  BY <1>3, <1>4

\* A row that is fetched and stored again unchanged leaves its bytes as they were,
\* the null flag and the deletion mark with them.
THEOREM RewritesKeepBytes ==
    ASSUME VarsInFront, MayBeEmpty = FALSE, MayBeCut = FALSE
    PROVE  MapsSpec => RewriteKeepsBytes
<1> DEFINE Unchanged == \A i \in DOMAIN schema :
                           /\ fields[i] = Value(i, disk)
                           /\ stored[i] = Nil => schema[i].kind \notin {"num", "logical", "date"}
           Marked == deleted = (mark = Deleted)
           Keeps == Store /\ ~trimSpaces /\ Marked /\ Unchanged => disk' = disk /\ mark' = mark
<1>1. ASSUME CodecInv, Store, ~trimSpaces, Marked, Unchanged PROVE disk' = disk /\ mark' = mark
  <2>0. /\ schema \in Schemas /\ trimSpaces = FALSE /\ Storable(stored) /\ disk = ToBytes(stored)
        /\ trimSpaces \in BOOLEAN
    BY <1>1 DEF CodecInv
  <2>1. disk' = ToBytes(fields)
    BY <1>1 DEF Store
  <2>2. \A i \in DOMAIN schema : fields[i] = Expected(schema[i], stored[i])
    BY <1>1, <2>0, FieldsComeBack
  <2>3. \A i \in DOMAIN schema : /\ Cell(schema[i], fields[i]) = Cell(schema[i], stored[i])
                                 /\ BitsSet(i, fields[i]) = BitsSet(i, stored[i])
    BY <1>1, <2>0, <2>2, FieldWrittenAlike
  <2>4. NullFlag(fields) = NullFlag(stored)
    BY <2>3 DEF NullFlag
  <2>5. ToBytes(fields) = ToBytes(stored)
    BY <2>3, <2>4 DEF ToBytes
  <2>6. mark' = mark
    BY <1>1 DEF Store, Mark, CodecInv, Active, Deleted
  <2> QED
    BY <2>0, <2>1, <2>5, <2>6
<1>2. CodecInv /\ [NextWithMaps]_vars => [Keeps]_vars
  BY <1>1
<1> QED
  BY <1>2, CodecInvariant, PTL DEF MapsSpec, RewriteKeepsBytes

-----------------------------------------------------------------------------
(* Maps *)

\* The value of a field whose key no later field has is found in the map again.
LEMMA KeptInMap ==
    ASSUME CodecInv, NEW mods \in Modified, NEW i \in DOMAIN schema, KeepsItsKey(i, mods),
           NEW map, DOMAIN map = DOMAIN ToMap(mods)
    PROVE  /\ KeyOf(i, mods) \in DOMAIN map
           /\ ValueFromMap(i, map, mods) = map[KeyOf(i, mods)]
           /\ ToMap(mods)[KeyOf(i, mods)] = Convert(mods[i], Sanitized(mods[i], fields[i]))
<1>1. Len(schema) \in Nat /\ DOMAIN schema = 1..Len(schema)
  BY SchemaMeans DEF CodecInv
<1>2. \A j \in DOMAIN schema : mods[j].externalKey \in Nat
  BY ModificationMeans DEF Modified
<1>3. KeyOf(i, mods) \in DOMAIN ToMap(mods)
  BY MapMeans
<1>4. PICK j \in DOMAIN schema :
         /\ KeyOf(j, mods) = KeyOf(i, mods)
         /\ \A k \in DOMAIN schema : KeyOf(k, mods) = KeyOf(i, mods) => k <= j
         /\ ToMap(mods)[KeyOf(i, mods)] = Convert(mods[j], Sanitized(mods[j], fields[j]))
  BY <1>3, MapMeans
<1>5. j = i
  <2>1. i <= j
    BY <1>4
  <2>2. ~(j > i)
    BY <1>4 DEF KeepsItsKey
  <2> QED
    BY <1>1, <2>1, <2>2
<1>6. NoKey \notin DOMAIN map
  <2>1. \A k \in DOMAIN schema : KeyOf(k, mods) # NoKey
    BY <1>1, <1>2 DEF KeyOf, NoKey
  <2> QED
    BY <2>1, MapMeans
<1>7. ValueFromMap(i, map, mods) = map[KeyOf(i, mods)]
  <2>1. CASE mods[i].externalKey = NoKey
    <3>1. KeyOf(i, mods) = i /\ mods[i].externalKey \notin DOMAIN map
      BY <1>6, <2>1 DEF KeyOf
    <3> QED
      BY <1>3, <3>1 DEF ValueFromMap
  <2>2. CASE mods[i].externalKey # NoKey
    <3>1. KeyOf(i, mods) = mods[i].externalKey
      BY <2>2 DEF KeyOf
    <3> QED
      BY <1>3, <3>1 DEF ValueFromMap
  <2> QED
    BY <2>1, <2>2
<1> QED
  BY <1>3, <1>4, <1>5, <1>7

\* A value that is not lost in JSON is stored as the same cell, and the same bits,
\* after it.
LEMMA JSONKeepsBytes ==
    ASSUME NEW i \in DOMAIN schema, NEW column \in Columns, column = schema[i],
           NEW v \in AllValues, Accepts(column, v), ~IsRaw(v),
           IsInt(v) \/ IsLong(v) => Rounded(NumberOf(v)) = NumberOf(v),
           ~(column.kind = "int" /\ IsInt(v) /\ v.int < 0)
    PROVE  /\ Cell(column, ToJSON(v)) = Cell(column, v)
           /\ BitsSet(i, ToJSON(v)) = BitsSet(i, v)
<1>1. CASE ~IsInt(v) /\ ~IsLong(v)
  BY <1>1, ToJSONTyped
<1>2. CASE IsInt(v) \/ IsLong(v)
  <2>1. PICK n, w : n = NumberOf(v) /\ w = [float |-> n]
    OBVIOUS
  <2>2. ToJSON(v) = w /\ n \in Int64s
    BY <1>2, <2>1, ToJSONTyped, NumberOfMeans
  <2>3. IsFloat(w) /\ w.float = n
    BY <2>1, <2>2, WordsMean DEF IsFloat
  <2>4. w # Nil /\ v # Nil /\ NumberOf(w) = n
    BY <1>2, <2>2, <2>3, NotNil, NumberOfMeans
  <2>5. column.kind = "num" \/ (column.kind = "int" /\ IsInt(v))
    <3>1. ~IsNil(v) /\ ~IsText(v) /\ ~IsBool(v) /\ ~IsTime(v) /\ ~IsFloat(v)
          /\ (IsLong(v) => ~IsInt(v))
      BY <1>2, <2>4, FieldsOf DEF IsNil
    <3> QED
      BY <1>2, <3>1, AcceptsMeans, ColumnKinds
  <2>6. ASSUME column.kind = "num" PROVE Cell(column, w) = Cell(column, v)
    BY <2>1, <2>4, <2>6, CellMeans
  <2>7. ASSUME column.kind = "int", IsInt(v) PROVE Cell(column, w) = Cell(column, v)
    <3>1. n = v.int /\ n \in Int32s /\ n >= 0
      <4>1. n = v.int /\ n \in Int32s /\ n \in Int
        BY <2>1, <2>7, FieldsOf, NumberOfMeans, WordsMean
      <4> QED
        BY <2>7, <4>1
    <3>2. Int32(v) = n /\ Int32(w) = IF n \in 1..MaxInt32 THEN n ELSE 0
      BY <2>3, <2>7, <3>1, Int32Means
    <3>3. n \in 1..MaxInt32 \/ n = 0
      <4>1. PICK W, h : W = Word32 /\ h = Word32 \div 2
        OBVIOUS
      <4>2. MaxInt32 = h - 1 /\ h \in Nat
        BY <4>1, ValuesAssumption DEF MaxInt32
      <4> QED
        BY <3>1, <4>2 DEF Int32s
    <3> QED
      BY <2>4, <2>7, <3>2, <3>3, CellMeans
  <2>8. BitsSet(i, w) = {} /\ BitsSet(i, v) = {}
    BY <2>5 DEF BitsSet, IsVar
  <2> QED
    BY <2>2, <2>5, <2>6, <2>7, <2>8
<1> QED
  BY <1>1, <1>2

\* Maps and JSON keep what a row is stored as, but for what LostInJSON names and the
\* mark of a deleted row, for any modifications: external keys that collide with names
\* or each other, conversions in both directions.
THEOREM MapsKeepStoredBytes == MapsSpec => []MapsKeepBytes
<1>1. ASSUME CodecInv, NEW mods \in Modified, AllConvert(ToMap(mods), mods),
             NEW i \in DOMAIN schema, KeepsItsKey(i, mods)
      PROVE  /\ RowFromMap(ToMap(mods), mods).fields[i] = Sanitized(mods[i], fields[i])
             /\ Accepts(schema[i], fields[i]) /\ ~LostInJSON(i) =>
                   /\ Cell(schema[i], RowFromMap(JSONMap(ToMap(mods)), mods).fields[i])
                         = Cell(schema[i], Sanitized(mods[i], fields[i]))
                   /\ BitsSet(i, RowFromMap(JSONMap(ToMap(mods)), mods).fields[i])
                         = BitsSet(i, Sanitized(mods[i], fields[i]))
  <2>1. mods[i] \in Modifications /\ fields[i] \in AllValues /\ Converts(mods[i], fields[i])
    BY <1>1 DEF Modified, CodecInv, AllConvert
  <2>2. PICK m, v, w, key : m = mods[i] /\ v = fields[i] /\ w = Sanitized(m, v) /\ key = KeyOf(i, mods)
    OBVIOUS
  <2>3. w \in AllValues /\ Converts(m, w)
    <3>1. w \in AllValues
      BY <2>1, <2>2, SanitizedTyped
    <3>2. m.negate => IsBool(v)
      BY <2>1, <2>2, KindsDiffer DEF Converts
    <3>3. IsBool(v) => w = v
      <4>1. IsBool(v) => ~IsText(v) /\ ~IsRaw(v)
        BY FieldsOf
      <4> QED
        BY <2>1, <2>2, <4>1, SanitizedTyped
    <3> QED
      BY <2>1, <2>2, <3>1, <3>2, <3>3 DEF Converts
  <2>4. PICK c : c = Convert(m, w)
    OBVIOUS
  <2>5. /\ c \in AllValues /\ (m.negate => IsBool(c)) /\ (~m.negate => c = w)
        /\ Convert(m, c) = w
    BY <2>1, <2>2, <2>3, <2>4, ConvertTwice
  <2>6. /\ key \in DOMAIN ToMap(mods) /\ ToMap(mods)[key] = c
        /\ ValueFromMap(i, ToMap(mods), mods) = c
    BY <1>1, <2>2, <2>4, KeptInMap
  <2>7. RowFromMap(ToMap(mods), mods).fields[i] = w
    BY <2>2, <2>5, <2>6 DEF RowFromMap
  <2>8. ASSUME Accepts(schema[i], fields[i]), ~LostInJSON(i)
        PROVE  /\ Cell(schema[i], RowFromMap(JSONMap(ToMap(mods)), mods).fields[i]) = Cell(schema[i], w)
               /\ BitsSet(i, RowFromMap(JSONMap(ToMap(mods)), mods).fields[i]) = BitsSet(i, w)
    <3>1. DOMAIN JSONMap(ToMap(mods)) = DOMAIN ToMap(mods) /\ JSONMap(ToMap(mods))[key] = ToJSON(c)
      BY <2>6 DEF JSONMap
    <3>2. ValueFromMap(i, JSONMap(ToMap(mods)), mods) = ToJSON(c)
      BY <1>1, <2>2, <3>1, KeptInMap
    <3>3. RowFromMap(JSONMap(ToMap(mods)), mods).fields[i] = Convert(m, ToJSON(c))
      BY <2>2, <3>2 DEF RowFromMap
    <3>4. m.negate \in BOOLEAN
      BY <2>1, <2>2, ModificationMeans
    <3>5. CASE m.negate = TRUE
      <4>1. ~IsInt(c) /\ ~IsLong(c) /\ ~IsRaw(c)
        BY <2>5, <3>5, FieldsOf
      <4>2. ToJSON(c) = c
        BY <2>5, <4>1, ToJSONTyped
      <4> QED
        BY <2>5, <3>3, <4>2
    <3>6. CASE m.negate = FALSE
      <4>1. c = w /\ Convert(m, ToJSON(c)) = ToJSON(w)
        BY <2>5, <3>6, Zenon DEF Convert
      <4>2. /\ ~IsRaw(v) /\ ~(schema[i].kind = "int" /\ IsInt(v) /\ v.int < 0)
            /\ IsInt(v) \/ IsLong(v) => Rounded(NumberOf(v)) = NumberOf(v)
        BY <2>1, <2>2, <2>8, KindsDiffer DEF LostInJSON
      <4>3. schema[i] \in Columns
        BY <1>1, SchemaMeans DEF CodecInv
      <4>4. /\ Cell(schema[i], ToJSON(w)) = Cell(schema[i], w)
            /\ BitsSet(i, ToJSON(w)) = BitsSet(i, w)
        <5>1. CASE IsText(v)
          <6>1. IsText(w)
            BY <2>1, <2>2, <5>1, SanitizedTyped
          <6>2. ~IsInt(w) /\ ~IsLong(w) /\ ~IsRaw(w)
            BY <6>1, FieldsOf
          <6> QED
            BY <2>3, <6>2, ToJSONTyped
        <5>2. CASE ~IsText(v)
          <6>1. w = v
            BY <2>1, <2>2, <4>2, <5>2, SanitizedTyped
          <6> QED
            BY <2>1, <2>2, <2>8, <4>2, <4>3, <6>1, JSONKeepsBytes
        <5> QED
          BY <5>1, <5>2
      <4> QED
        BY <3>3, <4>1, <4>4
    <3> QED
      BY <3>4, <3>5, <3>6
  <2> QED
    BY <2>2, <2>7, <2>8
<1>2. ASSUME CodecInv, NEW mods \in Modified, NEW map
      PROVE  (Mark(RowFromMap(map, mods).deleted) = Mark(deleted)) = ~deleted
  <2>1. RowFromMap(map, mods).deleted = FALSE /\ deleted \in BOOLEAN
    BY <1>2 DEF RowFromMap, CodecInv
  <2> QED
    BY <2>1 DEF Mark, Active, Deleted
<1>3. ASSUME CodecInv PROVE MapsKeepBytes
  BY <1>1, <1>2, <1>3 DEF MapsKeepBytes
<1> QED
  BY <1>3, CodecInvariant, PTL

-----------------------------------------------------------------------------
(* Day numbers *)

\* The days of the months before one.
DaysToMonth(y, m) ==
    LET months[k \in 0..11] == IF k = 0 THEN 0 ELSE months[k-1] + MonthLength(y, k)
    IN  months[m-1]

LEMMA DaysToMonthMeans ==
    ASSUME NEW y, NEW m \in 1..12, NEW leap, leap = IF IsLeap(y) THEN 1 ELSE 0
    PROVE  DaysToMonth(y, m) = CASE m = 1 -> 0 [] m = 2 -> 31 [] m = 3 -> 59 + leap
                                 [] m = 4 -> 90 + leap [] m = 5 -> 120 + leap [] m = 6 -> 151 + leap
                                 [] m = 7 -> 181 + leap [] m = 8 -> 212 + leap [] m = 9 -> 243 + leap
                                 [] m = 10 -> 273 + leap [] m = 11 -> 304 + leap [] m = 12 -> 334 + leap
<1> DEFINE Unrolls(f) == f = [k \in 0..11 |-> IF k = 0 THEN 0 ELSE f[k-1] + MonthLength(y, k)]
<1>1. \E f : Unrolls(f)
  <2> DEFINE G == [k \in 1..11 |-> [x \in Int |-> x + MonthLength(y, k)]]
  <2>1. \A k \in 1..11 : \A x \in Int : G[k][x] \in Int
    BY DEF MonthLength
  <2>2. PICK f \in [0..11 -> Int] : Recurs(f, 11, 0, G)
    <3> HIDE DEF G
    <3>1. 11 \in Nat /\ 0 \in Int
      BY SMT
    <3> QED
      BY <2>1, <3>1, Recursion
  <2>3. ASSUME NEW k \in 0..11, k # 0 PROVE G[k][f[k-1]] = f[k-1] + MonthLength(y, k)
    <3>1. k \in 1..11 /\ f[k-1] \in Int
      BY <2>3, SMT
    <3> QED
      BY <3>1
  <2>4. Unrolls(f)
    <3> HIDE DEF G
    <3> QED
      BY <2>2, <2>3 DEF Recurs
  <2> QED
    BY <2>4
<1> DEFINE months == CHOOSE f : Unrolls(f)
<1>2. DaysToMonth(y, m) = months[m-1]
  BY Zenon DEF DaysToMonth
<1>3. Unrolls(months)
  BY <1>1, Zenon
<1> HIDE DEF months
<1>4. months[0] = 0 /\ \A k \in 1..11 : months[k] = months[k-1] + MonthLength(y, k)
  BY <1>3, SMT
<1>5. /\ MonthLength(y, 1) = 31 /\ MonthLength(y, 2) = 28 + leap /\ MonthLength(y, 3) = 31
      /\ MonthLength(y, 4) = 30 /\ MonthLength(y, 5) = 31 /\ MonthLength(y, 6) = 30
      /\ MonthLength(y, 7) = 31 /\ MonthLength(y, 8) = 31 /\ MonthLength(y, 9) = 30
      /\ MonthLength(y, 10) = 31 /\ MonthLength(y, 11) = 30
      /\ leap \in {0, 1}
  BY SMT DEF MonthLength
<1>6. months[1] = 31 /\ months[2] = 59 + leap
  BY <1>4, <1>5, SMT
<1>7. months[3] = 90 + leap /\ months[4] = 120 + leap /\ months[5] = 151 + leap
  BY <1>4, <1>5, <1>6, SMT
<1>8. months[6] = 181 + leap /\ months[7] = 212 + leap /\ months[8] = 243 + leap
  BY <1>4, <1>5, <1>7, SMT
<1>9. months[9] = 273 + leap /\ months[10] = 304 + leap /\ months[11] = 334 + leap
  BY <1>4, <1>5, <1>8, SMT
<1>10. m \in {1, 2, 3, 4, 5, 6, 7, 8, 9, 10, 11, 12}
  BY SMT
<1> QED
  BY <1>2, <1>4, <1>6, <1>7, <1>8, <1>9, <1>10, SMT

\* The leap days before a year and before the next.
LeapDays(y, z, leap, s, q) ==
    /\ y \in Nat /\ y >= 1 /\ z = y - 1 /\ leap = IF IsLeap(y) THEN 1 ELSE 0
    /\ s = (y \div 4) - (y \div 100) + (y \div 400)
    /\ q = (z \div 4) - (z \div 100) + (z \div 400)

LEMMA LeapCount ==
    ASSUME NEW y, NEW z, NEW leap, NEW s, NEW q, LeapDays(y, z, leap, s, q)
    PROVE  s = q + leap /\ leap \in {0, 1} /\ s \in Int /\ q \in Int
<1>1. /\ y \in Nat /\ z \in Nat /\ y = z + 1 /\ leap = IF IsLeap(y) THEN 1 ELSE 0
      /\ s = (y \div 4) - (y \div 100) + (y \div 400)
      /\ q = (z \div 4) - (z \div 100) + (z \div 400)
  BY SMT DEF LeapDays
<1>2. IsLeap(y) <=> (y % 4 = 0 /\ y % 100 # 0) \/ y % 400 = 0
  BY SMT DEF IsLeap
<1>3. /\ y \div 4 = (z \div 4) + (IF y % 4 = 0 THEN 1 ELSE 0)
      /\ y \div 100 = (z \div 100) + (IF y % 100 = 0 THEN 1 ELSE 0)
      /\ y \div 400 = (z \div 400) + (IF y % 400 = 0 THEN 1 ELSE 0)
  BY <1>1, SMT
<1>4. (y % 400 = 0 => y % 100 = 0) /\ (y % 100 = 0 => y % 4 = 0)
  BY <1>1, SMT
<1>5. z \div 4 \in Int /\ z \div 100 \in Int /\ z \div 400 \in Int
  BY <1>1, SMT
<1> QED
  BY <1>1, <1>2, <1>3, <1>4, <1>5, SMT

\* julianDate numbers the days one after the other.
LEMMA DaysCount ==
    ASSUME NEW y, NEW m, NEW d, IsDate(y, m, d)
    PROVE  julianDate(y, m, d) = DayOne + DaysBefore(<<y, m, d>>)
<1>1. PICK Y, M, C, r, D : Parts(y, m, d, Y, M, C, r, D)
  BY SMT DEF Parts
<1>2. /\ julianDate(y, m, d) = (1461 * Y) \div 4 + (367 * (M + 1)) \div 12 - (3 * C) \div 4
                                    + d - 32075
      /\ Y \in Nat /\ M \in 0..11
  BY <1>1, JulianDateMeans, SMT
<1>3. y \in Nat /\ y >= 1 /\ m \in 1..12 /\ d \in Nat
  BY SMT DEF IsDate
<1>4. Y = YearOf(y, m) /\ M = MonthOf(m) /\ C = (Y + 100) \div 100
  BY <1>1, SMT DEF Parts
<1>5. /\ (1461 * Y) \div 4 = 365 * Y + (Y \div 4)
      /\ (3 * C) \div 4 = (Y \div 100) - (Y \div 400)
  <2>1. (1461 * Y) \div 4 = 365 * Y + (Y \div 4)
    BY <1>2, SMT
  <2>2. (3 * C) \div 4 = (Y \div 100) - (Y \div 400)
    <3>1. PICK a, b : a = Y \div 100 /\ b = Y \div 400
      BY SMT
    <3>2. a \in Nat /\ C = a + 1 /\ b = a \div 4
      <4>1. a \in Nat /\ Y >= 100 * a /\ Y <= 100 * a + 99 /\ C = a + 1
        BY <1>2, <1>4, <3>1, SMT
      <4>2. PICK w : w = a \div 4
        BY SMT
      <4>3. w \in Nat /\ Y >= 400 * w /\ Y <= 400 * w + 399
        BY <1>2, <4>1, <4>2, SMT
      <4>4. Y \div 400 = w
        BY <1>2, <4>3, SMT
      <4> QED
        BY <3>1, <4>1, <4>2, <4>4, SMT
    <3>3. (3 * (a + 1)) \div 4 = a - (a \div 4)
      BY <3>2, SMT
    <3> QED
      BY <3>1, <3>2, <3>3, SMT
  <2> QED
    BY <2>1, <2>2, SMT
<1>6. PICK leap, z, before : /\ leap = IF IsLeap(y) THEN 1 ELSE 0
                             /\ z = y - 1 /\ before = DaysToMonth(y, m)
  BY SMT
<1>7. DaysBefore(<<y, m, d>>) = 365 * z + (z \div 4) - (z \div 100) + (z \div 400) + before + d - 1
  <2>1. \A date : DaysBefore(date) = 365 * (date[1] - 1) + (date[1] - 1) \div 4 - (date[1] - 1) \div 100
                      + (date[1] - 1) \div 400 + DaysToMonth(date[1], date[2]) + date[3] - 1
    BY Zenon DEF DaysBefore, DaysToMonth
  <2> QED
    BY <1>6, <2>1, SMT
<1>8. PICK q, p, s : /\ q = (z \div 4) - (z \div 100) + (z \div 400)
                     /\ p = (Y \div 4) - (Y \div 100) + (Y \div 400)
                     /\ s = (y \div 4) - (y \div 100) + (y \div 400)
  BY SMT
<1>9. s = q + leap /\ leap \in {0, 1} /\ s \in Int
  <2>1. LeapDays(y, z, leap, s, q)
    BY <1>3, <1>6, <1>8, SMT DEF LeapDays
  <2> QED
    BY <2>1, LeapCount, SMT
<1>10. q \in Int /\ p \in Int /\ z \in Nat /\ y = z + 1 /\ leap \in {0, 1}
  BY <1>2, <1>3, <1>6, <1>8, <1>9, SMT
<1>11. julianDate(y, m, d) = 365 * Y + p + (367 * (M + 1)) \div 12 + d - 32075
  <2>1. PICK a, b, c, e : /\ a = Y \div 4 /\ b = Y \div 100 /\ c = Y \div 400
                          /\ e = (367 * (M + 1)) \div 12
    BY SMT
  <2>2. a \in Int /\ b \in Int /\ c \in Int /\ e \in Int
    BY <1>2, <2>1, SMT
  <2> QED
    BY <1>2, <1>3, <1>5, <1>8, <2>1, <2>2, SMT
<1>12. DaysBefore(<<y, m, d>>) = 365 * z + q + before + d - 1
  <2>1. PICK a, b, c : a = z \div 4 /\ b = z \div 100 /\ c = z \div 400
    BY SMT
  <2>2. a \in Int /\ b \in Int /\ c \in Int
    BY <1>10, <2>1, SMT
  <2>3. before \in Int
    BY <1>3, <1>6, <1>10, DaysToMonthMeans, SMT
  <2> QED
    BY <1>3, <1>7, <1>8, <1>10, <2>1, <2>2, <2>3, SMT
<1>13. CASE m <= 2
  <2>1. Y = z + 4800 /\ M = m + 9
    BY <1>3, <1>4, <1>10, <1>13, SMT DEF YearOf, MonthOf
  <2>2. p = q + 1164
    BY <1>8, <1>10, <2>1, SMT
  <2>3. before = 31 * (m - 1) /\ (m = 1 \/ m = 2)
    BY <1>3, <1>6, <1>10, <1>13, DaysToMonthMeans, SMT
  <2> QED
    BY <1>3, <1>10, <1>11, <1>12, <2>1, <2>2, <2>3, SMT DEF DayOne
<1>14. CASE m > 2
  <2>1. Y = y + 4800 /\ M = m - 3
    BY <1>3, <1>4, <1>14, SMT DEF YearOf, MonthOf
  <2>2. p = s + 1164
    BY <1>3, <1>8, <2>1, SMT
  <2>3. p = q + leap + 1164
    BY <1>9, <1>10, <2>2, SMT
  <2>4. m \in {3, 4, 5, 6, 7, 8, 9, 10, 11, 12}
    BY <1>3, <1>14, SMT
  <2>5. before + 1 - leap = (367 * (m - 2)) \div 12 + 30
    BY <1>3, <1>6, <1>10, <2>4, DaysToMonthMeans, SMT
  <2>6. julianDate(y, m, d) = 365 * (z + 4801) + q + leap + 1164 + (367 * (m - 2)) \div 12 + d - 32075
    BY <1>3, <1>10, <1>11, <2>1, <2>3, <2>4, SMT
  <2>7. PICK e : e = (367 * (m - 2)) \div 12
    BY SMT
  <2>8. e \in Int /\ before = e + 29 + leap
    <3>1. before \in Int
      BY <1>3, <1>6, <1>10, DaysToMonthMeans, SMT
    <3>2. e \in Int
      BY <1>3, <2>4, <2>7, SMT
    <3> QED
      BY <1>10, <2>5, <2>7, <3>1, <3>2, SMT
  <2> QED
    BY <1>3, <1>10, <1>12, <2>6, <2>7, <2>8, SMT DEF DayOne
<1> QED
  BY <1>3, <1>13, <1>14, SMT

\* A day number on disk is the number of its day, counted by the calendar.
THEOREM DayNumbersCountDays == MapsSpec => []DayNumbersCount
<1>1. ASSUME CodecInv, NEW i \in DOMAIN schema, schema[i].kind = "dateTime", stored[i] # Nil,
             stored[i].date # ZeroTime
      PROVE  disk.cells[i].day = DayOne + DaysBefore(stored[i].date)
  <2>1. /\ schema[i] \in Columns /\ stored[i] \in AllValues /\ Accepts(schema[i], stored[i])
        /\ disk = ToBytes(stored)
    BY <1>1, SchemaMeans DEF CodecInv, Storable
  <2>2. IsTime(stored[i])
    BY <1>1, <2>1, AcceptsMeans DEF IsNil
  <2>3. stored[i].date \in Dates
    BY <1>1, <2>2, FieldsOf DEF Times
  <2>4. PICK date : date = stored[i].date
    OBVIOUS
  <2>5. date \in Nat \X Nat \X Nat /\ IsDate(date[1], date[2], date[3])
    BY <2>3, <2>4, ValuesAssumption
  <2>6. disk.cells[i].day = JulianDay(date)
    BY <1>1, <2>1, <2>4, CellOf, CellMeans
  <2>7. JulianDay(date) = julianDate(date[1], date[2], date[3])
    BY <1>1, <2>4 DEF JulianDay
  <2>8. date = <<date[1], date[2], date[3]>>
    BY <2>5
  <2> QED
    BY <2>4, <2>5, <2>6, <2>7, <2>8, DaysCount
<1>2. CodecInv => DayNumbersCount
  BY <1>1 DEF DayNumbersCount
<1> QED
  BY <1>2, CodecInvariant, PTL
=============================================================================
