---------------------------- MODULE RlcUmProofs ----------------------------
(***************************************************************************)
(* Proofs for RlcUm with one thread in the entity: the buffer holds the    *)
(* PDUs of the window, and what is delivered are whole SDUs, in order,     *)
(* none of which is dropped by the receiver - for every window, size of    *)
(* SDUs and of transport blocks, and every loss, duplication and           *)
(* reordering within the reach of the sequence numbers.                    *)
(*                                                                         *)
(* Sequence numbers are compared with the numbers of PDUs they stand for,  *)
(* which do not wrap.                                                      *)
(***************************************************************************)
EXTENDS RlcUmProps, WellFoundedInduction, FiniteSetTheorems, SequenceTheorems, TLAPS

\* Who looks at the timer is who receives: the look without lock does no harm.
SingleThread == \E t : Threads = {t}

-----------------------------------------------------------------------------
(* Induction over the naturals, with sets in the place of predicates.      *)

\* A set of naturals has a least element.
LEMMA LeastElement ==
  ASSUME NEW S \in SUBSET Nat, S # {}
  PROVE  Least(S) \in S /\ \A i \in S : Least(S) <= i
<1>1. \E x \in S : \A y \in S : ~(<<y, x>> \in OpToRel(<, Nat))
  BY NatLessThanWellFounded, WFMin
<1>2. PICK x \in S : \A y \in S : ~(<<y, x>> \in OpToRel(<, Nat))
  BY <1>1
<1>3. \A y \in S : ~(y < x)
  BY <1>2 DEF OpToRel
<1>4. \A y \in S : x <= y
  BY <1>3
<1> QED BY <1>4 DEF Least

\* What holds at 0 and passes from k to k + 1 holds up to n.
LEMMA IntervalInduction ==
  ASSUME NEW n \in Nat, NEW Good, 0 \in Good,
         \A k \in 0..(n - 1) : k \in Good => k + 1 \in Good
  PROVE  0..n \subseteq Good
<1> DEFINE Bad == {k \in 0..n : k \notin Good}
<1> SUFFICES ASSUME Bad # {} PROVE FALSE
  OBVIOUS
<1>1. Bad \in SUBSET Nat
  OBVIOUS
<1>2. PICK k \in Bad : \A i \in Bad : k <= i
  BY <1>1, LeastElement
<1>3. k \in Nat /\ k # 0 /\ k <= n
  BY <1>2
<1>4. k - 1 \in 0..(n - 1) /\ k - 1 \notin Bad
  BY <1>2, <1>3
<1> QED BY <1>2, <1>3, <1>4

-----------------------------------------------------------------------------
(* Sequence numbers.                                                       *)

\* The constants, as the proofs use them.
LEMMA Parameters ==
  /\ Window \in Nat /\ Window >= 1 /\ Modulo \in Nat /\ Modulo = 2 * Window
  /\ SduSize \in Nat /\ SduSize >= 1 /\ MaxSdus \in Nat
BY RlcUmAssumption DEF Modulo

\* Quotient and remainder.
LEMMA Division ==
  ASSUME NEW a \in Int, NEW m \in Nat, m > 0
  PROVE  a % m \in 0..(m - 1) /\ a \div m \in Int /\ a = m * (a \div m) + (a % m)
OBVIOUS

\* A remainder is known by what it leaves.
LEMMA RemainderIs ==
  ASSUME NEW a \in Int, NEW m \in Nat, m > 0, NEW q \in Int, NEW r \in 0..(m - 1),
         a = m * q + r
  PROVE  a % m = r /\ a \div m = q
<1> DEFINE d == a \div m - q
<1>1. a % m \in 0..(m - 1) /\ a \div m \in Int /\ a = m * (a \div m) + (a % m)
  BY Division
<1>2. d \in Int /\ m * d = r - (a % m)
  <2>1. m * d = m * (a \div m) - m * q
    BY <1>1
  <2> QED BY <1>1, <2>1
<1>3. m * d < m /\ m * d > -m
  BY <1>1, <1>2
<1> HIDE DEF d
<1>4. ~(d >= 1)
  <2>1. d >= 1 => m * (d - 1) >= 0 /\ m * d = m * (d - 1) + m
    BY <1>2
  <2>2. m * d \in Int /\ m * (d - 1) \in Int
    BY <1>2
  <2> QED BY <1>3, <2>1, <2>2
<1>5. ~(d <= -1)
  <2>1. d <= -1 => m * (-1 - d) >= 0 /\ m * d = -(m * (-1 - d)) - m
    BY <1>2
  <2> QED BY <1>2, <1>3, <2>1
<1>6. d = 0
  BY <1>2, <1>4, <1>5
<1>7. a \div m = q
  BY <1>1, <1>6 DEF d
<1> QED BY <1>1, <1>7

\* A number is a count of rounds and its sequence number.
LEMMA SnDivides ==
  ASSUME NEW a \in Int
  PROVE  Sn(a) \in SN /\ \E q \in Int : a = Modulo * q + Sn(a)
<1>1. Modulo \in Nat /\ Modulo > 0
  BY Parameters
<1>2. a % Modulo \in 0..(Modulo - 1) /\ a \div Modulo \in Int
      /\ a = Modulo * (a \div Modulo) + (a % Modulo)
  BY <1>1, Division
<1> QED BY <1>2 DEF Sn, SN

\* Whole rounds do not count.
LEMMA SnIs ==
  ASSUME NEW a \in Int, NEW q \in Int, NEW s \in SN, a = Modulo * q + s
  PROVE  Sn(a) = s
<1>1. s \in 0..(Modulo - 1)
  BY DEF SN
<1>2. Modulo \in Nat /\ Modulo > 0
  BY Parameters
<1>3. a % Modulo = s
  BY <1>1, <1>2, RemainderIs
<1> QED BY <1>3 DEF Sn

\* In the first round a number is its own sequence number.
LEMMA SnSmall ==
  ASSUME NEW a \in SN PROVE Sn(a) = a
<1>1. a \in Int /\ a = Modulo * 0 + a
  BY Parameters DEF SN
<1> QED BY <1>1, SnIs

\* Calculation with sequence numbers is calculation with what they stand for.
LEMMA SnAdds ==
  ASSUME NEW a \in Int, NEW b \in Int
  PROVE  Sn(Sn(a) + b) = Sn(a + b) /\ Sn(Sn(a) - Sn(b)) = Sn(a - b)
<1>1. PICK q \in Int : a = Modulo * q + Sn(a)
  BY SnDivides
<1>2. PICK p \in Int : b = Modulo * p + Sn(b)
  BY SnDivides
<1>3. PICK k \in Int : a + b = Modulo * k + Sn(a + b)
  BY SnDivides
<1>4. PICK l \in Int : a - b = Modulo * l + Sn(a - b)
  BY SnDivides
<1>5. Sn(a) \in Int /\ Sn(b) \in Int /\ Sn(a + b) \in SN /\ Sn(a - b) \in SN /\ SN \subseteq Int
  BY SnDivides, Parameters DEF SN
<1> DEFINE mk == Modulo * k
           ml == Modulo * l
           mp == Modulo * p
           mq == Modulo * q
<1>6. /\ mk \in Int /\ ml \in Int /\ mp \in Int /\ mq \in Int
      /\ Modulo * (k - q) = mk - mq /\ Modulo * (l - q + p) = ml - mq + mp
      /\ a = mq + Sn(a) /\ b = mp + Sn(b) /\ a + b = mk + Sn(a + b) /\ a - b = ml + Sn(a - b)
  BY <1>1, <1>2, <1>3, <1>4, Parameters
<1> HIDE DEF mk, ml, mp, mq
<1>7. /\ Sn(a) + b = Modulo * (k - q) + Sn(a + b)
      /\ Sn(a) - Sn(b) = Modulo * (l - q + p) + Sn(a - b)
  <2>1. Sn(a + b) \in Int /\ Sn(a - b) \in Int
    BY <1>5
  <2>2. Sn(a) + b = (mk - mq) + Sn(a + b) /\ Sn(a) - Sn(b) = (ml - mq + mp) + Sn(a - b)
    BY <1>5, <1>6, <2>1
  <2> QED BY <1>6, <2>2
<1>8. Sn(a) + b \in Int /\ Sn(a) - Sn(b) \in Int /\ k - q \in Int /\ l - q + p \in Int
  BY <1>5
<1> QED BY <1>5, <1>7, <1>8, SnIs

\* Parameters less than a round apart are told apart.
LEMMA SnTells ==
  ASSUME NEW a \in Int, NEW b \in Int, a - b < Modulo, b - a < Modulo, Sn(a) = Sn(b)
  PROVE  a = b
<1>1. PICK q \in Int : a = Modulo * q + Sn(a)
  BY SnDivides
<1>2. PICK p \in Int : b = Modulo * p + Sn(b)
  BY SnDivides
<1>3. Sn(a) \in Int /\ a - b = Modulo * (q - p) + 0
  <2>1. /\ Modulo * (q - p) = Modulo * q - Modulo * p
        /\ Modulo * p \in Int /\ Modulo * q \in Int
    BY Parameters
  <2>2. Sn(a) \in Int
    BY SnDivides, Parameters DEF SN
  <2> QED BY <1>1, <1>2, <2>1, <2>2
<1>4. CASE a >= b
  <2>1. a - b \in 0..(Modulo - 1) /\ a - b = Modulo * 0 + (a - b)
    BY <1>4, Parameters
  <2>2. (a - b) \div Modulo = q - p /\ (a - b) \div Modulo = 0
    <3>1. 0 \in 0..(Modulo - 1) /\ Modulo > 0
      BY Parameters
    <3> QED BY <1>3, <2>1, <3>1, Parameters, RemainderIs
  <2> QED BY <1>3, <2>2, Parameters
<1>5. CASE b >= a
  <2>1. b - a \in 0..(Modulo - 1) /\ b - a = Modulo * 0 + (b - a)
    BY <1>5, Parameters
  <2>2. b - a = Modulo * (p - q) + 0
    <3>1. Modulo * (p - q) = -(Modulo * (q - p))
      BY Parameters
    <3> QED BY <1>3, <3>1, Parameters
  <2>3. (b - a) \div Modulo = p - q /\ (b - a) \div Modulo = 0
    <3>1. 0 \in 0..(Modulo - 1) /\ Modulo > 0
      BY Parameters
    <3> QED BY <2>1, <2>2, <3>1, Parameters, RemainderIs
  <2> QED BY <2>2, <2>3, Parameters
<1> QED BY <1>4, <1>5

\* The distance of a number from the lower end of the window of c. Beyond VR(UH) it may
\* come out one round too low, but never within the window.
Distance(r, s) == Rem(s - (r.vr_uh - Window), Modulo)

\* What Distance comes to, in numbers that do not wrap.
LEMMA DistanceIs ==
  ASSUME NEW r, NEW c \in Int, r.vr_uh = Sn(c), NEW n \in (c - Window)..(c + Window - 1)
  PROVE  /\ n <= c => Distance(r, Sn(n)) = n - c + Window
         /\ n > c => Distance(r, Sn(n)) \in {n - c + Window, n - c + Window - Modulo}
<1> DEFINE x == Sn(n) - (Sn(c) - Window)
           d == n - c + Window
<1>1. /\ Sn(n) \in 0..(Modulo - 1) /\ Sn(c) \in 0..(Modulo - 1) /\ n \in Int
      /\ Modulo \in Nat /\ Modulo = 2 * Window /\ Window \in Nat /\ Window >= 1
  <2>1. Window \in Nat /\ n \in Int
    BY Parameters
  <2> QED BY <2>1, SnDivides, Parameters DEF SN
<1>2. x \in (1 - Window)..(3 * Window - 1) /\ x \in Int /\ d \in 0..(Modulo - 1)
  BY <1>1
<1>3. Sn(x) = d
  <2>1. Sn(n - c) = Sn(Sn(n) - Sn(c))
    BY <1>1, SnAdds
  <2>2. Sn(x) = Sn(Sn(n) - Sn(c) + Window)
    <3>1. x = Sn(n) - Sn(c) + Window
      BY <1>1
    <3> QED BY <3>1
  <2>3. Sn(Sn(Sn(n) - Sn(c)) + Window) = Sn(Sn(n) - Sn(c) + Window)
    <3>1. \A y \in Int : Sn(Sn(y) + Window) = Sn(y + Window)
      BY <1>1, SnAdds
    <3> QED BY <1>1, <3>1
  <2>4. Sn(Sn(n - c) + Window) = Sn(n - c + Window)
    BY <1>1, SnAdds
  <2>5. Sn(d) = d
    BY <1>2, SnSmall DEF SN
  <2> QED BY <2>1, <2>2, <2>3, <2>4, <2>5
<1>4. Distance(r, Sn(n)) = Rem(x, Modulo)
  BY DEF Distance
<1> HIDE DEF x, d
<1>5. CASE x >= 0
  BY <1>3, <1>4, <1>5 DEF Rem, Sn, d
<1>6. CASE x < 0
  <2>1. -x \in SN
    BY <1>1, <1>2, <1>6 DEF SN
  <2>2. Distance(r, Sn(n)) = x
    <3>1. Sn(-x) = -x
      BY <2>1, SnSmall
    <3> QED BY <1>2, <1>4, <1>6, <3>1 DEF Rem, Sn
  <2>3. x + Modulo \in SN
    BY <1>1, <1>2, <1>6 DEF SN
  <2>4. Sn(x + Modulo) = x + Modulo
    BY <2>3, SnSmall
  <2>5. Sn(Modulo) = 0
    <3>1. Modulo \in Int /\ 1 \in Int /\ 0 \in SN /\ Modulo = Modulo * 1 + 0
      BY <1>1 DEF SN
    <3> QED BY <3>1, SnIs
  <2>6. Sn(x + Modulo) = Sn(x)
    <3>1. x + Modulo \in Int /\ Modulo \in Int /\ x + Modulo - Modulo = x
      BY <1>1, <1>2
    <3>2. Sn(Sn(x + Modulo) - Sn(Modulo)) = Sn(x)
      <4>1. \A y, w \in Int : Sn(Sn(y) - Sn(w)) = Sn(y - w)
        BY SnAdds
      <4>2. \A y \in Int : Sn(Sn(y) - Sn(Modulo)) = Sn(y - Modulo)
        BY <3>1, <4>1
      <4> DEFINE y == x + Modulo
      <4>3. y \in Int /\ y - Modulo = x
        <5>1. y \in Int
          BY <3>1
        <5>2. Modulo \in Int /\ x \in Int /\ y = x + Modulo
          BY <1>1, <1>2
        <5> HIDE DEF y
        <5> QED BY <5>1, <5>2
      <4> HIDE DEF y
      <4>4. Sn(Sn(y) - Sn(Modulo)) = Sn(y - Modulo)
        BY <4>2, <4>3
      <4> QED BY <4>3, <4>4 DEF y
    <3>3. Sn(Sn(x + Modulo) - 0) = Sn(x + Modulo)
      BY <2>3, <2>4, <1>1 DEF SN
    <3> QED BY <2>5, <3>2, <3>3
  <2>7. d = x + Modulo
    BY <1>3, <2>4, <2>6
  <2> QED BY <1>1, <1>2, <1>6, <2>2, <2>7 DEF d
<1> QED BY <1>2, <1>5, <1>6

\* in_window compares distances.
LEMMA InWindowIs ==
  ASSUME NEW r, NEW low, NEW sn, NEW high,
         Distance(r, low) \in Int, Distance(r, sn) \in Int, Distance(r, high) \in Int
  PROVE  LET a == Distance(r, low) b == Distance(r, sn) c == Distance(r, high) IN
         in_window(r, low, sn, high) =
           IF a > b THEN -2 ELSE IF c < b THEN -1 ELSE IF a = b /\ c = b THEN 3
           ELSE IF a = b THEN 1 ELSE IF c = b THEN 2 ELSE 0
<1> DEFINE a == Distance(r, low)
           b == Distance(r, sn)
           c == Distance(r, high)
<1>1. in_window(r, low, sn, high) =
        CASE a > b -> -2
          [] a <= b /\ c < b -> -1
          [] a = b /\ c = b -> 3
          [] a = b /\ c > b -> 1
          [] a < b /\ c = b -> 2
          [] OTHER -> 0
  BY DEF in_window, Distance
<1> HIDE DEF a, b, c
<1>2. a \in Int /\ b \in Int /\ c \in Int
  BY DEF a, b, c
<1>3. in_window(r, low, sn, high) =
           IF a > b THEN -2 ELSE IF c < b THEN -1 ELSE IF a = b /\ c = b THEN 3
           ELSE IF a = b THEN 1 ELSE IF c = b THEN 2 ELSE 0
  BY <1>1, <1>2
<1> QED BY <1>3 DEF a, b, c

\* The receiver r stands at the PDU low, and has heard of those before high.
At(r, low, high) ==
  /\ low \in Nat /\ high \in Nat /\ low <= high /\ high - Window <= low
  /\ r.vr_ur = Sn(low) /\ r.vr_uh = Sn(high)

\* What the windows of the code mean.
LEMMA Windows ==
  ASSUME NEW r, NEW low, NEW high, At(r, low, high),
         NEW n \in (high - Window)..(high + Window - 1)
  PROVE  /\ in_reordering_window(r, Sn(n)) <=> n < high
         /\ in_window(r, r.vr_uh - Window, Sn(n), r.vr_ur) \in {0, 1} <=> n < low
         /\ in_window(r, r.vr_ur, Sn(n), r.vr_uh) = 0 <=> low < n /\ n < high
         /\ in_window(r, r.vr_ur, Sn(n), r.vr_uh) \in {-2, 1} => n < low \/ n = low \/ n > high
         /\ n < low => in_window(r, r.vr_ur, Sn(n), r.vr_uh) = -2
         /\ in_window(r, r.vr_ur, r.vr_uh, r.vr_uh) = 2 <=> low < high
<1> DEFINE a == Distance(r, Sn(low))
           b == Distance(r, Sn(n))
           c == Distance(r, Sn(high))
           z == Distance(r, r.vr_uh - Window)
<1>1. /\ low \in Int /\ high \in Int /\ n \in Int /\ Window \in Nat /\ Window >= 1
      /\ Modulo = 2 * Window /\ low <= high /\ high - Window <= low
      /\ high - Window <= n /\ n <= high + Window - 1
  BY Parameters DEF At
<1>2. r.vr_uh = Sn(high) /\ r.vr_ur = Sn(low)
  BY DEF At
<1>3. a = low - high + Window
  <2>1. low \in (high - Window)..(high + Window - 1)
    BY <1>1
  <2> QED BY <1>1, <1>2, <2>1, DistanceIs
<1>4. c = Window
  <2>1. high \in (high - Window)..(high + Window - 1) /\ high - high + Window = Window
    BY <1>1
  <2> QED BY <1>1, <1>2, <2>1, DistanceIs
<1>5. /\ n <= high => b = n - high + Window
      /\ n > high => b \in {n - high + Window, n - high + Window - Modulo}
  BY <1>1, <1>2, DistanceIs
<1>6. z = 0
  <2>1. Sn(high) \in Int
    BY <1>1, SnDivides, Parameters DEF SN
  <2>2. (Sn(high) - Window) - (Sn(high) - Window) = 0
    BY <1>1, <2>1
  <2>3. Sn(0) = 0
    BY Parameters, SnSmall DEF SN
  <2> QED BY <1>2, <2>2, <2>3 DEF Distance, Rem, Sn
<1>7. in_reordering_window(r, Sn(n)) <=> b \in 0..(Window - 1)
  BY DEF in_reordering_window, Distance
<1> HIDE DEF a, b, c, z
<1>8. a \in Int /\ b \in Int /\ c \in Int /\ z \in Int
  BY <1>1, <1>3, <1>4, <1>5, <1>6
<1>9. in_window(r, r.vr_uh - Window, Sn(n), r.vr_ur) =
        IF z > b THEN -2 ELSE IF a < b THEN -1 ELSE IF z = b /\ a = b THEN 3
        ELSE IF z = b THEN 1 ELSE IF a = b THEN 2 ELSE 0
  BY <1>2, <1>8, InWindowIs DEF a, b, z
<1>10. in_window(r, r.vr_ur, Sn(n), r.vr_uh) =
        IF a > b THEN -2 ELSE IF c < b THEN -1 ELSE IF a = b /\ c = b THEN 3
        ELSE IF a = b THEN 1 ELSE IF c = b THEN 2 ELSE 0
  BY <1>2, <1>8, InWindowIs DEF a, b, c
<1>11. in_window(r, r.vr_ur, r.vr_uh, r.vr_uh) =
        IF a > c THEN -2 ELSE IF c < c THEN -1 ELSE IF a = c /\ c = c THEN 3
        ELSE IF a = c THEN 1 ELSE IF c = c THEN 2 ELSE 0
  BY <1>2, <1>8, InWindowIs DEF a, c
<1>12. in_reordering_window(r, Sn(n)) <=> n < high
  BY <1>1, <1>5, <1>7
<1>13. in_window(r, r.vr_uh - Window, Sn(n), r.vr_ur) \in {0, 1} <=> n < low
  BY <1>1, <1>3, <1>5, <1>6, <1>8, <1>9
<1>14. in_window(r, r.vr_ur, Sn(n), r.vr_uh) = 0 <=> low < n /\ n < high
  BY <1>1, <1>3, <1>4, <1>5, <1>8, <1>10
<1>15. in_window(r, r.vr_ur, Sn(n), r.vr_uh) \in {-2, 1} => n < low \/ n = low \/ n > high
  BY <1>1, <1>3, <1>4, <1>5, <1>8, <1>10
<1>16. n < low => in_window(r, r.vr_ur, Sn(n), r.vr_uh) = -2
  BY <1>1, <1>3, <1>4, <1>5, <1>8, <1>10
<1>17. in_window(r, r.vr_ur, r.vr_uh, r.vr_uh) = 2 <=> low < high
  BY <1>1, <1>3, <1>4, <1>8, <1>11
<1> QED BY <1>12, <1>13, <1>14, <1>15, <1>16, <1>17

-----------------------------------------------------------------------------
(* Units and SDUs.                                                         *)

\* The next unit is of the same SDU, or the first one of the next SDU.
LEMMA UnitCounts ==
  ASSUME NEW u \in Nat
  PROVE  /\ Sdu(u) \in Nat /\ u % SduSize \in 0..(SduSize - 1)
         /\ u = Sdu(u) * SduSize + (u % SduSize)
         /\ EndsSdu(u) => /\ u % SduSize = SduSize - 1
                          /\ Sdu(u + 1) = Sdu(u) + 1 /\ (u + 1) % SduSize = 0
         /\ ~EndsSdu(u) => /\ u % SduSize < SduSize - 1
                           /\ Sdu(u + 1) = Sdu(u) /\ (u + 1) % SduSize = (u % SduSize) + 1
<1> DEFINE q == u \div SduSize
           r == u % SduSize
<1>1. SduSize \in Nat /\ SduSize > 0
  BY Parameters
<1>2. r \in 0..(SduSize - 1) /\ q \in Int /\ u = SduSize * q + r
  BY <1>1, Division
<1>3. q >= 0
  <2>1. q <= -1 => SduSize * (-1 - q) >= 0 /\ SduSize * q = -(SduSize * (-1 - q)) - SduSize
    BY <1>1, <1>2
  <2>2. SduSize * (-1 - q) \in Int /\ SduSize * q \in Int
    BY <1>1, <1>2
  <2> QED BY <1>1, <1>2, <2>1, <2>2
<1>4. SduSize * q = q * SduSize /\ SduSize * q \in Int /\ SduSize * (q + 1) = SduSize * q + SduSize
  BY <1>1, <1>2
<1>5. CASE r = SduSize - 1
  <2>1. u + 1 = SduSize * (q + 1) + 0
    BY <1>1, <1>2, <1>4, <1>5
  <2>2. q + 1 \in Int /\ 0 \in 0..(SduSize - 1) /\ u + 1 \in Int
    BY <1>1, <1>2
  <2>3. (u + 1) % SduSize = 0 /\ (u + 1) \div SduSize = q + 1
    BY <1>1, <2>1, <2>2, RemainderIs
  <2> QED BY <1>2, <1>3, <1>4, <1>5, <2>3 DEF Sdu, EndsSdu
<1>6. CASE r < SduSize - 1
  <2>1. u + 1 = SduSize * q + (r + 1) /\ r + 1 \in 0..(SduSize - 1) /\ u + 1 \in Int
    BY <1>1, <1>2, <1>4, <1>6
  <2>2. (u + 1) % SduSize = r + 1 /\ (u + 1) \div SduSize = q
    BY <1>1, <1>2, <2>1, RemainderIs
  <2>3. r + 1 # 0
    BY <1>2
  <2> QED BY <1>2, <1>3, <1>4, <1>6, <2>2, <2>3 DEF Sdu, EndsSdu
<1>7. r = SduSize - 1 \/ r < SduSize - 1
  BY <1>1, <1>2
<1> QED BY <1>5, <1>6, <1>7

\* Later units are of later SDUs.
LEMMA SduGrows ==
  ASSUME NEW a \in Nat, NEW b \in Nat, a <= b
  PROVE  Sdu(a) <= Sdu(b)
<1> DEFINE d == Sdu(a) - Sdu(b)
<1>1. /\ Sdu(a) \in Nat /\ a % SduSize \in 0..(SduSize - 1) /\ a = Sdu(a) * SduSize + (a % SduSize)
      /\ Sdu(b) \in Nat /\ b % SduSize \in 0..(SduSize - 1) /\ b = Sdu(b) * SduSize + (b % SduSize)
  BY UnitCounts
<1>2. SduSize \in Nat /\ SduSize >= 1
  BY Parameters
<1>3. d * SduSize = Sdu(a) * SduSize - Sdu(b) * SduSize /\ d \in Int
      /\ Sdu(a) * SduSize \in Int /\ Sdu(b) * SduSize \in Int
  BY <1>1, <1>2
<1>4. d * SduSize = a - b - (a % SduSize) + (b % SduSize)
  BY <1>1, <1>3
<1>5. d * SduSize < SduSize
  BY <1>1, <1>2, <1>4
<1> HIDE DEF d
<1>6. d >= 1 => (d - 1) * SduSize >= 0 /\ d * SduSize = (d - 1) * SduSize + SduSize
  BY <1>2, <1>3
<1>7. (d - 1) * SduSize \in Int /\ d * SduSize \in Int
  BY <1>2, <1>3
<1>8. ~(d >= 1)
  BY <1>2, <1>5, <1>6, <1>7
<1> QED BY <1>1, <1>3, <1>8 DEF d

\* The first and the last unit of an SDU.
LEMMA SduEdges ==
  ASSUME NEW s \in Nat
  PROVE  /\ s * SduSize \in Nat /\ Sdu(s * SduSize) = s /\ (s * SduSize) % SduSize = 0
         /\ (s + 1) * SduSize - 1 \in Nat /\ Sdu((s + 1) * SduSize - 1) = s
         /\ s * SduSize <= (s + 1) * SduSize - 1
<1>1. SduSize \in Nat /\ SduSize >= 1
  BY Parameters
<1>2. /\ s * SduSize = SduSize * s + 0 /\ s * SduSize \in Nat
      /\ (s + 1) * SduSize - 1 = SduSize * s + (SduSize - 1) /\ SduSize * s \in Nat
  BY <1>1
<1>3. s \in Int /\ 0 \in 0..(SduSize - 1) /\ SduSize - 1 \in 0..(SduSize - 1)
  BY <1>1
<1> DEFINE x == s * SduSize
           y == (s + 1) * SduSize - 1
           z == SduSize * s
<1> HIDE DEF x, y, z
<1>4. /\ x = z + 0 /\ x \in Nat /\ y = z + (SduSize - 1) /\ z \in Nat /\ z = SduSize * s
  BY <1>2 DEF x, y, z
<1>5. x \in Int /\ y \in Nat /\ y \in Int /\ x <= y
  BY <1>1, <1>4
<1>6. x % SduSize = 0 /\ x \div SduSize = s
  BY <1>1, <1>3, <1>4, <1>5, RemainderIs
<1>7. y \div SduSize = s
  BY <1>1, <1>3, <1>4, <1>5, RemainderIs
<1> QED BY <1>4, <1>5, <1>6, <1>7 DEF x, y, Sdu

Run(b, k) == [j \in 1..k |-> b + j - 1]
WholeSdu(s) == Run(s * SduSize, SduSize)

\* What has been taken of an SDU when the stream has got to e.
Fragment(e) == Run(Sdu(e) * SduSize, e % SduSize)

\* A run of units grows by the unit that follows it.
LEMMA RunGrows ==
  ASSUME NEW b \in Nat, NEW k \in Nat
  PROVE  /\ Append(Run(b, k), b + k) = Run(b, k + 1)
         /\ Run(b, 0) = << >>
         /\ \A top_unit \in Nat : b + k <= top_unit + 1 => Run(b, k) \in Seq(0..top_unit)
<1> DEFINE s == Run(b, k)
<1>1. s \in Seq(Nat) /\ Len(s) = k /\ \A j \in 1..k : s[j] = b + j - 1
  BY DEF Run
<1>2. Append(s, b + k) = Run(b, k + 1)
  <2>1. Append(s, b + k) \in Seq(Nat) /\ Len(Append(s, b + k)) = k + 1
    BY <1>1
  <2>2. Run(b, k + 1) \in Seq(Nat) /\ Len(Run(b, k + 1)) = k + 1
    BY DEF Run
  <2>3. \A j \in 1..(k + 1) : Append(s, b + k)[j] = b + j - 1
    <3>1. \A j \in 1..k : Append(s, b + k)[j] = s[j]
      BY <1>1
    <3>2. Append(s, b + k)[k + 1] = b + k
      BY <1>1
    <3> HIDE DEF s
    <3>3. \A j \in 1..(k + 1) : j \in 1..k \/ j = k + 1
      OBVIOUS
    <3>4. b + (k + 1) - 1 = b + k
      OBVIOUS
    <3> QED BY <1>1, <3>1, <3>2, <3>3, <3>4
  <2>4. \A j \in 1..(k + 1) : Run(b, k + 1)[j] = b + j - 1
    BY DEF Run
  <2> HIDE DEF s
  <2> QED BY <2>1, <2>2, <2>3, <2>4, SeqEqual
<1>3. Run(b, 0) = << >>
  BY DEF Run
<1>4. ASSUME NEW top_unit \in Nat, b + k <= top_unit + 1
      PROVE  Run(b, k) \in Seq(0..top_unit)
  <2>1. \A j \in 1..k : b + j - 1 \in 0..top_unit
    BY <1>4
  <2> QED BY <2>1 DEF Run
<1> QED BY <1>2, <1>3, <1>4

\* A fragment grows by the next unit, and is whole when the SDU ends.
LEMMA FragmentGrows ==
  ASSUME NEW u \in Nat
  PROVE  /\ ~EndsSdu(u) => Append(Fragment(u), u) = Fragment(u + 1)
         /\ EndsSdu(u) => Append(Fragment(u), u) = WholeSdu(Sdu(u))
         /\ u % SduSize = 0 => Fragment(u) = << >>
         /\ u \in Units => Fragment(u) \in Seq(Units)
<1> DEFINE b == Sdu(u) * SduSize
           k == u % SduSize
<1>1. b \in Nat /\ k \in Nat /\ u = b + k
  <2>1. Sdu(u) \in Nat /\ SduSize \in Nat /\ k \in Nat /\ u = Sdu(u) * SduSize + k
    BY UnitCounts, Parameters
  <2> QED BY <2>1
<1>2. Fragment(u) = Run(b, k)
  BY DEF Fragment
<1>3. /\ EndsSdu(u) => k + 1 = SduSize
      /\ ~EndsSdu(u) => Sdu(u + 1) = Sdu(u) /\ (u + 1) % SduSize = k + 1
  BY UnitCounts, Parameters
<1> HIDE DEF b, k
<1>4. Append(Run(b, k), b + k) = Run(b, k + 1) /\ Run(b, 0) = << >>
  BY <1>1, RunGrows
<1>5. ~EndsSdu(u) => Fragment(u + 1) = Run(b, k + 1)
  BY <1>3 DEF Fragment, b
<1>6. EndsSdu(u) => WholeSdu(Sdu(u)) = Run(b, k + 1)
  BY <1>3 DEF WholeSdu, b
<1>7. u \in Units => Fragment(u) \in Seq(Units)
  <2> SUFFICES ASSUME u \in Units PROVE Run(b, k) \in Seq(Units)
    BY <1>2
  <2>1. MaxSdus * SduSize \in Nat /\ u \in 0..(MaxSdus * SduSize - 1)
    BY Parameters DEF Units
  <2> DEFINE m == MaxSdus * SduSize
  <2> HIDE DEF m
  <2>2. m - 1 \in Nat /\ b + k <= (m - 1) + 1
    BY <1>1, <2>1 DEF m
  <2>3. Run(b, k) \in Seq(0..(m - 1))
    BY <1>1, <2>2, RunGrows
  <2> QED BY <2>3 DEF m, Units
<1>8. u % SduSize = 0 => Fragment(u) = << >>
  BY <1>2, <1>4 DEF k
<1> QED BY <1>1, <1>2, <1>4, <1>5, <1>6, <1>7, <1>8

\* The number of an SDU is seen in its first unit.
LEMMA NumberOfWhole ==
  ASSUME NEW s \in Nat
  PROVE  Sdu(WholeSdu(s)[1]) = s
<1>1. WholeSdu(s)[1] = s * SduSize + 1 - 1
  BY Parameters DEF WholeSdu, Run
<1>2. s * SduSize + 1 - 1 = s * SduSize /\ Sdu(s * SduSize) = s
  BY SduEdges
<1> QED BY <1>1, <1>2

-----------------------------------------------------------------------------
(* Reassembly of the units of one PDU.                                     *)

\* All of d are whole SDUs that end before the unit e, in ascending order.
Delivered(d, e) ==
  /\ \A i \in 1..Len(d) : /\ Sdu(d[i][1]) \in 0..(Sdu(e) - 1)
                          /\ d[i] = WholeSdu(Sdu(d[i][1]))
  /\ \A i, j \in 1..Len(d) : i < j => Sdu(d[i][1]) < Sdu(d[j][1])

Extends(d, prefix) == Len(prefix) <= Len(d) /\ \A i \in 1..Len(prefix) : d[i] = prefix[i]

\* From the unit `from' to the unit e, reassembly has missed nothing.
Appended(prefix, from, out, e) ==
  /\ out \in [output_sdu : Seq(Units), delivered : Seq(Seq(Units))]
  /\ out.output_sdu = Fragment(e)
  /\ Delivered(out.delivered, e) /\ Extends(out.delivered, prefix)
  /\ \A s \in Sdu(from)..(Sdu(e) - 1) : \E i \in 1..Len(out.delivered) : Sdu(out.delivered[i][1]) = s

\* What ends before a ends before b.
LEMMA DeliveredLater ==
  ASSUME NEW d \in Seq(Seq(Units)), NEW a \in Nat, NEW b \in Nat, a <= b, Delivered(d, a)
  PROVE  Delivered(d, b)
<1>1. Sdu(a) \in Nat /\ Sdu(b) \in Nat /\ Sdu(a) <= Sdu(b)
  BY SduGrows, UnitCounts
<1>2. 0..(Sdu(a) - 1) \subseteq 0..(Sdu(b) - 1)
  BY <1>1
<1> QED BY <1>2 DEF Delivered

\* One more unit keeps reassembly in step.
LEMMA AppendUnitIs ==
  ASSUME NEW prefix \in Seq(Seq(Units)), NEW from \in Nat, NEW u \in Units, from <= u,
         NEW out, Appended(prefix, from, out, u)
  PROVE  Appended(prefix, from, AppendUnit(out, u), u + 1)
<1>1. u \in Nat
  BY Parameters DEF Units
<1>2. /\ out \in [output_sdu : Seq(Units), delivered : Seq(Seq(Units))]
      /\ out.output_sdu = Fragment(u) /\ out.delivered \in Seq(Seq(Units))
      /\ Fragment(u) \in Seq(Units) /\ Append(Fragment(u), u) \in Seq(Units)
  BY <1>1, FragmentGrows DEF Appended
<1>3. CASE ~EndsSdu(u)
  <2>1. AppendUnit(out, u) = [output_sdu |-> Fragment(u + 1), delivered |-> out.delivered]
    BY <1>1, <1>2, <1>3, FragmentGrows DEF AppendUnit
  <2>2. Sdu(u + 1) = Sdu(u) /\ Fragment(u + 1) \in Seq(Units)
    BY <1>1, <1>2, <1>3, UnitCounts, FragmentGrows
  <2>3. Delivered(out.delivered, u + 1)
    BY <2>2 DEF Appended, Delivered
  <2> QED BY <1>2, <2>1, <2>2, <2>3 DEF Appended
<1>4. CASE EndsSdu(u)
  <2> DEFINE w == WholeSdu(Sdu(u))
             d == out.delivered
             e == Append(d, w)
  <2>1. w = Append(Fragment(u), u) /\ w \in Seq(Units) /\ Fragment(u + 1) = << >>
    <3>1. (u + 1) % SduSize = 0 /\ u + 1 \in Nat
      BY <1>1, <1>4, UnitCounts
    <3> QED BY <1>1, <1>2, <1>4, <3>1, FragmentGrows
  <2>2. AppendUnit(out, u) = [output_sdu |-> << >>, delivered |-> e]
    BY <1>2, <1>4, <2>1 DEF AppendUnit
  <2>3. Sdu(u) \in Nat /\ Sdu(u + 1) = Sdu(u) + 1 /\ Sdu(w[1]) = Sdu(u)
    BY <1>1, <1>4, UnitCounts, NumberOfWhole
  <2> HIDE DEF w
  <2>4. /\ e \in Seq(Seq(Units)) /\ Len(e) = Len(d) + 1 /\ Len(d) \in Nat
        /\ \A i \in 1..Len(d) : e[i] = d[i]
        /\ e[Len(d) + 1] = w
    BY <1>2, <2>1
  <2>5. Delivered(d, u) /\ Extends(d, prefix)
        /\ \A s \in Sdu(from)..(Sdu(u) - 1) : \E i \in 1..Len(d) : Sdu(d[i][1]) = s
    BY DEF Appended
  <2> HIDE DEF e, d
  <2>6. \A i \in 1..Len(e) : i \in 1..Len(d) \/ i = Len(d) + 1
    BY <2>4
  <2>7. Delivered(e, u + 1)
    <3>1. ASSUME NEW i \in 1..Len(e)
          PROVE  Sdu(e[i][1]) \in 0..(Sdu(u + 1) - 1) /\ e[i] = WholeSdu(Sdu(e[i][1]))
      <4>1. CASE i \in 1..Len(d)
        <5>1. e[i] = d[i] /\ Sdu(d[i][1]) \in 0..(Sdu(u) - 1) /\ d[i] = WholeSdu(Sdu(d[i][1]))
          BY <2>4, <2>5, <4>1 DEF Delivered
        <5>2. 0..(Sdu(u) - 1) \subseteq 0..(Sdu(u + 1) - 1)
          BY <2>3
        <5> QED BY <5>1, <5>2
      <4>2. CASE i = Len(d) + 1
        BY <2>3, <2>4, <4>2 DEF w
      <4> QED BY <2>6, <4>1, <4>2
    <3>2. ASSUME NEW i \in 1..Len(e), NEW j \in 1..Len(e), i < j
          PROVE  Sdu(e[i][1]) < Sdu(e[j][1])
      <4>1. i \in 1..Len(d)
        BY <2>4, <3>2
      <4>2. e[i] = d[i] /\ Sdu(d[i][1]) \in 0..(Sdu(u) - 1)
        BY <2>4, <2>5, <4>1 DEF Delivered
      <4>3. CASE j \in 1..Len(d)
        BY <2>4, <2>5, <3>2, <4>1, <4>3 DEF Delivered
      <4>4. CASE j = Len(d) + 1
        BY <2>3, <2>4, <4>2, <4>4
      <4> QED BY <2>6, <4>3, <4>4
    <3> QED BY <3>1, <3>2 DEF Delivered
  <2>8. Extends(e, prefix)
    BY <2>4, <2>5 DEF Extends
  <2>9. ASSUME NEW s \in Sdu(from)..(Sdu(u + 1) - 1)
        PROVE  \E i \in 1..Len(e) : Sdu(e[i][1]) = s
    <3>0. Sdu(from) \in Nat
      BY UnitCounts
    <3>1. CASE s = Sdu(u)
      <4>1. Len(d) + 1 \in 1..Len(e) /\ Sdu(e[Len(d) + 1][1]) = s
        BY <2>3, <2>4, <3>1
      <4> QED BY <4>1
    <3>2. CASE s # Sdu(u)
      <4>1. s \in Sdu(from)..(Sdu(u) - 1)
        BY <2>3, <3>0, <3>2
      <4>2. PICK i \in 1..Len(d) : Sdu(d[i][1]) = s
        BY <2>5, <4>1
      <4>3. i \in 1..Len(e) /\ e[i] = d[i]
        BY <2>4, <4>2
      <4> QED BY <4>2, <4>3
    <3> QED BY <3>1, <3>2
  <2>10. << >> \in Seq(Units)
    OBVIOUS
  <2> QED BY <2>1, <2>2, <2>4, <2>7, <2>8, <2>9, <2>10 DEF Appended
<1> QED BY <1>3, <1>4

\* So do all units of a PDU.
LEMMA AppendUnitsIs ==
  ASSUME NEW prefix \in Seq(Seq(Units)), NEW from \in Nat, NEW last \in Units, from <= last,
         NEW out, Appended(prefix, from, out, from)
  PROVE  Appended(prefix, from, AppendUnits(out, from, last), last + 1)
<1> DEFINE E(f, u) == IF u < from THEN out ELSE AppendUnit(f[u - 1], u)
           After == CHOOSE f : f = [u \in (from - 1)..last |-> E(f, u)]
           N == last + 1 - from
           Up(k) == from - 1 + k
           Good == {k \in 0..N : \E f : f = [u \in (from - 1)..Up(k) |-> E(f, u)]}
<1>1. last \in Nat /\ from \in Nat /\ N \in Nat /\ N >= 1 /\ Up(N) = last
  BY Parameters DEF Units
<1>2. 0 \in Good
  <2> DEFINE g == [u \in (from - 1)..Up(0) |-> out]
  <2>1. \A u \in (from - 1)..Up(0) : E(g, u) = out
    BY <1>1
  <2>2. g = [u \in (from - 1)..Up(0) |-> E(g, u)]
    BY <2>1
  <2>3. \E f : f = [u \in (from - 1)..Up(0) |-> E(f, u)]
    BY <2>2
  <2> QED BY <1>1, <2>3
<1>3. ASSUME NEW k \in 0..(N - 1), k \in Good PROVE k + 1 \in Good
  <2>1. PICK f : f = [u \in (from - 1)..Up(k) |-> E(f, u)]
    BY <1>3
  <2> DEFINE g == [u \in (from - 1)..Up(k + 1) |->
                     IF u <= Up(k) THEN f[u] ELSE AppendUnit(f[u - 1], u)]
  <2>2. ASSUME NEW u \in (from - 1)..Up(k + 1) PROVE g[u] = E(g, u)
    <3>1. CASE u <= Up(k)
      <4>1. u \in (from - 1)..Up(k) /\ g[u] = f[u]
        BY <1>1, <3>1
      <4>2. f[u] = E(f, u)
        BY <2>1, <4>1
      <4>3. u >= from => u - 1 \in (from - 1)..Up(k) /\ g[u - 1] = f[u - 1]
        BY <1>1, <3>1
      <4> HIDE DEF g
      <4> QED BY <1>1, <4>1, <4>2, <4>3
    <3>2. CASE u > Up(k)
      <4>1. u - 1 \in (from - 1)..Up(k) /\ u >= from
        BY <1>1, <3>2
      <4>2. g[u] = AppendUnit(f[u - 1], u) /\ g[u - 1] = f[u - 1]
        BY <1>1, <3>2, <4>1
      <4> HIDE DEF g
      <4> QED BY <1>1, <4>1, <4>2
    <3> QED BY <1>1, <3>1, <3>2
  <2>3. g = [u \in (from - 1)..Up(k + 1) |-> g[u]]
    OBVIOUS
  <2>4. g = [u \in (from - 1)..Up(k + 1) |-> E(g, u)]
    <3> HIDE DEF g
    <3> QED BY <2>2, <2>3
  <2>5. k + 1 \in 0..N
    BY <1>1
  <2> HIDE DEF g
  <2> QED BY <2>4, <2>5
<1>4. N \in Good
  <2> HIDE DEF Good, N
  <2>1. 0..N \subseteq Good
    BY <1>1, <1>2, <1>3, IntervalInduction
  <2> QED BY <1>1, <2>1
<1>5. After = [u \in (from - 1)..last |-> E(After, u)]
  BY <1>1, <1>4
<1>6. AppendUnits(out, from, last) = After[last]
  BY <1>1 DEF AppendUnits
<1> HIDE DEF After
<1>7. After[from - 1] = out /\ \A u \in from..last : After[u] = AppendUnit(After[u - 1], u)
  <2>1. \A u \in (from - 1)..last : After[u] = E(After, u)
    BY <1>5
  <2>2. from - 1 \in (from - 1)..last /\ from - 1 < from
    BY <1>1
  <2>3. \A u \in from..last : u \in (from - 1)..last /\ ~(u < from)
    BY <1>1
  <2> QED BY <2>1, <2>2, <2>3
<1> DEFINE Fine == {k \in 0..N : Appended(prefix, from, After[Up(k)], Up(k) + 1)}
<1>8. 0 \in Fine
  <2>1. Up(0) = from - 1 /\ Up(0) + 1 = from
    BY <1>1
  <2> QED BY <1>1, <1>7, <2>1
<1>9. ASSUME NEW k \in 0..(N - 1), k \in Fine PROVE k + 1 \in Fine
  <2> DEFINE u == from + k
  <2>1. /\ u \in from..last /\ u \in Nat /\ u \in Units /\ Up(k) = u - 1 /\ Up(k) + 1 = u
        /\ Up(k + 1) = u /\ k + 1 \in 0..N
    <3>1. MaxSdus * SduSize \in Nat
      BY Parameters
    <3> DEFINE m == MaxSdus * SduSize
    <3>2. last <= m - 1 /\ m \in Nat
      BY <3>1 DEF Units
    <3> HIDE DEF m
    <3>3. u \in 0..(m - 1)
      BY <1>1, <3>2
    <3> QED BY <1>1, <3>3 DEF m, Units
  <2>2. Appended(prefix, from, After[u - 1], u)
    BY <1>9, <2>1
  <2> HIDE DEF u, Up
  <2>3. from <= u
    BY <2>1
  <2>4. Appended(prefix, from, AppendUnit(After[u - 1], u), u + 1)
    BY <2>1, <2>2, <2>3, AppendUnitIs
  <2>5. Appended(prefix, from, After[Up(k + 1)], Up(k + 1) + 1)
    BY <1>7, <2>1, <2>4
  <2> QED BY <2>1, <2>5
<1>10. N \in Fine
  <2> HIDE DEF Fine, N
  <2>1. 0..N \subseteq Fine
    BY <1>1, <1>8, <1>9, IntervalInduction
  <2> QED BY <1>1, <2>1
<1> QED BY <1>1, <1>6, <1>10

-----------------------------------------------------------------------------
(* The PDUs, one after the other, carry the stream.                        *)

\* How far the first m PDUs go.
End(m) == IF m = 0 THEN 0 ELSE pdus[m].last + 1

Segments ==
  /\ pdus \in Seq([first : Units, last : Units])
  /\ \A n \in 1..Len(pdus) : pdus[n].first = End(n - 1) /\ pdus[n].first <= pdus[n].last

\* The PDU n carries the units from End(n) to before End(n + 1), at least one.
LEMMA PduIs ==
  ASSUME Segments, NEW n \in PduNumbers
  PROVE  /\ n \in Nat /\ n < Len(pdus) /\ Len(pdus) \in Nat
         /\ pdus[n + 1].first = End(n) /\ pdus[n + 1].last = End(n + 1) - 1
         /\ End(n) \in Units /\ End(n) \in Nat /\ End(n + 1) \in Nat /\ End(n) < End(n + 1)
         /\ End(n + 1) - 1 \in Units /\ Units \subseteq Nat
<1>1. Len(pdus) \in Nat /\ n \in Nat /\ n + 1 \in 1..Len(pdus) /\ (n + 1) - 1 = n
  BY DEF Segments, PduNumbers
<1>2. /\ pdus[n + 1].first = End(n) /\ pdus[n + 1].first <= pdus[n + 1].last
      /\ pdus[n + 1] \in [first : Units, last : Units]
  <2> DEFINE k == n + 1
  <2>1. k \in 1..Len(pdus) /\ k - 1 = n
    BY <1>1
  <2> HIDE DEF k
  <2>2. pdus[k].first = End(k - 1) /\ pdus[k].first <= pdus[k].last
    BY <2>1 DEF Segments
  <2>3. pdus[k] \in [first : Units, last : Units]
    BY <2>1, ElementOfSeq DEF Segments
  <2> QED BY <2>1, <2>2, <2>3 DEF k
<1>3. Units \subseteq Nat
  BY Parameters DEF Units
<1>4. pdus[n + 1].first \in Units /\ pdus[n + 1].last \in Units
  BY <1>2
<1>5. End(n + 1) = pdus[n + 1].last + 1
  BY <1>1 DEF End
<1>6. pdus[n + 1].first \in Nat /\ pdus[n + 1].last \in Nat
  BY <1>3, <1>4
<1>7. End(n + 1) - 1 = pdus[n + 1].last
  BY <1>5, <1>6
<1> QED BY <1>1, <1>2, <1>3, <1>4, <1>5, <1>6, <1>7

\* The stream begins at 0.
LEMMA EndIsNat ==
  ASSUME Segments, NEW m \in 0..Len(pdus)
  PROVE  End(m) \in Nat
<1>1. CASE m = 0
  BY <1>1 DEF End
<1>2. CASE m # 0
  <2>1. m - 1 \in PduNumbers /\ (m - 1) + 1 = m
    BY <1>2 DEF Segments, PduNumbers
  <2> QED BY <2>1, PduIs
<1> QED BY <1>1, <1>2

\* More PDUs go further.
LEMMA EndGrows ==
  ASSUME Segments, NEW a \in 0..Len(pdus), NEW b \in a..Len(pdus)
  PROVE  End(a) <= End(b)
<1> DEFINE Good == {k \in 0..(Len(pdus) - a) : End(a) <= End(a + k)}
<1>1. Len(pdus) \in Nat /\ a \in Nat /\ b \in Nat /\ a <= b /\ b <= Len(pdus)
  BY DEF Segments
<1>2. 0 \in Good
  <2>1. a + 0 = a /\ End(a) \in Nat
    BY EndIsNat
  <2> QED BY <1>1, <2>1
<1>3. ASSUME NEW k \in 0..((Len(pdus) - a) - 1), k \in Good
      PROVE  k + 1 \in Good
  <2>1. a + k \in PduNumbers /\ (a + k) + 1 = a + (k + 1) /\ k + 1 \in 0..(Len(pdus) - a)
    BY <1>1 DEF PduNumbers
  <2>2. End(a + k) < End(a + (k + 1)) /\ End(a + k) \in Nat /\ End(a + (k + 1)) \in Nat
    BY <2>1, PduIs
  <2>3. End(a) \in Nat /\ End(a) <= End(a + k)
    BY <1>3, EndIsNat
  <2>4. End(a) <= End(a + (k + 1))
    BY <2>2, <2>3
  <2> QED BY <2>1, <2>4
<1>4. 0..(Len(pdus) - a) \subseteq Good
  <2>1. Len(pdus) - a \in Nat
    BY <1>1
  <2> DEFINE N == Len(pdus) - a
  <2> HIDE DEF Good, N
  <2>2. N \in Nat /\ \A k \in 0..(N - 1) : k \in Good => k + 1 \in Good
    BY <1>3, <2>1 DEF N
  <2>3. 0..N \subseteq Good
    BY <1>2, <2>2, IntervalInduction
  <2> QED BY <2>3 DEF N
<1>5. b - a \in 0..(Len(pdus) - a) /\ a + (b - a) = b
  BY <1>1
<1> QED BY <1>4, <1>5

\* A PDU carries the SDUs of its units.
LEMMA CarriesUnit ==
  ASSUME Segments, NEW n \in PduNumbers, NEW u \in End(n)..(End(n + 1) - 1)
  PROVE  u \in Units /\ Carries(n, Sdu(u))
<1>1. /\ pdus[n + 1].first = End(n) /\ pdus[n + 1].last = End(n + 1) - 1
      /\ End(n) \in Nat /\ End(n + 1) - 1 \in Units /\ End(n + 1) \in Nat
  BY PduIs
<1>2. u \in Units
  <2> DEFINE m == MaxSdus * SduSize
  <2>1. m \in Nat
    BY Parameters
  <2>2. End(n + 1) - 1 <= m - 1
    BY <1>1 DEF Units
  <2> HIDE DEF m
  <2>3. u \in 0..(m - 1)
    BY <1>1, <2>1, <2>2
  <2> QED BY <2>3 DEF m, Units
<1> QED BY <1>1, <1>2 DEF Carries, UnitsOf

\* Where an SDU ends.
LEMMA SduEndsWithin ==
  ASSUME NEW a \in Nat, NEW b \in Nat, NEW s \in Nat, Sdu(a) <= s, s < Sdu(b)
  PROVE  \E u \in a..(b - 1) : Sdu(u) = s
<1> DEFINE u == (s + 1) * SduSize - 1
<1>1. u \in Nat /\ Sdu(u) = s
  BY SduEdges
<1>2. (s + 1) * SduSize \in Nat /\ Sdu((s + 1) * SduSize) = s + 1 /\ u + 1 = (s + 1) * SduSize
  <2>1. s + 1 \in Nat
    OBVIOUS
  <2>2. (s + 1) * SduSize \in Nat /\ Sdu((s + 1) * SduSize) = s + 1
    BY <2>1, SduEdges
  <2> QED BY <2>2
<1>3. Sdu(u + 1) = s + 1 /\ u + 1 \in Nat
  BY <1>1, <1>2
<1> HIDE DEF u
<1>4. Sdu(a) \in Nat /\ Sdu(b) \in Nat
  BY UnitCounts
<1>5. a <= u
  <2>1. u + 1 <= a => s + 1 <= Sdu(a)
    BY <1>3, SduGrows
  <2> QED BY <1>1, <1>4, <2>1
<1>6. u < b
  <2>1. b <= u => Sdu(b) <= s
    BY <1>1, SduGrows
  <2> QED BY <1>1, <1>4, <2>1
<1> QED BY <1>1, <1>5, <1>6

\* Of an SDU that ends in the PDU n, or that n breaks off, n carries a unit.
LEMMA CarriesSdu ==
  ASSUME Segments, NEW n \in PduNumbers, NEW s \in Nat
  PROVE  /\ Sdu(End(n)) <= s /\ s < Sdu(End(n + 1)) => Carries(n, s)
         /\ End(n + 1) % SduSize # 0 /\ s = Sdu(End(n + 1)) => Carries(n, s)
<1>1. End(n) \in Nat /\ End(n + 1) \in Nat /\ End(n) < End(n + 1)
  BY PduIs
<1>2. ASSUME Sdu(End(n)) <= s, s < Sdu(End(n + 1)) PROVE Carries(n, s)
  BY <1>1, <1>2, SduEndsWithin, CarriesUnit
<1>3. ASSUME End(n + 1) % SduSize # 0, s = Sdu(End(n + 1)) PROVE Carries(n, s)
  <2> DEFINE u == End(n + 1) - 1
  <2>1. u \in Nat /\ u + 1 = End(n + 1) /\ u \in End(n)..(End(n + 1) - 1)
    BY <1>1
  <2> HIDE DEF u
  <2>2. ~EndsSdu(u)
    BY <1>3, <2>1, UnitCounts
  <2>3. Sdu(u) = s
    BY <1>3, <2>1, <2>2, UnitCounts
  <2> QED BY <2>1, <2>3, CarriesUnit
<1> QED BY <1>2, <1>3

-----------------------------------------------------------------------------
(* Reassembly of one PDU after the other.                                  *)

\* A PDU before m, with a part of the SDU s, is not among those stored.
Missed(acc, m, s) == \E n \in 0..(m - 1) : Carries(n, s) /\ n \notin acc

\* The receiver r has passed the PDUs before m; acc are the PDUs that it has stored.
Stage(r, m, acc) ==
  /\ \A s \in SN : Buffered(r, s) =>
       r.dar_buffer[s] \in acc /\ m <= r.dar_buffer[s] /\ s = Sn(r.dar_buffer[s])
  /\ \A n \in acc : m <= n => r.dar_buffer[Sn(n)] = n
  /\ Delivered(r.delivered, End(m))
  /\ \A s \in 0..(Sdu(End(m)) - 1) :
       Missed(acc, m, s) \/ \E i \in 1..Len(r.delivered) : Sdu(r.delivered[i][1]) = s
  /\ IF r.missing
     THEN r.output_sdu = << >> /\ (End(m) % SduSize # 0 => Missed(acc, m, Sdu(End(m))))
     ELSE r.last_reassemblied_sn = Sn(m - 1) /\ r.output_sdu = Fragment(End(m))

\* What reassembly leaves alone.
Reassembled(q, r) ==
  /\ q.vr_ur = r.vr_ur /\ q.vr_ux = r.vr_ux /\ q.vr_uh = r.vr_uh
  /\ q.t_reordering = r.t_reordering /\ Extends(q.delivered, r.delivered)

\* The PDUs m to high - 1 fit the sequence numbers.
Span(acc, m, high) ==
  /\ m \in Nat /\ high \in 0..Len(pdus) /\ high - m <= Modulo
  /\ acc \subseteq 0..(high - 1)

\* Within a round from m on, the buffer tells which PDUs have been stored.
LEMMA BufferIs ==
  ASSUME Segments, NEW r \in ReceiverType, NEW acc, NEW m, NEW high,
         Span(acc, m, high), Stage(r, m, acc), NEW n \in m..(m + Modulo - 1)
  PROVE  Buffered(r, Sn(n)) <=> n \in acc
<1>1. /\ m \in Nat /\ high \in Nat /\ Modulo \in Nat /\ n \in Nat /\ m <= n /\ n < m + Modulo
      /\ high - m <= Modulo /\ \A k \in acc : k \in Nat /\ k < high
  <2>1. m \in Nat /\ high \in Nat /\ Modulo \in Nat
    BY Parameters DEF Span, Segments
  <2> QED BY <2>1 DEF Span
<1>2. Sn(n) \in SN
  BY <1>1, SnDivides
<1>3. ASSUME Buffered(r, Sn(n)) PROVE n \in acc
  <2> DEFINE k == r.dar_buffer[Sn(n)]
  <2>1. k \in acc /\ m <= k /\ Sn(n) = Sn(k)
    BY <1>2, <1>3 DEF Stage
  <2> HIDE DEF k
  <2>2. k \in Int /\ n \in Int /\ k - n < Modulo /\ n - k < Modulo
    BY <1>1, <2>1
  <2>3. k = n
    BY <2>1, <2>2, SnTells
  <2> QED BY <2>1, <2>3
<1>4. ASSUME n \in acc PROVE Buffered(r, Sn(n))
  BY <1>1, <1>4 DEF Stage, Buffered, NoPdu
<1> QED BY <1>3, <1>4

\* A PDU that is not there.
LEMMA PassMissing ==
  ASSUME Segments, NEW r \in ReceiverType, NEW acc \in SUBSET Nat, NEW m \in PduNumbers,
         Stage(r, m, acc), m \notin acc
  PROVE  Stage([r EXCEPT !.missing = TRUE, !.output_sdu = << >>], m + 1, acc)
<1> DEFINE q == [r EXCEPT !.missing = TRUE, !.output_sdu = << >>]
<1>1. /\ q.dar_buffer = r.dar_buffer /\ q.delivered = r.delivered
      /\ q.missing = TRUE /\ q.output_sdu = << >>
  BY DEF ReceiverType
<1> HIDE DEF q
<1>2. /\ m \in Nat /\ m + 1 \in Nat /\ End(m) \in Nat /\ End(m + 1) \in Nat /\ End(m) <= End(m + 1)
      /\ Sdu(End(m)) \in Nat /\ Sdu(End(m + 1)) \in Nat /\ Sdu(End(m)) <= Sdu(End(m + 1))
  <2>1. m \in Nat /\ End(m) \in Nat /\ End(m + 1) \in Nat /\ End(m) <= End(m + 1)
    BY PduIs
  <2> QED BY <2>1, SduGrows, UnitCounts
<1>3. m \in 0..((m + 1) - 1) /\ 0..(m - 1) \subseteq 0..((m + 1) - 1)
  BY <1>2
<1>4. \A s : Missed(acc, m, s) => Missed(acc, m + 1, s)
  BY <1>3 DEF Missed
<1>5. \A s : Carries(m, s) => Missed(acc, m + 1, s)
  BY <1>3 DEF Missed
<1>6. ASSUME NEW s \in SN, Buffered(q, s)
      PROVE  q.dar_buffer[s] \in acc /\ m + 1 <= q.dar_buffer[s] /\ s = Sn(q.dar_buffer[s])
  <2> DEFINE n == r.dar_buffer[s]
  <2>1. n \in acc /\ m <= n /\ s = Sn(n) /\ n \in PduNumbers \cup {NoPdu} /\ n # NoPdu
    BY <1>1, <1>6 DEF Stage, Buffered, ReceiverType
  <2> HIDE DEF n
  <2>2. n # m /\ n \in Int
    BY <2>1 DEF PduNumbers
  <2>3. m + 1 <= n
    BY <1>2, <2>1, <2>2
  <2> QED BY <1>1, <2>1, <2>3 DEF n
<1>7. ASSUME NEW n \in acc, m + 1 <= n PROVE q.dar_buffer[Sn(n)] = n
  <2>1. m <= n
    BY <1>2, <1>7
  <2> QED BY <1>1, <2>1 DEF Stage
<1>8. Delivered(q.delivered, End(m + 1))
  BY <1>1, <1>2, DeliveredLater DEF Stage, ReceiverType
<1>9. ASSUME NEW s \in 0..(Sdu(End(m + 1)) - 1)
      PROVE  Missed(acc, m + 1, s) \/ \E i \in 1..Len(q.delivered) : Sdu(q.delivered[i][1]) = s
  <2>1. CASE s < Sdu(End(m))
    <3>1. s \in 0..(Sdu(End(m)) - 1)
      BY <1>2, <2>1
    <3> QED BY <1>1, <1>4, <3>1 DEF Stage
  <2>2. CASE Sdu(End(m)) <= s
    <3>1. s \in Nat /\ s < Sdu(End(m + 1))
      BY <1>2
    <3> QED BY <1>5, <2>2, <3>1, CarriesSdu
  <2> QED BY <1>2, <2>1, <2>2
<1>10. End(m + 1) % SduSize # 0 => Missed(acc, m + 1, Sdu(End(m + 1)))
  BY <1>2, <1>5, CarriesSdu
<1> QED BY <1>1, <1>6, <1>7, <1>8, <1>9, <1>10 DEF Stage, q

\* A PDU that is there.
LEMMA PassBuffered ==
  ASSUME Segments, NEW r \in ReceiverType, NEW acc \in SUBSET Nat, NEW m \in PduNumbers,
         NEW high, Span(acc, m, high), Stage(r, m, acc), m \in acc
  PROVE  LET q == Reassemble(r, Sn(m)) IN
         q \in ReceiverType /\ Stage(q, m + 1, acc) /\ Reassembled(q, r)
<1> DEFINE sn == Sn(m)
           first == End(m)
           last == End(m + 1) - 1
           e == End(m + 1)
           kept == IF BeginsSdu(first) \/ Sn(r.last_reassemblied_sn + 1) # sn
                   THEN << >> ELSE r.output_sdu
           headless == r.missing /\ ~BeginsSdu(first)
           from == IF headless THEN (Sdu(first) + 1) * SduSize ELSE first
           start == [output_sdu |-> kept, delivered |-> r.delivered]
           out == AppendUnits(start, from, last)
           broken == headless /\ from > last /\ ~EndsSdu(last)
           q == [r EXCEPT !.last_reassemblied_sn = sn, !.output_sdu = out.output_sdu,
                          !.delivered = out.delivered, !.missing = broken,
                          !.dar_buffer[sn] = NoPdu]
<1>1. /\ m \in Nat /\ m + 1 \in Nat /\ first \in Nat /\ last \in Nat /\ e \in Nat /\ e = last + 1
      /\ first <= last /\ first \in Units /\ last \in Units
      /\ pdus[m + 1].first = first /\ pdus[m + 1].last = last
      /\ Sdu(first) \in Nat /\ Sdu(e) \in Nat /\ Sdu(first) <= Sdu(e)
  <2>1. /\ m \in Nat /\ first \in Nat /\ last \in Units /\ e \in Nat /\ first \in Units /\ first < e
        /\ pdus[m + 1].first = first /\ pdus[m + 1].last = last
    BY PduIs
  <2> QED BY <2>1, SduGrows, UnitCounts
<1>2. sn \in SN /\ r.dar_buffer[sn] = m /\ Buffered(r, sn)
  <2>1. sn \in SN
    BY <1>1, SnDivides
  <2> QED BY <1>1, <2>1 DEF Stage, Buffered, NoPdu
<1>3. Reassemble(r, sn) = q
  BY <1>1, <1>2, ZenonT(40) DEF Reassemble
<1>4. /\ Delivered(r.delivered, first) /\ r.delivered \in Seq(Seq(Units))
      /\ r.output_sdu \in Seq(Units) /\ r.missing \in BOOLEAN
      /\ r.missing => r.output_sdu = << >> /\ (first % SduSize # 0 => Missed(acc, m, Sdu(first)))
      /\ ~r.missing => r.last_reassemblied_sn = Sn(m - 1) /\ r.output_sdu = Fragment(first)
  BY DEF Stage, ReceiverType
<1>5. ~r.missing => Sn(r.last_reassemblied_sn + 1) = sn
  <2>1. Sn(Sn(m - 1) + 1) = Sn(m - 1 + 1) /\ m - 1 + 1 = m
    <3> DEFINE k == m - 1
    <3>1. k \in Int /\ k + 1 = m
      BY <1>1
    <3> HIDE DEF k
    <3>2. Sn(Sn(k) + 1) = Sn(k + 1)
      BY <3>1, SnAdds
    <3> QED BY <3>1, <3>2 DEF k
  <2> QED BY <1>4, <2>1
<1>6. kept = Fragment(from) /\ from \in Nat /\ Fragment(from) \in Seq(Units)
      /\ first <= from /\ Sdu(from) = (IF headless THEN Sdu(first) + 1 ELSE Sdu(first))
  <2>1. BeginsSdu(first) => Fragment(first) = << >>
    BY <1>1, FragmentGrows DEF BeginsSdu
  <2>2. CASE ~headless
    BY <1>1, <1>4, <1>5, <2>1, <2>2, FragmentGrows
  <2>3. CASE headless
    <3>1. (Sdu(first) + 1) * SduSize \in Nat /\ ((Sdu(first) + 1) * SduSize) % SduSize = 0
          /\ Sdu((Sdu(first) + 1) * SduSize) = Sdu(first) + 1
      <4>1. Sdu(first) + 1 \in Nat
        BY <1>1
      <4> QED BY <4>1, SduEdges
    <3>2. from = (Sdu(first) + 1) * SduSize
      BY <2>3
    <3>3. Fragment(from) = << >>
      BY <3>1, <3>2, FragmentGrows
    <3>4. first <= from
      <4>1. from <= first => Sdu(from) <= Sdu(first)
        BY <1>1, <3>1, <3>2, SduGrows
      <4> HIDE DEF first, from
      <4> QED BY <1>1, <3>1, <3>2, <4>1
    <3>5. kept = << >>
      BY <1>4, <2>3
    <3>6. << >> \in Seq(Units)
      OBVIOUS
    <3> QED BY <2>3, <3>1, <3>2, <3>3, <3>4, <3>5, <3>6
  <2> QED BY <2>2, <2>3
<1> HIDE DEF first, last, e, kept, headless, from
<1>7. /\ out.output_sdu \in Seq(Units) /\ out.delivered \in Seq(Seq(Units))
      /\ Delivered(out.delivered, e) /\ Extends(out.delivered, r.delivered)
      /\ \A s \in Sdu(from)..(Sdu(e) - 1) :
           \E i \in 1..Len(out.delivered) : Sdu(out.delivered[i][1]) = s
      /\ ~broken => out.output_sdu = Fragment(e)
      /\ broken => out.output_sdu = << >>
  <2>1. CASE from <= last
    <3>1. start \in [output_sdu : Seq(Units), delivered : Seq(Seq(Units))]
          /\ start.output_sdu = Fragment(from) /\ start.delivered = r.delivered
      BY <1>4, <1>6
    <3>2. Delivered(r.delivered, from)
      BY <1>1, <1>4, <1>6, DeliveredLater
    <3>3. Extends(r.delivered, r.delivered)
      BY <1>4 DEF Extends
    <3>4. Sdu(from)..(Sdu(from) - 1) = {}
      BY <1>1, <1>6
    <3>5. Appended(r.delivered, from, start, from)
      BY <3>1, <3>2, <3>3, <3>4 DEF Appended
    <3> HIDE DEF start
    <3>6. Appended(r.delivered, from, out, e)
      BY <1>1, <1>4, <1>6, <2>1, <3>5, AppendUnitsIs
    <3>7. ~broken
      BY <1>1, <1>6, <2>1
    <3> HIDE DEF out, broken
    <3> QED BY <3>6, <3>7 DEF Appended
  <2>2. CASE from > last
    <3>1. out = start
      BY <2>2 DEF AppendUnits
    <3>2. headless /\ e <= from
      BY <1>1, <1>6, <2>2 DEF from
    <3>3. kept = << >>
      BY <1>4, <3>2 DEF kept, headless
    <3>4. Delivered(r.delivered, e) /\ Extends(r.delivered, r.delivered)
      <4>1. first <= e
        BY <1>1
      <4> QED BY <1>1, <1>4, <4>1, DeliveredLater DEF Extends
    <3>5. Sdu(from)..(Sdu(e) - 1) = {}
      <4>1. Sdu(e) <= Sdu(from)
        BY <1>1, <1>6, <3>2, SduGrows
      <4>2. Sdu(from) \in Nat
        BY <1>6, UnitCounts
      <4> QED BY <1>1, <4>1, <4>2
    <3>6. ~broken => Fragment(e) = << >>
      <4>1. ~broken => EndsSdu(last)
        BY <2>2, <3>2
      <4>2. EndsSdu(last) => e % SduSize = 0
        BY <1>1, UnitCounts
      <4> QED BY <1>1, <4>1, <4>2, FragmentGrows
    <3>7. << >> \in Seq(Units)
      OBVIOUS
    <3>8. out.output_sdu = << >> /\ out.delivered = r.delivered
      BY <3>1, <3>3
    <3> HIDE DEF broken, out
    <3> QED BY <1>4, <3>4, <3>5, <3>6, <3>7, <3>8
  <2>3. from <= last \/ from > last
    BY <1>1, <1>6
  <2> HIDE DEF out, broken
  <2> QED BY <2>1, <2>2, <2>3
<1> HIDE DEF out
<1>8. /\ q \in ReceiverType /\ Reassembled(q, r)
      /\ q.dar_buffer = [r.dar_buffer EXCEPT ![sn] = NoPdu]
      /\ q.delivered = out.delivered /\ q.output_sdu = out.output_sdu
      /\ q.missing = broken /\ q.last_reassemblied_sn = sn
  <2>1. broken \in BOOLEAN
    BY <1>4 DEF headless
  <2> HIDE DEF broken
  <2>2. NoPdu \in PduNumbers \cup {NoPdu}
    OBVIOUS
  <2> QED BY <1>2, <1>7, <2>1, <2>2 DEF ReceiverType, Reassembled
<1> HIDE DEF q
<1>9. \A s : Missed(acc, m, s) => Missed(acc, m + 1, s)
  BY <1>1 DEF Missed
<1>10. ASSUME NEW s \in SN, Buffered(q, s)
       PROVE  q.dar_buffer[s] \in acc /\ m + 1 <= q.dar_buffer[s] /\ s = Sn(q.dar_buffer[s])
  <2> DEFINE n == r.dar_buffer[s]
  <2>1. s # sn /\ q.dar_buffer[s] = n
    BY <1>8, <1>10 DEF Buffered, ReceiverType
  <2>2. n \in acc /\ m <= n /\ s = Sn(n)
    BY <1>10, <2>1 DEF Stage, Buffered
  <2>3. n # m
    BY <2>1, <2>2
  <2> HIDE DEF n
  <2>4. m + 1 <= n
    BY <1>1, <2>2, <2>3
  <2> QED BY <2>1, <2>2, <2>4
<1>11. ASSUME NEW n \in acc, m + 1 <= n PROVE q.dar_buffer[Sn(n)] = n
  <2>1. m <= n /\ n \in Nat /\ n - m < Modulo /\ m - n < Modulo
    <3>1. high \in Nat /\ high - m <= Modulo /\ Modulo \in Nat
      BY Parameters DEF Span, Segments
    <3>2. n \in Nat /\ n < high
      BY <3>1 DEF Span
    <3>3. m \in Nat
      BY <1>1
    <3> QED BY <1>11, <3>1, <3>2, <3>3
  <2>2. Sn(n) # sn
    BY <1>1, <1>11, <2>1, SnTells
  <2>3. r.dar_buffer[Sn(n)] = n /\ Sn(n) \in SN
    BY <2>1, SnDivides DEF Stage
  <2> QED BY <1>8, <2>2, <2>3 DEF ReceiverType
<1>12. headless => Missed(acc, m, Sdu(first))
  BY <1>4 DEF headless, BeginsSdu
<1>13. ASSUME NEW s \in 0..(Sdu(e) - 1)
       PROVE  Missed(acc, m + 1, s) \/ \E i \in 1..Len(q.delivered) : Sdu(q.delivered[i][1]) = s
  <2>1. CASE s < Sdu(first)
    <3>1. s \in 0..(Sdu(first) - 1)
      BY <1>1, <2>1
    <3>2. Missed(acc, m, s) \/ \E i \in 1..Len(r.delivered) : Sdu(r.delivered[i][1]) = s
      BY <3>1 DEF Stage, first
    <3>3. ASSUME NEW i \in 1..Len(r.delivered)
          PROVE  i \in 1..Len(q.delivered) /\ q.delivered[i] = r.delivered[i]
      <4>1. Len(r.delivered) \in Nat /\ Len(q.delivered) \in Nat
        BY <1>4, <1>7, <1>8
      <4> QED BY <1>7, <1>8, <4>1 DEF Extends
    <3> QED BY <1>9, <3>2, <3>3
  <2>2. CASE s = Sdu(first) /\ headless
    BY <1>9, <1>12, <2>2
  <2>3. CASE Sdu(from) <= s
    <3>1. Sdu(from) \in Nat
      BY <1>6, UnitCounts
    <3>2. s \in Sdu(from)..(Sdu(e) - 1)
      BY <1>1, <2>3, <3>1
    <3> QED BY <1>7, <1>8, <3>2
  <2>4. s < Sdu(first) \/ (s = Sdu(first) /\ headless) \/ Sdu(from) <= s
    BY <1>1, <1>6
  <2> QED BY <2>1, <2>2, <2>3, <2>4
<1>14. ASSUME broken, e % SduSize # 0 PROVE Missed(acc, m + 1, Sdu(e))
  <2>1. headless /\ last < from
    BY <1>1, <1>6, <1>14
  <2>2. Sdu(from) = Sdu(first) + 1 /\ ~EndsSdu(last)
    BY <1>6, <1>14, <2>1
  <2>3. Sdu(e) = Sdu(last) /\ Sdu(last) \in Nat
    BY <1>1, <2>2, UnitCounts
  <2>4. Sdu(e) <= Sdu(first)
    <3>1. (Sdu(first) + 1) * SduSize = from
      BY <2>1 DEF from
    <3>2. Sdu(from - 1) = Sdu(first)
      BY <1>1, <3>1, SduEdges
    <3>3. from - 1 \in Nat /\ last <= from - 1
      BY <1>1, <1>6, <2>1
    <3> QED BY <1>1, <2>3, <3>2, <3>3, SduGrows
  <2>5. Sdu(e) = Sdu(first)
    BY <1>1, <2>4
  <2> QED BY <1>9, <1>12, <2>1, <2>5
<1>15. m + 1 - 1 = m
  BY <1>1
<1>16. IF q.missing THEN q.output_sdu = << >> /\ (e % SduSize # 0 => Missed(acc, m + 1, Sdu(e)))
       ELSE q.last_reassemblied_sn = Sn(m + 1 - 1) /\ q.output_sdu = Fragment(e)
  <2> HIDE DEF broken
  <2> QED BY <1>7, <1>8, <1>14, <1>15
<1>17. Stage(q, m + 1, acc)
  <2>1. Delivered(q.delivered, End(m + 1))
    BY <1>7, <1>8 DEF e
  <2>2. \A s \in 0..(Sdu(End(m + 1)) - 1) :
          Missed(acc, m + 1, s) \/ \E i \in 1..Len(q.delivered) : Sdu(q.delivered[i][1]) = s
    BY <1>13 DEF e
  <2>3. IF q.missing
        THEN q.output_sdu = << >>
             /\ (End(m + 1) % SduSize # 0 => Missed(acc, m + 1, Sdu(End(m + 1))))
        ELSE q.last_reassemblied_sn = Sn(m + 1 - 1) /\ q.output_sdu = Fragment(End(m + 1))
    BY <1>16 DEF e
  <2> DEFINE k == m + 1
  <2>4. /\ \A s \in SN : Buffered(q, s) =>
             q.dar_buffer[s] \in acc /\ k <= q.dar_buffer[s] /\ s = Sn(q.dar_buffer[s])
        /\ \A n \in acc : k <= n => q.dar_buffer[Sn(n)] = n
    BY <1>10, <1>11
  <2> HIDE DEF out, broken, sn, start, k
  <2>5. Stage(q, k, acc)
    BY <2>1, <2>2, <2>3, <2>4 DEF Stage, k
  <2> QED BY <2>5 DEF k
<1> QED BY <1>3, <1>8, <1>17

\* Two reassemblies in a row.
LEMMA ReassembledTwice ==
  ASSUME NEW r \in ReceiverType, NEW p \in ReceiverType, NEW q \in ReceiverType,
         Reassembled(p, r), Reassembled(q, p)
  PROVE  Reassembled(q, r)
<1>1. Len(r.delivered) \in Nat /\ Len(p.delivered) \in Nat /\ Len(q.delivered) \in Nat
  BY DEF ReceiverType
<1>2. Extends(q.delivered, r.delivered)
  <2>1. Extends(q.delivered, p.delivered) /\ Extends(p.delivered, r.delivered)
    BY DEF Reassembled
  <2> QED BY <1>1, <2>1 DEF Extends
<1> QED BY <1>2 DEF Reassembled

\* And none at all.
LEMMA ReassembledNot ==
  ASSUME NEW r \in ReceiverType
  PROVE  Reassembled(r, r)
<1>1. Len(r.delivered) \in Nat
  BY DEF ReceiverType
<1> QED BY <1>1 DEF Reassembled, Extends

\* One turn of the loop of rlc_um_try_reassembly.
LEMMA ReassembleStep ==
  ASSUME Segments, NEW r \in ReceiverType, NEW acc \in SUBSET Nat, NEW m \in Nat,
         NEW high \in Nat, m < high, Span(acc, m, high), Stage(r, m, acc)
  PROVE  LET q == Reassemble(r, Sn(m)) IN
         q \in ReceiverType /\ Stage(q, m + 1, acc) /\ Reassembled(q, r)
<1>1. m \in PduNumbers /\ Len(pdus) \in Nat
  <2>1. Len(pdus) \in Nat /\ high <= Len(pdus)
    BY DEF Span, Segments
  <2> QED BY <2>1 DEF PduNumbers
<1>2. CASE m \in acc
  BY <1>1, <1>2, PassBuffered
<1>3. CASE m \notin acc
  <2>1. m \in m..(m + Modulo - 1)
    BY Parameters
  <2>2. ~Buffered(r, Sn(m))
    BY <1>3, <2>1, BufferIs
  <2> DEFINE q == [r EXCEPT !.missing = TRUE, !.output_sdu = << >>]
  <2>3. Reassemble(r, Sn(m)) = q
    BY <2>2 DEF Reassemble
  <2>4. Stage(q, m + 1, acc)
    BY <1>1, <1>3, PassMissing
  <2>5. q \in ReceiverType /\ q.delivered = r.delivered /\ Len(r.delivered) \in Nat
    <3>1. << >> \in Seq(Units) /\ TRUE \in BOOLEAN
      OBVIOUS
    <3>2. q \in ReceiverType
      BY <3>1 DEF ReceiverType
    <3>3. q.delivered = r.delivered /\ Len(r.delivered) \in Nat
      BY DEF ReceiverType
    <3> QED BY <3>2, <3>3
  <2>6. Reassembled(q, r)
    BY <2>5 DEF Reassembled, Extends, ReceiverType
  <2> QED BY <2>3, <2>4, <2>5, <2>6
<1> QED BY <1>2, <1>3

\* From one PDU to another.
LEMMA TryReassembly ==
  ASSUME Segments, NEW r \in ReceiverType, NEW acc \in SUBSET Nat,
         NEW a \in Nat, NEW b \in Nat, NEW c \in Nat, a <= b, b <= c, b - a < Modulo,
         Span(acc, a, c), r.vr_uh = Sn(c), Stage(r, a, acc)
  PROVE  LET q == try_reassembly(r, Sn(a), Sn(b)) IN
         q \in ReceiverType /\ Stage(q, b, acc) /\ Reassembled(q, r)
<1> DEFINE E(f, k) == IF k = 0 THEN r ELSE Reassemble(f[k - 1], Sn(Sn(a) + k - 1))
           After == CHOOSE f : f = [k \in 0..Modulo |-> E(f, k)]
           Good == {n \in 0..Modulo : \E f : f = [k \in 0..n |-> E(f, k)]}
           stops == {k \in 1..Modulo : Sn(Sn(a) + k) \in {r.vr_uh, Sn(b)}}
<1>1. Modulo \in Nat /\ Modulo >= 1 /\ c - a <= Modulo /\ Sn(a) \in Int
  BY Parameters, SnDivides DEF Span, SN
<1>2. CASE a = b
  BY <1>2, ReassembledNot DEF try_reassembly
<1>3. CASE a # b
  <2>1. a < b /\ b - a \in 1..Modulo
    BY <1>1, <1>3
  <2>2. Sn(a) # Sn(b)
    BY <1>1, <2>1, SnTells
  <2>3. \A k \in Int : Sn(Sn(a) + k) = Sn(a + k)
    BY SnAdds
  <2>4. stops \in SUBSET Nat /\ b - a \in stops
    <3>1. Sn(Sn(a) + (b - a)) = Sn(b)
      <4> DEFINE k == b - a
      <4>1. k \in Int /\ a + k = b
        OBVIOUS
      <4> HIDE DEF k
      <4>2. Sn(Sn(a) + k) = Sn(b)
        BY <2>3, <4>1
      <4> QED BY <4>2 DEF k
    <3> QED BY <2>1, <3>1
  <2>5. ASSUME NEW k \in stops PROVE b - a <= k
    <3> SUFFICES ASSUME k < b - a PROVE FALSE
      BY <1>1
    <3>1. k \in Nat /\ k >= 1 /\ (Sn(a + k) = Sn(c) \/ Sn(a + k) = Sn(b))
      BY <2>3, <2>5
    <3> DEFINE n == a + k
    <3>2. n \in Int /\ c - n < Modulo /\ n - c < Modulo /\ b - n < Modulo /\ n - b < Modulo
          /\ n # b /\ n # c
      BY <1>1, <2>1, <3>1
    <3> HIDE DEF n
    <3>3. Sn(n) = Sn(c) \/ Sn(n) = Sn(b)
      BY <3>1 DEF n
    <3> QED BY <3>2, <3>3, SnTells
  <2>6. Least(stops) = b - a
    <3>1. Least(stops) \in stops /\ Least(stops) <= b - a
      BY <2>4, LeastElement
    <3>2. b - a <= Least(stops)
      BY <2>5, <3>1
    <3>3. Least(stops) \in Int
      BY <2>4, <3>1
    <3> QED BY <3>1, <3>2, <3>3
  <2>7. 0 \in Good
    <3> DEFINE g == [k \in 0..0 |-> r]
    <3>1. g = [k \in 0..0 |-> E(g, k)]
      OBVIOUS
    <3>2. \E f : f = [k \in 0..0 |-> E(f, k)]
      BY <3>1
    <3> QED BY <1>1, <3>2
  <2>8. ASSUME NEW n \in 0..(Modulo - 1), n \in Good PROVE n + 1 \in Good
    <3>1. PICK f : f = [k \in 0..n |-> E(f, k)]
      BY <2>8
    <3> DEFINE g == [k \in 0..(n + 1) |-> IF k <= n THEN f[k]
                                          ELSE Reassemble(f[k - 1], Sn(Sn(a) + k - 1))]
    <3>2. ASSUME NEW k \in 0..(n + 1) PROVE g[k] = E(g, k)
      <4>1. CASE k <= n
        <5>1. k \in 0..n /\ g[k] = f[k]
          BY <4>1
        <5>2. f[k] = E(f, k)
          BY <3>1, <5>1
        <5>3. k # 0 => g[k - 1] = f[k - 1]
          BY <4>1
        <5> HIDE DEF g
        <5> QED BY <5>1, <5>2, <5>3
      <4>2. CASE k = n + 1
        <5>1. k # 0 /\ k - 1 \in 0..n /\ ~(k <= n)
          BY <1>1, <4>2
        <5>2. g[k] = Reassemble(f[k - 1], Sn(Sn(a) + k - 1)) /\ g[k - 1] = f[k - 1]
          BY <5>1
        <5> HIDE DEF g
        <5> QED BY <5>1, <5>2
      <4> QED BY <1>1, <4>1, <4>2
    <3>3. g = [k \in 0..(n + 1) |-> g[k]]
      OBVIOUS
    <3>4. g = [k \in 0..(n + 1) |-> E(g, k)]
      <4> HIDE DEF g
      <4> QED BY <3>2, <3>3
    <3>5. n + 1 \in 0..Modulo
      BY <1>1
    <3> HIDE DEF g
    <3> QED BY <3>4, <3>5
  <2>9. Modulo \in Good
    <3> HIDE DEF Good
    <3>1. 0..Modulo \subseteq Good
      BY <1>1, <2>7, <2>8, IntervalInduction
    <3> QED BY <1>1, <3>1
  <2>10. After = [k \in 0..Modulo |-> E(After, k)]
    BY <2>9
  <2>11. try_reassembly(r, Sn(a), Sn(b)) = After[b - a]
    <3>1. try_reassembly(r, Sn(a), Sn(b)) = After[Least(stops)]
      BY <2>2 DEF try_reassembly
    <3> HIDE DEF stops, After
    <3> QED BY <2>6, <3>1
  <2> HIDE DEF After
  <2>12. After[0] = r
    <3>1. 0 \in 0..Modulo
      BY <1>1
    <3> QED BY <2>10, <3>1
  <2>13. ASSUME NEW k \in 0..(Modulo - 1) PROVE After[k + 1] = Reassemble(After[k], Sn(a + k))
    <3>1. k + 1 \in 0..Modulo /\ k + 1 # 0 /\ (k + 1) - 1 = k /\ Sn(a) + (k + 1) - 1 = Sn(a) + k
      BY <1>1
    <3>2. After[k + 1] = Reassemble(After[(k + 1) - 1], Sn(Sn(a) + (k + 1) - 1))
      BY <2>10, <3>1
    <3> QED BY <2>3, <3>1, <3>2
  <2> DEFINE Fine == {k \in 0..(b - a) : /\ After[k] \in ReceiverType /\ Stage(After[k], a + k, acc)
                                         /\ Reassembled(After[k], r)}
  <2>14. 0 \in Fine
    <3>1. 0 \in 0..(b - a) /\ a + 0 = a
      BY <2>1
    <3> QED BY <2>12, <3>1, ReassembledNot
  <2>15. ASSUME NEW k \in 0..((b - a) - 1), k \in Fine PROVE k + 1 \in Fine
    <3> DEFINE m == a + k
               p == After[k]
               q == After[k + 1]
    <3>1. /\ m \in Nat /\ m < c /\ a + (k + 1) = m + 1 /\ k + 1 \in 0..(b - a)
          /\ k \in 0..(Modulo - 1)
      BY <1>1, <2>1
    <3>2. p \in ReceiverType /\ Stage(p, m, acc) /\ Reassembled(p, r)
      BY <2>15
    <3>3. q = Reassemble(p, Sn(m))
      BY <2>13, <3>1
    <3>4. Span(acc, m, c)
      BY <1>1, <3>1 DEF Span
    <3> HIDE DEF m, p, q
    <3>5. q \in ReceiverType /\ Stage(q, m + 1, acc) /\ Reassembled(q, p)
      BY <3>1, <3>2, <3>3, <3>4, ReassembleStep
    <3>6. Reassembled(q, r)
      BY <3>2, <3>5, ReassembledTwice
    <3> QED BY <3>1, <3>5, <3>6 DEF q
  <2>16. b - a \in Fine
    <3> DEFINE N == b - a
    <3>1. N \in Nat
      BY <2>1
    <3> HIDE DEF N
    <3>2. /\ \A k \in 0..(N - 1) : k \in Fine => k + 1 \in Fine
          /\ 0 \in Fine
      BY <2>14, <2>15 DEF N
    <3> HIDE DEF Fine
    <3>3. 0..N \subseteq Fine
      BY <3>1, <3>2, IntervalInduction
    <3> QED BY <3>1, <3>3 DEF N
  <2>17. a + (b - a) = b
    OBVIOUS
  <2> QED BY <2>11, <2>16, <2>17
<1> QED BY <1>2, <1>3

-----------------------------------------------------------------------------
(* The receiver: what becomes of it when a PDU arrives.                    *)

\* The receiver r stands at low, has heard of the PDUs before high and stored acc.
Standing(r, low, high, acc) ==
  /\ r \in ReceiverType /\ At(r, low, high) /\ Stage(r, low, acc)
  /\ high <= Len(pdus) /\ acc \in SUBSET (0..(high - 1))

\* t-Reordering waits for the PDUs before one that is in the window.
TimerAt(r, low, high) == r.t_reordering # "stopped" => \E u \in low..high : r.vr_ux = Sn(u)

\* Steps that leave the timer alone, and only add to what is delivered.
Moved(q, r) ==
  /\ q.vr_ux = r.vr_ux /\ q.t_reordering = r.t_reordering
  /\ Extends(q.delivered, r.delivered)

\* A round later the sequence number is the same.
LEMMA SnRound ==
  ASSUME NEW n \in Int
  PROVE  Sn(n + Modulo) = Sn(n)
<1>1. PICK q \in Int : n = Modulo * q + Sn(n)
  BY SnDivides
<1>2. Sn(n) \in SN /\ Sn(n) \in Int /\ Modulo \in Nat
  BY SnDivides, Parameters DEF SN
<1> DEFINE a == Modulo * q
           b == Modulo * (q + 1)
<1>3. a \in Int /\ b = a + Modulo
  BY <1>2
<1>4. n = a + Sn(n)
  BY <1>1
<1> HIDE DEF a, b
<1>5. n + Modulo = b + Sn(n) /\ n + Modulo \in Int /\ q + 1 \in Int
  BY <1>2, <1>3, <1>4
<1> QED BY <1>2, <1>5, SnIs DEF b

\* The reordering window, also for PDUs up to a round behind.
LEMMA ReorderingWindow ==
  ASSUME NEW r, NEW high \in Nat, r.vr_uh = Sn(high),
         NEW n \in (high - Modulo)..(high + Window - 1)
  PROVE  in_reordering_window(r, Sn(n)) <=> high - Window <= n /\ n < high
<1>1. Window \in Nat /\ Window >= 1 /\ Modulo = 2 * Window /\ high \in Int /\ n \in Int
  BY Parameters
<1>2. ASSUME NEW k \in (high - Window)..(high + Window - 1)
      PROVE  in_reordering_window(r, Sn(k)) <=> k < high
  <2> DEFINE b == Distance(r, Sn(k))
  <2>1. /\ k <= high => b = k - high + Window
        /\ k > high => b \in {k - high + Window, k - high + Window - Modulo}
    BY <1>1, DistanceIs
  <2>2. in_reordering_window(r, Sn(k)) <=> b \in 0..(Window - 1)
    BY DEF in_reordering_window, Distance
  <2> HIDE DEF b
  <2> QED BY <1>1, <2>1, <2>2
<1>3. CASE n >= high - Window
  <2>1. n \in (high - Window)..(high + Window - 1)
    BY <1>1, <1>3
  <2> QED BY <1>2, <1>3, <2>1
<1>4. CASE n < high - Window
  <2> DEFINE k == n + Modulo
  <2>1. k \in (high - Window)..(high + Window - 1) /\ ~(k < high)
    BY <1>1, <1>4
  <2>2. Sn(k) = Sn(n)
    BY <1>1, SnRound
  <2> HIDE DEF k
  <2>3. ~in_reordering_window(r, Sn(n))
    BY <1>2, <2>1, <2>2
  <2> QED BY <1>1, <1>4, <2>3
<1> QED BY <1>1, <1>3, <1>4

\* What is not discarded is not behind VR(UR).
LEMMA NotDiscarded ==
  ASSUME NEW r, NEW low, NEW high, At(r, low, high),
         NEW n \in (high - Window)..(high + Window - 1), ~Discard(r, Sn(n))
  PROVE  low <= n
<1>1. ~(n < low)
  BY Windows DEF Discard
<1>2. low \in Int /\ n \in Int
  BY Parameters DEF At
<1> QED BY <1>1, <1>2

\* A PDU is stored: no other one is at its place.
LEMMA StoreIs ==
  ASSUME Segments, NEW r, NEW low, NEW high, NEW acc, Standing(r, low, high, acc),
         NEW n \in PduNumbers, low <= n, n < high + Window
  PROVE  LET q == [r EXCEPT !.dar_buffer[Sn(n)] = n] IN
         /\ q \in ReceiverType /\ Stage(q, low, acc \cup {n}) /\ Buffered(q, Sn(n))
         /\ q.vr_ur = r.vr_ur /\ q.vr_uh = r.vr_uh /\ Moved(q, r) /\ q.delivered = r.delivered
<1> DEFINE q == [r EXCEPT !.dar_buffer[Sn(n)] = n]
<1>1. /\ low \in Nat /\ high \in Nat /\ low <= high /\ high - Window <= low /\ n \in Nat
      /\ Window \in Nat /\ Modulo = 2 * Window /\ r \in ReceiverType /\ Stage(r, low, acc)
      /\ acc \in SUBSET (0..(high - 1))
  <2>1. Len(pdus) \in Nat
    BY DEF Segments
  <2> QED BY <2>1, Parameters DEF Standing, At, PduNumbers
<1>2. Sn(n) \in SN
  BY <1>1, SnDivides
<1>3. /\ q \in ReceiverType /\ q.dar_buffer = [r.dar_buffer EXCEPT ![Sn(n)] = n]
      /\ q.dar_buffer[Sn(n)] = n /\ \A s \in SN \ {Sn(n)} : q.dar_buffer[s] = r.dar_buffer[s]
      /\ q.vr_ur = r.vr_ur /\ q.vr_uh = r.vr_uh /\ q.vr_ux = r.vr_ux
      /\ q.t_reordering = r.t_reordering /\ q.delivered = r.delivered
      /\ q.missing = r.missing /\ q.output_sdu = r.output_sdu
      /\ q.last_reassemblied_sn = r.last_reassemblied_sn
  BY <1>1, <1>2 DEF ReceiverType
<1> HIDE DEF q
<1>4. ASSUME NEW s \in SN, Buffered(q, s)
      PROVE  q.dar_buffer[s] \in acc \cup {n} /\ low <= q.dar_buffer[s] /\ s = Sn(q.dar_buffer[s])
  <2>1. CASE s = Sn(n)
    BY <1>3, <2>1
  <2>2. CASE s # Sn(n)
    BY <1>1, <1>3, <1>4, <2>2 DEF Stage, Buffered
  <2> QED BY <2>1, <2>2
<1>5. ASSUME NEW k \in acc \cup {n}, low <= k PROVE q.dar_buffer[Sn(k)] = k
  <2>1. CASE k = n
    BY <1>3, <2>1
  <2>2. CASE k # n
    <3>1. k \in acc /\ k \in Nat /\ k < high
      <4>1. k \in acc
        BY <2>2
      <4>2. k \in 0..(high - 1)
        BY <1>1, <4>1
      <4> QED BY <1>1, <4>1, <4>2
    <3>2. k - n < Modulo /\ n - k < Modulo /\ k \in Int /\ n \in Int
      BY <1>1, <1>5, <3>1
    <3>3. Sn(k) # Sn(n)
      BY <2>2, <3>2, SnTells
    <3>4. Sn(k) \in SN
      BY <3>1, SnDivides
    <3>5. r.dar_buffer[Sn(k)] = k
      BY <1>1, <1>5, <3>1 DEF Stage
    <3> QED BY <1>3, <3>3, <3>4, <3>5
  <2> QED BY <2>1, <2>2
<1>6. \A s : Missed(acc, low, s) => Missed(acc \cup {n}, low, s)
  <2>1. n \notin 0..(low - 1)
    BY <1>1
  <2> QED BY <2>1 DEF Missed
<1>7. Stage(q, low, acc \cup {n})
  <2>1. Delivered(q.delivered, End(low))
    BY <1>1, <1>3 DEF Stage
  <2>2. ASSUME NEW s \in 0..(Sdu(End(low)) - 1)
        PROVE  \/ Missed(acc \cup {n}, low, s)
               \/ \E i \in 1..Len(q.delivered) : Sdu(q.delivered[i][1]) = s
    BY <1>1, <1>3, <1>6, ZenonT(40) DEF Stage
  <2>3. IF q.missing
        THEN /\ q.output_sdu = << >>
             /\ End(low) % SduSize # 0 => Missed(acc \cup {n}, low, Sdu(End(low)))
        ELSE q.last_reassemblied_sn = Sn(low - 1) /\ q.output_sdu = Fragment(End(low))
    BY <1>1, <1>3, <1>6 DEF Stage
  <2> QED BY <1>4, <1>5, <2>1, <2>2, <2>3 DEF Stage
<1>8. Extends(q.delivered, r.delivered)
  <2>1. Len(r.delivered) \in Nat
    BY <1>1 DEF ReceiverType
  <2> QED BY <1>3, <2>1 DEF Extends
<1>9. Buffered(q, Sn(n))
  BY <1>1, <1>3 DEF Buffered, NoPdu
<1> QED BY <1>3, <1>7, <1>8, <1>9 DEF Moved, q

\* Where the windows stand is no part of a stage.
LEMMA StageSame ==
  ASSUME NEW r, NEW q, NEW m, NEW acc, Stage(r, m, acc),
         q.dar_buffer = r.dar_buffer, q.delivered = r.delivered, q.missing = r.missing,
         q.output_sdu = r.output_sdu, q.last_reassemblied_sn = r.last_reassemblied_sn
  PROVE  Stage(q, m, acc)
BY DEF Stage, Buffered

\* VR(UH) moves on, and VR(UR) if the window has left it behind.
LEMMA SlideIs ==
  ASSUME Segments, NEW r \in ReceiverType, NEW low, NEW mid, At(r, low, mid),
         mid <= Len(pdus), NEW n \in PduNumbers,
         n \in (mid - Window)..(mid + Window - 1), low <= n,
         NEW high, high = (IF n < mid THEN mid ELSE n + 1),
         NEW acc \in SUBSET (0..(high - 1)), Stage(r, low, acc)
  PROVE  LET q == SlideWindow(r, Sn(n)) IN
         \E lo \in low..high : Standing(q, lo, high, acc) /\ Moved(q, r)
<1>1. /\ low \in Nat /\ mid \in Nat /\ n \in Nat /\ high \in Nat /\ low <= mid /\ mid - Window <= low
      /\ Window \in Nat /\ Window >= 1 /\ Modulo = 2 * Window /\ n < mid + Window
      /\ high <= Len(pdus) /\ Len(pdus) \in Nat /\ mid <= high
  <2>1. Len(pdus) \in Nat /\ n < Len(pdus) /\ n \in Nat
    BY DEF Segments, PduNumbers
  <2> QED BY <2>1, Parameters DEF At
<1>2. r.vr_ur = Sn(low) /\ r.vr_uh = Sn(mid) /\ Moved(r, r)
  BY ReassembledNot DEF At, Moved, Reassembled
<1>3. in_reordering_window(r, Sn(n)) <=> n < mid
  BY <1>1, Windows
<1>4. CASE n < mid
  <2>1. SlideWindow(r, Sn(n)) = r /\ high = mid
    BY <1>3, <1>4 DEF SlideWindow
  <2>2. Standing(r, low, high, acc) /\ low \in low..high
    BY <1>1, <2>1 DEF Standing
  <2> QED BY <1>2, <2>1, <2>2
<1>5. CASE ~(n < mid)
  <2> DEFINE s == [r EXCEPT !.vr_uh = Sn(Sn(n) + 1)]
             b == high - Window
  <2>1. high = n + 1 /\ high - low <= Modulo
    BY <1>1, <1>5
  <2>2. Sn(Sn(n) + 1) = Sn(high) /\ Sn(high) \in SN
    <3>1. Sn(Sn(n) + 1) = Sn(n + 1)
      BY <1>1, SnAdds
    <3>2. high \in Int
      BY <1>1
    <3>3. Sn(high) \in SN
      BY <3>2, SnDivides
    <3> QED BY <2>1, <3>1, <3>3
  <2>3. /\ s \in ReceiverType /\ s.vr_uh = Sn(high) /\ s.vr_ur = Sn(low) /\ s.vr_ux = r.vr_ux
        /\ s.t_reordering = r.t_reordering /\ s.delivered = r.delivered
        /\ s.dar_buffer = r.dar_buffer /\ s.missing = r.missing /\ s.output_sdu = r.output_sdu
        /\ s.last_reassemblied_sn = r.last_reassemblied_sn
    BY <1>2, <2>2 DEF ReceiverType
  <2>4. SlideWindow(r, Sn(n)) =
          IF in_reordering_window(s, s.vr_ur) THEN s
          ELSE [try_reassembly(s, s.vr_ur, Sn(s.vr_uh - Window)) EXCEPT !.vr_ur = Sn(s.vr_uh - Window)]
    BY <1>3, <1>5 DEF SlideWindow
  <2> HIDE DEF s
  <2>5. Stage(s, low, acc) /\ Moved(s, r)
    BY <1>2, <2>3, StageSame DEF Moved
  <2>6. low \in (high - Modulo)..(high + Window - 1)
    BY <1>1, <2>1
  <2>7. in_reordering_window(s, s.vr_ur) <=> high - Window <= low /\ low < high
    BY <1>1, <2>3, <2>6, ReorderingWindow
  <2>8. Sn(s.vr_uh - Window) = Sn(b)
    <3>1. Sn(Sn(high) + (-Window)) = Sn(high + (-Window)) /\ -Window \in Int
      <4>1. high \in Int /\ -Window \in Int
        BY <1>1
      <4> QED BY <4>1, SnAdds
    <3>2. Sn(high) \in Int
      BY <2>2, Parameters DEF SN
    <3>3. Sn(high) + (-Window) = Sn(high) - Window /\ high + (-Window) = high - Window
      BY <1>1, <3>2
    <3> QED BY <2>3, <3>1, <3>3
  <2>9. CASE high - Window <= low
    <3>1. SlideWindow(r, Sn(n)) = s
      BY <1>1, <1>5, <2>1, <2>4, <2>7, <2>9
    <3>2. At(s, low, high)
      BY <1>1, <2>3, <2>9 DEF At
    <3>3. Standing(s, low, high, acc) /\ low \in low..high
      BY <1>1, <2>3, <2>5, <3>2 DEF Standing
    <3> QED BY <2>5, <3>1, <3>3
  <2>10. CASE ~(high - Window <= low)
    <3> DEFINE p == try_reassembly(s, Sn(low), Sn(b))
               q == [p EXCEPT !.vr_ur = Sn(b)]
    <3>1. b \in Nat /\ low <= b /\ b <= high /\ b - low < Modulo /\ Sn(b) \in SN
      <4>1. b \in Nat /\ low <= b /\ b <= high /\ b - low < Modulo
        BY <1>1, <2>1, <2>10
      <4> HIDE DEF b
      <4>2. Sn(b) \in SN
        BY <4>1, SnDivides
      <4> QED BY <4>1, <4>2
    <3>2. SlideWindow(r, Sn(n)) = q
      BY <2>3, <2>4, <2>7, <2>8, <2>10
    <3>3. Span(acc, low, high) /\ acc \in SUBSET Nat
      BY <1>1, <2>1 DEF Span
    <3> HIDE DEF b
    <3>4. p \in ReceiverType /\ Stage(p, b, acc) /\ Reassembled(p, s)
      BY <1>1, <2>3, <2>5, <3>1, <3>3, TryReassembly
    <3> HIDE DEF p
    <3>5. /\ q \in ReceiverType /\ q.vr_uh = Sn(high) /\ q.vr_ur = Sn(b) /\ q.vr_ux = r.vr_ux
          /\ q.t_reordering = r.t_reordering /\ q.delivered = p.delivered
          /\ q.dar_buffer = p.dar_buffer /\ q.missing = p.missing /\ q.output_sdu = p.output_sdu
          /\ q.last_reassemblied_sn = p.last_reassemblied_sn
      BY <2>3, <3>1, <3>4 DEF ReceiverType, Reassembled
    <3> HIDE DEF q
    <3>6. Stage(q, b, acc)
      BY <3>4, <3>5, StageSame
    <3>7. At(q, b, high)
      <4>1. high - Window <= b
        BY <1>1 DEF b
      <4> QED BY <1>1, <3>1, <3>5, <4>1 DEF At
    <3>8. Standing(q, b, high, acc) /\ b \in low..high
      BY <1>1, <3>1, <3>5, <3>6, <3>7 DEF Standing
    <3>9. Moved(q, r)
      BY <2>3, <3>4, <3>5 DEF Moved, Reassembled
    <3> QED BY <3>2, <3>8, <3>9
  <2> QED BY <2>9, <2>10
<1> QED BY <1>4, <1>5

\* From one PDU to another, and VR(UR) with it.
LEMMA StepForward ==
  ASSUME Segments, NEW r, NEW low, NEW high, NEW acc, Standing(r, low, high, acc),
         NEW b \in low..high
  PROVE  LET q == try_reassembly([r EXCEPT !.vr_ur = Sn(b)], Sn(low), Sn(b)) IN
         Standing(q, b, high, acc) /\ Moved(q, r)
<1>1. /\ low \in Nat /\ high \in Nat /\ b \in Nat /\ low <= b /\ b <= high /\ high - Window <= low
      /\ Window \in Nat /\ Window >= 1 /\ Modulo = 2 * Window /\ r \in ReceiverType
      /\ Stage(r, low, acc) /\ r.vr_uh = Sn(high) /\ high <= Len(pdus) /\ Len(pdus) \in Nat
      /\ acc \in SUBSET (0..(high - 1)) /\ acc \in SUBSET Nat
  <2>1. Len(pdus) \in Nat
    BY DEF Segments
  <2>2. low \in Nat /\ high \in Nat
    BY DEF Standing, At
  <2> QED BY <2>1, <2>2, Parameters DEF Standing, At
<1> DEFINE s == [r EXCEPT !.vr_ur = Sn(b)]
           q == try_reassembly(s, Sn(low), Sn(b))
<1>2. /\ s \in ReceiverType /\ s.vr_uh = Sn(high) /\ s.vr_ur = Sn(b) /\ s.vr_ux = r.vr_ux
      /\ s.t_reordering = r.t_reordering /\ s.delivered = r.delivered
      /\ s.dar_buffer = r.dar_buffer /\ s.missing = r.missing /\ s.output_sdu = r.output_sdu
      /\ s.last_reassemblied_sn = r.last_reassemblied_sn
  <2>1. Sn(b) \in SN
    BY <1>1, SnDivides
  <2> QED BY <1>1, <2>1 DEF ReceiverType
<1> HIDE DEF s
<1>3. Stage(s, low, acc)
  BY <1>1, <1>2, StageSame
<1>4. Span(acc, low, high) /\ b - low < Modulo
  BY <1>1 DEF Span
<1>5. q \in ReceiverType /\ Stage(q, b, acc) /\ Reassembled(q, s)
  BY <1>1, <1>2, <1>3, <1>4, TryReassembly
<1> HIDE DEF q
<1>6. At(q, b, high)
  BY <1>1, <1>2, <1>5 DEF At, Reassembled
<1>7. Standing(q, b, high, acc)
  BY <1>1, <1>5, <1>6 DEF Standing
<1>8. Moved(q, r)
  BY <1>2, <1>5 DEF Moved, Reassembled
<1> QED BY <1>7, <1>8 DEF q, s

\* VR(UR) moves on if its PDU has come.
LEMMA AdvanceIs ==
  ASSUME Segments, NEW r, NEW low, NEW high, NEW acc, Standing(r, low, high, acc),
         NEW sn
  PROVE  LET q == Advance(r, sn) IN
         \E lo \in low..high : Standing(q, lo, high, acc) /\ Moved(q, r)
<1>1. /\ low \in Nat /\ high \in Nat /\ low <= high /\ high - Window <= low /\ r \in ReceiverType
      /\ Window \in Nat /\ Window >= 1 /\ Modulo = 2 * Window
      /\ Stage(r, low, acc) /\ r.vr_uh = Sn(high) /\ r.vr_ur = Sn(low)
      /\ acc \in SUBSET (0..(high - 1)) /\ high <= Len(pdus) /\ Len(pdus) \in Nat
  <2>1. Len(pdus) \in Nat
    BY DEF Segments
  <2> QED BY <2>1, Parameters DEF Standing, At
<1>2. CASE ~(sn = r.vr_ur /\ Buffered(r, sn))
  <2>1. Advance(r, sn) = r
    BY <1>2 DEF Advance
  <2>2. Moved(r, r) /\ low \in low..high
    BY <1>1, ReassembledNot DEF Moved, Reassembled
  <2> QED BY <2>1, <2>2
<1>3. CASE sn = r.vr_ur /\ Buffered(r, sn)
  <2> DEFINE J == {j \in 1..Modulo : ~Buffered(r, Sn(sn + j)) \/ Sn(sn + j) = r.vr_uh}
             k == Least(J)
             b == low + k
  <2>1. sn = Sn(low) /\ low < high
    <3>1. low \in low..(low + Modulo - 1) /\ Span(acc, low, high)
      BY <1>1 DEF Span
    <3>2. low \in acc
      BY <1>1, <1>3, <3>1, BufferIs
    <3>3. low \in 0..(high - 1)
      BY <1>1, <3>2
    <3> QED BY <1>1, <1>3, <3>3
  <2>2. \A j \in Int : Sn(sn + j) = Sn(low + j)
    BY <1>1, <2>1, SnAdds
  <2>3. high - low \in J /\ J \in SUBSET Nat
    <3> DEFINE d == high - low
    <3>1. d \in Int /\ d \in 1..Modulo /\ low + d = high
      BY <1>1, <2>1
    <3> HIDE DEF d
    <3>2. Sn(sn + d) = r.vr_uh
      BY <1>1, <2>2, <3>1
    <3>3. d \in J
      BY <3>1, <3>2
    <3> QED BY <3>3 DEF d
  <2>4. k \in J /\ k <= high - low
    BY <2>3, LeastElement
  <2>5. k \in Nat /\ b \in low..high /\ Sn(sn + k) = Sn(b)
    <3>1. k \in Nat
      BY <2>3, <2>4
    <3>2. k <= high - low
      BY <2>4
    <3> HIDE DEF k
    <3>3. Sn(sn + k) = Sn(b)
      BY <2>2, <3>1
    <3>4. b \in low..high
      BY <1>1, <3>1, <3>2
    <3> QED BY <3>1, <3>3, <3>4
  <2>6. Advance(r, sn) = try_reassembly([r EXCEPT !.vr_ur = Sn(sn + k)], sn, Sn(sn + k))
    BY <1>3 DEF Advance
  <2> HIDE DEF k, b
  <2>7. Standing(Advance(r, sn), b, high, acc) /\ Moved(Advance(r, sn), r)
    BY <2>1, <2>5, <2>6, StepForward
  <2> QED BY <2>5, <2>7
<1> QED BY <1>2, <1>3

\* The timer is no part of where the receiver stands.
LEMMA TimerAside ==
  ASSUME NEW r, NEW low, NEW high, NEW acc, Standing(r, low, high, acc),
         NEW q \in ReceiverType, q.dar_buffer = r.dar_buffer, q.delivered = r.delivered,
         q.missing = r.missing, q.output_sdu = r.output_sdu, q.vr_ur = r.vr_ur,
         q.vr_uh = r.vr_uh, q.last_reassemblied_sn = r.last_reassemblied_sn
  PROVE  Standing(q, low, high, acc) /\ Extends(q.delivered, r.delivered)
<1>1. r \in ReceiverType /\ Stage(r, low, acc) /\ At(r, low, high)
      /\ high <= Len(pdus) /\ acc \in SUBSET (0..(high - 1))
  BY DEF Standing
<1>2. Extends(q.delivered, r.delivered)
  BY <1>1, ReassembledNot DEF Reassembled
<1>3. Stage(q, low, acc)
  BY <1>1, StageSame
<1>4. At(q, low, high)
  BY <1>1 DEF At
<1> QED BY <1>1, <1>2, <1>3, <1>4 DEF Standing

\* A timer that goes on waits for a PDU at or after VR(UR): one that waits for a PDU
\* the window has left behind is stopped, be it up to a round behind.
LEMMA StopTimerIs ==
  ASSUME NEW r, NEW low, NEW high, NEW acc, Standing(r, low, high, acc),
         r.t_reordering # "stopped" => \E u \in (high - Modulo)..high : r.vr_ux = Sn(u)
  PROVE  LET q == StopTimer(r) IN
         Standing(q, low, high, acc) /\ TimerAt(q, low, high) /\ Extends(q.delivered, r.delivered)
<1>1. /\ low \in Nat /\ high \in Nat /\ low <= high /\ high - Window <= low /\ r \in ReceiverType
      /\ Window \in Nat /\ Window >= 1 /\ Modulo = 2 * Window
      /\ r.vr_uh = Sn(high) /\ At(r, low, high) /\ r.vr_ux \in SN
  BY Parameters DEF Standing, At, ReceiverType
<1>2. CASE StopTimer(r) # r
  <2>1. StopTimer(r) = [r EXCEPT !.t_reordering = "stopped"]
    BY <1>2 DEF StopTimer
  <2> DEFINE q == [r EXCEPT !.t_reordering = "stopped"]
  <2>2. /\ q \in ReceiverType /\ q.dar_buffer = r.dar_buffer /\ q.delivered = r.delivered
        /\ q.missing = r.missing /\ q.output_sdu = r.output_sdu /\ q.vr_ur = r.vr_ur
        /\ q.vr_uh = r.vr_uh /\ q.last_reassemblied_sn = r.last_reassemblied_sn
        /\ q.t_reordering = "stopped"
    BY <1>1 DEF ReceiverType
  <2> HIDE DEF q
  <2>3. Standing(q, low, high, acc) /\ q.t_reordering = "stopped" /\ Extends(q.delivered, r.delivered)
    BY <2>2, TimerAside
  <2>4. TimerAt(q, low, high)
    BY <2>3 DEF TimerAt
  <2> QED BY <2>1, <2>3, <2>4 DEF q
<1>3. CASE StopTimer(r) = r
  <2>1. Extends(r.delivered, r.delivered)
    BY <1>1, ReassembledNot DEF Reassembled
  <2>2. ASSUME r.t_reordering # "stopped"
        PROVE  \E u \in low..high : r.vr_ux = Sn(u)
    <3>1. PICK u \in (high - Modulo)..high : r.vr_ux = Sn(u)
      BY <2>2
    <3>2. ~(\/ r.vr_uh # r.vr_ux /\ ~in_reordering_window(r, r.vr_ux)
            \/ in_window(r, r.vr_ur, r.vr_ux, r.vr_uh) \in {-2, 1})
      <4>1. [r EXCEPT !.t_reordering = "stopped"].t_reordering = "stopped"
        BY <1>1 DEF ReceiverType
      <4> QED BY <1>3, <2>2, <4>1 DEF StopTimer
    <3>3. CASE u < high - Window
      <4>1. u \in (high - Modulo)..(high + Window - 1)
        BY <1>1, <3>1
      <4>2. in_reordering_window(r, Sn(u)) <=> high - Window <= u /\ u < high
        BY <1>1, <4>1, ReorderingWindow
      <4>3. ~in_reordering_window(r, r.vr_ux)
        BY <1>1, <3>1, <3>3, <4>2
      <4>4. r.vr_ux = Sn(high) /\ high \in low..high
        BY <1>1, <3>2, <4>3
      <4> QED BY <4>4
    <3>4. CASE high - Window <= u /\ u < low
      <4>1. u \in (high - Window)..(high + Window - 1)
        BY <1>1, <3>1, <3>4
      <4>2. in_window(r, r.vr_ur, Sn(u), r.vr_uh) = -2
        BY <1>1, <3>4, <4>1, Windows
      <4> QED BY <3>1, <3>2, <4>2
    <3>5. CASE low <= u
      BY <1>1, <3>1, <3>5
    <3> QED BY <1>1, <3>1, <3>3, <3>4, <3>5
  <2> QED BY <1>3, <2>1, <2>2 DEF TimerAt
<1> QED BY <1>2, <1>3

\* The timer starts for the PDU before VR(UH).
LEMMA StartTimerIs ==
  ASSUME NEW r, NEW low, NEW high, NEW acc, Standing(r, low, high, acc), TimerAt(r, low, high)
  PROVE  LET q == StartTimer(r) IN
         Standing(q, low, high, acc) /\ TimerAt(q, low, high) /\ Extends(q.delivered, r.delivered)
<1>1. /\ low \in Nat /\ high \in Nat /\ low <= high /\ r \in ReceiverType
      /\ r.vr_uh = Sn(high) /\ r.vr_uh \in SN
  BY DEF Standing, At, ReceiverType
<1>2. CASE StartTimer(r) = r
  <2>1. Extends(r.delivered, r.delivered)
    BY <1>1, ReassembledNot DEF Reassembled
  <2> QED BY <1>2, <2>1
<1>3. CASE StartTimer(r) # r
  <2>1. StartTimer(r) = [r EXCEPT !.t_reordering = "running", !.vr_ux = r.vr_uh]
    BY <1>3 DEF StartTimer
  <2> DEFINE q == [r EXCEPT !.t_reordering = "running", !.vr_ux = r.vr_uh]
  <2>2. /\ q \in ReceiverType /\ q.dar_buffer = r.dar_buffer /\ q.delivered = r.delivered
        /\ q.missing = r.missing /\ q.output_sdu = r.output_sdu /\ q.vr_ur = r.vr_ur
        /\ q.vr_uh = r.vr_uh /\ q.last_reassemblied_sn = r.last_reassemblied_sn
        /\ q.vr_ux = r.vr_uh
    BY <1>1 DEF ReceiverType
  <2> HIDE DEF q
  <2>3. high \in low..high
    BY <1>1
  <2>4. Standing(q, low, high, acc) /\ q.vr_ux = r.vr_uh /\ Extends(q.delivered, r.delivered)
    BY <2>2, TimerAside
  <2>5. TimerAt(q, low, high)
    BY <1>1, <2>3, <2>4 DEF TimerAt
  <2> QED BY <2>1, <2>4, <2>5 DEF q
<1> QED BY <1>2, <1>3

\* All that happens to a receiver that stores a PDU.
LEMMA ArrivalIs ==
  ASSUME Segments, NEW r, NEW low, NEW mid, NEW acc, Standing(r, low, mid, acc),
         TimerAt(r, low, mid), NEW n \in PduNumbers,
         n \in (mid - Window)..(mid + Window - 1), ~Discard(r, Sn(n)),
         NEW high, high = (IF n < mid THEN mid ELSE n + 1)
  PROVE  LET s == [r EXCEPT !.dar_buffer[Sn(n)] = n]
             q == StartTimer(StopTimer(Advance(SlideWindow(s, Sn(n)), Sn(n))))
         IN  \E lo \in Nat :
               /\ Standing(q, lo, high, acc \cup {n}) /\ TimerAt(q, lo, high)
               /\ Extends(q.delivered, r.delivered)
<1> DEFINE s == [r EXCEPT !.dar_buffer[Sn(n)] = n]
           a == SlideWindow(s, Sn(n))
           b == Advance(a, Sn(n))
           c == StopTimer(b)
           q == StartTimer(c)
<1>1. /\ low \in Nat /\ mid \in Nat /\ n \in Nat /\ high \in Nat /\ low <= mid
      /\ mid - Window <= low /\ At(r, low, mid) /\ Window \in Nat /\ Modulo = 2 * Window
      /\ mid <= high /\ high <= mid + Window /\ mid <= Len(pdus) /\ n < mid + Window
      /\ acc \in SUBSET (0..(mid - 1)) /\ r \in ReceiverType
  <2>1. n \in Nat
    BY DEF PduNumbers, Segments
  <2> QED BY <2>1, Parameters DEF Standing, At
<1>2. low <= n
  BY <1>1, NotDiscarded
<1>3. s \in ReceiverType /\ Stage(s, low, acc \cup {n}) /\ Moved(s, r)
      /\ s.vr_ur = r.vr_ur /\ s.vr_uh = r.vr_uh
  BY <1>1, <1>2, StoreIs, ZenonT(40)
<1>4. acc \cup {n} \in SUBSET (0..(high - 1)) /\ At(s, low, mid)
  <2>1. At(s, low, mid)
    BY <1>1, <1>3 DEF At
  <2>2. n \in 0..(high - 1) /\ 0..(mid - 1) \subseteq 0..(high - 1)
    BY <1>1
  <2> QED BY <1>1, <2>1, <2>2
<1> HIDE DEF s
<1>5. PICK lo \in low..high : Standing(a, lo, high, acc \cup {n}) /\ Moved(a, s)
  BY <1>1, <1>2, <1>3, <1>4, SlideIs
<1> HIDE DEF a
<1>6. PICK up \in lo..high : Standing(b, up, high, acc \cup {n}) /\ Moved(b, a)
  BY <1>5, AdvanceIs
<1> HIDE DEF b
<1>7. b.t_reordering # "stopped" => \E u \in (high - Modulo)..high : b.vr_ux = Sn(u)
  <2>1. b.t_reordering = r.t_reordering /\ b.vr_ux = r.vr_ux
    BY <1>3, <1>5, <1>6 DEF Moved
  <2>2. low..mid \subseteq (high - Modulo)..high
    BY <1>1
  <2> QED BY <2>1, <2>2 DEF TimerAt
<1>8. Standing(c, up, high, acc \cup {n}) /\ TimerAt(c, up, high) /\ Extends(c.delivered, b.delivered)
  BY <1>6, <1>7, StopTimerIs
<1> HIDE DEF c
<1>9. Standing(q, up, high, acc \cup {n}) /\ TimerAt(q, up, high) /\ Extends(q.delivered, c.delivered)
  BY <1>8, StartTimerIs
<1> HIDE DEF q
<1>10. Extends(q.delivered, r.delivered)
  <2>1. /\ Len(r.delivered) \in Nat /\ Len(s.delivered) \in Nat /\ Len(a.delivered) \in Nat
        /\ Len(b.delivered) \in Nat /\ Len(c.delivered) \in Nat /\ Len(q.delivered) \in Nat
    BY <1>1, <1>3, <1>5, <1>6, <1>8, <1>9, SMTT(30) DEF Standing, ReceiverType
  <2>2. Extends(s.delivered, r.delivered) /\ Extends(a.delivered, s.delivered)
        /\ Extends(b.delivered, a.delivered)
    BY <1>3, <1>5, <1>6 DEF Moved
  <2>3. Extends(a.delivered, r.delivered)
    BY <2>1, <2>2 DEF Extends
  <2>4. Extends(b.delivered, r.delivered)
    BY <2>1, <2>2, <2>3 DEF Extends
  <2>5. Extends(c.delivered, r.delivered)
    BY <1>8, <2>1, <2>4 DEF Extends
  <2> QED BY <1>9, <2>1, <2>5 DEF Extends
<1>11. up \in Nat
  BY <1>9 DEF Standing, At
<1> QED BY <1>9, <1>10, <1>11 DEF q, c, b, a, s

\* The timer expires: reassembly goes on at the first PDU after VR(UX) that is missing.
LEMMA ExpiryIs ==
  ASSUME Segments, NEW r, NEW low, NEW high, NEW acc, Standing(r, low, high, acc),
         TimerAt(r, low, high), r.t_reordering = "expired"
  PROVE  LET k == Least({j \in 0..Modulo : ~Buffered(r, Sn(r.vr_ux + j))})
             ur == Sn(r.vr_ux + k)
             q == StartTimer([try_reassembly([r EXCEPT !.vr_ur = ur], r.vr_ur, ur)
                                EXCEPT !.t_reordering = "stopped"])
         IN  \E lo \in Nat :
               /\ Standing(q, lo, high, acc) /\ TimerAt(q, lo, high)
               /\ Extends(q.delivered, r.delivered)
<1> DEFINE J == {j \in 0..Modulo : ~Buffered(r, Sn(r.vr_ux + j))}
           k == Least(J)
           ur == Sn(r.vr_ux + k)
           p == try_reassembly([r EXCEPT !.vr_ur = ur], r.vr_ur, ur)
           s == [p EXCEPT !.t_reordering = "stopped"]
           q == StartTimer(s)
<1>1. PICK u \in low..high : r.vr_ux = Sn(u)
  BY DEF TimerAt
<1>2. /\ low \in Nat /\ high \in Nat /\ low <= high /\ high - Window <= low /\ r \in ReceiverType
      /\ Window \in Nat /\ Window >= 1 /\ Modulo = 2 * Window
      /\ Stage(r, low, acc) /\ r.vr_ur = Sn(low) /\ r.vr_ux \in SN
      /\ acc \in SUBSET (0..(high - 1)) /\ high <= Len(pdus) /\ Len(pdus) \in Nat
  <2>1. Len(pdus) \in Nat
    BY DEF Segments
  <2> QED BY <2>1, Parameters DEF Standing, At, ReceiverType
<1>3. u \in Nat /\ low <= u /\ u <= high /\ \A j \in Int : Sn(r.vr_ux + j) = Sn(u + j)
  <2>1. u \in Nat /\ low <= u /\ u <= high
    BY <1>1, <1>2
  <2> QED BY <1>1, <2>1, SnAdds
<1>4. high - u \in J /\ J \in SUBSET Nat
  <2>1. high \in low..(low + Modulo - 1) /\ Span(acc, low, high) /\ high \notin acc
    BY <1>2 DEF Span
  <2>2. ~Buffered(r, Sn(high))
    BY <1>2, <2>1, BufferIs
  <2> DEFINE d == high - u
  <2>3. d \in Int /\ d \in 0..Modulo /\ u + d = high
    BY <1>2, <1>3
  <2> HIDE DEF d
  <2>4. ~Buffered(r, Sn(r.vr_ux + d))
    BY <1>3, <2>2, <2>3
  <2>5. d \in J
    BY <2>3, <2>4
  <2> QED BY <2>5 DEF d
<1>5. k \in J /\ k <= high - u /\ k \in Nat
  BY <1>4, LeastElement
<1> DEFINE b == u + k
<1>6. b \in low..high /\ ur = Sn(b)
  <2> HIDE DEF J, k
  <2> QED BY <1>2, <1>3, <1>5
<1> HIDE DEF J, k, b, ur
<1>7. Standing(p, b, high, acc) /\ Moved(p, r)
  BY <1>2, <1>6, StepForward
<1> HIDE DEF p
<1>8. Standing(s, b, high, acc) /\ s.t_reordering = "stopped" /\ Extends(s.delivered, p.delivered)
  <2>1. /\ s \in ReceiverType /\ s.dar_buffer = p.dar_buffer /\ s.delivered = p.delivered
        /\ s.missing = p.missing /\ s.output_sdu = p.output_sdu /\ s.vr_ur = p.vr_ur
        /\ s.vr_uh = p.vr_uh /\ s.last_reassemblied_sn = p.last_reassemblied_sn
        /\ s.t_reordering = "stopped"
    BY <1>7 DEF Standing, ReceiverType
  <2> HIDE DEF s
  <2> QED BY <1>7, <2>1, TimerAside
<1> HIDE DEF s
<1>9. TimerAt(s, b, high)
  BY <1>8 DEF TimerAt
<1>10. Standing(q, b, high, acc) /\ TimerAt(q, b, high) /\ Extends(q.delivered, s.delivered)
  BY <1>8, <1>9, StartTimerIs
<1> HIDE DEF q
<1>11. Extends(q.delivered, r.delivered)
  <2>1. /\ Len(r.delivered) \in Nat /\ Len(s.delivered) \in Nat /\ Len(p.delivered) \in Nat
        /\ Len(q.delivered) \in Nat
    BY <1>2, <1>7, <1>8, <1>10 DEF Standing, ReceiverType
  <2>2. Extends(s.delivered, r.delivered)
    BY <1>7, <1>8, <2>1 DEF Extends, Moved
  <2> QED BY <1>10, <2>1, <2>2 DEF Extends
<1>12. b \in Nat
  BY <1>2, <1>6
<1> QED BY <1>10, <1>11, <1>12 DEF q, s, p, ur, k, J

-----------------------------------------------------------------------------
(* The invariant.                                                          *)

RlcInv ==
  /\ RlcUmTypeOK
  /\ Segments /\ End(Len(pdus)) = taken
  /\ \A t \in Threads : pc[t] = "expire" => rx.t_reordering = "expired"
  /\ \E lo \in Nat : Standing(rx, lo, top, accepted) /\ TimerAt(rx, lo, top)

\* Products with SduSize grow.
LEMMA Products ==
  ASSUME NEW a \in Nat, NEW b \in Nat, a <= b
  PROVE  a * SduSize \in Nat /\ b * SduSize \in Nat /\ a * SduSize <= b * SduSize
<1>1. SduSize \in Nat
  BY Parameters
<1>2. b * SduSize = a * SduSize + (b - a) * SduSize /\ (b - a) * SduSize >= 0
  BY <1>1
<1>3. a * SduSize \in Nat /\ b * SduSize \in Nat /\ (b - a) * SduSize \in Int
  BY <1>1
<1> QED BY <1>2, <1>3

\* It holds at the beginning.
LEMMA InvAtStart ==
  RlcUmInit => RlcInv
<1> SUFFICES ASSUME RlcUmInit PROVE RlcInv
  OBVIOUS
<1> USE DEF RlcUmInit
<1>1. /\ Window \in Nat /\ Modulo = 2 * Window /\ Modulo \in Nat /\ Modulo >= 2 /\ Len(pdus) = 0
      /\ MaxSdus \in Nat /\ SduSize \in Nat
  BY Parameters
<1>2. 0 \in SN /\ Modulo - 1 \in SN /\ Sn(0) = 0 /\ Sn(0 - 1) = Modulo - 1
  <2>1. 0 \in SN /\ Modulo - 1 \in SN
    BY <1>1 DEF SN
  <2>2. Sn((0 - 1) + Modulo) = Sn(0 - 1)
    <3>1. \A n \in Int : Sn(n + Modulo) = Sn(n)
      BY SnRound
    <3>2. 0 - 1 \in Int
      OBVIOUS
    <3> QED BY <3>1, <3>2
  <2>3. (0 - 1) + Modulo = Modulo - 1
    BY <1>1
  <2> QED BY <2>1, <2>2, <2>3, SnSmall
<1>3. /\ rx.vr_ur = 0 /\ rx.vr_ux = 0 /\ rx.vr_uh = 0 /\ rx.dar_buffer = [s \in SN |-> NoPdu]
      /\ rx.t_reordering = "stopped" /\ rx.output_sdu = << >> /\ rx.missing = FALSE
      /\ rx.last_reassemblied_sn = Modulo - 1 /\ rx.delivered = << >>
  OBVIOUS
<1>4. rx \in ReceiverType
  <2>1. << >> \in Seq(Units) /\ << >> \in Seq(Seq(Units)) /\ FALSE \in BOOLEAN
    OBVIOUS
  <2> QED BY <1>2, <2>1 DEF ReceiverType
<1>5. RlcUmTypeOK
  <2>1. << >> \in Seq([first : Units, last : Units])
    OBVIOUS
  <2>2. 0 \in 0..MaxSdus /\ 0 \in 0..(0 * SduSize) /\ 0 \in 0..Len(pdus)
    BY <1>1
  <2>3. pc \in [Threads -> {"idle", "check", "expire"}]
    OBVIOUS
  <2> QED BY <1>4, <2>1, <2>2, <2>3 DEF RlcUmTypeOK
<1>6. Segments /\ End(Len(pdus)) = taken
  BY <1>1, <1>5 DEF Segments, End, RlcUmTypeOK
<1>7. Stage(rx, 0, {})
  <2>1. End(0) = 0
    BY DEF End
  <2>2. Sdu(0) = 0 /\ 0 % SduSize = 0
    <3>1. 0 * SduSize = 0
      BY <1>1
    <3>2. Sdu(0 * SduSize) = 0 /\ (0 * SduSize) % SduSize = 0
      BY SduEdges
    <3> QED BY <3>1, <3>2
  <2>3. Fragment(0) = << >>
    BY <2>2, FragmentGrows
  <2>4. \A s \in SN : ~Buffered(rx, s)
    BY <1>3 DEF Buffered
  <2>5. Delivered(rx.delivered, 0)
    BY <1>3 DEF Delivered
  <2>6. 0..(Sdu(0) - 1) = {}
    BY <2>2
  <2> QED BY <1>2, <1>3, <2>1, <2>3, <2>4, <2>5, <2>6 DEF Stage
<1>8. At(rx, 0, 0)
  BY <1>1, <1>2, <1>3 DEF At
<1>9. Standing(rx, 0, 0, {}) /\ TimerAt(rx, 0, 0)
  BY <1>1, <1>3, <1>4, <1>7, <1>8 DEF Standing, TimerAt
<1>10. 0 \in Nat /\ top = 0 /\ accepted = {} /\ \A t \in Threads : pc[t] # "expire"
  OBVIOUS
<1> QED BY <1>5, <1>6, <1>9, <1>10 DEF RlcInv

\* Steps that send nothing.
LEMMA NothingSent ==
  ASSUME pdus' = pdus, Segments, NEW lo,
         Standing(rx', lo, top', accepted'), TimerAt(rx', lo, top')
  PROVE  /\ Segments' /\ Standing(rx, lo, top, accepted)' /\ TimerAt(rx, lo, top)'
         /\ End(Len(pdus))' = End(Len(pdus))
<1>1. Segments'
  BY DEF Segments, End
<1>2. End(Len(pdus))' = End(Len(pdus))
  BY DEF End
<1>3. ReceiverType' = ReceiverType
  BY DEF ReceiverType, PduNumbers
<1>4. Standing(rx, lo, top, accepted)'
  BY <1>3 DEF Standing, At, Stage, Buffered, End, Delivered, Missed, Carries, Sdu, Fragment, Run
<1>5. TimerAt(rx, lo, top)'
  BY DEF TimerAt
<1> QED BY <1>1, <1>2, <1>4, <1>5

\* The transmitter sends a PDU: what has been received means the same.
LEMMA SegmentKeepsInv ==
  ASSUME RlcInv, NEW room \in Rooms, Segment(room)
  PROVE  RlcInv' /\ rx' = rx /\ submitted' = submitted
<1> DEFINE avail == submitted * SduSize
           last == Least({taken + room, avail}) - 1
           p == [first |-> taken, last |-> last]
<1>0. PICK n \in Nat : n = Len(pdus)
  BY DEF RlcInv, Segments
<1>1. /\ pdus' = Append(pdus, p) /\ taken' = last + 1 /\ air' = air \cup {n}
      /\ rx' = rx /\ top' = top /\ accepted' = accepted /\ pc' = pc /\ submitted' = submitted
      /\ taken < avail
  BY <1>0 DEF Segment
<1>2. /\ RlcUmTypeOK /\ Segments /\ End(n) = taken
      /\ pdus \in Seq([first : Units, last : Units]) /\ n \in Nat
      /\ submitted \in 0..MaxSdus /\ taken \in 0..avail /\ avail \in Nat
      /\ avail <= MaxSdus * SduSize /\ MaxSdus * SduSize \in Nat
      /\ rx \in ReceiverType /\ room \in Nat /\ room >= 1
  <2>1. submitted \in Nat /\ submitted <= MaxSdus /\ MaxSdus \in Nat
    BY Parameters DEF RlcInv, RlcUmTypeOK
  <2>2. avail \in Nat /\ avail <= MaxSdus * SduSize /\ MaxSdus * SduSize \in Nat
    BY <2>1, Products
  <2>3. room \in Nat /\ room >= 1
    BY RlcUmAssumption
  <2>4. pdus \in Seq([first : Units, last : Units])
    BY DEF RlcInv, Segments
  <2> QED BY <1>0, <2>2, <2>3, <2>4 DEF RlcInv, RlcUmTypeOK
<1>3. last \in Nat /\ taken <= last /\ last < avail /\ taken \in Units /\ last \in Units
  <2> DEFINE both == {taken + room, avail}
  <2> HIDE DEF avail
  <2>1. both \in SUBSET Nat /\ both # {}
    BY <1>2
  <2>2. Least(both) \in both /\ \A i \in both : Least(both) <= i
    BY <2>1, LeastElement
  <2>3. last \in Nat /\ taken <= last /\ last < avail
    BY <1>1, <1>2, <2>2
  <2> DEFINE m == MaxSdus * SduSize
  <2>4. m \in Nat /\ avail <= m
    BY <1>2
  <2> HIDE DEF last, m
  <2>5. taken \in 0..(m - 1) /\ last \in 0..(m - 1)
    BY <1>2, <2>3, <2>4
  <2> QED BY <2>3, <2>5 DEF m, Units
<1> HIDE DEF last, avail
<1>4. /\ pdus' \in Seq([first : Units, last : Units]) /\ Len(pdus') = n + 1
      /\ \A k \in 1..n : pdus'[k] = pdus[k]
      /\ pdus'[n + 1] = p
  BY <1>0, <1>1, <1>2, <1>3
<1>5. /\ \A m \in 0..n : End(m)' = End(m)
      /\ (End(n + 1))' = taken'
  <2>1. \A m \in 0..n : m = 0 \/ m \in 1..n
    BY <1>2
  <2>2. n + 1 # 0 /\ p.last = last
    BY <1>2
  <2> HIDE DEF p
  <2>3. \A m \in 0..n : End(m)' = End(m)
    BY <1>4, <2>1 DEF End
  <2>4. (IF n + 1 = 0 THEN 0 ELSE pdus'[n + 1].last + 1) = taken'
    BY <1>1, <1>4, <2>2
  <2> QED BY <2>3, <2>4 DEF End
<1>6. Segments'
  <2>1. ASSUME NEW k \in 1..(n + 1)
        PROVE  pdus'[k].first = End(k - 1)' /\ pdus'[k].first <= pdus'[k].last
    <3>1. CASE k \in 1..n
      <4>1. k - 1 \in 0..n
        BY <1>2, <3>1
      <4>2. pdus[k].first = End(k - 1) /\ pdus[k].first <= pdus[k].last
        BY <1>0, <1>2, <3>1 DEF Segments
      <4> QED BY <1>4, <1>5, <3>1, <4>1, <4>2
    <3>2. CASE k = n + 1
      <4>1. k - 1 = n /\ n \in 0..n
        BY <1>2, <3>2
      <4>2. End(n)' = taken
        BY <1>2, <1>5, <4>1
      <4> QED BY <1>3, <1>4, <3>2, <4>1, <4>2
    <3> QED BY <1>2, <3>1, <3>2
  <2> QED BY <1>4, <2>1 DEF Segments
<1>7. (End(Len(pdus)) = taken)'
  BY <1>4, <1>5
<1>8. /\ PduNumbers' = 0..n /\ PduNumbers = 0..(n - 1)
      /\ \A k \in PduNumbers : k \in Nat /\ k + 1 \in 1..n
  BY <1>0, <1>2, <1>4 DEF PduNumbers
<1>9. ReceiverType \subseteq ReceiverType'
  <2>1. PduNumbers \subseteq PduNumbers'
    BY <1>2, <1>8
  <2> QED BY <2>1 DEF ReceiverType
<1>10. RlcUmTypeOK'
  <2>1. taken' \in 0..(submitted' * SduSize)
    BY <1>1, <1>2, <1>3 DEF avail
  <2>2. air' \subseteq PduNumbers' /\ accepted' \subseteq PduNumbers' /\ top' \in 0..Len(pdus')
    <3>1. air \subseteq 0..(n - 1) /\ accepted \subseteq 0..(n - 1) /\ top \in 0..n
      BY <1>0, <1>2, <1>8 DEF RlcUmTypeOK
    <3>2. 0..(n - 1) \subseteq 0..n /\ n \in 0..n /\ 0..n \subseteq 0..(n + 1)
      BY <1>2
    <3>3. Len(pdus') = n + 1
      BY <1>4
    <3> HIDE DEF p
    <3> QED BY <1>1, <1>8, <3>1, <3>2, <3>3
  <2> QED BY <1>1, <1>2, <1>4, <1>9, <2>1, <2>2 DEF RlcUmTypeOK
<1>11. PICK lo \in Nat : Standing(rx, lo, top, accepted) /\ TimerAt(rx, lo, top)
  BY DEF RlcInv
<1>12. lo \in 0..n /\ top <= n /\ top \in Nat
  BY <1>0, <1>2, <1>11 DEF Standing, At
<1>13. \A k \in 0..(n - 1) : \A s : Carries(k, s)' <=> Carries(k, s)
  BY <1>4, <1>8 DEF Carries
<1>14. \A s : Missed(accepted, lo, s)' <=> Missed(accepted, lo, s)
  <2>1. 0..(lo - 1) \subseteq 0..(n - 1)
    BY <1>12
  <2> QED BY <1>1, <1>13, <2>1 DEF Missed
<1>15. End(lo)' = End(lo)
  BY <1>5, <1>12
<1>16. Stage(rx, lo, accepted)'
  BY <1>1, <1>11, <1>14, <1>15 DEF Standing, Stage, Buffered, Delivered
<1>17. Standing(rx, lo, top, accepted)'
  <2>1. rx' \in ReceiverType'
    BY <1>1, <1>2, <1>9
  <2>2. At(rx, lo, top)'
    BY <1>1, <1>11 DEF Standing, At
  <2>3. top' <= Len(pdus')
    BY <1>1, <1>2, <1>4, <1>12
  <2> QED BY <1>1, <1>11, <1>16, <2>1, <2>2, <2>3 DEF Standing
<1>18. TimerAt(rx, lo, top)'
  BY <1>1, <1>11 DEF TimerAt
<1>19. \A t \in Threads : pc'[t] = "expire" => rx'.t_reordering = "expired"
  BY <1>1 DEF RlcInv
<1> QED BY <1>1, <1>6, <1>7, <1>10, <1>11, <1>17, <1>18, <1>19 DEF RlcInv

\* A step of the receiver: what has to be shown of it.
LEMMA ReceiverKeepsInv ==
  ASSUME RlcInv, UNCHANGED txVars, air' \subseteq air, top' \in Nat,
         pc' \in [Threads -> {"idle", "check", "expire"}],
         \A t \in Threads : pc'[t] = "expire" => rx'.t_reordering = "expired",
         \E lo \in Nat : Standing(rx', lo, top', accepted') /\ TimerAt(rx', lo, top')
  PROVE  RlcInv'
<1>1. PICK lo \in Nat : Standing(rx', lo, top', accepted') /\ TimerAt(rx', lo, top')
  OBVIOUS
<1>2. /\ pdus' = pdus /\ submitted' = submitted /\ taken' = taken
      /\ Segments /\ RlcUmTypeOK /\ End(Len(pdus)) = taken /\ Len(pdus) \in Nat
  BY DEF RlcInv, txVars, Segments
<1>3. Segments' /\ Standing(rx, lo, top, accepted)' /\ TimerAt(rx, lo, top)'
      /\ End(Len(pdus))' = End(Len(pdus))
  BY <1>1, <1>2, NothingSent
<1>4. RlcUmTypeOK'
  <2>1. rx' \in ReceiverType /\ top' <= Len(pdus) /\ accepted' \in SUBSET (0..(top' - 1))
    BY <1>1 DEF Standing
  <2>2. accepted' \subseteq PduNumbers /\ top' \in 0..Len(pdus) /\ air' \subseteq PduNumbers
    <3> DEFINE h == top'
               l == Len(pdus)
    <3>1. h \in Nat /\ l \in Nat /\ h <= l
      BY <1>2, <2>1
    <3> HIDE DEF h, l
    <3>2. 0..(h - 1) \subseteq 0..(l - 1) /\ h \in 0..l
      BY <3>1
    <3>3. 0..(top' - 1) \subseteq PduNumbers /\ top' \in 0..Len(pdus)
      BY <3>2 DEF h, l, PduNumbers
    <3>4. air \subseteq PduNumbers
      BY <1>2 DEF RlcUmTypeOK
    <3> QED BY <2>1, <3>3, <3>4
  <2>3. ReceiverType' = ReceiverType /\ PduNumbers' = PduNumbers
    BY <1>2 DEF ReceiverType, PduNumbers
  <2> QED BY <1>2, <2>1, <2>2, <2>3 DEF RlcUmTypeOK
<1> QED BY <1>2, <1>3, <1>4 DEF RlcInv

\* A PDU arrives.
LEMMA ReceiveKeepsInv ==
  ASSUME RlcInv, SingleThread, NEW t \in Threads, NEW n \in air, NEW again \in BOOLEAN,
         Receive(t, n, again)
  PROVE  RlcInv' /\ Extends(rx'.delivered, rx.delivered)
<1>1. PICK lo \in Nat : Standing(rx, lo, top, accepted) /\ TimerAt(rx, lo, top)
  BY DEF RlcInv
<1>2. /\ Segments /\ n \in PduNumbers /\ n \in Nat /\ top \in Nat /\ rx \in ReceiverType
      /\ Window \in Nat /\ Modulo = 2 * Window /\ top <= Len(pdus) /\ Len(pdus) \in Nat
  <2>1. n \in PduNumbers /\ Len(pdus) \in Nat
    BY DEF RlcInv, RlcUmTypeOK, Segments
  <2> QED BY <1>1, <2>1, Parameters DEF RlcInv, Standing, At, PduNumbers
<1>3. n \in (top - Window)..(top + Window - 1)
  BY DEF Receive, WithinReach
<1>4. /\ UNCHANGED txVars /\ air' \subseteq air /\ top' = (IF n < top THEN top ELSE n + 1)
      /\ top' \in Nat /\ pc' = [pc EXCEPT ![t] = "check"]
  BY <1>2 DEF Receive
<1>5. /\ pc' \in [Threads -> {"idle", "check", "expire"}]
      /\ \A u \in Threads : pc'[u] = "expire" => rx'.t_reordering = "expired"
  BY <1>4 DEF RlcInv, RlcUmTypeOK, SingleThread
<1>6. CASE Discard(rx, Sn(n))
  <2>1. rx' = rx /\ accepted' = accepted
    BY <1>6 DEF Receive
  <2>2. n < top
    <3>1. At(rx, lo, top) /\ lo <= top /\ lo \in Nat
      BY <1>1 DEF Standing, At
    <3>2. n < lo \/ (lo < n /\ n < top)
      BY <1>3, <1>6, <3>1, Windows DEF Discard
    <3> QED BY <1>2, <3>1, <3>2
  <2>3. top' = top
    BY <1>4, <2>2
  <2>4. Standing(rx', lo, top', accepted') /\ TimerAt(rx', lo, top')
    BY <1>1, <2>1, <2>3
  <2>5. Extends(rx'.delivered, rx.delivered)
    BY <1>2, <2>1, ReassembledNot DEF Reassembled
  <2> QED BY <1>4, <1>5, <2>4, <2>5, ReceiverKeepsInv
<1>7. CASE ~Discard(rx, Sn(n))
  <2> DEFINE s == [rx EXCEPT !.dar_buffer[Sn(n)] = n]
             q == StartTimer(StopTimer(Advance(SlideWindow(s, Sn(n)), Sn(n))))
  <2>1. rx' = q /\ accepted' = accepted \cup {n}
    BY <1>7 DEF Receive
  <2>2. \E up \in Nat : /\ Standing(q, up, top', accepted \cup {n}) /\ TimerAt(q, up, top')
                        /\ Extends(q.delivered, rx.delivered)
    BY <1>1, <1>2, <1>3, <1>4, <1>7, ArrivalIs
  <2> HIDE DEF q
  <2>3. \E up \in Nat : Standing(rx', up, top', accepted') /\ TimerAt(rx', up, top')
    BY <2>1, <2>2
  <2>4. Extends(rx'.delivered, rx.delivered)
    BY <2>1, <2>2
  <2> QED BY <1>4, <1>5, <2>3, <2>4, ReceiverKeepsInv
<1> QED BY <1>6, <1>7

\* The timer has expired.
LEMMA ExpireKeepsInv ==
  ASSUME RlcInv, NEW t \in Threads, SingleThread, Expire(t)
  PROVE  RlcInv' /\ Extends(rx'.delivered, rx.delivered)
<1>1. PICK lo \in Nat : Standing(rx, lo, top, accepted) /\ TimerAt(rx, lo, top)
  BY DEF RlcInv
<1>2. Segments /\ rx.t_reordering = "expired" /\ top \in Nat
  BY <1>1 DEF RlcInv, Expire, Standing, At
<1>3. /\ UNCHANGED txVars /\ air' \subseteq air /\ top' = top /\ accepted' = accepted
      /\ pc' = [pc EXCEPT ![t] = "idle"]
  BY DEF Expire
<1>4. /\ pc' \in [Threads -> {"idle", "check", "expire"}]
      /\ \A u \in Threads : pc'[u] = "expire" => rx'.t_reordering = "expired"
  BY <1>3 DEF RlcInv, RlcUmTypeOK, SingleThread
<1> DEFINE k == Least({j \in 0..Modulo : ~Buffered(rx, Sn(rx.vr_ux + j))})
           ur == Sn(rx.vr_ux + k)
           q == StartTimer([try_reassembly([rx EXCEPT !.vr_ur = ur], rx.vr_ur, ur)
                              EXCEPT !.t_reordering = "stopped"])
<1>5. rx' = q
  BY DEF Expire
<1>6. \E up \in Nat : /\ Standing(q, up, top, accepted) /\ TimerAt(q, up, top)
                      /\ Extends(q.delivered, rx.delivered)
  BY <1>1, <1>2, ExpiryIs
<1> HIDE DEF q
<1>7. \E up \in Nat : Standing(rx', up, top', accepted') /\ TimerAt(rx', up, top')
  BY <1>3, <1>5, <1>6
<1> QED BY <1>2, <1>3, <1>4, <1>5, <1>6, <1>7, ReceiverKeepsInv

\* Every step keeps the invariant, and only adds to what is delivered.
LEMMA StepKeepsInv ==
  ASSUME RlcInv, SingleThread, [RlcUmNext]_umVars
  PROVE  /\ RlcInv'
         /\ rx'.delivered = rx.delivered \/ submitted' = submitted
         /\ Extends(rx'.delivered, rx.delivered)
         /\ submitted' \in {submitted, submitted + 1}
<1>1. PICK lo \in Nat : Standing(rx, lo, top, accepted) /\ TimerAt(rx, lo, top)
  BY DEF RlcInv
<1>2. rx \in ReceiverType /\ Extends(rx.delivered, rx.delivered) /\ top \in Nat
      /\ pc \in [Threads -> {"idle", "check", "expire"}] /\ Segments
  BY <1>1, ReassembledNot DEF RlcInv, RlcUmTypeOK, Reassembled, Standing, At
<1>3. ASSUME UNCHANGED <<txVars, rx, top, accepted>>, air' \subseteq air,
             pc' \in [Threads -> {"idle", "check", "expire"}],
             \A t \in Threads : pc'[t] = "expire" => rx.t_reordering = "expired"
      PROVE  RlcInv'
  BY <1>1, <1>2, <1>3, ReceiverKeepsInv
<1>4. CASE DataReq
  <2>1. /\ UNCHANGED <<taken, pdus, air, rx, top, accepted, pc>>
        /\ submitted' = submitted + 1 /\ submitted < MaxSdus
    BY <1>4 DEF DataReq
  <2>2. RlcUmTypeOK'
    <3>1. submitted \in 0..MaxSdus /\ taken \in 0..(submitted * SduSize) /\ MaxSdus \in Nat
      BY Parameters DEF RlcInv, RlcUmTypeOK
    <3>2. submitted \in Nat /\ submitted + 1 \in Nat /\ submitted <= submitted + 1
          /\ submitted + 1 \in 0..MaxSdus
      BY <2>1, <3>1
    <3> DEFINE a == submitted * SduSize
               b == (submitted + 1) * SduSize
    <3>3. a \in Nat /\ b \in Nat /\ a <= b
      BY <3>2, Products
    <3>4. taken \in 0..a
      BY <3>1
    <3> HIDE DEF a, b
    <3>5. taken \in 0..b
      BY <3>3, <3>4
    <3>6. ReceiverType' = ReceiverType /\ PduNumbers' = PduNumbers
      BY <2>1 DEF ReceiverType, PduNumbers
    <3> QED BY <2>1, <3>2, <3>5, <3>6 DEF b, RlcInv, RlcUmTypeOK
  <2>3. /\ Segments' /\ Standing(rx, lo, top, accepted)' /\ TimerAt(rx, lo, top)'
        /\ End(Len(pdus))' = End(Len(pdus))
    BY <1>1, <1>2, <2>1, NothingSent
  <2> QED BY <1>2, <2>1, <2>2, <2>3 DEF RlcInv
<1>5. ASSUME NEW room \in Rooms, Segment(room) PROVE RlcInv' /\ rx' = rx /\ submitted' = submitted
  BY <1>5, SegmentKeepsInv
<1>6. ASSUME NEW n \in air, Lose(n) PROVE RlcInv' /\ rx' = rx /\ submitted' = submitted
  BY <1>2, <1>3, <1>6 DEF Lose, txVars, RlcInv
<1>7. CASE TimeOut
  <2> DEFINE q == [rx EXCEPT !.t_reordering = "expired"]
  <2>1. /\ q \in ReceiverType /\ q.dar_buffer = rx.dar_buffer /\ q.delivered = rx.delivered
        /\ q.missing = rx.missing /\ q.output_sdu = rx.output_sdu /\ q.vr_ur = rx.vr_ur
        /\ q.vr_uh = rx.vr_uh /\ q.last_reassemblied_sn = rx.last_reassemblied_sn
        /\ q.vr_ux = rx.vr_ux /\ q.t_reordering = "expired"
    BY <1>2 DEF ReceiverType
  <2>2. rx' = q /\ rx.t_reordering = "running" /\ UNCHANGED <<txVars, air, top, accepted, pc>>
    BY <1>7 DEF TimeOut
  <2> HIDE DEF q
  <2>3. Standing(q, lo, top, accepted)
    BY <1>1, <2>1, TimerAside
  <2>4. TimerAt(q, lo, top)
    BY <1>1, <2>1, <2>2 DEF TimerAt
  <2>5. RlcInv'
    BY <1>2, <2>1, <2>2, <2>3, <2>4, ReceiverKeepsInv
  <2> QED BY <1>2, <2>1, <2>2, <2>5 DEF txVars
<1>8. ASSUME NEW t \in Threads, NEW n \in air, NEW again \in BOOLEAN, Receive(t, n, again)
      PROVE  RlcInv' /\ Extends(rx'.delivered, rx.delivered) /\ submitted' = submitted
  BY <1>8, ReceiveKeepsInv DEF Receive, txVars
<1>9. ASSUME NEW t \in Threads, StatusIndication(t)
      PROVE  RlcInv' /\ rx' = rx /\ submitted' = submitted
  BY <1>2, <1>3, <1>9 DEF StatusIndication, txVars, RlcInv
<1>10. ASSUME NEW t \in Threads, CheckTimer(t)
       PROVE  RlcInv' /\ rx' = rx /\ submitted' = submitted
  BY <1>2, <1>3, <1>10 DEF CheckTimer, txVars, RlcInv
<1>11. ASSUME NEW t \in Threads, Expire(t)
       PROVE  RlcInv' /\ Extends(rx'.delivered, rx.delivered) /\ submitted' = submitted
  BY <1>11, ExpireKeepsInv DEF Expire, txVars
<1>12. CASE UNCHANGED umVars
  BY <1>2, <1>3, <1>12 DEF umVars, txVars, RlcInv
<1> QED BY <1>2, <1>4, <1>5, <1>6, <1>7, <1>8, <1>9, <1>10, <1>11, <1>12 DEF RlcUmNext, DataReq

-----------------------------------------------------------------------------
(* What follows from the invariant.                                        *)

\* Every unit taken is in a PDU.
LEMMA CarrierOf ==
  ASSUME Segments, NEW u \in Nat, u < End(Len(pdus))
  PROVE  \E n \in PduNumbers : u \in End(n)..(End(n + 1) - 1)
<1> DEFINE S == {m \in 0..Len(pdus) : u < End(m)}
           k == Least(S)
<1>1. Len(pdus) \in Nat /\ Len(pdus) \in S /\ S \in SUBSET Nat
  BY DEF Segments
<1>2. k \in S /\ \A m \in S : k <= m
  BY <1>1, LeastElement
<1>3. k \in 0..Len(pdus) /\ u < End(k) /\ k # 0
  BY <1>2 DEF End
<1> HIDE DEF k
<1>4. k - 1 \in 0..Len(pdus) /\ k - 1 \in PduNumbers /\ (k - 1) + 1 = k /\ k - 1 \notin S
  BY <1>1, <1>2, <1>3 DEF PduNumbers
<1>5. End(k - 1) <= u /\ End(k - 1) \in Nat /\ End(k) \in Nat
  BY <1>3, <1>4, EndIsNat
<1> QED BY <1>3, <1>4, <1>5

\* The buffer holds what has been stored and not been passed.
LEMMA HeldIs ==
  ASSUME NEW lo, Standing(rx, lo, top, accepted)
  PROVE  /\ Held = {n \in accepted : lo <= n}
         /\ \A n \in Held : rx.dar_buffer[Sn(n)] = n
<1>1. Stage(rx, lo, accepted) /\ accepted \in SUBSET (0..(top - 1)) /\ top \in Nat /\ lo \in Nat
  BY DEF Standing, At
<1>2. ASSUME NEW n \in Held PROVE n \in accepted /\ lo <= n /\ rx.dar_buffer[Sn(n)] = n
  <2>1. PICK s \in SN : n = rx.dar_buffer[s] /\ n # NoPdu
    BY DEF Held
  <2>2. Buffered(rx, s)
    BY <2>1 DEF Buffered
  <2> QED BY <1>1, <2>1, <2>2 DEF Stage
<1>3. ASSUME NEW n \in accepted, lo <= n PROVE n \in Held
  <2>1. rx.dar_buffer[Sn(n)] = n /\ n \in Nat
    BY <1>1, <1>3 DEF Stage
  <2>2. Sn(n) \in SN
    BY <2>1, SnDivides
  <2> QED BY <2>1, <2>2 DEF Held, NoPdu
<1> QED BY <1>2, <1>3

\* The buffer.
LEMMA InvHoldsInWindow ==
  RlcInv => HeldInWindow
<1> SUFFICES ASSUME RlcInv PROVE HeldInWindow
  OBVIOUS
<1>1. PICK lo \in Nat : Standing(rx, lo, top, accepted)
  BY DEF RlcInv
<1>2. /\ lo \in Nat /\ top \in Nat /\ lo <= top /\ top - Window <= lo /\ rx.vr_uh = Sn(top)
      /\ rx.vr_ur = Sn(lo) /\ Window \in Nat /\ Window >= 1 /\ Modulo = 2 * Window
      /\ accepted \in SUBSET (0..(top - 1))
  BY <1>1, Parameters DEF Standing, At
<1>3. Sn(rx.vr_uh - rx.vr_ur) = top - lo
  <2>1. Sn(Sn(top) - Sn(lo)) = Sn(top - lo)
    BY <1>2, SnAdds
  <2>2. top - lo \in SN
    BY <1>2 DEF SN
  <2> QED BY <1>2, <2>1, <2>2, SnSmall
<1>4. ASSUME NEW n \in Held
      PROVE  rx.dar_buffer[Sn(n)] = n /\ n \in (top - Sn(rx.vr_uh - rx.vr_ur))..(top - 1)
  <2>1. n \in accepted /\ lo <= n /\ rx.dar_buffer[Sn(n)] = n
    BY <1>1, HeldIs
  <2>2. n \in lo..(top - 1)
    BY <1>2, <2>1
  <2>3. top - (top - lo) = lo
    BY <1>2
  <2> QED BY <1>3, <2>1, <2>2, <2>3
<1> QED BY <1>2, <1>4 DEF HeldInWindow, RlcInv

\* The SDUs delivered.
LEMMA InvDeliversWhole ==
  RlcInv => WholeSdus
<1> SUFFICES ASSUME RlcInv PROVE WholeSdus
  OBVIOUS
<1>1. PICK lo \in Nat : Standing(rx, lo, top, accepted)
  BY DEF RlcInv
<1>2. Delivered(rx.delivered, End(lo)) /\ DOMAIN rx.delivered = 1..Len(rx.delivered)
  BY <1>1 DEF Standing, Stage, ReceiverType
<1> QED BY <1>2 DEF WholeSdus, Delivered, WholeSdu, Run

\* The last unit of an SDU is in a PDU; if that one is no longer in the buffer, it has been passed.
LEMMA InvDropsNothing ==
  RlcInv => NothingDropped
<1> SUFFICES ASSUME RlcInv, NEW s \in 0..(submitted - 1), taken >= (s + 1) * SduSize,
                    \A n \in PduNumbers : Carries(n, s) => n \in accepted \ Held
             PROVE  \E i \in DOMAIN Numbers : Numbers[i] = s
  BY DEF NothingDropped
<1>1. PICK lo \in Nat : Standing(rx, lo, top, accepted)
  BY DEF RlcInv
<1>2. /\ Segments /\ End(Len(pdus)) = taken /\ Stage(rx, lo, accepted) /\ lo <= top
      /\ top <= Len(pdus) /\ Len(pdus) \in Nat /\ lo \in Nat /\ top \in Nat
      /\ s \in Nat /\ taken \in Nat
      /\ DOMAIN rx.delivered = 1..Len(rx.delivered)
  <2>1. submitted \in Nat /\ Len(pdus) \in Nat /\ End(Len(pdus)) = taken
    BY Parameters DEF RlcInv, RlcUmTypeOK, Segments
  <2>2. End(Len(pdus)) \in Nat
    BY <2>1, EndIsNat DEF RlcInv
  <2> QED BY <1>1, <2>1, <2>2 DEF RlcInv, Standing, At, ReceiverType
<1> DEFINE u == (s + 1) * SduSize - 1
<1>3. u \in Nat /\ Sdu(u) = s /\ Sdu(u + 1) = s + 1 /\ u < taken
  <2>1. u \in Nat /\ Sdu(u) = s
    BY <1>2, SduEdges
  <2>2. (s + 1) * SduSize \in Nat /\ Sdu((s + 1) * SduSize) = s + 1
    <3>1. s + 1 \in Nat
      BY <1>2
    <3> QED BY <3>1, SduEdges
  <2>3. u + 1 = (s + 1) * SduSize
    BY <2>2
  <2> QED BY <1>2, <2>1, <2>2, <2>3
<1> HIDE DEF u
<1>4. PICK n \in PduNumbers : u \in End(n)..(End(n + 1) - 1)
  BY <1>2, <1>3, CarrierOf
<1>5. n \in accepted \ Held
  BY <1>2, <1>3, <1>4, CarriesUnit
<1>6. n < lo /\ n \in Nat
  <2>1. n \in Nat /\ ~(lo <= n)
    BY <1>1, <1>5, HeldIs, <1>2, PduIs
  <2> QED BY <1>2, <2>1
<1>7. s < Sdu(End(lo)) /\ Sdu(End(lo)) \in Nat
  <2>1. n + 1 \in 0..Len(pdus) /\ lo \in (n + 1)..Len(pdus) /\ lo \in 0..Len(pdus)
    BY <1>2, <1>6
  <2>2. End(n + 1) <= End(lo) /\ End(n + 1) \in Nat /\ End(lo) \in Nat
    BY <1>2, <2>1, EndGrows, EndIsNat
  <2>3. u + 1 <= End(lo) /\ u + 1 \in Nat
    BY <1>3, <1>4, <2>2
  <2>4. Sdu(u + 1) <= Sdu(End(lo)) /\ Sdu(End(lo)) \in Nat
    BY <2>2, <2>3, SduGrows, UnitCounts
  <2> QED BY <1>2, <1>3, <2>4
<1>8. ~Missed(accepted, lo, s)
  <2>1. \A k \in 0..(lo - 1) : k \in PduNumbers
    BY <1>2 DEF PduNumbers
  <2> QED BY <2>1 DEF Missed
<1>9. PICK i \in 1..Len(rx.delivered) : Sdu(rx.delivered[i][1]) = s
  <2>1. s \in 0..(Sdu(End(lo)) - 1)
    BY <1>2, <1>7
  <2> QED BY <1>2, <1>8, <2>1 DEF Stage
<1> QED BY <1>2, <1>9 DEF Numbers

\* The queue sees submitted SDUs, in order.
NumbersFit ==
  /\ Numbers \in Seq(0..(submitted - 1)) /\ Fifo!Increasing(Numbers)
  /\ Len(Numbers) = Len(rx.delivered) /\ Len(Numbers) \in Nat
  /\ \A i \in 1..Len(Numbers) : Numbers[i] = Sdu(rx.delivered[i][1])

\* The numbers of the SDUs delivered.
LEMMA NumbersAre ==
  RlcInv => NumbersFit
<1> SUFFICES ASSUME RlcInv PROVE NumbersFit
  OBVIOUS
<1>1. PICK lo \in Nat : Standing(rx, lo, top, accepted)
  BY DEF RlcInv
<1>2. /\ Segments /\ End(Len(pdus)) = taken /\ lo \in 0..Len(pdus) /\ Len(pdus) \in Nat
      /\ Delivered(rx.delivered, End(lo)) /\ rx.delivered \in Seq(Seq(Units))
      /\ submitted \in Nat /\ taken \in 0..(submitted * SduSize)
  <2>1. submitted \in Nat /\ Len(pdus) \in Nat /\ taken \in 0..(submitted * SduSize)
    BY Parameters DEF RlcInv, RlcUmTypeOK, Segments
  <2> QED BY <1>1, <2>1 DEF RlcInv, Standing, At, ReceiverType, Stage
<1>3. Sdu(End(lo)) <= submitted /\ Sdu(End(lo)) \in Nat
  <2>1. lo \in 0..Len(pdus) /\ Len(pdus) \in lo..Len(pdus)
    BY <1>2
  <2>2. End(lo) <= taken /\ End(lo) \in Nat
    BY <1>2, <2>1, EndGrows, EndIsNat
  <2>3. submitted * SduSize \in Nat /\ Sdu(submitted * SduSize) = submitted
    BY <1>2, SduEdges
  <2> DEFINE m == submitted * SduSize
  <2>4. m \in Nat /\ taken \in 0..m /\ Sdu(m) = submitted
    BY <1>2, <2>3
  <2> HIDE DEF m
  <2>5. End(lo) <= m
    BY <2>2, <2>4
  <2> QED BY <2>2, <2>4, <2>5, SduGrows, UnitCounts
<1>4. DOMAIN rx.delivered = 1..Len(rx.delivered) /\ Len(rx.delivered) \in Nat
  BY <1>2
<1>5. Numbers = [i \in 1..Len(rx.delivered) |-> Sdu(rx.delivered[i][1])]
  BY <1>4 DEF Numbers
<1>6. \A i \in 1..Len(rx.delivered) : Sdu(rx.delivered[i][1]) \in 0..(submitted - 1)
  <2>1. 0..(Sdu(End(lo)) - 1) \subseteq 0..(submitted - 1)
    BY <1>2, <1>3
  <2> QED BY <1>2, <2>1 DEF Delivered
<1>7. Numbers \in Seq(0..(submitted - 1)) /\ Len(Numbers) = Len(rx.delivered)
      /\ DOMAIN Numbers = 1..Len(rx.delivered)
  BY <1>4, <1>5, <1>6
<1>8. Fifo!Increasing(Numbers)
  BY <1>2, <1>5, <1>7 DEF Fifo!Increasing, Delivered
<1> QED BY <1>4, <1>5, <1>7, <1>8 DEF NumbersFit

-----------------------------------------------------------------------------
(* Theorems.                                                               *)

\* The buffer holds the PDUs between VR(UR) and VR(UH), each at its own number.
THEOREM BufferFitsWindow ==
  ASSUME SingleThread
  PROVE  RlcUmSpec => []HeldInWindow
<1>1. RlcInv /\ [RlcUmNext]_umVars => RlcInv'
  BY StepKeepsInv
<1> QED BY <1>1, InvAtStart, InvHoldsInWindow, PTL DEF RlcUmSpec

\* rlc_um_try_reassembly never puts parts of two SDUs together, whatever is lost.
THEOREM SdusAreWhole ==
  ASSUME SingleThread
  PROVE  RlcUmSpec => []WholeSdus
<1>1. RlcInv /\ [RlcUmNext]_umVars => RlcInv'
  BY StepKeepsInv
<1> QED BY <1>1, InvAtStart, InvDeliversWhole, PTL DEF RlcUmSpec

\* An SDU that the receiver does not deliver has lost a PDU on the radio, or waits in
\* the buffer: reassembly_missing_sn_detected does not outlive the gap.
THEOREM OnlyTheRadioLoses ==
  ASSUME SingleThread
  PROVE  RlcUmSpec => []NothingDropped
<1>1. RlcInv /\ [RlcUmNext]_umVars => RlcInv'
  BY StepKeepsInv
<1> QED BY <1>1, InvAtStart, InvDropsNothing, PTL DEF RlcUmSpec

\* Transmitter, radio and receiver implement a queue that loses SDUs, and neither
\* duplicates nor reorders them.
THEOREM UmImplementsLossyFifo ==
  ASSUME SingleThread
  PROVE  RlcUmSpec => IsLossyFifo
<1>1. RlcInv /\ [RlcUmNext]_umVars => RlcInv'
  BY StepKeepsInv
<1>2. RlcUmInit => Fifo!Init
  BY DEF RlcUmInit, Fifo!Init, Numbers
<1>3. RlcInv' => NumbersFit'
  BY NumbersAre, PTL
<1>4. RlcInv /\ RlcInv' /\ [RlcUmNext]_umVars
      => [Fifo!Submit \/ Fifo!Deliver]_<<submitted, Numbers>>
  <2> SUFFICES ASSUME RlcInv, RlcInv', [RlcUmNext]_umVars
               PROVE  Fifo!Submit \/ Fifo!Deliver \/ UNCHANGED <<submitted, Numbers>>
    OBVIOUS
  <2>1. /\ rx'.delivered = rx.delivered \/ submitted' = submitted
        /\ Extends(rx'.delivered, rx.delivered) /\ submitted' \in {submitted, submitted + 1}
    BY StepKeepsInv
  <2>2. CASE rx'.delivered = rx.delivered
    <3>1. Numbers' = Numbers
      BY <2>2 DEF Numbers, Sdu
    <3> QED BY <2>1, <3>1 DEF Fifo!Submit
  <2>3. CASE submitted' = submitted
    <3>1. /\ Numbers \in Seq(0..(submitted - 1)) /\ Len(Numbers) = Len(rx.delivered)
          /\ Len(Numbers) \in Nat
          /\ \A i \in 1..Len(Numbers) : Numbers[i] = Sdu(rx.delivered[i][1])
      BY NumbersAre DEF NumbersFit
    <3>2. /\ Numbers' \in Seq(0..(submitted' - 1)) /\ Fifo!Increasing(Numbers)'
          /\ Len(Numbers') = Len(rx'.delivered) /\ Len(Numbers') \in Nat
          /\ \A i \in 1..Len(Numbers') : Numbers'[i] = Sdu(rx'.delivered[i][1])
      BY <1>3 DEF NumbersFit
    <3>3. Len(Numbers) <= Len(Numbers') /\ \A i \in 1..Len(Numbers) : Numbers'[i] = Numbers[i]
      BY <2>1, <3>1, <3>2 DEF Extends
    <3>4. SubSeq(Numbers', 1, Len(Numbers)) = Numbers
      <4> DEFINE l == Len(Numbers)
                 prefix == SubSeq(Numbers', 1, l)
      <4>1. /\ Numbers \in Seq(0..(submitted - 1)) /\ Numbers' \in Seq(0..(submitted' - 1))
            /\ l \in Nat /\ l <= Len(Numbers')
        BY <3>1, <3>2, <3>3
      <4>2. prefix = [i \in 1..l |-> Numbers'[i]]
        BY <4>1
      <4>3. Numbers = [i \in 1..l |-> Numbers[i]]
        BY <4>1
      <4> HIDE DEF l, prefix
      <4>4. \A i \in 1..l : Numbers'[i] = Numbers[i]
        BY <3>3 DEF l
      <4> QED BY <4>2, <4>3, <4>4 DEF l, prefix
    <3> QED BY <2>3, <3>2, <3>4 DEF Fifo!Deliver, Fifo!Increasing
  <2> QED BY <2>1, <2>2, <2>3
<1> QED BY <1>1, <1>2, <1>4, InvAtStart, PTL DEF RlcUmSpec, IsLossyFifo, Fifo!Spec
=============================================================================
