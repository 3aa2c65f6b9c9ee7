------------------------ MODULE PagingAArch64_proofs ------------------------
(***************************************************************************)
(* Proofs about PagingAArch64, for every size of the tables and of the     *)
(* pool, all tables and memory maps of the boot loader, all areas in the   *)
(* direct map and all mappings of the higher half.                         *)
(***************************************************************************)
EXTENDS PagingAArch64, FiniteSetTheorems, WellFoundedInduction, TLAPS

(***************************************************************************)
(* Pages and indexes                                                       *)
(***************************************************************************)
Slots == 0 .. (Entries - 1)
Lower == 0 .. (Half - 1)
Upper == Half .. (2 * Half - 1)

LEMMA EntriesType == Entries \in Int /\ Entries > 1
BY AArch64Assumption

LEMMA DivMod ==
  ASSUME NEW n \in Int, NEW e \in Int, e > 0
  PROVE  /\ n \div e \in Int /\ n % e \in 0 .. e - 1 /\ n = e * (n \div e) + (n % e)
         /\ n >= 0 => n \div e \in Nat
BY SMTT(30)

LEMMA DivModUnique ==
  ASSUME NEW n \in Int, NEW e \in Int, e > 0, NEW q \in Int, NEW r \in 0 .. e - 1, n = e * q + r
  PROVE  n \div e = q /\ n % e = r
<1>1. n \div e \in Int /\ n % e \in 0 .. e - 1 /\ n = e * (n \div e) + (n % e)
  BY DivMod
<1> QED
  BY <1>1, SMTT(30)

LEMMA TimesMonotonic ==
  ASSUME NEW a \in Int, NEW b \in Int, NEW c \in Int, a <= b, c >= 0
  PROVE  c * a <= c * b
<1>1. c * (b - a) >= 0 /\ c * a \in Int /\ c * b \in Int
  OBVIOUS
<1>2. c * (b - a) = c * b - c * a
  OBVIOUS
<1> QED
  BY <1>1, <1>2

LEMMA DigitRange ==
  ASSUME NEW e \in Int, e > 0, NEW m \in Int, NEW q \in 0 .. m - 1, NEW d \in 0 .. e - 1
  PROVE  e * q + d \in 0 .. e * m - 1
<1>1. e * q <= e * (m - 1) /\ e * 0 <= e * q
  BY TimesMonotonic
<1>2. e * (m - 1) = e * m - e /\ e * 0 = 0 /\ e * q \in Int /\ e * m \in Int
  OBVIOUS
<1> QED
  BY <1>1, <1>2

LEMMA DigitBound ==
  ASSUME NEW e \in Int, e > 0, NEW m \in Int, NEW q \in Int, NEW d \in 0 .. e - 1, e * q + d < e * m
  PROVE  q < m
<1> SUFFICES ASSUME m <= q PROVE FALSE
  OBVIOUS
<1>1. e * m <= e * q
  BY TimesMonotonic
<1>2. e * m \in Int /\ e * q \in Int
  OBVIOUS
<1> QED
  BY <1>1, <1>2

LEMMA SpanValues ==
  /\ Span(1) = Entries * Entries * Entries /\ Span(2) = Entries * Entries
  /\ Span(3) = Entries /\ Span(4) = 1
  /\ Half = Entries * (Entries * (Entries * Entries))
  /\ \A l \in 1 .. 4 : Span(l) \in Int /\ Span(l) > 0
<1>1. Span(1) = Entries * Entries * Entries /\ Span(2) = Entries * Entries
      /\ Span(3) = Entries /\ Span(4) = 1
  BY DEF Span
<1>2. Entries * Entries \in Int /\ Entries * Entries > 0
  BY EntriesType
<1>3. Entries * Entries * Entries \in Int /\ Entries * Entries * Entries > 0
  BY EntriesType, <1>2
<1>4. Half = Entries * (Entries * (Entries * Entries))
  BY <1>1, <1>2, EntriesType DEF Half
<1>5. \A l \in 1 .. 4 : l = 1 \/ l = 2 \/ l = 3 \/ l = 4
  OBVIOUS
<1> QED
  BY <1>1, <1>2, <1>3, <1>4, <1>5, EntriesType

LEMMA IndexType ==
  ASSUME NEW p \in Int, NEW l \in 1 .. 4
  PROVE  Index(p, l) \in Slots
<1>1. Span(l) \in Int /\ Span(l) > 0
  BY SpanValues
<1>2. p \div Span(l) \in Int
  BY <1>1, DivMod
<1> QED
  BY <1>2, DivMod, EntriesType DEF Index, Slots

(* An index is a remainder: the table of a level is found by division.       *)
LEMMA IndexesByDivision ==
  ASSUME NEW p \in Int, p >= 0,
         NEW q3, q3 = p \div Entries, NEW q2, q2 = q3 \div Entries, NEW q1, q1 = q2 \div Entries
  PROVE  /\ q3 \in Int /\ q3 >= 0 /\ p = Entries * q3 + Index(p, 4)
         /\ q2 \in Int /\ q2 >= 0 /\ q3 = Entries * q2 + Index(p, 3)
         /\ q1 \in Int /\ q1 >= 0 /\ q2 = Entries * q1 + Index(p, 2)
         /\ Index(p, 1) = q1 % Entries
<1> DEFINE E == Entries
           d4 == p % E
           d3 == q3 % E
           d2 == q2 % E
<1>0. E \in Int /\ E > 1 /\ E > 0
  BY EntriesType
<1>1. q3 \in Int /\ p % E \in 0 .. E - 1 /\ p = E * q3 + (p % E) /\ q3 >= 0
  BY <1>0, DivMod
<1>2. q2 \in Int /\ q3 % E \in 0 .. E - 1 /\ q3 = E * q2 + (q3 % E) /\ q2 >= 0
  BY <1>0, <1>1, DivMod
<1>3. q1 \in Int /\ q2 % E \in 0 .. E - 1 /\ q2 = E * q1 + (q2 % E) /\ q1 >= 0
  BY <1>0, <1>2, DivMod
<1>4. E \in Int /\ E > 1 /\ d4 \in 0 .. E - 1 /\ d3 \in 0 .. E - 1 /\ d2 \in 0 .. E - 1
      /\ p = E * q3 + d4 /\ q3 = E * q2 + d3 /\ q2 = E * q1 + d2
  BY <1>0, <1>1, <1>2, <1>3
<1>5. p \div E = q3 /\ p % E = d4 /\ q3 % E = d3 /\ q2 % E = d2
  OBVIOUS
<1> HIDE DEF d4, d3, d2, E
<1>6. p \div (E * E) = q2
  <2>1. p = (E * E) * q2 + (E * d3 + d4)
    BY <1>1, <1>2, <1>4
  <2>2. E * d3 + d4 \in 0 .. E * E - 1
    <3>1. E \in Int /\ E > 0 /\ d3 \in 0 .. E - 1 /\ d4 \in 0 .. E - 1
      BY <1>4
    <3> QED
      BY <3>1, DigitRange
  <2>3. E * E \in Int /\ E * E > 0
    BY <1>4
  <2> QED
    BY <1>2, <2>1, <2>2, <2>3, DivModUnique
<1>7. p \div (E * E * E) = q1
  <2>1. p = (E * E * E) * q1 + (E * (E * d2 + d3) + d4)
    BY <1>1, <1>2, <1>3, <1>4
  <2>2. E * d2 + d3 \in 0 .. E * E - 1
    <3>1. E \in Int /\ E > 0 /\ d2 \in 0 .. E - 1 /\ d3 \in 0 .. E - 1
      BY <1>4
    <3> QED
      BY <3>1, DigitRange
  <2>4. E * (E * d2 + d3) + d4 \in 0 .. E * (E * E) - 1
    <3> DEFINE m == E * E
               q == E * d2 + d3
    <3>1. E \in Int /\ E > 0 /\ m \in Int /\ q \in 0 .. m - 1 /\ d4 \in 0 .. E - 1
      BY <1>4, <2>2
    <3> HIDE DEF m, q
    <3>2. E * q + d4 \in 0 .. E * m - 1
      BY <3>1, DigitRange
    <3> QED
      BY <3>2 DEF m, q
  <2>3. E * E * E \in Int /\ E * E * E > 0
    BY <1>4
  <2>5. E * (E * E) = E * E * E
    BY <1>4
  <2> QED
    BY <1>3, <2>1, <2>3, <2>4, <2>5, DivModUnique
<1>10. Index(p, 1) = q1 % E /\ Index(p, 2) = d2 /\ Index(p, 3) = d3
  BY <1>5, <1>6, <1>7, SpanValues DEF Index, E
<1>11. Index(p, 4) = d4
  <2>1. p \div 1 = p
    OBVIOUS
  <2> QED
    BY <1>5, <2>1, SpanValues DEF Index, E
<1> QED
  BY <1>1, <1>2, <1>3, <1>4, <1>10, <1>11 DEF E

(* The indexes are the digits of a page to the base Entries. *)
LEMMA LowerDigits ==
  ASSUME NEW p \in Lower
  PROVE  p = Entries * (Entries * (Entries * Index(p, 1) + Index(p, 2)) + Index(p, 3)) + Index(p, 4)
<1> DEFINE E == Entries
           q3 == p \div E
           q2 == q3 \div E
           q1 == q2 \div E
           d4 == Index(p, 4)
           d3 == Index(p, 3)
           d2 == Index(p, 2)
<1>0. p \in Int /\ p >= 0 /\ p < Half
  BY SpanValues, EntriesType DEF Lower
<1>1. q3 \in Int /\ q3 >= 0 /\ p = E * q3 + d4
  BY <1>0, IndexesByDivision
<1>2. q2 \in Int /\ q2 >= 0 /\ q3 = E * q2 + d3
  BY <1>0, IndexesByDivision
<1>3. q1 \in Int /\ q1 >= 0 /\ q2 = E * q1 + d2 /\ Index(p, 1) = q1 % E
  BY <1>0, IndexesByDivision
<1>4. E \in Int /\ E > 1 /\ d4 \in 0 .. E - 1 /\ d3 \in 0 .. E - 1 /\ d2 \in 0 .. E - 1
      /\ p = E * q3 + d4 /\ q3 = E * q2 + d3 /\ q2 = E * q1 + d2
  BY <1>0, <1>1, <1>2, <1>3, EntriesType, IndexType DEF Slots
<1> HIDE DEF q3, q2, q1, d4, d3, d2, E
<1>8. q1 < E
  <2>1. E * E \in Int /\ E * (E * E) \in Int
    BY <1>4
  <2>2. p < E * (E * (E * E))
    BY <1>0, SpanValues DEF E
  <2>3. q3 < E * (E * E)
    <3> DEFINE m == E * (E * E)
    <3>1. E * q3 + d4 < E * m /\ m \in Int
      BY <1>4, <2>1, <2>2, Zenon
    <3> HIDE DEF m
    <3>2. E \in Int /\ E > 0 /\ q3 \in Int /\ d4 \in 0 .. E - 1
      BY <1>1, <1>4
    <3>3. q3 < m
      BY <3>1, <3>2, DigitBound
    <3> QED
      BY <3>3 DEF m
  <2>4. q2 < E * E
    <3> DEFINE m == E * E
    <3>1. E * q2 + d3 < E * m /\ m \in Int
      BY <1>4, <2>1, <2>3, Zenon
    <3> HIDE DEF m
    <3>2. E \in Int /\ E > 0 /\ q2 \in Int /\ d3 \in 0 .. E - 1
      BY <1>2, <1>4
    <3>3. q2 < m
      BY <3>1, <3>2, DigitBound
    <3> QED
      BY <3>3 DEF m
  <2> QED
    <3>1. E * q1 + d2 < E * E
      BY <1>4, <2>4, Zenon
    <3> QED
      BY <1>3, <1>4, <3>1, DigitBound
<1>9. q1 % E = q1
  <2>1. q1 = E * 0 + q1 /\ q1 \in 0 .. E - 1
    BY <1>3, <1>4, <1>8
  <2> QED
    BY <1>4, <2>1, DivModUnique
<1> QED
  BY <1>3, <1>4, <1>9 DEF E, d4, d3, d2

LEMMA LowerSamePage ==
  ASSUME NEW p \in Lower, NEW q \in Lower, \A l \in 1 .. 4 : Index(p, l) = Index(q, l)
  PROVE  p = q
<1>1. Index(p, 1) = Index(q, 1) /\ Index(p, 2) = Index(q, 2)
      /\ Index(p, 3) = Index(q, 3) /\ Index(p, 4) = Index(q, 4)
  OBVIOUS
<1> QED
  BY <1>1, LowerDigits, Zenon

(* A block is the pages that differ in the last index only. *)
LEMMA LowerBlockOfPages ==
  ASSUME NEW p \in Lower, p % Entries = 0, NEW q \in Lower
  PROVE  /\ q \in p .. p + Entries - 1 <=> \A l \in 1 .. 3 : Index(p, l) = Index(q, l)
         /\ q \in p .. p + Entries - 1 => q % Entries = q - p
<1>0. /\ p \in Int /\ p >= 0 /\ q \in Int /\ q >= 0
      /\ Entries \in Int /\ Entries > 0
  BY SpanValues, EntriesType DEF Lower
<1>1. p = Entries * (p \div Entries) /\ p \div Entries \in Int
  BY <1>0, DivMod
<1>2. ASSUME q \in p .. p + Entries - 1
      PROVE  q \div Entries = p \div Entries /\ q % Entries = q - p
  <2>1. q - p \in 0 .. Entries - 1 /\ q = Entries * (p \div Entries) + (q - p)
    BY <1>0, <1>1, <1>2
  <2> QED
    BY <1>0, <1>1, <2>1, DivModUnique
<1>3. ASSUME q \div Entries = p \div Entries
      PROVE  \A l \in 1 .. 3 : Index(p, l) = Index(q, l)
  <2>1. \A r \in Int : r >= 0 =>
          \E k2, k1 \in Int :
            /\ k2 = (r \div Entries) \div Entries /\ r \div Entries = Entries * k2 + Index(r, 3)
            /\ k1 = k2 \div Entries /\ k2 = Entries * k1 + Index(r, 2) /\ Index(r, 1) = k1 % Entries
    <3> SUFFICES ASSUME NEW r \in Int, r >= 0
                 PROVE  \E k2, k1 \in Int :
                   /\ k2 = (r \div Entries) \div Entries /\ r \div Entries = Entries * k2 + Index(r, 3)
                   /\ k1 = k2 \div Entries /\ k2 = Entries * k1 + Index(r, 2) /\ Index(r, 1) = k1 % Entries
      OBVIOUS
    <3> DEFINE k3 == r \div Entries
               k2 == k3 \div Entries
               k1 == k2 \div Entries
    <3>1. k2 \in Int /\ k3 = Entries * k2 + Index(r, 3)
      BY IndexesByDivision
    <3>2. k1 \in Int /\ k2 = Entries * k1 + Index(r, 2) /\ Index(r, 1) = k1 % Entries
      BY IndexesByDivision
    <3> QED
      BY <3>1, <3>2, Zenon
  <2>2. PICK k2 \in Int, k1 \in Int :
          /\ k2 = (p \div Entries) \div Entries /\ p \div Entries = Entries * k2 + Index(p, 3)
          /\ k1 = k2 \div Entries /\ k2 = Entries * k1 + Index(p, 2) /\ Index(p, 1) = k1 % Entries
    BY <1>0, <2>1, Zenon
  <2>3. /\ p \div Entries = Entries * k2 + Index(q, 3)
        /\ k2 = Entries * k1 + Index(q, 2) /\ Index(q, 1) = k1 % Entries
    <3>1. PICK j2 \in Int, j1 \in Int :
            /\ j2 = (q \div Entries) \div Entries /\ q \div Entries = Entries * j2 + Index(q, 3)
            /\ j1 = j2 \div Entries /\ j2 = Entries * j1 + Index(q, 2) /\ Index(q, 1) = j1 % Entries
      BY <1>0, <2>1, Zenon
    <3>2. j2 = k2
      BY <1>3, <2>2, <3>1, Zenon
    <3>3. j1 = k1
      BY <2>2, <3>1, <3>2, Zenon
    <3> QED
      BY <1>3, <3>1, <3>2, <3>3, Zenon
  <2>4. Index(p, 2) \in Int /\ Index(q, 2) \in Int /\ Index(p, 3) \in Int /\ Index(q, 3) \in Int
    BY <1>0, IndexType DEF Slots
  <2>5. Entries * k2 \in Int /\ Entries * k1 \in Int
    <3>1. Entries \in Int
      BY <1>0
    <3>2. \A k \in Int : Entries * k \in Int
      BY <3>1
    <3> QED
      BY <3>2, Zenon
  <2>6. Index(p, 1) = Index(q, 1) /\ Index(p, 2) = Index(q, 2) /\ Index(p, 3) = Index(q, 3)
    <3>1. /\ Entries * k2 + Index(p, 3) = Entries * k2 + Index(q, 3)
          /\ Entries * k1 + Index(p, 2) = Entries * k1 + Index(q, 2)
          /\ Index(p, 1) = Index(q, 1)
      BY <2>2, <2>3, Zenon
    <3> QED
      BY <2>4, <2>5, <3>1
  <2> QED
    BY <2>6
<1>4. ASSUME \A l \in 1 .. 3 : Index(p, l) = Index(q, l)
      PROVE  q \in p .. p + Entries - 1
  <2> DEFINE base == Entries * (Entries * (Entries * Index(p, 1) + Index(p, 2)) + Index(p, 3))
  <2>1. Index(p, 1) = Index(q, 1) /\ Index(p, 2) = Index(q, 2) /\ Index(p, 3) = Index(q, 3)
    BY <1>4
  <2>2. p = base + Index(p, 4) /\ q = base + Index(q, 4)
    BY <2>1, LowerDigits, Zenon
  <2>3. base \in Int
    BY <1>0, IndexType DEF Slots
  <2> HIDE DEF base
  <2>4. Index(p, 4) \in 0 .. Entries - 1 /\ Index(q, 4) \in 0 .. Entries - 1
    BY <1>0, IndexType DEF Slots
  <2>5. Index(p, 4) = 0
    <3>1. p = Entries * (p \div Entries) + Index(p, 4)
      BY <1>0, IndexesByDivision
    <3> QED
      BY <1>0, <1>1, <2>4, <3>1
  <2> QED
    BY <1>0, <2>2, <2>3, <2>4, <2>5
<1> QED
  BY <1>2, <1>3, <1>4

LEMMA LowerBlockIsOfPages ==
  ASSUME NEW p \in Lower, p % Entries = 0
  PROVE  p .. p + Entries - 1 \subseteq Lower /\ p + Entries <= Half
<1> DEFINE m == Entries * (Entries * Entries)
           k == p \div Entries
<1>1. /\ p \in Int /\ p >= 0 /\ p < Half /\ Entries \in Int /\ Entries > 0
      /\ Half = Entries * m /\ m \in Int
  BY SpanValues, EntriesType DEF Lower
<1>2. k \in Int /\ p = Entries * k + 0 /\ k >= 0
  BY <1>1, DivMod
<1> HIDE DEF m, k
<1>3. k < m
  BY <1>1, <1>2, DigitBound
<1>4. Entries * k + (Entries - 1) \in 0 .. Entries * m - 1
  BY <1>1, <1>2, <1>3, DigitRange
<1> QED
  BY <1>1, <1>2, <1>4 DEF Lower

(***************************************************************************)
(* The two halves                                                          *)
(***************************************************************************)
LEMMA HalfType ==
  /\ Half \in Nat /\ Half > 0 /\ 2 * Half \in Nat /\ 0 \in Pages /\ Half \in Pages
  /\ Pages = 0 .. (2 * Half - 1)
  /\ \A p \in Pages : p \in Nat /\ p < 2 * Half /\ (p \in Lower \/ p \in Upper)
  /\ \A n \in Nat : n % (2 * Half) \in Pages
  /\ \A p \in Upper : p \in Pages /\ p \in Nat /\ p - Half \in Lower /\ p - Half \in Pages
  /\ \A p \in Lower : p \in Pages /\ p \in Nat /\ p + Half \in Upper /\ Half + p \in Upper
<1>1. Half \in Int /\ Half > 0
  <2>1. Span(1) \in Int /\ Span(1) > 0
    BY SpanValues
  <2> QED
    BY <2>1, EntriesType DEF Half
<1>2. ASSUME NEW n \in Nat PROVE n % (2 * Half) \in Pages
  <2>1. n % (2 * Half) \in 0 .. 2 * Half - 1
    BY <1>1, DivMod
  <2> QED
    BY <2>1 DEF Pages
<1>3. ASSUME NEW p \in Pages PROVE p \in Nat /\ p < 2 * Half /\ (p \in Lower \/ p \in Upper)
  BY <1>1 DEF Pages, Lower, Upper
<1>4. ASSUME NEW p \in Upper PROVE p \in Pages /\ p \in Nat /\ p - Half \in Lower /\ p - Half \in Pages
  BY <1>1 DEF Pages, Lower, Upper
<1>5. ASSUME NEW p \in Lower PROVE p \in Pages /\ p \in Nat /\ p + Half \in Upper /\ Half + p \in Upper
  BY <1>1 DEF Pages, Lower, Upper
<1>6. 0 \in Pages /\ Half \in Pages /\ Pages = 0 .. (2 * Half - 1)
  BY <1>1 DEF Pages
<1> QED
  BY <1>1, <1>2, <1>3, <1>4, <1>5, <1>6

(* The indexes of a page are those of the page Half further on.               *)
LEMMA HalvesAlike ==
  ASSUME NEW p \in Int, NEW l \in 1 .. 4
  PROVE  Index(p + Half, l) = Index(p, l)
<1> DEFINE E == Entries
<1>1. E \in Int /\ E > 0
  BY EntriesType
<1>2. /\ Half = Span(1) * (E * 1) /\ Half = Span(2) * (E * E)
      /\ Half = Span(3) * (E * (E * E)) /\ Half = Span(4) * (E * (E * E * E))
  <2>1. /\ Span(1) = E * E * E /\ Span(2) = E * E /\ Span(3) = E /\ Span(4) = 1
        /\ Half = E * (E * (E * E))
    BY SpanValues
  <2> HIDE DEF E
  <2>2. E * E \in Int /\ E * E * E \in Int
    BY <1>1
  <2>3. /\ E * (E * (E * E)) = (E * E * E) * (E * 1)
        /\ E * (E * (E * E)) = (E * E) * (E * E)
        /\ E * (E * (E * E)) = 1 * (E * (E * E * E))
    BY <1>1
  <2> QED
    BY <2>1, <2>3
<1>3. E * E \in Int /\ E * E * E \in Int
  BY <1>1
<1>4. \E k \in Int : Half = Span(l) * (E * k)
  <2>1. l = 1 \/ l = 2 \/ l = 3 \/ l = 4
    OBVIOUS
  <2> HIDE DEF E
  <2>2. CASE l = 1
    <3>1. Half = Span(l) * (E * 1) /\ 1 \in Int
      BY <1>2, <2>2
    <3> QED
      BY <3>1, Zenon
  <2>3. CASE l = 2
    BY <1>1, <1>2, <2>3, Zenon
  <2>4. CASE l = 3
    BY <1>2, <1>3, <2>4, Zenon
  <2>5. CASE l = 4
    BY <1>2, <1>3, <2>5, Zenon
  <2> QED
    BY <2>1, <2>2, <2>3, <2>4, <2>5
<1>5. PICK k \in Int : Half = Span(l) * (E * k)
  BY <1>4
<1>6. Span(l) \in Int /\ Span(l) > 0
  BY SpanValues
<1> DEFINE s == Span(l)
           m == E * k
<1>7. s \in Int /\ s > 0 /\ m \in Int /\ m = E * k /\ Half = s * m /\ Half \in Int
  BY <1>1, <1>5, <1>6, HalfType
<1> HIDE DEF E, s, m
<1>8. ((p + Half) \div s) % E = (p \div s) % E
  <2> DEFINE q == p \div s
             r == p % s
             j == q \div E
             d == q % E
  <2>1. q \in Int /\ r \in 0 .. s - 1 /\ p = s * q + r
    BY <1>7, DivMod
  <2>2. j \in Int /\ d \in 0 .. E - 1 /\ q = E * j + d
    BY <1>1, <2>1, DivMod
  <2> HIDE DEF q, r, j, d
  <2>3. p + Half = s * (q + m) + r /\ q + m \in Int /\ p + Half \in Int
    BY <1>7, <2>1
  <2>4. (p + Half) \div s = q + m
    <3> DEFINE n == p + Half
               x == q + m
    <3>1. n = s * x + r /\ x \in Int /\ n \in Int /\ s \in Int /\ s > 0 /\ r \in 0 .. s - 1
      BY <1>7, <2>1, <2>3
    <3> HIDE DEF n, x
    <3>2. n \div s = x
      BY <3>1, DivModUnique
    <3> QED
      BY <3>2 DEF n, x
  <2>5. q + m = E * (j + k) + d /\ j + k \in Int
    BY <1>1, <1>7, <2>2
  <2>6. (q + m) % E = d
    BY <1>1, <2>2, <2>3, <2>5, DivModUnique
  <2> QED
    BY <2>4, <2>6 DEF q, d
<1> QED
  BY <1>8 DEF Index, E, s

(* The page of the higher half that mapMemory means by a page. *)
Fold(p) == Half + (p % Half)

LEMMA FoldIsAlike ==
  ASSUME NEW p \in Pages
  PROVE  /\ Fold(p) \in Upper /\ Fold(p) \in Pages
         /\ p \in Upper => Fold(p) = p
         /\ p \in Lower => Fold(p) = p + Half
         /\ \A l \in 1 .. 4 : Index(p, l) = Index(Fold(p), l)
<1>0. Half \in Int /\ Half > 0
  BY HalfType
<1>1. ASSUME p \in Lower
      PROVE  Fold(p) = p + Half /\ Fold(p) \in Upper /\ \A l \in 1 .. 4 : Index(p, l) = Index(Fold(p), l)
  <2>1. p = Half * 0 + p /\ p \in 0 .. Half - 1 /\ p \in Int /\ 0 \in Int
    BY <1>0, <1>1 DEF Lower
  <2>2. p % Half = p
    BY <1>0, <2>1, DivModUnique
  <2>3. Fold(p) = p + Half
    <3>1. Fold(p) = Half + p
      BY <2>2, Zenon DEF Fold
    <3>2. p \in Int
      BY <2>1
    <3> QED
      BY <1>0, <3>1, <3>2
  <2> QED
    BY <1>1, <2>1, <2>3, HalvesAlike, HalfType
<1>2. ASSUME p \in Upper
      PROVE  Fold(p) = p
  <2>1. p = Half * 1 + (p - Half) /\ p - Half \in 0 .. Half - 1 /\ p \in Int /\ 1 \in Int
    BY <1>0, <1>2 DEF Upper
  <2> DEFINE a == p - Half
  <2>2. p = Half * 1 + a /\ a \in 0 .. Half - 1 /\ a \in Int
    BY <2>1
  <2> HIDE DEF a
  <2>3. p % Half = a
    BY <1>0, <2>1, <2>2, DivModUnique
  <2>4. Fold(p) = Half + a
    BY <2>3, Zenon DEF Fold
  <2>5. p \in Int
    BY <2>1
  <2> QED
    BY <1>0, <2>4, <2>5 DEF a
<1> QED
  BY <1>1, <1>2, HalfType

(* Within the higher half the indexes tell the pages apart. *)
LEMMA SamePage ==
  ASSUME NEW p \in Upper, NEW q \in Upper, \A l \in 1 .. 4 : Index(p, l) = Index(q, l)
  PROVE  p = q
<1> DEFINE a == p - Half
           b == q - Half
<1>1. a \in Lower /\ b \in Lower /\ p = a + Half /\ q = b + Half /\ a \in Int /\ b \in Int
  BY HalfType DEF Upper, Lower
<1> HIDE DEF a, b
<1>2. \A l \in 1 .. 4 : Index(a, l) = Index(b, l)
  BY <1>1, HalvesAlike
<1>3. a = b
  BY <1>1, <1>2, LowerSamePage
<1> QED
  BY <1>1, <1>3

(* A half is a whole number of blocks. *)
LEMMA HalfIsOfBlocks ==
  /\ Half % Entries = 0 /\ (2 * Half) % Entries = 0 /\ 0 % Entries = 0
  /\ \A p \in Int : (p + Half) % Entries = p % Entries
  /\ \A p \in Pages : Fold(p) % Entries = p % Entries
<1> DEFINE m == Entries * (Entries * Entries)
<1>0. Entries \in Int /\ Entries > 0 /\ Half = Entries * m /\ m \in Int /\ Half \in Int
  BY EntriesType, SpanValues, HalfType
<1> HIDE DEF m
<1>1. ASSUME NEW p \in Int PROVE (p + Half) % Entries = p % Entries
  <2> DEFINE k == p \div Entries
             d == p % Entries
  <2>1. k \in Int /\ d \in 0 .. Entries - 1 /\ p = Entries * k + d
    BY <1>0, DivMod
  <2> HIDE DEF k, d
  <2>2. p + Half = Entries * (k + m) + d /\ k + m \in Int /\ p + Half \in Int
    BY <1>0, <2>1
  <2>3. (p + Half) % Entries = d
    BY <1>0, <2>1, <2>2, DivModUnique
  <2> QED
    BY <2>3 DEF d
<1>2. 0 % Entries = 0
  <2>1. 0 = Entries * 0 + 0 /\ 0 \in 0 .. Entries - 1
    BY <1>0
  <2> QED
    BY <1>0, <2>1, DivModUnique
<1>3. Half % Entries = 0
  <2>1. 0 + Half = Half
    BY <1>0
  <2> QED
    BY <1>1, <1>2, <2>1
<1>4. (2 * Half) % Entries = 0
  <2>1. Half + Half = 2 * Half
    BY <1>0
  <2> QED
    BY <1>0, <1>1, <1>3, <2>1
<1>5. ASSUME NEW p \in Pages PROVE Fold(p) % Entries = p % Entries
  <2>1. p \in Upper => Fold(p) = p
    BY FoldIsAlike
  <2>2. p \in Lower => Fold(p) = p + Half
    BY FoldIsAlike
  <2>3. p \in Int /\ (p \in Lower \/ p \in Upper)
    BY HalfType
  <2> QED
    BY <1>1, <2>1, <2>2, <2>3
<1> QED
  BY <1>1, <1>2, <1>3, <1>4, <1>5

(* A block is the pages that differ in the last index only. *)
LEMMA BlockOfPages ==
  ASSUME NEW p \in Upper, p % Entries = 0, NEW q \in Upper
  PROVE  /\ q \in p .. p + Entries - 1 <=> \A l \in 1 .. 3 : Index(p, l) = Index(q, l)
         /\ q \in p .. p + Entries - 1 => q % Entries = q - p
<1> DEFINE a == p - Half
           b == q - Half
<1>1. /\ a \in Lower /\ b \in Lower /\ p = a + Half /\ q = b + Half /\ a \in Int /\ b \in Int
      /\ Half \in Int /\ Entries \in Int
  BY HalfType, EntriesType DEF Upper, Lower
<1> HIDE DEF a, b
<1>2. a % Entries = 0 /\ q % Entries = b % Entries
  BY <1>1, HalfIsOfBlocks
<1>3. /\ b \in a .. a + Entries - 1 <=> \A l \in 1 .. 3 : Index(a, l) = Index(b, l)
      /\ b \in a .. a + Entries - 1 => b % Entries = b - a
  BY <1>1, <1>2, LowerBlockOfPages
<1>4. \A l \in 1 .. 3 : Index(p, l) = Index(a, l) /\ Index(q, l) = Index(b, l)
  BY <1>1, HalvesAlike
<1>5. q \in p .. p + Entries - 1 <=> b \in a .. a + Entries - 1
  BY <1>1
<1>6. q - p = b - a
  BY <1>1
<1> QED
  BY <1>2, <1>3, <1>4, <1>5, <1>6

LEMMA BlockIsOfPages ==
  ASSUME NEW p \in Pages, p % Entries = 0
  PROVE  /\ p .. p + Entries - 1 \subseteq Pages /\ p + Entries <= 2 * Half
         /\ p \in Lower => p + Entries <= Half
         /\ p \in Upper => p .. p + Entries - 1 \subseteq Upper
<1>0. Half \in Int /\ Half > 0 /\ Entries \in Int /\ Entries > 1 /\ p \in Int
  BY HalfType, EntriesType
<1>1. ASSUME p \in Lower
      PROVE  p + Entries <= Half
  BY <1>1, LowerBlockIsOfPages
<1>2. ASSUME p \in Upper
      PROVE  p + Entries <= 2 * Half
  <2> DEFINE a == p - Half
  <2>1. a \in Lower /\ p = a + Half /\ a \in Int
    BY <1>0, <1>2 DEF Upper, Lower
  <2> HIDE DEF a
  <2>2. a % Entries = 0
    BY <2>1, HalfIsOfBlocks
  <2>3. a + Entries <= Half
    BY <2>1, <2>2, LowerBlockIsOfPages
  <2> QED
    BY <1>0, <2>1, <2>3
<1>3. p \in Lower \/ p \in Upper
  BY HalfType
<1>4. p .. p + Entries - 1 \subseteq Pages /\ p + Entries <= 2 * Half
  BY <1>0, <1>1, <1>2, <1>3 DEF Pages, Lower, Upper
<1>5. p \in Upper => p .. p + Entries - 1 \subseteq Upper
  BY <1>0, <1>2 DEF Upper
<1> QED
  BY <1>1, <1>4, <1>5

(***************************************************************************)
(* The descent through the tables of a pool                                *)
(***************************************************************************)
PoolPages == 0 .. (PoolSize - 1)

(* The entries a page leads to, level by level. *)
Entry1(P, p) == P[1][Index(p, 1)]
Entry2(P, p) == P[Entry1(P, p).to][Index(p, 2)]
Entry3(P, p) == P[Entry2(P, p).to][Index(p, 3)]
Entry4(P, p) == P[Entry3(P, p).to][Index(p, 4)]

EntryAt(P, p, l) ==
  IF l = 1 THEN Entry1(P, p) ELSE IF l = 2 THEN Entry2(P, p)
  ELSE IF l = 3 THEN Entry3(P, p) ELSE Entry4(P, p)

NodeAt(P, p, l) ==
  IF l = 1 THEN 1 ELSE IF l = 2 THEN Entry1(P, p).to
  ELSE IF l = 3 THEN Entry2(P, p).to ELSE Entry3(P, p).to

(* Whether the descent for a page comes to a level. *)
Reaches(P, p, l) ==
  /\ l >= 2 => Entry1(P, p).kind = "table"
  /\ l >= 3 => Entry2(P, p).kind = "table"
  /\ l >= 4 => Entry3(P, p).kind = "table"

(* What it finds in the end. *)
Found(P, p) ==
  IF Reaches(P, p, 4) THEN Entry4(P, p) ELSE IF Reaches(P, p, 3) THEN Entry3(P, p) ELSE Blank

LEMMA Levels == \A l \in 1 .. 4 : l = 1 \/ l = 2 \/ l = 3 \/ l = 4
OBVIOUS

LEMMA DescentBegins ==
  ASSUME NEW P, NEW p
  PROVE  NodeAt(P, p, 1) = 1 /\ Reaches(P, p, 1)
BY DEF NodeAt, Reaches

LEMMA EntryOfNode ==
  ASSUME NEW P, NEW p, NEW l \in 1 .. 4
  PROVE  EntryAt(P, p, l) = P[NodeAt(P, p, l)][Index(p, l)]
<1>1. /\ EntryAt(P, p, 1) = P[NodeAt(P, p, 1)][Index(p, 1)]
      /\ EntryAt(P, p, 2) = P[NodeAt(P, p, 2)][Index(p, 2)]
      /\ EntryAt(P, p, 3) = P[NodeAt(P, p, 3)][Index(p, 3)]
      /\ EntryAt(P, p, 4) = P[NodeAt(P, p, 4)][Index(p, 4)]
  BY DEF NodeAt, EntryAt, Entry1, Entry2, Entry3, Entry4
<1> QED
  BY <1>1, Levels, Zenon

LEMMA DescentGoesOn ==
  ASSUME NEW P, NEW p, NEW l \in 1 .. 3
  PROVE  /\ NodeAt(P, p, l + 1) = EntryAt(P, p, l).to
         /\ Reaches(P, p, l + 1) <=> Reaches(P, p, l) /\ EntryAt(P, p, l).kind = "table"
<1>1. l = 1 \/ l = 2 \/ l = 3
  OBVIOUS
<1>2. CASE l = 1
  BY <1>2 DEF NodeAt, EntryAt, Reaches
<1>3. CASE l = 2
  BY <1>3 DEF NodeAt, EntryAt, Reaches
<1>4. CASE l = 3
  BY <1>4 DEF NodeAt, EntryAt, Reaches
<1> QED
  BY <1>1, <1>2, <1>3, <1>4

(***************************************************************************)
(* The shape of the tables                                                 *)
(***************************************************************************)

(* A link leads from a table to one that was taken from the pool later. *)
LinksDown(P, u) ==
  \A t \in PoolPages, i \in Slots :
    P[t][i].kind = "table" => P[t][i] = Link(P[t][i].to) /\ P[t][i].to \in t + 1 .. u - 1

LinksUnique(P) ==
  \A s \in PoolPages, t \in PoolPages, i \in Slots, j \in Slots :
    P[s][i].kind = "table" /\ P[t][j].kind = "table" /\ P[s][i].to = P[t][j].to => s = t /\ i = j

UnusedBlank(P, u) == \A t \in u .. PoolSize - 1 : P[t] = BlankTable

NoneIsBlank(P) == \A t \in PoolPages, i \in Slots : P[t][i].kind = "none" => P[t][i] = Blank

(* Leaves are found where the level allows them. *)
KindsOf(l) ==
  IF l = 4 THEN {"none", "page"}
  ELSE IF l = 3 THEN {"none", "table", "block"} ELSE {"none", "table"}

KindsByLevel(P) ==
  \A p \in Pages, l \in 1 .. 4 : Reaches(P, p, l) => EntryAt(P, p, l).kind \in KindsOf(l)

Shape(P, u) ==
  /\ P \in [PoolPages -> [Slots -> Entry]] /\ u \in PoolPages
  /\ LinksDown(P, u) /\ LinksUnique(P) /\ UnusedBlank(P, u) /\ NoneIsBlank(P) /\ KindsByLevel(P)
  /\ P[0] = BlankTable

LEMMA PoolType == PoolSize \in Nat /\ PoolSize > 2 /\ 0 \in PoolPages /\ 1 \in PoolPages
BY AArch64Assumption DEF PoolPages

LEMMA PagesType == \A p \in Pages : p \in Nat /\ p < 2 * Half
BY HalfType

LEMMA NodeType ==
  ASSUME NEW P, NEW u, Shape(P, u), NEW p \in Pages, NEW l \in 1 .. 4, Reaches(P, p, l)
  PROVE  /\ NodeAt(P, p, l) \in PoolPages /\ NodeAt(P, p, l) > 0 /\ Index(p, l) \in Slots
         /\ EntryAt(P, p, l) \in Entry
         /\ l > 1 => NodeAt(P, p, l) > 1 /\ NodeAt(P, p, l) < u
<1>0. P \in [PoolPages -> [Slots -> Entry]] /\ u \in PoolPages /\ LinksDown(P, u)
  BY DEF Shape
<1>1. \A k \in 1 .. 4 : Index(p, k) \in Slots
  BY IndexType, PagesType
<1>2. ASSUME NEW k \in 1 .. 3, Reaches(P, p, k + 1), NodeAt(P, p, k) \in PoolPages, NodeAt(P, p, k) > 0
      PROVE  NodeAt(P, p, k + 1) \in PoolPages /\ NodeAt(P, p, k + 1) > 0 /\ NodeAt(P, p, k + 1) > 1 /\ NodeAt(P, p, k + 1) < u
  <2>1. EntryAt(P, p, k).kind = "table" /\ NodeAt(P, p, k + 1) = EntryAt(P, p, k).to
        /\ EntryAt(P, p, k) = P[NodeAt(P, p, k)][Index(p, k)] /\ Index(p, k) \in Slots
    BY <1>1, <1>2, DescentBegins, EntryOfNode, DescentGoesOn
  <2>2. EntryAt(P, p, k).to \in NodeAt(P, p, k) + 1 .. u - 1
    BY <1>0, <1>2, <2>1 DEF LinksDown
  <2> QED
    BY <1>0, <1>2, <2>1, <2>2, PoolType DEF PoolPages
<1>3. NodeAt(P, p, 1) \in PoolPages /\ NodeAt(P, p, 1) > 0
  BY DescentBegins, PoolType
<1>4. Reaches(P, p, 2) => NodeAt(P, p, 2) \in PoolPages /\ NodeAt(P, p, 2) > 0 /\ NodeAt(P, p, 2) > 1 /\ NodeAt(P, p, 2) < u
  <2>1. 1 \in 1 .. 3 /\ 1 + 1 = 2 /\ 0 < 1
    OBVIOUS
  <2> QED
    BY <1>2, <1>3, <2>1
<1>5. Reaches(P, p, 3) => NodeAt(P, p, 3) \in PoolPages /\ NodeAt(P, p, 3) > 0 /\ NodeAt(P, p, 3) > 1 /\ NodeAt(P, p, 3) < u
  <2>1. 2 \in 1 .. 3 /\ 2 + 1 = 3 /\ (Reaches(P, p, 3) => Reaches(P, p, 2))
    BY DEF Reaches
  <2> QED
    BY <1>2, <1>4, <2>1
<1>6. Reaches(P, p, 4) => NodeAt(P, p, 4) \in PoolPages /\ NodeAt(P, p, 4) > 0 /\ NodeAt(P, p, 4) > 1 /\ NodeAt(P, p, 4) < u
  <2>1. 3 \in 1 .. 3 /\ 3 + 1 = 4 /\ (Reaches(P, p, 4) => Reaches(P, p, 3))
    BY DEF Reaches
  <2> QED
    BY <1>2, <1>5, <2>1
<1>7. NodeAt(P, p, l) \in PoolPages /\ NodeAt(P, p, l) > 0 /\ (l > 1 => NodeAt(P, p, l) > 1 /\ NodeAt(P, p, l) < u)
  BY <1>3, <1>4, <1>5, <1>6, Levels
<1> QED
  BY <1>0, <1>1, <1>7, DescentBegins, EntryOfNode, DescentGoesOn

(* Two descents that come to the same table came the same way. *)
SameWay(P, l) ==
  \A p \in Pages, q \in Pages, k \in 1 .. 4 :
    Reaches(P, p, l) /\ Reaches(P, q, k) /\ NodeAt(P, p, l) = NodeAt(P, q, k) =>
      k = l /\ \A m \in 1 .. l - 1 : Index(p, m) = Index(q, m)

LEMMA SameWayDown ==
  ASSUME NEW P, NEW u, Shape(P, u), NEW l \in 1 .. 3, SameWay(P, l)
  PROVE  SameWay(P, l + 1)
<1> SUFFICES ASSUME NEW p \in Pages, NEW q \in Pages, NEW k \in 1 .. 4,
                    Reaches(P, p, l + 1), Reaches(P, q, k), NodeAt(P, p, l + 1) = NodeAt(P, q, k)
             PROVE  k = l + 1 /\ \A m \in 1 .. l : Index(p, m) = Index(q, m)
  BY DEF SameWay
<1>0. l \in 1 .. 4 /\ l + 1 \in 1 .. 4
  OBVIOUS
<1>1. NodeAt(P, p, l + 1) > 1
  BY <1>0, NodeType
<1>2. k # 1
  BY <1>1, DescentBegins, EntryOfNode, DescentGoesOn
<1> DEFINE j == k - 1
<1>3. j \in 1 .. 3 /\ j \in 1 .. 4 /\ k = j + 1
  BY <1>2
<1> HIDE DEF j
<1>4. /\ Reaches(P, p, l) /\ EntryAt(P, p, l).kind = "table"
      /\ NodeAt(P, p, l + 1) = EntryAt(P, p, l).to
      /\ EntryAt(P, p, l) = P[NodeAt(P, p, l)][Index(p, l)]
  BY <1>0, DescentBegins, EntryOfNode, DescentGoesOn
<1>5. /\ Reaches(P, q, j) /\ EntryAt(P, q, j).kind = "table"
      /\ NodeAt(P, q, k) = EntryAt(P, q, j).to
      /\ EntryAt(P, q, j) = P[NodeAt(P, q, j)][Index(q, j)]
  BY <1>3, DescentBegins, EntryOfNode, DescentGoesOn
<1>6. NodeAt(P, p, l) \in PoolPages /\ NodeAt(P, q, j) \in PoolPages
      /\ Index(p, l) \in Slots /\ Index(q, j) \in Slots
  BY <1>0, <1>3, <1>4, <1>5, NodeType
<1>7. NodeAt(P, p, l) = NodeAt(P, q, j) /\ Index(p, l) = Index(q, j)
  <2>1. LinksUnique(P)
    BY DEF Shape
  <2> QED
    BY <1>4, <1>5, <1>6, <2>1 DEF LinksUnique
<1>8. j = l /\ \A m \in 1 .. l - 1 : Index(p, m) = Index(q, m)
  BY <1>3, <1>4, <1>5, <1>7 DEF SameWay
<1> QED
  <2>1. \A m \in 1 .. l : m \in 1 .. l - 1 \/ m = l
    OBVIOUS
  <2> QED
    BY <1>3, <1>7, <1>8, <2>1

LEMMA SameTableSameWay ==
  ASSUME NEW P, NEW u, Shape(P, u), NEW l \in 1 .. 4
  PROVE  SameWay(P, l)
<1>1. SameWay(P, 1)
  <2> SUFFICES ASSUME NEW p \in Pages, NEW q \in Pages, NEW k \in 1 .. 4,
                      Reaches(P, q, k), NodeAt(P, p, 1) = NodeAt(P, q, k)
               PROVE  k = 1
    BY DEF SameWay
  <2>1. NodeAt(P, q, k) = 1
    BY DescentBegins, EntryOfNode, DescentGoesOn
  <2> QED
    BY <2>1, NodeType
<1>2. SameWay(P, 2)
  BY <1>1, SameWayDown
<1>3. SameWay(P, 3)
  BY <1>2, SameWayDown
<1>4. SameWay(P, 4)
  BY <1>3, SameWayDown
<1> QED
  BY <1>1, <1>2, <1>3, <1>4, Levels

(* And the same indexes lead to the same table. *)
Alike(p, q, l) == \A m \in 1 .. l : Index(p, m) = Index(q, m)

LEMMA SameIndexesSameTable ==
  ASSUME NEW P, NEW p, NEW q, NEW l \in 1 .. 4, Alike(p, q, l - 1)
  PROVE  (Reaches(P, p, l) <=> Reaches(P, q, l)) /\ NodeAt(P, p, l) = NodeAt(P, q, l)
<1>1. CASE l = 1
  BY <1>1 DEF Reaches, NodeAt
<1>2. CASE l = 2
  <2>1. Index(p, 1) = Index(q, 1)
    BY <1>2 DEF Alike
  <2> QED
    BY <1>2, <2>1 DEF Reaches, NodeAt, Entry1
<1>3. CASE l = 3
  <2>1. Index(p, 1) = Index(q, 1) /\ Index(p, 2) = Index(q, 2)
    BY <1>3 DEF Alike
  <2> QED
    BY <1>3, <2>1 DEF Reaches, NodeAt, Entry1, Entry2
<1>4. CASE l = 4
  <2>1. Index(p, 1) = Index(q, 1) /\ Index(p, 2) = Index(q, 2) /\ Index(p, 3) = Index(q, 3)
    BY <1>4 DEF Alike
  <2> QED
    BY <1>4, <2>1 DEF Reaches, NodeAt, Entry1, Entry2, Entry3
<1> QED
  BY <1>1, <1>2, <1>3, <1>4, Levels

(***************************************************************************)
(* What a write to an entry does to the descents                           *)
(***************************************************************************)
Write(P, p, l, e) == [P EXCEPT ![NodeAt(P, p, l)][Index(p, l)] = e]

(* An entry that is not a link may be written: what a descent has come to, *)
(* it still comes to.                                                      *)
Writable(P, u, p, l) ==
  Shape(P, u) /\ p \in Pages /\ l \in 1 .. 4 /\ Reaches(P, p, l) /\ EntryAt(P, p, l).kind # "table"

LEMMA EntriesWritten ==
  ASSUME NEW P, NEW u, NEW p, NEW l, Writable(P, u, p, l), NEW e
  PROVE  \A t \in PoolPages, i \in Slots :
              Write(P, p, l, e)[t][i] =
                IF t = NodeAt(P, p, l) /\ i = Index(p, l) THEN e ELSE P[t][i]
<1>1. P \in [PoolPages -> [Slots -> Entry]]
  BY DEF Writable, Shape
<1>2. NodeAt(P, p, l) \in PoolPages /\ Index(p, l) \in Slots
  BY NodeType DEF Writable
<1> QED
  BY <1>1, <1>2 DEF Write

LEMMA SamePlace ==
  ASSUME NEW P, NEW u, NEW p, NEW l, Writable(P, u, p, l),
         NEW q \in Pages, NEW k \in 1 .. 4, Reaches(P, q, k)
  PROVE  NodeAt(P, q, k) = NodeAt(P, p, l) /\ Index(q, k) = Index(p, l)
           <=> k = l /\ Alike(p, q, l)
<1>0. Shape(P, u) /\ p \in Pages /\ l \in 1 .. 4 /\ Reaches(P, p, l)
  BY DEF Writable
<1>1. ASSUME NodeAt(P, q, k) = NodeAt(P, p, l), Index(q, k) = Index(p, l)
      PROVE  k = l /\ Alike(p, q, l)
  <2>1. k = l /\ \A m \in 1 .. l - 1 : Index(p, m) = Index(q, m)
    <3>1. SameWay(P, l)
      BY <1>0, SameTableSameWay
    <3> QED
      BY <1>0, <1>1, <3>1 DEF SameWay
  <2>2. \A m \in 1 .. l : m \in 1 .. l - 1 \/ m = l
    BY <1>0
  <2> QED
    BY <1>1, <2>1, <2>2 DEF Alike
<1>2. ASSUME k = l, Alike(p, q, l)
      PROVE  NodeAt(P, q, k) = NodeAt(P, p, l) /\ Index(q, k) = Index(p, l)
  <2>1. Alike(p, q, l - 1) /\ l \in 1 .. l
    BY <1>0, <1>2 DEF Alike
  <2>2. NodeAt(P, p, l) = NodeAt(P, q, l)
    BY <1>0, <2>1, SameIndexesSameTable
  <2> QED
    BY <1>2, <2>1, <2>2 DEF Alike
<1> QED
  BY <1>1, <1>2

PathKept(P, Q, p, l, e, q, k) ==
  Reaches(P, q, k) =>
    /\ Reaches(Q, q, k) /\ NodeAt(Q, q, k) = NodeAt(P, q, k)
    /\ EntryAt(Q, q, k) = IF k = l /\ Alike(p, q, l) THEN e ELSE EntryAt(P, q, k)

LEMMA EntryKept ==
  ASSUME NEW P, NEW u, NEW p, NEW l, Writable(P, u, p, l), NEW e,
         NEW q \in Pages, NEW k \in 1 .. 4, Reaches(P, q, k),
         NodeAt(Write(P, p, l, e), q, k) = NodeAt(P, q, k)
  PROVE  EntryAt(Write(P, p, l, e), q, k) = IF k = l /\ Alike(p, q, l) THEN e ELSE EntryAt(P, q, k)
<1> DEFINE Q == Write(P, p, l, e)
<1>1. NodeAt(P, q, k) \in PoolPages /\ Index(q, k) \in Slots
  BY NodeType DEF Writable
<1>2. EntryAt(Q, q, k) = Q[NodeAt(P, q, k)][Index(q, k)]
  BY EntryOfNode
<1>3. EntryAt(P, q, k) = P[NodeAt(P, q, k)][Index(q, k)]
  BY EntryOfNode
<1>4. \A t \in PoolPages, i \in Slots :
        Q[t][i] = IF t = NodeAt(P, p, l) /\ i = Index(p, l) THEN e ELSE P[t][i]
  BY EntriesWritten
<1>5. NodeAt(P, q, k) = NodeAt(P, p, l) /\ Index(q, k) = Index(p, l) <=> k = l /\ Alike(p, q, l)
  BY SamePlace
<1> HIDE DEF Q
<1>6. EntryAt(Q, q, k) = IF k = l /\ Alike(p, q, l) THEN e ELSE EntryAt(P, q, k)
  BY <1>1, <1>2, <1>3, <1>4, <1>5
<1> QED
  BY <1>6 DEF Q

LEMMA PathGoesOn ==
  ASSUME NEW P, NEW u, NEW p, NEW l, Writable(P, u, p, l), NEW e,
         NEW q \in Pages, NEW k \in 1 .. 3, PathKept(P, Write(P, p, l, e), p, l, e, q, k)
  PROVE  PathKept(P, Write(P, p, l, e), p, l, e, q, k + 1)
<1> DEFINE Q == Write(P, p, l, e)
<1>0. k \in 1 .. 4 /\ k + 1 \in 1 .. 4
  OBVIOUS
<1> SUFFICES ASSUME Reaches(P, q, k + 1)
             PROVE  /\ Reaches(Q, q, k + 1) /\ NodeAt(Q, q, k + 1) = NodeAt(P, q, k + 1)
                    /\ EntryAt(Q, q, k + 1) = IF k + 1 = l /\ Alike(p, q, l) THEN e ELSE EntryAt(P, q, k + 1)
  BY DEF PathKept
<1>1. Reaches(P, q, k) /\ EntryAt(P, q, k).kind = "table"
  BY DescentGoesOn
<1>2. ~ (k = l /\ Alike(p, q, l))
  <2> SUFFICES ASSUME k = l, Alike(p, q, l) PROVE FALSE
    OBVIOUS
  <2>1. NodeAt(P, q, k) = NodeAt(P, p, l) /\ Index(q, k) = Index(p, l)
    BY <1>0, <1>1, SamePlace
  <2>2. EntryAt(P, q, k) = EntryAt(P, p, l)
    BY <1>0, <2>1, EntryOfNode
  <2> QED
    BY <1>1, <2>2 DEF Writable
<1>3. Reaches(Q, q, k) /\ EntryAt(Q, q, k) = EntryAt(P, q, k)
  BY <1>1, <1>2 DEF PathKept
<1>4. Reaches(Q, q, k + 1) /\ NodeAt(Q, q, k + 1) = NodeAt(P, q, k + 1)
  <2>1. Reaches(Q, q, k + 1)
    BY <1>1, <1>3, DescentGoesOn
  <2>2. NodeAt(Q, q, k + 1) = EntryAt(Q, q, k).to /\ NodeAt(P, q, k + 1) = EntryAt(P, q, k).to
    BY DescentGoesOn
  <2> QED
    BY <1>3, <2>1, <2>2
<1> QED
  BY <1>0, <1>4, EntryKept

LEMMA PathsKept ==
  ASSUME NEW P, NEW u, NEW p, NEW l, Writable(P, u, p, l), NEW e,
         NEW q \in Pages, NEW k \in 1 .. 4
  PROVE  PathKept(P, Write(P, p, l, e), p, l, e, q, k)
<1> DEFINE Q == Write(P, p, l, e)
<1>1. PathKept(P, Q, p, l, e, q, 1)
  <2>1. Reaches(Q, q, 1) /\ NodeAt(Q, q, 1) = 1 /\ NodeAt(P, q, 1) = 1 /\ Reaches(P, q, 1)
    BY DescentBegins
  <2>2. EntryAt(Q, q, 1) = IF 1 = l /\ Alike(p, q, l) THEN e ELSE EntryAt(P, q, 1)
    BY <2>1, EntryKept
  <2> QED
    BY <2>1, <2>2 DEF PathKept
<1>2. PathKept(P, Q, p, l, e, q, 2)
  BY <1>1, PathGoesOn
<1>3. PathKept(P, Q, p, l, e, q, 3)
  BY <1>2, PathGoesOn
<1>4. PathKept(P, Q, p, l, e, q, 4)
  BY <1>3, PathGoesOn
<1> QED
  BY <1>1, <1>2, <1>3, <1>4, Levels

(* What a descent comes to after the write it came to before, or it is     *)
(* the table just linked, which is blank.                                  *)
PathOld(P, Q, p, l, e, q, k) ==
  Reaches(Q, q, k) =>
    \/ Reaches(P, q, k)
    \/ /\ e.kind = "table" /\ k = l + 1 /\ Alike(p, q, l)
       /\ NodeAt(Q, q, k) = e.to /\ EntryAt(Q, q, k) = Blank

LEMMA NoNewPath ==
  ASSUME NEW P, NEW u, NEW p, NEW l, Writable(P, u, p, l), NEW e,
         e.kind = "table" => Write(P, p, l, e)[e.to] = BlankTable,
         NEW q \in Pages, NEW k \in 1 .. 3, PathOld(P, Write(P, p, l, e), p, l, e, q, k)
  PROVE  PathOld(P, Write(P, p, l, e), p, l, e, q, k + 1)
<1> DEFINE Q == Write(P, p, l, e)
<1>0. k \in 1 .. 4 /\ k + 1 \in 1 .. 4
  OBVIOUS
<1> SUFFICES ASSUME Reaches(Q, q, k + 1), ~ Reaches(P, q, k + 1)
             PROVE  /\ e.kind = "table" /\ k + 1 = l + 1 /\ Alike(p, q, l)
                    /\ NodeAt(Q, q, k + 1) = e.to /\ EntryAt(Q, q, k + 1) = Blank
  BY DEF PathOld
<1>1. Reaches(Q, q, k) /\ EntryAt(Q, q, k).kind = "table" /\ NodeAt(Q, q, k + 1) = EntryAt(Q, q, k).to
  BY DescentGoesOn
<1>2. Reaches(P, q, k)
  <2>1. EntryAt(Q, q, k) # Blank
    BY <1>1 DEF Blank
  <2> QED
    BY <1>1, <2>1 DEF PathOld
<1>3. EntryAt(P, q, k).kind # "table"
  BY <1>2, DescentGoesOn
<1>4. EntryAt(Q, q, k) = IF k = l /\ Alike(p, q, l) THEN e ELSE EntryAt(P, q, k)
  BY <1>0, <1>2, PathsKept DEF PathKept
<1>5. k = l /\ Alike(p, q, l) /\ EntryAt(Q, q, k) = e
  BY <1>1, <1>3, <1>4
<1>6. EntryAt(Q, q, k + 1) = Q[e.to][Index(q, k + 1)]
  BY <1>0, <1>1, <1>5, EntryOfNode
<1>7. Index(q, k + 1) \in Slots
  BY <1>0, IndexType, PagesType
<1>8. Q[e.to] = BlankTable
  BY <1>1, <1>5
<1>9. EntryAt(Q, q, k + 1) = Blank
  BY <1>6, <1>7, <1>8 DEF BlankTable, Slots
<1> QED
  BY <1>1, <1>5, <1>9

LEMMA PathsOld ==
  ASSUME NEW P, NEW u, NEW p, NEW l, Writable(P, u, p, l), NEW e,
         e.kind = "table" => Write(P, p, l, e)[e.to] = BlankTable,
         NEW q \in Pages, NEW k \in 1 .. 4
  PROVE  PathOld(P, Write(P, p, l, e), p, l, e, q, k)
<1> DEFINE Q == Write(P, p, l, e)
<1>1. PathOld(P, Q, p, l, e, q, 1)
  BY DescentBegins DEF PathOld
<1>2. PathOld(P, Q, p, l, e, q, 2)
  BY <1>1, NoNewPath
<1>3. PathOld(P, Q, p, l, e, q, 3)
  BY <1>2, NoNewPath
<1>4. PathOld(P, Q, p, l, e, q, 4)
  BY <1>3, NoNewPath
<1> QED
  BY <1>1, <1>2, <1>3, <1>4, Levels

(***************************************************************************)
(* A new table is linked to                                                *)
(***************************************************************************)
Linkable(P, u, p, l) ==
  Writable(P, u, p, l) /\ l # 4 /\ u > 1 /\ u + 1 \in PoolPages /\ EntryAt(P, p, l) = Blank

LEMMA LinkedTableBlank ==
  ASSUME NEW P, NEW u, NEW p, NEW l, Linkable(P, u, p, l)
  PROVE  /\ u \in PoolPages /\ NodeAt(P, p, l) \in PoolPages /\ NodeAt(P, p, l) < u
         /\ Write(P, p, l, Link(u))[u] = BlankTable
<1>1. P \in [PoolPages -> [Slots -> Entry]] /\ u \in PoolPages /\ UnusedBlank(P, u)
  BY DEF Linkable, Writable, Shape
<1>2. NodeAt(P, p, l) \in PoolPages /\ (l > 1 => NodeAt(P, p, l) < u)
  BY NodeType DEF Linkable, Writable
<1>3. NodeAt(P, p, l) < u
  <2>1. CASE l = 1
    BY <2>1, DescentBegins DEF Linkable
  <2>2. CASE l > 1
    BY <2>2, <1>2
  <2> QED
    BY <2>1, <2>2 DEF Linkable, Writable
<1>4. P[u] = BlankTable
  BY <1>1, PoolType DEF UnusedBlank, PoolPages
<1>5. u # NodeAt(P, p, l)
  BY <1>1, <1>2, <1>3 DEF PoolPages
<1>6. Write(P, p, l, Link(u))[u] = P[u]
  BY <1>1, <1>2, <1>5 DEF Write
<1> QED
  BY <1>1, <1>2, <1>3, <1>4, <1>6

LEMMA LinkType == \A u \in PoolPages : Link(u) \in Entry /\ Link(u).kind = "table" /\ Link(u).to = u
BY PoolType DEF Link, Entry, PoolPages

LEMMA BlankType == Blank \in Entry /\ Blank.kind = "none" /\ BlankTable \in [Slots -> Entry]
BY DEF Blank, BlankTable, Entry, Slots

LEMMA LinkKeepsLinks ==
  ASSUME NEW P, NEW u, NEW p, NEW l, Linkable(P, u, p, l)
  PROVE  LinksDown(Write(P, p, l, Link(u)), u + 1) /\ LinksUnique(Write(P, p, l, Link(u)))
<1> DEFINE Q == Write(P, p, l, Link(u))
<1>1. \A t \in PoolPages, i \in Slots :
        Q[t][i] = IF t = NodeAt(P, p, l) /\ i = Index(p, l) THEN Link(u) ELSE P[t][i]
  BY EntriesWritten DEF Linkable
<1>2. LinksDown(P, u) /\ LinksUnique(P) /\ u \in PoolPages
  BY DEF Linkable, Writable, Shape
<1>3. NodeAt(P, p, l) < u /\ NodeAt(P, p, l) \in PoolPages
  BY LinkedTableBlank
<1>4. Link(u).to = u /\ Link(u).kind = "table"
  BY <1>2, LinkType
<1> HIDE DEF Q
<1>5. LinksDown(Q, u + 1)
  <2> SUFFICES ASSUME NEW t \in PoolPages, NEW i \in Slots, Q[t][i].kind = "table"
               PROVE  Q[t][i] = Link(Q[t][i].to) /\ Q[t][i].to \in t + 1 .. (u + 1) - 1
    BY DEF LinksDown
  <2>1. CASE t = NodeAt(P, p, l) /\ i = Index(p, l)
    <3>1. Q[t][i] = Link(u)
      BY <1>1, <2>1
    <3> QED
      BY <1>2, <1>3, <1>4, <2>1, <3>1 DEF PoolPages
  <2>2. CASE ~ (t = NodeAt(P, p, l) /\ i = Index(p, l))
    <3>1. Q[t][i] = P[t][i]
      BY <1>1, <2>2
    <3>2. P[t][i] = Link(P[t][i].to) /\ P[t][i].to \in t + 1 .. u - 1
      BY <1>2, <3>1 DEF LinksDown
    <3> QED
      BY <1>2, <3>1, <3>2 DEF PoolPages
  <2> QED
    BY <2>1, <2>2
<1>6. LinksUnique(Q)
  <2> SUFFICES ASSUME NEW s \in PoolPages, NEW t \in PoolPages, NEW i \in Slots, NEW j \in Slots,
                      Q[s][i].kind = "table", Q[t][j].kind = "table", Q[s][i].to = Q[t][j].to
               PROVE  s = t /\ i = j
    BY DEF LinksUnique
  <2>1. \A r \in PoolPages, k \in Slots :
          \/ r = NodeAt(P, p, l) /\ k = Index(p, l) /\ Q[r][k].to = u
          \/ Q[r][k] = P[r][k] /\ (Q[r][k].kind = "table" => Q[r][k].to # u)
    <3> SUFFICES ASSUME NEW r \in PoolPages, NEW k \in Slots,
                        ~ (r = NodeAt(P, p, l) /\ k = Index(p, l)), P[r][k].kind = "table"
                 PROVE  P[r][k].to # u
      BY <1>1, <1>4
    <3>1. P[r][k].to \in r + 1 .. u - 1
      BY <1>2 DEF LinksDown
    <3> QED
      BY <1>2, <3>1 DEF PoolPages
  <2>2. CASE Q[s][i] = P[s][i] /\ Q[t][j] = P[t][j]
    BY <1>2, <2>2 DEF LinksUnique
  <2> QED
    BY <2>1, <2>2
<1> QED
  BY <1>5, <1>6 DEF Q

LEMMA LinkKeepsShape ==
  ASSUME NEW P, NEW u, NEW p, NEW l, Linkable(P, u, p, l)
  PROVE  Shape(Write(P, p, l, Link(u)), u + 1)
<1> DEFINE Q == Write(P, p, l, Link(u))
<1>0. Writable(P, u, p, l) /\ Shape(P, u) /\ u \in PoolPages /\ u + 1 \in PoolPages /\ l # 4 /\ l \in 1 .. 4
      /\ UnusedBlank(P, u) /\ KindsByLevel(P) /\ P \in [PoolPages -> [Slots -> Entry]]
  BY DEF Linkable, Writable, Shape
<1>1. NodeAt(P, p, l) < u /\ NodeAt(P, p, l) \in PoolPages /\ Q[u] = BlankTable
  BY LinkedTableBlank
<1>2. Link(u) \in Entry /\ Link(u).kind = "table" /\ Link(u).to = u
  BY <1>0, LinkType
<1>3. Q \in [PoolPages -> [Slots -> Entry]]
  BY <1>0, <1>1, <1>2 DEF Write
<1>4. UnusedBlank(Q, u + 1)
  <2> SUFFICES ASSUME NEW t \in u + 1 .. PoolSize - 1 PROVE Q[t] = BlankTable
    BY DEF UnusedBlank
  <2>1. t \in PoolPages /\ t # NodeAt(P, p, l) /\ t \in u .. PoolSize - 1
    BY <1>0, <1>1, PoolType DEF PoolPages
  <2>2. Q[t] = P[t]
    BY <1>0, <1>1, <2>1 DEF Write
  <2> QED
    BY <1>0, <2>1, <2>2 DEF UnusedBlank
<1>5. KindsByLevel(Q)
  <2> SUFFICES ASSUME NEW q \in Pages, NEW k \in 1 .. 4, Reaches(Q, q, k)
               PROVE  EntryAt(Q, q, k).kind \in KindsOf(k)
    BY DEF KindsByLevel
  <2>1. CASE Reaches(P, q, k)
    <3>1. EntryAt(Q, q, k) = IF k = l /\ Alike(p, q, l) THEN Link(u) ELSE EntryAt(P, q, k)
      BY <1>0, <2>1, PathsKept DEF PathKept
    <3>2. EntryAt(P, q, k).kind \in KindsOf(k)
      BY <1>0, <2>1 DEF KindsByLevel
    <3>3. k = l => "table" \in KindsOf(k)
      BY <1>0 DEF KindsOf
    <3> QED
      BY <1>2, <3>1, <3>2, <3>3
  <2>2. CASE ~ Reaches(P, q, k)
    <3>1. EntryAt(Q, q, k) = Blank
      BY <1>0, <1>1, <1>2, <2>2, PathsOld DEF PathOld
    <3> QED
      BY <3>1, BlankType DEF KindsOf
  <2> QED
    BY <2>1, <2>2
<1>6. LinksDown(Q, u + 1) /\ LinksUnique(Q)
  BY LinkKeepsLinks
<1>7. NoneIsBlank(Q)
  <2>1. \A t \in PoolPages, i \in Slots : Q[t][i] = Link(u) \/ Q[t][i] = P[t][i]
    BY <1>0, EntriesWritten
  <2> HIDE DEF Q
  <2> QED
    BY <1>0, <1>2, <2>1 DEF NoneIsBlank, Shape
<1>8. Q[0] = BlankTable
  <2>1. NodeAt(P, p, l) > 0 /\ P[0] = BlankTable /\ p \in Pages /\ Reaches(P, p, l)
    BY <1>0, NodeType DEF Shape, Writable
  <2> QED
    BY <1>0, <1>1, <2>1, PoolType DEF Write
<1> QED
  BY <1>0, <1>3, <1>4, <1>5, <1>6, <1>7, <1>8 DEF Shape

(* A link changes no translation: what is found is blank before and after. *)
LEMMA FoundByLevel ==
  ASSUME NEW P, NEW q
  PROVE  /\ Reaches(P, q, 4) => Reaches(P, q, 3) /\ Found(P, q) = EntryAt(P, q, 4)
         /\ Reaches(P, q, 3) /\ EntryAt(P, q, 3).kind # "table" => Found(P, q) = EntryAt(P, q, 3)
         /\ ~ Reaches(P, q, 3) => Found(P, q) = Blank
<1>1. Reaches(P, q, 4) => Reaches(P, q, 3)
  BY DEF Reaches
<1>2. EntryAt(P, q, 4) = Entry4(P, q) /\ EntryAt(P, q, 3) = Entry3(P, q)
  BY DEF EntryAt
<1>3. Reaches(P, q, 3) /\ EntryAt(P, q, 3).kind # "table" => ~ Reaches(P, q, 4)
  BY <1>2 DEF Reaches
<1> QED
  BY <1>1, <1>2, <1>3 DEF Found

LEMMA FoundElsewhere ==
  ASSUME NEW P, NEW u, NEW p, NEW l, Writable(P, u, p, l), NEW e,
         e.kind = "table" => Write(P, p, l, e)[e.to] = BlankTable,
         NEW q \in Pages, ~ Alike(p, q, l)
  PROVE  Found(Write(P, p, l, e), q) = Found(P, q)
<1> DEFINE Q == Write(P, p, l, e)
<1>1. \A k \in 1 .. 4 : Reaches(Q, q, k) <=> Reaches(P, q, k)
  BY PathsKept, PathsOld DEF PathKept, PathOld
<1>2. \A k \in 1 .. 4 : Reaches(P, q, k) => EntryAt(Q, q, k) = EntryAt(P, q, k)
  BY PathsKept DEF PathKept
<1>3. /\ Reaches(Q, q, 4) <=> Reaches(P, q, 4)
      /\ Reaches(Q, q, 3) <=> Reaches(P, q, 3)
      /\ Reaches(P, q, 4) => Entry4(Q, q) = Entry4(P, q)
      /\ Reaches(P, q, 3) => Entry3(Q, q) = Entry3(P, q)
  BY <1>1, <1>2 DEF EntryAt
<1> QED
  BY <1>3 DEF Found

LEMMA FoundUnderLink ==
  ASSUME NEW P, NEW u, NEW p, NEW l, Linkable(P, u, p, l), NEW q \in Pages
  PROVE  Found(Write(P, p, l, Link(u)), q) = Found(P, q)
<1> DEFINE Q == Write(P, p, l, Link(u))
<1>0. /\ Writable(P, u, p, l) /\ Shape(P, u) /\ u \in PoolPages /\ l \in 1 .. 4 /\ l # 4
      /\ EntryAt(P, p, l) = Blank /\ p \in Pages /\ Reaches(P, p, l)
  BY DEF Linkable, Writable, Shape
<1>1. Link(u).kind = "table" /\ Link(u).to = u /\ Q[u] = BlankTable
  BY <1>0, LinkType, LinkedTableBlank
<1>2. Shape(Q, u + 1)
  BY LinkKeepsShape
<1>3. CASE ~ Alike(p, q, l)
  BY <1>0, <1>1, <1>2, <1>3, FoundElsewhere
<1>4. CASE Alike(p, q, l)
  <2>1. Reaches(P, q, l) /\ EntryAt(P, q, l) = Blank
    <3>1. Alike(p, q, l - 1) /\ Index(p, l) = Index(q, l)
      BY <1>0, <1>4 DEF Alike
    <3>2. Reaches(P, q, l) /\ NodeAt(P, p, l) = NodeAt(P, q, l)
      BY <1>0, <3>1, SameIndexesSameTable
    <3> QED
      BY <1>0, <3>1, <3>2, EntryOfNode
  <2>2. Found(P, q) = Blank
    <3>1. CASE l = 3
      BY <1>0, <2>1, <3>1, FoundByLevel, BlankType
    <3>2. CASE l = 1 \/ l = 2
      <4>1. ~ Reaches(P, q, 3)
        BY <2>1, <3>2, BlankType DEF Reaches, EntryAt
      <4> QED
        BY <1>0, <4>1, FoundByLevel
    <3> QED
      BY <1>0, <3>1, <3>2, Levels
  <2>3. \A k \in 1 .. 4 : Reaches(Q, q, k) => EntryAt(Q, q, k) = Blank \/ k <= l
    <3> SUFFICES ASSUME NEW k \in 1 .. 4, Reaches(Q, q, k), k > l
                 PROVE  EntryAt(Q, q, k) = Blank
      BY <1>0
    <3>1. ~ Reaches(P, q, k)
      BY <1>0, <2>1, BlankType DEF Reaches, EntryAt
    <3> QED
      BY <1>0, <1>1, <3>1, PathsOld DEF PathOld
  <2>4. Found(Q, q) = Blank
    <3>1. CASE Reaches(Q, q, 4)
      BY <1>0, <1>2, <2>3, <3>1, FoundByLevel
    <3>2. CASE ~ Reaches(Q, q, 4) /\ Reaches(Q, q, 3)
      <4>1. EntryAt(Q, q, 3).kind # "table"
        BY <3>2 DEF Reaches, EntryAt
      <4>2. EntryAt(Q, q, 3) = Blank \/ l = 3
        BY <1>0, <2>3, <3>2
      <4>3. l = 3 => EntryAt(Q, q, 3) = Link(u)
        BY <1>0, <1>4, <2>1, PathsKept DEF PathKept
      <4>4. EntryAt(Q, q, 3) = Blank
        BY <1>1, <4>1, <4>2, <4>3
      <4> QED
        BY <1>2, <3>2, <4>1, <4>4, FoundByLevel
    <3>3. CASE ~ Reaches(Q, q, 3)
      BY <1>2, <3>3, FoundByLevel
    <3> QED
      BY <3>1, <3>2, <3>3
  <2> QED
    BY <2>2, <2>4
<1> QED
  BY <1>3, <1>4

(***************************************************************************)
(* A leaf is set                                                           *)
(***************************************************************************)
Settable(P, u, p, l, e) ==
  /\ Writable(P, u, p, l) /\ l \in {3, 4}
  /\ e \in Entry /\ e.kind \in {"none", "page", "block"} /\ (e.kind = "none" => e = Blank) /\ e.kind \in KindsOf(l)

LEMMA LeafKeepsShape ==
  ASSUME NEW P, NEW u, NEW p, NEW l, NEW e, Settable(P, u, p, l, e), NodeAt(P, p, l) < u
  PROVE  Shape(Write(P, p, l, e), u)
<1> DEFINE Q == Write(P, p, l, e)
<1>0. /\ Writable(P, u, p, l) /\ Shape(P, u) /\ l \in 1 .. 4 /\ p \in Pages /\ Reaches(P, p, l)
      /\ u \in PoolPages /\ LinksDown(P, u) /\ LinksUnique(P) /\ UnusedBlank(P, u)
      /\ KindsByLevel(P) /\ P \in [PoolPages -> [Slots -> Entry]]
      /\ e \in Entry /\ e.kind # "table" /\ (e.kind = "none" => e = Blank) /\ e.kind \in KindsOf(l)
  BY DEF Settable, Writable, Shape
<1>1. NodeAt(P, p, l) \in PoolPages /\ Index(p, l) \in Slots
  BY <1>0, NodeType
<1>2. Q \in [PoolPages -> [Slots -> Entry]]
  BY <1>0, <1>1 DEF Write
<1>2a. \A t \in PoolPages, i \in Slots : Q[t][i] = e \/ Q[t][i] = P[t][i]
  BY <1>0, EntriesWritten
<1>3. \A t \in PoolPages, i \in Slots : Q[t][i].kind = "table" => Q[t][i] = P[t][i]
  <2> HIDE DEF Q
  <2> QED
    BY <1>0, <1>2a
<1>4. UnusedBlank(Q, u)
  <2> SUFFICES ASSUME NEW t \in u .. PoolSize - 1 PROVE Q[t] = BlankTable
    BY DEF UnusedBlank
  <2>1. t \in PoolPages /\ t # NodeAt(P, p, l)
    BY <1>0, <1>1, PoolType DEF PoolPages
  <2>2. Q[t] = P[t]
    BY <1>0, <1>1, <2>1 DEF Write
  <2> QED
    BY <1>0, <2>2 DEF UnusedBlank
<1>5. KindsByLevel(Q)
  <2> SUFFICES ASSUME NEW q \in Pages, NEW k \in 1 .. 4, Reaches(Q, q, k)
               PROVE  EntryAt(Q, q, k).kind \in KindsOf(k)
    BY DEF KindsByLevel
  <2>1. Reaches(P, q, k)
    BY <1>0, PathsOld DEF PathOld
  <2>2. EntryAt(Q, q, k) = IF k = l /\ Alike(p, q, l) THEN e ELSE EntryAt(P, q, k)
    BY <1>0, <2>1, PathsKept DEF PathKept
  <2>3. EntryAt(P, q, k).kind \in KindsOf(k)
    BY <1>0, <2>1 DEF KindsByLevel
  <2> QED
    BY <1>0, <2>2, <2>3
<1>10. Q[0] = BlankTable
  <2>1. NodeAt(P, p, l) > 0 /\ P[0] = BlankTable
    BY <1>0, NodeType DEF Shape
  <2> QED
    BY <1>0, <1>1, <2>1, PoolType DEF Write
<1> HIDE DEF Q
<1>6. LinksDown(Q, u)
  BY <1>0, <1>3 DEF LinksDown
<1>7. LinksUnique(Q)
  BY <1>0, <1>3 DEF LinksUnique
<1>8. NoneIsBlank(Q)
  BY <1>0, <1>2a DEF NoneIsBlank, Shape
<1>9. Shape(Q, u)
  BY <1>0, <1>2, <1>4, <1>5, <1>6, <1>7, <1>8, <1>10 DEF Shape
<1> QED
  BY <1>9 DEF Q

LEMMA FoundAtLeaf ==
  ASSUME NEW P, NEW u, NEW p, NEW l, NEW e, Settable(P, u, p, l, e), NodeAt(P, p, l) < u,
         NEW q \in Pages
  PROVE  /\ Alike(p, q, l) => Found(P, q) = EntryAt(P, p, l) /\ Found(Write(P, p, l, e), q) = e
         /\ ~ Alike(p, q, l) => Found(Write(P, p, l, e), q) = Found(P, q)
<1> DEFINE Q == Write(P, p, l, e)
<1>0. /\ Writable(P, u, p, l) /\ Shape(P, u) /\ l \in 1 .. 4 /\ p \in Pages /\ Reaches(P, p, l)
      /\ e.kind # "table" /\ l \in {3, 4} /\ EntryAt(P, p, l).kind # "table"
  BY DEF Settable, Writable
<1>1. Shape(Q, u)
  BY LeafKeepsShape
<1>2. ASSUME ~ Alike(p, q, l)
      PROVE  Found(Q, q) = Found(P, q)
  BY <1>0, <1>1, <1>2, FoundElsewhere
<1>3. ASSUME Alike(p, q, l)
      PROVE  Found(P, q) = EntryAt(P, p, l) /\ Found(Q, q) = e
  <2>1. Reaches(P, q, l) /\ EntryAt(P, q, l) = EntryAt(P, p, l)
    <3>1. Alike(p, q, l - 1) /\ Index(p, l) = Index(q, l)
      BY <1>0, <1>3 DEF Alike
    <3>2. Reaches(P, q, l) /\ NodeAt(P, p, l) = NodeAt(P, q, l)
      BY <1>0, <3>1, SameIndexesSameTable
    <3> QED
      BY <1>0, <3>1, <3>2, EntryOfNode
  <2>2. Reaches(Q, q, l) /\ EntryAt(Q, q, l) = e
    BY <1>0, <1>3, <2>1, PathsKept DEF PathKept
  <2>3. CASE l = 3
    BY <1>0, <1>1, <2>1, <2>2, <2>3, FoundByLevel
  <2>4. CASE l = 4
    BY <1>0, <1>1, <2>1, <2>2, <2>4, FoundByLevel
  <2> QED
    BY <1>0, <2>3, <2>4
<1> QED
  BY <1>2, <1>3

(***************************************************************************)
(* What the processor finds                                                *)
(***************************************************************************)
LEMMA FoundAsWalked ==
  ASSUME NEW P, NEW u, Shape(P, u), NEW q \in Pages
  PROVE  Found(P, q) = IF Entry1(P, q).kind = "none" \/ Entry2(P, q).kind = "none" THEN Blank
                       ELSE IF Entry3(P, q).kind = "table" THEN Entry4(P, q) ELSE Entry3(P, q)
<1>1. /\ Entry1(P, q).kind \in {"none", "table"}
      /\ Reaches(P, q, 2) => Entry2(P, q).kind \in {"none", "table"}
  <2>1. /\ EntryAt(P, q, 1).kind \in KindsOf(1)
        /\ Reaches(P, q, 2) => EntryAt(P, q, 2).kind \in KindsOf(2)
    BY DescentBegins DEF Shape, KindsByLevel
  <2> QED
    BY <2>1 DEF EntryAt, KindsOf
<1> QED
  BY <1>1 DEF Found, Reaches

LEMMA HalfOfPage ==
  /\ \A p \in Lower : p \div Half = 0
  /\ \A p \in Upper : p \div Half = 1
<1>0. Half \in Int /\ Half > 0
  BY HalfType
<1>1. ASSUME NEW p \in Lower PROVE p \div Half = 0
  <2>1. p = Half * 0 + p /\ p \in 0 .. Half - 1 /\ p \in Int /\ 0 \in Int
    BY <1>0 DEF Lower
  <2> QED
    BY <1>0, <2>1, DivModUnique
<1>2. ASSUME NEW p \in Upper PROVE p \div Half = 1
  <2> DEFINE a == p - Half
  <2>1. p = Half * 1 + a /\ a \in 0 .. Half - 1 /\ p \in Int /\ 1 \in Int
    BY <1>0 DEF Upper
  <2> HIDE DEF a
  <2> QED
    BY <1>0, <2>1, DivModUnique
<1> QED
  BY <1>1, <1>2

(* Nothing is found for a page of the lower half. *)
Seen(P, q) == IF q \in Upper THEN Found(P, q) ELSE Blank

LEMMA EntryIsSeen ==
  ASSUME NEW q \in Pages, Shape(pool, used)
  PROVE  EntryOf(q) = Seen(pool, q)
<1>1. CASE q \in Upper
  BY <1>1, FoundAsWalked, HalfOfPage DEF EntryOf, Seen, Entry1, Entry2, Entry3, Entry4
<1>2. CASE q \in Lower
  <2>1. q \div Half = 0 /\ Index(q, 1) \in Slots /\ q \notin Upper
    BY <1>2, HalfOfPage, HalfType, IndexType DEF Upper, Lower
  <2>2. pool[0][Index(q, 1)] = Blank
    BY <2>1 DEF Shape, BlankTable, Slots
  <2> QED
    BY <2>1, <2>2, BlankType DEF EntryOf, Seen
<1> QED
  BY <1>1, <1>2, HalfType

LEMMA EntryIsSeenNext ==
  ASSUME NEW q \in Pages, Shape(pool', used')
  PROVE  EntryOf(q)' = Seen(pool', q)
<1>1. CASE q \in Upper
  BY <1>1, FoundAsWalked, HalfOfPage DEF EntryOf, Seen, Entry1, Entry2, Entry3, Entry4
<1>2. CASE q \in Lower
  <2>1. q \div Half = 0 /\ Index(q, 1) \in Slots /\ q \notin Upper
    BY <1>2, HalfOfPage, HalfType, IndexType DEF Upper, Lower
  <2>2. pool'[0][Index(q, 1)] = Blank
    BY <2>1 DEF Shape, BlankTable, Slots
  <2> QED
    BY <2>1, <2>2, BlankType DEF EntryOf, Seen
<1> QED
  BY <1>1, <1>2, HalfType

(***************************************************************************)
(* The inductive invariant                                                 *)
(***************************************************************************)

(* The pool has its shape, and both roots are taken when the walk begins. *)
PoolInShape ==
  /\ Shape(pool, used)
  /\ pc = "start" => used = 0
  /\ pc \in {"walk", "map", "unmap", "idle"} => used > 1

(* Init walks in the boot loader's tables, the kernel calls in its own. *)
TablesInForce ==
  /\ pc \in {"start", "walk"} => ttbr = "boot"
  /\ pc \in {"unmap", "idle"} => ttbr = "kernel"

IInv == TypeOK /\ PoolInShape /\ TablesInForce /\ CacheIsFresh

(***************************************************************************)
(* Pages and counts                                                        *)
(***************************************************************************)
LEMMA LeafFits ==
  ASSUME NEW b \in BootTables, NEW leaf \in b, Walkable(leaf)
  PROVE  /\ leaf.at \in Pages /\ leaf.frame \in Nat /\ leaf.flags \subseteq Flags
         /\ leaf.pages \in {1, Entries} /\ leaf.at + leaf.pages \in 0 .. 2 * Half
         /\ leaf.at % leaf.pages = 0 /\ leaf.frame % leaf.pages = 0
<1>1. /\ leaf.at \in Pages /\ leaf.frame \in Nat /\ leaf.flags \subseteq Flags
      /\ leaf.at % leaf.pages = 0 /\ leaf.frame % leaf.pages = 0
  BY AArch64Assumption
<1>2. leaf.pages \in {1, Entries}
  BY DEF Walkable
<1>3. leaf.at + leaf.pages \in 0 .. 2 * Half
  <2> DEFINE a == leaf.at
             end == 2 * Half
  <2>6. \A p \in Pages : p \in Nat /\ p < 2 * Half
    BY HalfType
  <2>7. a \in Nat /\ a < end
    BY <1>1, <2>6, Zenon
  <2>3. a \in Nat /\ a < end /\ end \in Int
    BY <2>7, HalfType
  <2>4. leaf.pages = Entries => a + Entries <= end
    BY <1>1, BlockIsOfPages
  <2> HIDE DEF a, end
  <2>5. /\ a + 1 \in 0 .. end
        /\ leaf.pages = Entries => a + Entries \in 0 .. end
    BY <2>3, <2>4, EntriesType
  <2>1. CASE leaf.pages = 1
    BY <2>1, <2>5 DEF a, end
  <2>2. CASE leaf.pages = Entries
    BY <2>2, <2>5 DEF a, end
  <2> QED
    BY <1>2, <2>1, <2>2
<1> QED
  BY <1>1, <1>2, <1>3

(* The pages of an area in the direct map. *)
LEMMA DirectMap ==
  ASSUME NEW n \in Nat, n < Half
  PROVE  Half + n \in Pages /\ Half + n \in Upper
BY HalfType DEF Upper

LEMMA AreaCounts ==
  ASSUME NEW r \in Areas
  PROVE  /\ PartialPages(r) \in Nat /\ r.address \div PageBytes \in Nat /\ r.flags \subseteq Flags
         /\ Half + r.address \div PageBytes \in Upper
         /\ Half + (r.address + r.size - 1) \div PageBytes \in Upper
<1>0. /\ PageBytes \in Int /\ PageBytes > 0 /\ r.address \in Nat /\ r.size \in Nat /\ r.size > 0
      /\ r.flags \subseteq Flags /\ (r.address + r.size - 1) \div PageBytes < Half
  BY AArch64Assumption
<1> DEFINE b == PageBytes
           first == r.address \div b
           final == r.address + r.size - 1
           last == final \div b
<1>8. b \in Int /\ b > 0 /\ final \in Int /\ final >= 0 /\ r.address \in Int /\ r.address >= 0 /\ r.address <= final
  BY <1>0
<1>9. last < Half
  BY <1>0
<1> HIDE DEF final, b
<1>1. /\ first \in Nat /\ last \in Nat
      /\ r.address = b * first + (r.address % b) /\ r.address % b \in 0 .. b - 1
      /\ final = b * last + (final % b) /\ final % b \in 0 .. b - 1
  <2>1. /\ first \in Nat /\ r.address = b * first + (r.address % b) /\ r.address % b \in 0 .. b - 1
    BY <1>8, DivMod
  <2>2. /\ last \in Nat /\ final = b * last + (final % b) /\ final % b \in 0 .. b - 1
    BY <1>8, DivMod
  <2> QED
    BY <2>1, <2>2
<1>2. first <= last
  <2> SUFFICES ASSUME last + 1 <= first PROVE FALSE
    BY <1>1
  <2> DEFINE c == r.address % b
             d == final % b
             x == b * first
             y == b * last
  <2>1. /\ b \in Int /\ b > 0 /\ r.address <= final /\ r.address = x + c /\ final = y + d
        /\ c \in 0 .. b - 1 /\ d \in 0 .. b - 1 /\ first \in Int /\ last \in Int
    BY <1>1, <1>8
  <2> HIDE DEF first, last, c, d
  <2>2. b * (last + 1) <= b * first
    BY <2>1, TimesMonotonic
  <2>3. b * (last + 1) = b * last + b /\ b * last \in Int /\ b * first \in Int
    BY <2>1
  <2>4. y + b <= x /\ y \in Int /\ x \in Int
    BY <2>2, <2>3
  <2> HIDE DEF x, y
  <2> QED
    BY <2>1, <2>4
<1>3. Half + first \in Upper /\ Half + last \in Upper
  <2>1. last < Half
    BY <1>9
  <2> HIDE DEF first, last
  <2>2. first < Half
    BY <1>1, <1>2, <2>1, HalfType
  <2> QED
    BY <1>1, <2>1, <2>2, DirectMap
<1> DEFINE rounded == r.size + PageBytes - (r.size % PageBytes)
<1>4. rounded \in Nat
  <2>1. r.size % PageBytes \in 0 .. PageBytes - 1
    BY <1>0, DivMod
  <2> QED
    BY <1>0, <2>1
<1>5. PartialPages(r) =
        (IF (r.address % PageBytes) + r.size > rounded THEN rounded + PageBytes ELSE rounded) \div PageBytes
  BY DEF PartialPages
<1> HIDE DEF rounded
<1>6. (rounded + PageBytes) \div PageBytes \in Nat /\ rounded \div PageBytes \in Nat
  <2>1. rounded + PageBytes \in Int /\ rounded + PageBytes >= 0 /\ rounded \in Int /\ rounded >= 0
    BY <1>0, <1>4
  <2> QED
    BY <1>0, <2>1, DivMod
<1>7. PartialPages(r) \in Nat
  BY <1>5, <1>6
<1> QED
  BY <1>0, <1>1, <1>3, <1>7 DEF final, b

LEMMA UnmappingCounts ==
  ASSUME NEW r \in Unmappings
  PROVE  /\ Half + r.address \div PageBytes \in Upper /\ r.pages \in {1, Entries} /\ r.count \in Nat
         /\ Half + r.address \div PageBytes + r.count * r.pages - 1 \in Int
         /\ Half + r.address \div PageBytes + r.count * r.pages <= 2 * Half
<1>0. /\ PageBytes \in Int /\ PageBytes > 0 /\ r.address \in Nat /\ r.pages \in {1, Entries}
      /\ r.count \in Nat /\ r.address \div PageBytes < Half
      /\ r.address \div PageBytes + r.count * r.pages <= Half
  BY AArch64Assumption
<1>1. r.address \div PageBytes \in Nat
  BY <1>0, DivMod
<1>2. r.count * r.pages \in Int
  BY <1>0, EntriesType
<1> DEFINE n == r.address \div PageBytes
           m == r.count * r.pages
<1>3. n \in Int /\ m \in Int /\ n + m <= Half
  BY <1>0, <1>1, <1>2
<1> HIDE DEF n, m
<1>4. Half + n + m - 1 \in Int /\ Half + n + m <= 2 * Half
  BY <1>3, HalfType
<1>5. Half + n \in Upper
  BY <1>0, <1>1, DirectMap DEF n
<1> QED
  BY <1>0, <1>4, <1>5 DEF n, m

(* A set of natural numbers that is not empty has a least element: of the     *)
(* intervals from 0 to its elements, one is smallest.                         *)
LEMMA LeastNatural ==
  ASSUME NEW T \in SUBSET Nat, T # {}
  PROVE  \E i \in T : \A k \in T : i <= k
<1> DEFINE Below == {0 .. i : i \in T}
<1>1. Below \subseteq FiniteSubsetsOf(Nat)
  <2>1. ASSUME NEW i \in T PROVE 0 .. i \in SUBSET Nat /\ IsFiniteSet(0 .. i)
    <3>1. 0 \in Int /\ i \in Int
      OBVIOUS
    <3>2. IsFiniteSet(0 .. i)
      BY <3>1, FS_Interval
    <3> QED
      BY <3>2
  <2> QED
    BY <2>1 DEF FiniteSubsetsOf
<1>2. PICK D \in Below : \A E \in Below : <<E, D>> \notin StrictSubsetOrdering(Nat)
  <2>1. Below # {}
    OBVIOUS
  <2> HIDE DEF Below
  <2> QED
    BY <1>1, <2>1, FS_StrictSubsetOrderingWellFounded, WFMin
<1>3. PICK i \in T : D = 0 .. i
  OBVIOUS
<1>4. ASSUME NEW k \in T, k < i PROVE FALSE
  <2>1. 0 .. k \in SUBSET Nat /\ 0 .. i \in SUBSET Nat
    BY <1>4
  <2>2. 0 .. k \subseteq 0 .. i /\ i \in 0 .. i /\ i \notin 0 .. k
    BY <1>4
  <2>3. <<0 .. k, 0 .. i>> \in StrictSubsetOrdering(Nat)
    BY <2>1, <2>2 DEF StrictSubsetOrdering
  <2> QED
    BY <1>2, <1>3, <2>3
<1> QED
  BY <1>4

LEMMA LeastIsMin ==
  ASSUME NEW T \in SUBSET Nat, T # {}
  PROVE  Min(T) \in T /\ \A k \in T : Min(T) <= k
<1>1. \E x \in T : \A y \in T : x <= y
  BY LeastNatural
<1> QED
  BY <1>1 DEF Min

LEMMA NextLeaf ==
  ASSUME NEW b \in BootTables, NEW a \in Nat
  PROVE  Min({leaf.at : leaf \in {l \in b : l.at > a}} \cup {2 * Half}) \in 0 .. 2 * Half
<1> DEFINE T == {leaf.at : leaf \in {l \in b : l.at > a}} \cup {2 * Half}
<1>1. T \subseteq 0 .. 2 * Half
  BY AArch64Assumption, HalfType
<1>2. 2 * Half \in T
  OBVIOUS
<1> HIDE DEF T
<1>3. Min(T) \in T
  BY <1>1, <1>2, LeastIsMin
<1>4. Min(T) \in 0 .. 2 * Half
  BY <1>1, <1>3
<1> QED
  BY <1>4 DEF T

(* The loops advance by a page or a block, around the address space. *)
LEMMA AdvanceFits ==
  ASSUME NEW p \in Pages, NEW n \in {1, Entries}
  PROVE  (p + n) % (2 * Half) \in Pages
<1>1. p + n \in Nat
  BY HalfType, EntriesType
<1> QED
  BY <1>1, HalfType

(***************************************************************************)
(* The types of the variables, by name                                     *)
(***************************************************************************)
Reasons == {"none", "limine", "1GB", "aligned", "pool", "block", "exists", "assert"}
Ranges == [at : Pages, frame : Nat, flags : SUBSET Flags, pages : {1, Entries}, count : Nat]
Jobs == [at : Pages, frame : Nat, flags : SUBSET Flags, pages : {1, Entries}, left : Nat]
Requested == [first : Pages, last : Int, frame : Nat, flags : SUBSET Flags]
Cached == {<<>>} \cup (Pages \X (Nat \X SUBSET Flags))

LEMMA Now ==
  ASSUME IInv
  PROVE  /\ Shape(pool, used) /\ used \in PoolPages /\ pool \in [PoolPages -> [Slots -> Entry]]
         /\ boot \in BootTables /\ memmap \in MemoryMaps /\ supported \in BOOLEAN
         /\ ttbr \in {"boot", "kernel"} /\ why \in Reasons /\ at \in 0 .. 2 * Half
         /\ range \in {NoRange} \cup Ranges /\ job \in Jobs /\ wanted \in Requested /\ tlb \in Cached
<1>1. Shape(pool, used)
  BY DEF IInv, PoolInShape
<1>2. used \in PoolPages /\ pool \in [PoolPages -> [Slots -> Entry]]
  BY <1>1 DEF Shape
<1> QED
  BY <1>1, <1>2 DEF IInv, TypeOK, Reasons, Ranges, Jobs, Requested, Cached

LEMMA Nothings == NoJob \in Jobs /\ Nothing \in Requested /\ <<>> \in Cached
<1>1. 0 \in Pages /\ 0 \in Nat /\ 0 \in Int /\ -1 \in Int /\ {} \in SUBSET Flags /\ 1 \in {1, Entries}
  BY HalfType
<1> QED
  BY <1>1 DEF NoJob, Nothing, Jobs, Requested, Cached

(***************************************************************************)
(* The invariant holds at the start                                        *)
(***************************************************************************)
LEMMA BlankShape ==
  ASSUME NEW P, P = [t \in PoolPages |-> BlankTable]
  PROVE  Shape(P, 0)
<1>1. \A t \in PoolPages, i \in Slots : P[t][i] = Blank
  BY DEF BlankTable, Slots
<1>2. P \in [PoolPages -> [Slots -> Entry]] /\ 0 \in PoolPages /\ P[0] = BlankTable
  BY BlankType, PoolType
<1>3. LinksDown(P, 0) /\ LinksUnique(P)
  BY <1>1, BlankType DEF LinksDown, LinksUnique
<1>4. UnusedBlank(P, 0) /\ NoneIsBlank(P)
  BY <1>1 DEF UnusedBlank, NoneIsBlank, PoolPages
<1>5. KindsByLevel(P)
  <2> SUFFICES ASSUME NEW p \in Pages, NEW l \in 1 .. 4, Reaches(P, p, l)
               PROVE  EntryAt(P, p, l).kind \in KindsOf(l)
    BY DEF KindsByLevel
  <2>1. EntryAt(P, p, 1) = Blank
    <3>1. Index(p, 1) \in Slots
      BY IndexType, PagesType
    <3> QED
      BY <1>1, <3>1, PoolType DEF EntryAt, Entry1
  <2>2. l = 1
    BY <2>1, BlankType DEF Reaches, EntryAt
  <2> QED
    BY <2>1, <2>2, BlankType DEF KindsOf
<1> QED
  BY <1>2, <1>3, <1>4, <1>5 DEF Shape

LEMMA InitKeeps ==
  ASSUME Init
  PROVE  IInv
<1>1. Shape(pool, 0)
  BY BlankShape DEF Init, PoolPages
<1>2. PoolInShape
  BY <1>1 DEF Init, PoolInShape
<1>3. TypeOK
  <2>1. pool \in [0 .. (PoolSize - 1) -> [0 .. (Entries - 1) -> Entry]]
    BY <1>1 DEF Shape, PoolPages, Slots
  <2>2. used \in 0 .. (PoolSize - 1)
    BY PoolType DEF Init, PoolPages
  <2>3. job \in Jobs /\ wanted \in Requested /\ at \in 0 .. 2 * Half
    BY Nothings, HalfType DEF Init
  <2> QED
    BY <2>1, <2>2, <2>3 DEF Init, TypeOK, Jobs, Requested
<1>4. TablesInForce /\ CacheIsFresh
  BY DEF Init, TablesInForce, CacheIsFresh
<1> QED
  BY <1>2, <1>3, <1>4 DEF IInv

(***************************************************************************)
(* What a step must show                                                   *)
(***************************************************************************)
LEMMA StepKeeps ==
  ASSUME IInv, UNCHANGED given, ttbr' \in {"boot", "kernel"}, Shape(pool', used'),
         pc' \in {"walk", "map", "unmap", "idle", "panic"}, pc' # "panic" => used' > 1,
         why' \in Reasons, at' \in 0 .. 2 * Half, range' \in {NoRange} \cup Ranges,
         job' \in Jobs, wanted' \in Requested, tlb' \in Cached,
         pc' = "walk" => ttbr' = "boot", pc' \in {"unmap", "idle"} => ttbr' = "kernel",
         CacheIsFresh'
  PROVE  IInv'
<1>1. boot' = boot /\ memmap' = memmap /\ supported' = supported
  BY DEF given
<1>2. pool' \in [0 .. (PoolSize - 1) -> [0 .. (Entries - 1) -> Entry]] /\ used' \in 0 .. (PoolSize - 1)
  BY DEF Shape, PoolPages, Slots
<1>3. TypeOK'
  BY <1>1, <1>2 DEF IInv, TypeOK, Reasons, Ranges, Jobs, Requested, Cached
<1>4. PoolInShape'
  BY DEF PoolInShape
<1>5. TablesInForce'
  BY DEF TablesInForce
<1> QED
  BY <1>3, <1>4, <1>5 DEF IInv

(* Most steps leave the cache, or empty it, and the tables in force. *)
LEMMA PlainStepKeeps ==
  ASSUME IInv, UNCHANGED <<given, ttbr>>, Shape(pool', used'),
         pc \in {"walk", "map", "unmap", "idle"}, pc' \in {"walk", "map", "unmap", "idle", "panic"},
         used' >= used, why' \in Reasons, at' \in 0 .. 2 * Half, range' \in {NoRange} \cup Ranges,
         job' \in Jobs, wanted' \in Requested, tlb' \in {tlb, <<>>},
         pc' = "walk" => ttbr = "boot", pc' \in {"unmap", "idle"} => ttbr = "kernel",
         pc' = "idle" => tlb' = <<>>
  PROVE  IInv'
<1>1. ttbr' \in {"boot", "kernel"} /\ tlb' \in Cached
  BY Now, Nothings
<1>2. used' > 1
  <2>1. used > 1 /\ used \in Int /\ used' \in Int
    BY Now DEF IInv, PoolInShape, Shape, PoolPages
  <2> QED
    BY <2>1
<1>3. CacheIsFresh'
  BY DEF CacheIsFresh
<1> QED
  BY <1>1, <1>2, <1>3, StepKeeps

LEMMA TablesStay ==
  ASSUME IInv, UNCHANGED tables
  PROVE  /\ Shape(pool', used') /\ used' = used /\ pool' = pool /\ used' >= used
<1>1. pool' = pool /\ used' = used /\ used \in Int
  BY Now DEF tables, PoolPages
<1> QED
  BY <1>1, Now

LEMMA PanicKeeps ==
  ASSUME IInv, pc \in {"walk", "map", "unmap", "idle"}, pc' = "panic", why' \in Reasons,
         UNCHANGED <<given, ttbr, tables, walk, call, tlb>>
  PROVE  IInv'
<1>1. UNCHANGED <<given, ttbr>> /\ at' = at /\ range' = range /\ job' = job /\ wanted' = wanted /\ tlb' = tlb
      /\ UNCHANGED tables
  BY DEF walk, call
<1> QED
  BY <1>1, Now, TablesStay, PlainStepKeeps

(***************************************************************************)
(* The steps of init                                                       *)
(***************************************************************************)
LEMMA InitRefusesKeeps ==
  ASSUME IInv, InitRefuses
  PROVE  IInv'
<1>1. /\ UNCHANGED given /\ ttbr' = ttbr /\ UNCHANGED tables /\ at' = at /\ range' = range
      /\ job' = job /\ wanted' = wanted /\ tlb' = tlb /\ pc' = "panic" /\ why' = "limine"
  BY DEF InitRefuses, Panic, walk, call
<1>2. CacheIsFresh' /\ why' \in Reasons
  BY <1>1 DEF CacheIsFresh, Reasons
<1> QED
  BY <1>1, <1>2, Now, TablesStay, StepKeeps

LEMMA StartWalkKeeps ==
  ASSUME IInv, StartWalk
  PROVE  IInv'
<1>1. /\ UNCHANGED given /\ ttbr' = ttbr /\ pool' = pool /\ used' = used + 2 /\ at' = at /\ range' = range
      /\ job' = job /\ wanted' = wanted /\ tlb' = tlb /\ pc = "start" /\ pc' = "walk" /\ why' = why
  BY DEF StartWalk, walk, call
<1>2. used = 0 /\ used' = 2 /\ ttbr = "boot"
  BY <1>1 DEF IInv, PoolInShape, TablesInForce
<1>3. Shape(pool, 0) /\ 2 \in PoolPages
  BY <1>2, Now, PoolType DEF PoolPages
<1>4. LinksDown(pool, 2)
  BY <1>3 DEF Shape, LinksDown, PoolPages
<1>5. UnusedBlank(pool, 2)
  BY <1>3, PoolType DEF Shape, UnusedBlank
<1>6. Shape(pool, 2)
  BY <1>3, <1>4, <1>5 DEF Shape
<1>7. CacheIsFresh'
  BY <1>1 DEF CacheIsFresh
<1> QED
  BY <1>1, <1>2, <1>6, <1>7, Now, StepKeeps

LEMMA OpenRangeKeeps ==
  ASSUME IInv, OpenRange
  PROVE  IInv'
<1>1. PICK leaf \in LeafAt(at) :
        /\ pc = "walk" /\ Walkable(leaf)
        /\ range' = [at |-> at, frame |-> leaf.frame, flags |-> leaf.flags,
                     pages |-> leaf.pages, count |-> 1]
        /\ at' = at + leaf.pages
        /\ UNCHANGED <<given, ttbr, tables, pc, why, call, tlb>>
  BY DEF OpenRange
<1>2. boot \in BootTables /\ leaf \in boot /\ leaf.at = at
  BY Now DEF LeafAt
<1>3. /\ at \in Pages /\ leaf.frame \in Nat /\ leaf.flags \subseteq Flags
      /\ leaf.pages \in {1, Entries} /\ at + leaf.pages \in 0 .. 2 * Half
  BY <1>1, <1>2, LeafFits
<1>4. range' \in Ranges /\ at' \in 0 .. 2 * Half
  BY <1>1, <1>3 DEF Ranges
<1>5. /\ UNCHANGED <<given, ttbr>> /\ UNCHANGED tables /\ pc' = "walk" /\ why' = why /\ job' = job
      /\ wanted' = wanted /\ tlb' = tlb /\ ttbr = "boot"
  BY <1>1 DEF call, IInv, TablesInForce
<1> QED
  BY <1>1, <1>4, <1>5, Now, TablesStay, PlainStepKeeps

LEMMA RangeType ==
  ASSUME IInv, Open
  PROVE  range \in Ranges
BY Now DEF Open, NoRange

LEMMA ExtendRangeKeeps ==
  ASSUME IInv, ExtendRange
  PROVE  IInv'
<1>1. PICK leaf \in LeafAt(at) :
        /\ pc = "walk" /\ Walkable(leaf) /\ Open
        /\ range' = [range EXCEPT !.count = @ + 1]
        /\ at' = at + leaf.pages
        /\ UNCHANGED <<given, ttbr, tables, pc, why, call, tlb>>
  BY DEF ExtendRange
<1>2. boot \in BootTables /\ leaf \in boot /\ leaf.at = at
  BY Now DEF LeafAt
<1>3. at' \in 0 .. 2 * Half
  BY <1>1, <1>2, LeafFits
<1>4. range' \in Ranges
  BY <1>1, RangeType DEF Ranges
<1>5. /\ UNCHANGED <<given, ttbr>> /\ UNCHANGED tables /\ pc' = "walk" /\ why' = why /\ job' = job
      /\ wanted' = wanted /\ tlb' = tlb /\ ttbr = "boot"
  BY <1>1 DEF call, IInv, TablesInForce
<1> QED
  BY <1>1, <1>3, <1>4, <1>5, Now, TablesStay, PlainStepKeeps

LEMMA HugeLeafKeeps ==
  ASSUME IInv, HugeLeaf
  PROVE  IInv'
<1>1. /\ pc = "walk" /\ pc' = "panic" /\ why' \in Reasons
      /\ UNCHANGED <<given, ttbr, tables, walk, call, tlb>>
  BY DEF HugeLeaf, Panic, Reasons
<1> QED
  BY <1>1, PanicKeeps

LEMMA SkipMissingKeeps ==
  ASSUME IInv, SkipMissing
  PROVE  IInv'
<1>1. at' \in 0 .. 2 * Half
  <2>1. at \in Nat /\ boot \in BootTables
    BY Now, HalfType
  <2> QED
    BY <2>1, NextLeaf DEF SkipMissing
<1>2. /\ UNCHANGED <<given, ttbr>> /\ UNCHANGED tables /\ pc = "walk" /\ pc' = "walk" /\ why' = why
      /\ range' = range /\ job' = job /\ wanted' = wanted /\ tlb' = tlb /\ ttbr = "boot"
  BY DEF SkipMissing, call, IInv, TablesInForce
<1> QED
  BY <1>1, <1>2, Now, TablesStay, PlainStepKeeps

LEMMA MapRangeKeeps ==
  ASSUME IInv, MapRange
  PROVE  IInv'
<1>1. /\ pc = "walk" /\ pc' = "map" /\ range' = NoRange /\ Open
      /\ job' = [at |-> range.at, frame |-> range.frame, flags |-> range.flags,
                 pages |-> range.pages, left |-> range.count]
      /\ UNCHANGED <<given, ttbr>> /\ UNCHANGED tables /\ why' = why /\ at' = at
      /\ wanted' = wanted /\ tlb' = tlb
  BY DEF MapRange, RangeEnds
<1>2. job' \in Jobs
  BY <1>1, RangeType DEF Ranges, Jobs
<1> QED
  BY <1>1, <1>2, Now, TablesStay, PlainStepKeeps

LEMMA DropRangeKeeps ==
  ASSUME IInv, DropRange
  PROVE  IInv'
<1>1. /\ UNCHANGED <<given, ttbr>> /\ UNCHANGED tables /\ pc = "walk" /\ pc' = "walk" /\ why' = why
      /\ range' = NoRange /\ at' = at /\ job' = job /\ wanted' = wanted /\ tlb' = tlb /\ ttbr = "boot"
  BY DEF DropRange, RangeEnds, call, IInv, TablesInForce
<1> QED
  BY <1>1, Now, TablesStay, PlainStepKeeps

LEMMA LoadTablesKeeps ==
  ASSUME IInv, LoadTables
  PROVE  IInv'
<1>1. /\ UNCHANGED given /\ ttbr' = "kernel" /\ UNCHANGED tables /\ pc = "walk" /\ pc' = "idle" /\ why' = why
      /\ range' = range /\ at' = at /\ job' = job /\ wanted' = wanted /\ tlb' = <<>>
  BY DEF LoadTables, walk, call
<1>2. CacheIsFresh' /\ tlb' \in Cached
  BY <1>1, Nothings DEF CacheIsFresh
<1>3. used' > 1
  BY <1>1, TablesStay DEF IInv, PoolInShape
<1> QED
  BY <1>1, <1>2, <1>3, Now, TablesStay, StepKeeps

(***************************************************************************)
(* Calls begin and end                                                     *)
(***************************************************************************)
LEMMA CallKeeps ==
  ASSUME IInv, pc = "idle", UNCHANGED <<given, ttbr, tables, why, walk, tlb>>,
         pc' \in {"map", "unmap"}, job' \in Jobs, wanted' \in Requested
  PROVE  IInv'
<1>1. /\ UNCHANGED <<given, ttbr>> /\ UNCHANGED tables /\ why' = why /\ range' = range /\ at' = at
      /\ tlb' = tlb /\ ttbr = "kernel"
  BY DEF walk, IInv, TablesInForce
<1> QED
  BY <1>1, Now, TablesStay, PlainStepKeeps

LEMMA MapMemoryKeeps ==
  ASSUME IInv, NEW r \in Mappings, MapMemory(r)
  PROVE  IInv'
<1>1. /\ r.at \in Pages /\ r.frame \in Nat /\ r.flags \in SUBSET Flags
      /\ r.pages \in {1, Entries} /\ r.count \in Nat
  BY AArch64Assumption
<1>2. r.at + r.count * r.pages - 1 \in Int
  <2>1. r.count * r.pages \in Int
    BY <1>1, EntriesType
  <2> QED
    BY <1>1, <2>1, PagesType
<1>3. job' \in Jobs /\ wanted' \in Requested
  BY <1>1, <1>2 DEF MapMemory, Jobs, Requested
<1> QED
  BY <1>3, CallKeeps DEF MapMemory

LEMMA MapPartialKeeps ==
  ASSUME IInv, NEW r \in Areas, MapPartial(r)
  PROVE  IInv'
<1> DEFINE frame == r.address \div PageBytes
           last == Half + (r.address + r.size - 1) \div PageBytes
<1>1. /\ job' = [at |-> Half + frame, frame |-> frame, flags |-> r.flags,
                 pages |-> 1, left |-> PartialPages(r)]
      /\ wanted' = [first |-> Half + frame, frame |-> frame, flags |-> r.flags, last |-> last]
  BY DEF MapPartial
<1>2. /\ frame \in Nat /\ Half + frame \in Pages /\ last \in Int
      /\ r.flags \in SUBSET Flags /\ PartialPages(r) \in Nat
  BY AreaCounts, HalfType
<1> HIDE DEF frame, last
<1>3. job' \in Jobs /\ wanted' \in Requested
  BY <1>1, <1>2 DEF Jobs, Requested
<1> QED
  BY <1>3, CallKeeps DEF MapPartial

LEMMA UnmapMemoryKeeps ==
  ASSUME IInv, NEW r \in Unmappings, UnmapMemory(r)
  PROVE  IInv'
<1> DEFINE first == Half + r.address \div PageBytes
           last == first + r.count * r.pages - 1
<1>1. /\ job' = [at |-> first, frame |-> 0, flags |-> {}, pages |-> r.pages, left |-> r.count]
      /\ wanted' = [first |-> first, last |-> last, frame |-> 0, flags |-> {}]
  BY DEF UnmapMemory
<1>2. /\ first \in Pages /\ last \in Int /\ 0 \in Nat /\ {} \in SUBSET Flags
      /\ r.pages \in {1, Entries} /\ r.count \in Nat
  BY UnmappingCounts, HalfType
<1> HIDE DEF first, last
<1>3. job' \in Jobs /\ wanted' \in Requested
  BY <1>1, <1>2 DEF Jobs, Requested
<1> QED
  BY <1>3, CallKeeps DEF UnmapMemory

LEMMA UnmapRefusesKeeps ==
  ASSUME IInv, NEW r \in Unmappings, UnmapRefuses(r)
  PROVE  IInv'
BY PanicKeeps DEF UnmapRefuses, Panic, Reasons

LEMMA ReturnKeeps ==
  ASSUME IInv, pc \in {"map", "unmap"}, Return
  PROVE  IInv'
<1>1. /\ UNCHANGED <<given, ttbr>> /\ UNCHANGED tables /\ why' = why /\ range' = range /\ at' = at
      /\ job' = NoJob /\ wanted' = Nothing /\ tlb' = <<>>
      /\ pc' \in {"walk", "idle"}
      /\ pc' = "walk" => ttbr = "boot"
      /\ pc' = "idle" => ttbr = "kernel"
  BY Now DEF Return, walk
<1> QED
  BY <1>1, Now, Nothings, TablesStay, PlainStepKeeps

(***************************************************************************)
(* A turn of the loops: the descent for the page at hand                   *)
(***************************************************************************)
Looping == pc \in {"map", "unmap"}

LEMMA PathOfPage ==
  ASSUME NEW p \in Pages
  PROVE  \A l \in 1 .. 4 : /\ Path(p)[l] = NodeAt(pool, p, l)
                           /\ EntryOn(Path(p), p, l) = EntryAt(pool, p, l)
<1>1. Root(p) = 1
  BY PagesType DEF Root, higherHalfOffset
<1>2. /\ Path(p)[1] = NodeAt(pool, p, 1) /\ Path(p)[2] = NodeAt(pool, p, 2)
      /\ Path(p)[3] = NodeAt(pool, p, 3) /\ Path(p)[4] = NodeAt(pool, p, 4)
  BY <1>1 DEF Path, NodeAt, Entry1, Entry2, Entry3
<1>3. \A l \in 1 .. 4 : Path(p)[l] = NodeAt(pool, p, l)
  BY <1>2, Levels
<1> QED
  BY <1>3, EntryOfNode DEF EntryOn

LEMMA LeafLevels ==
  ASSUME IInv
  PROVE  /\ LeafLevel \in {3, 4} /\ LeafLevel \in 1 .. 4
         /\ LeafLevel = 3 <=> job.pages = Entries
         /\ LeafLevel = 4 <=> job.pages = 1
<1>1. job.pages \in {1, Entries} /\ Entries # 1
  BY Now, EntriesType DEF Jobs
<1> QED
  BY <1>1 DEF LeafLevel

(* The descent comes to the level it says, which is the leaf's unless the   *)
(* entry there leads no further.                                            *)
LEMMA LevelOfTurn ==
  ASSUME IInv, Looping, NEW l, l = LevelReached(Path(job.at), job.at)
  PROVE  /\ job.at \in Pages /\ l \in 1 .. LeafLevel /\ l \in 1 .. 4 /\ Reaches(pool, job.at, l)
         /\ l # LeafLevel => l \in 1 .. 3 /\ EntryAt(pool, job.at, l).kind # "table"
         /\ l < LeafLevel <=> l # LeafLevel
<1> DEFINE T == {k \in 1 .. LeafLevel : k = LeafLevel \/ EntryOn(Path(job.at), job.at, k).kind # "table"}
<1>1. job.at \in Pages
  BY Now DEF Jobs
<1>2. LeafLevel \in {3, 4}
  BY LeafLevels
<1>3. \A k \in 1 .. 4 : EntryOn(Path(job.at), job.at, k) = EntryAt(pool, job.at, k)
  BY <1>1, PathOfPage
<1>4. T \in SUBSET Nat /\ LeafLevel \in T
  BY <1>2
<1>5. l = Min(T)
  BY DEF LevelReached
<1>6. l \in T /\ \A k \in T : l <= k
  BY <1>4, <1>5, LeastIsMin
<1>7. l \in 1 .. LeafLevel /\ l \in 1 .. 4 /\ (l # LeafLevel => l \in 1 .. 3 /\ EntryAt(pool, job.at, l).kind # "table")
      /\ (l < LeafLevel <=> l # LeafLevel)
  BY <1>2, <1>3, <1>6
<1>8. \A k \in 1 .. 3 : k < l => EntryAt(pool, job.at, k).kind = "table"
  <2> SUFFICES ASSUME NEW k \in 1 .. 3, k < l PROVE EntryAt(pool, job.at, k).kind = "table"
    OBVIOUS
  <2>1. k \notin T /\ k \in 1 .. LeafLevel
    BY <1>2, <1>6, <1>7
  <2> QED
    BY <1>3, <2>1
<1>9. Reaches(pool, job.at, l)
  BY <1>7, <1>8 DEF Reaches, EntryAt
<1> QED
  BY <1>1, <1>7, <1>9

LEMMA TurnNow ==
  ASSUME IInv, Looping
  PROVE  /\ Shape(pool, used) /\ used > 1 /\ used \in PoolPages /\ job \in Jobs /\ job.at \in Pages
         /\ pool \in [PoolPages -> [Slots -> Entry]]
<1>1. used > 1
  BY DEF IInv, PoolInShape, Looping
<1> QED
  BY <1>1, Now DEF Jobs

LEMMA Advances ==
  ASSUME IInv, Looping, job.left > 0, Advance
  PROVE  /\ job' \in Jobs /\ job'.pages = job.pages /\ job'.left = job.left - 1
         /\ job'.frame = job.frame + job.pages /\ job'.at = (job.at + job.pages) % (2 * Half)
         /\ job'.flags = job.flags
<1>1. job \in Jobs
  BY TurnNow
<1>2. /\ job.at \in Pages /\ job.frame \in Nat /\ job.pages \in {1, Entries} /\ job.left \in Nat
  BY <1>1 DEF Jobs
<1>3. (job.at + job.pages) % (2 * Half) \in Pages /\ job.frame + job.pages \in Nat /\ job.left - 1 \in Nat
  BY <1>2, AdvanceFits, EntriesType
<1> QED
  BY <1>1, <1>2, <1>3 DEF Advance, Jobs

(***************************************************************************)
(* Turns that write to the tables                                          *)
(***************************************************************************)
LEMMA TableAdded ==
  ASSUME IInv, AddTable, NEW l, l = LevelReached(Path(job.at), job.at)
  PROVE  /\ Linkable(pool, used, job.at, l) /\ pool' = Write(pool, job.at, l, Link(used))
         /\ used' = used + 1
<1>1. /\ pc = "map" /\ job.left > 0 /\ l < LeafLevel /\ EntryOn(Path(job.at), job.at, l).kind = "none"
      /\ ~PoolEmpty /\ used' = used + 1
      /\ pool' = [pool EXCEPT ![used] = BlankTable, ![Path(job.at)[l]][Index(job.at, l)] = Link(used)]
  BY DEF AddTable, Turn
<1>2. Looping
  BY <1>1 DEF Looping
<1>3. /\ job.at \in Pages /\ l \in 1 .. 3 /\ l \in 1 .. 4 /\ Reaches(pool, job.at, l)
      /\ EntryAt(pool, job.at, l).kind = "none" /\ Path(job.at)[l] = NodeAt(pool, job.at, l)
  BY <1>1, <1>2, LevelOfTurn, PathOfPage
<1>4. Shape(pool, used) /\ used > 1 /\ used \in PoolPages /\ pool \in [PoolPages -> [Slots -> Entry]]
  BY <1>2, TurnNow
<1>5. used + 1 \in PoolPages
  BY <1>1, <1>4, PoolType DEF PoolEmpty, PoolPages
<1>6. EntryAt(pool, job.at, l) = Blank
  <2>1. NodeAt(pool, job.at, l) \in PoolPages /\ Index(job.at, l) \in Slots
    BY <1>3, <1>4, NodeType
  <2>2. EntryAt(pool, job.at, l) = pool[NodeAt(pool, job.at, l)][Index(job.at, l)]
    BY <1>3, EntryOfNode
  <2> QED
    BY <1>3, <1>4, <2>1, <2>2 DEF Shape, NoneIsBlank
<1>7. Linkable(pool, used, job.at, l)
  BY <1>3, <1>4, <1>5, <1>6 DEF Linkable, Writable
<1>8. pool[used] = BlankTable
  BY <1>4, PoolType DEF Shape, UnusedBlank, PoolPages
<1>9. pool' = Write(pool, job.at, l, Link(used))
  <2>1. [pool EXCEPT ![used] = BlankTable] = pool
    BY <1>4, <1>8
  <2>2. pool' = [[pool EXCEPT ![used] = BlankTable] EXCEPT ![Path(job.at)[l]][Index(job.at, l)] = Link(used)]
    BY <1>1
  <2> QED
    BY <1>3, <2>1, <2>2 DEF Write
<1> QED
  BY <1>1, <1>7, <1>9

(* Both loops write at the leaf's level: an entry, or blank. *)
LeafWritten(e) ==
  /\ Settable(pool, used, job.at, LeafLevel, e) /\ NodeAt(pool, job.at, LeafLevel) < used
  /\ pool' = Write(pool, job.at, LeafLevel, e) /\ used' = used

LEMMA LeafIsWritten ==
  ASSUME IInv, Looping, LevelReached(Path(job.at), job.at) = LeafLevel,
         EntryOn(Path(job.at), job.at, LeafLevel).kind # "table",
         NEW e \in Entry, e.kind \in {"none", "page", "block"}, e.kind = "none" => e = Blank,
         e.kind = "page" => LeafLevel = 4, e.kind = "block" => LeafLevel = 3,
         pool' = [pool EXCEPT ![Path(job.at)[LeafLevel]][Index(job.at, LeafLevel)] = e], used' = used
  PROVE  LeafWritten(e) /\ EntryOn(Path(job.at), job.at, LeafLevel) = EntryAt(pool, job.at, LeafLevel)
<1>1. LeafLevel \in {3, 4} /\ LeafLevel \in 1 .. 4
  BY LeafLevels
<1>2. job.at \in Pages /\ Reaches(pool, job.at, LeafLevel)
  BY LevelOfTurn
<1>3. /\ Path(job.at)[LeafLevel] = NodeAt(pool, job.at, LeafLevel)
      /\ EntryOn(Path(job.at), job.at, LeafLevel) = EntryAt(pool, job.at, LeafLevel)
  BY <1>1, <1>2, PathOfPage
<1>4. Shape(pool, used)
  BY TurnNow
<1>5. NodeAt(pool, job.at, LeafLevel) < used
  BY <1>1, <1>2, <1>4, NodeType
<1>6. e.kind \in KindsOf(LeafLevel)
  BY <1>1 DEF KindsOf
<1>7. Settable(pool, used, job.at, LeafLevel, e)
  BY <1>1, <1>2, <1>3, <1>4, <1>6 DEF Settable, Writable
<1>8. pool' = Write(pool, job.at, LeafLevel, e)
  BY <1>3 DEF Write
<1> QED
  BY <1>3, <1>5, <1>7, <1>8 DEF LeafWritten

LEMMA NewEntryType ==
  ASSUME IInv
  PROVE  /\ NewEntry \in Entry /\ NewEntry.to = job.frame /\ NewEntry.flags = job.flags
         /\ NewEntry.kind = IF job.pages = Entries THEN "block" ELSE "page"
<1>1. job.frame \in Nat /\ job.flags \in SUBSET Flags
  BY Now DEF Jobs
<1> QED
  BY <1>1 DEF NewEntry, Leaf, Entry

LEMMA EntryIsSet ==
  ASSUME IInv, SetEntry
  PROVE  /\ LeafWritten(NewEntry) /\ EntryAt(pool, job.at, LeafLevel) \in {Blank, NewEntry}
<1>1. /\ Looping /\ LevelReached(Path(job.at), job.at) = LeafLevel /\ used' = used
      /\ ~Conflict(EntryOn(Path(job.at), job.at, LeafLevel))
      /\ pool' = [pool EXCEPT ![Path(job.at)[LeafLevel]][Index(job.at, LeafLevel)] = NewEntry]
  BY DEF SetEntry, Turn, Looping
<1>2. /\ NewEntry \in Entry /\ NewEntry.kind \in {"page", "block"}
      /\ (NewEntry.kind = "page" => LeafLevel = 4) /\ (NewEntry.kind = "block" => LeafLevel = 3)
  BY NewEntryType, LeafLevels
<1>3. EntryOn(Path(job.at), job.at, LeafLevel) \in {Blank, NewEntry}
  BY <1>1 DEF Conflict
<1>4. EntryOn(Path(job.at), job.at, LeafLevel).kind # "table"
  BY <1>2, <1>3, BlankType
<1> QED
  BY <1>1, <1>2, <1>3, <1>4, LeafIsWritten

LEMMA EntryIsCleared ==
  ASSUME IInv, ClearEntry
  PROVE  LeafWritten(Blank)
<1>1. /\ Looping /\ LevelReached(Path(job.at), job.at) = LeafLevel /\ used' = used
      /\ job.pages = Entries => EntryOn(Path(job.at), job.at, 3).kind # "table"
      /\ pool' = [pool EXCEPT ![Path(job.at)[LeafLevel]][Index(job.at, LeafLevel)] = Blank]
  BY DEF ClearEntry, Turn, Looping
<1>2. EntryOn(Path(job.at), job.at, LeafLevel).kind # "table"
  <2>1. CASE LeafLevel = 3
    BY <1>1, <2>1, LeafLevels
  <2>2. CASE LeafLevel = 4
    <3>1. EntryAt(pool, job.at, 4).kind \in KindsOf(4) /\ job.at \in Pages
      BY <1>1, <2>2, LevelOfTurn, TurnNow DEF Shape, KindsByLevel
    <3> QED
      BY <2>2, <3>1, PathOfPage DEF KindsOf
  <2> QED
    BY <2>1, <2>2, LeafLevels
<1> QED
  BY <1>1, <1>2, BlankType, LeafIsWritten

(***************************************************************************)
(* The loops keep the invariant                                            *)
(***************************************************************************)
LEMMA AddTableKeeps ==
  ASSUME IInv, AddTable
  PROVE  IInv'
<1> DEFINE l == LevelReached(Path(job.at), job.at)
<1>1. Linkable(pool, used, job.at, l) /\ pool' = Write(pool, job.at, l, Link(used)) /\ used' = used + 1
  BY TableAdded
<1>2. Shape(pool', used')
  BY <1>1, LinkKeepsShape
<1>3. /\ UNCHANGED <<given, ttbr>> /\ pc = "map" /\ pc' = "map" /\ why' = why /\ range' = range /\ at' = at
      /\ job' = job /\ wanted' = wanted /\ tlb' = tlb
  BY DEF AddTable, Turn, walk, call
<1>4. used' >= used
  BY <1>1, Now DEF PoolPages
<1> QED
  BY <1>2, <1>3, <1>4, Now, PlainStepKeeps

LEMMA LeafWrittenKeeps ==
  ASSUME IInv, Looping, NEW e, LeafWritten(e), Advance, job.left > 0,
         UNCHANGED <<given, ttbr, used, pc, why, walk, wanted, tlb>>
  PROVE  IInv'
<1>1. Shape(pool', used')
  BY LeafKeepsShape DEF LeafWritten
<1>2. /\ UNCHANGED <<given, ttbr>> /\ pc' = pc /\ why' = why /\ range' = range /\ at' = at
      /\ wanted' = wanted /\ tlb' = tlb /\ used' = used
  BY DEF walk
<1>3. job' \in Jobs
  BY Advances
<1>4. used' >= used /\ (pc' = "unmap" => ttbr = "kernel")
  BY <1>2, Now DEF PoolPages, IInv, TablesInForce
<1> QED
  BY <1>1, <1>2, <1>3, <1>4, Now, PlainStepKeeps DEF Looping

LEMMA SetEntryKeeps ==
  ASSUME IInv, SetEntry
  PROVE  IInv'
<1>1. /\ Looping /\ job.left > 0 /\ Advance
      /\ UNCHANGED <<given, ttbr, used, pc, why, walk, wanted, tlb>>
  BY DEF SetEntry, Turn, Looping
<1> QED
  BY <1>1, EntryIsSet, LeafWrittenKeeps

LEMMA ClearEntryKeeps ==
  ASSUME IInv, ClearEntry
  PROVE  IInv'
<1>1. /\ Looping /\ job.left > 0 /\ Advance
      /\ UNCHANGED <<given, ttbr, used, pc, why, walk, wanted, tlb>>
  BY DEF ClearEntry, Turn, Looping
<1> QED
  BY <1>1, EntryIsCleared, LeafWrittenKeeps

LEMMA SkipPageKeeps ==
  ASSUME IInv, SkipPage
  PROVE  IInv'
<1>1. /\ pc = "unmap" /\ job.left > 0 /\ Advance
      /\ UNCHANGED <<given, ttbr>> /\ UNCHANGED tables /\ pc' = pc /\ why' = why /\ range' = range /\ at' = at
      /\ wanted' = wanted /\ tlb' = tlb
  BY DEF SkipPage, Turn, walk
<1>2. job' \in Jobs
  BY <1>1, Advances DEF Looping
<1>3. ttbr = "kernel"
  BY <1>1 DEF IInv, TablesInForce
<1> QED
  BY <1>1, <1>2, <1>3, Now, TablesStay, PlainStepKeeps

LEMMA MapPanicKeeps ==
  ASSUME IInv, MapRefuses \/ OutOfPool \/ BlockInTheWay \/ EntryExists \/ UnmapAsserts
  PROVE  IInv'
<1>1. /\ pc \in {"map", "unmap"} /\ pc' = "panic" /\ why' \in Reasons
      /\ UNCHANGED <<given, ttbr, tables, walk, call, tlb>>
  BY DEF MapRefuses, OutOfPool, BlockInTheWay, EntryExists, UnmapAsserts, Turn, Panic, Reasons
<1> QED
  BY <1>1, PanicKeeps

(***************************************************************************)
(* The processor caches what the tables in force say                       *)
(***************************************************************************)
LEMMA SeenType ==
  ASSUME NEW P, NEW u, Shape(P, u), NEW q \in Pages
  PROVE  /\ Seen(P, q) \in Entry /\ Seen(P, q).kind \in {"none", "page", "block"}
<1>1. Reaches(P, q, 4) => Found(P, q) = EntryAt(P, q, 4) /\ EntryAt(P, q, 4) \in Entry
                          /\ EntryAt(P, q, 4).kind \in KindsOf(4)
  BY FoundByLevel, NodeType DEF Shape, KindsByLevel
<1>2. Reaches(P, q, 3) => EntryAt(P, q, 3) \in Entry /\ EntryAt(P, q, 3).kind \in KindsOf(3)
  BY NodeType DEF Shape, KindsByLevel
<1>3. Reaches(P, q, 3) /\ ~Reaches(P, q, 4) => Found(P, q) = EntryAt(P, q, 3) /\ EntryAt(P, q, 3).kind # "table"
  <2>1. Reaches(P, q, 3) /\ EntryAt(P, q, 3).kind = "table" => Reaches(P, q, 4)
    BY DEF Reaches, EntryAt
  <2> QED
    BY <2>1, FoundByLevel
<1>4. ~Reaches(P, q, 3) => Found(P, q) = Blank
  BY FoundByLevel
<1>5. Found(P, q) \in Entry /\ Found(P, q).kind \in {"none", "page", "block"}
  BY <1>1, <1>2, <1>3, <1>4, BlankType DEF KindsOf
<1> QED
  BY <1>5, BlankType DEF Seen

(* What a page is translated to by an entry. *)
Translation(e, p) ==
  IF e.kind = "none" THEN <<>>
  ELSE <<e.to + (IF e.kind = "block" THEN p % Entries ELSE 0), e.flags>>

LEMMA TranslateIsSeen ==
  ASSUME NEW q \in Pages, Shape(pool, used)
  PROVE  Translate(q) = Translation(Seen(pool, q), q)
BY EntryIsSeen DEF Translate, Translation

LEMMA TranslateIsSeenNext ==
  ASSUME NEW q \in Pages, Shape(pool', used')
  PROVE  Translate(q)' = Translation(Seen(pool', q), q)
BY EntryIsSeenNext DEF Translate, Translation

LEMMA TranslationType ==
  ASSUME NEW P, NEW u, Shape(P, u), NEW q \in Pages
  PROVE  Translation(Seen(P, q), q) \in {<<>>} \cup (Nat \X SUBSET Flags)
<1> DEFINE e == Seen(P, q)
<1>1. e \in Entry
  BY SeenType
<1> HIDE DEF e
<1>2. e.to \in Nat /\ e.flags \in SUBSET Flags
  BY <1>1 DEF Entry
<1>3. q % Entries \in Nat
  <2>1. q \in Int /\ Entries \in Int /\ Entries > 0
    BY PagesType, EntriesType
  <2>2. q % Entries \in 0 .. Entries - 1
    BY <2>1, DivMod
  <2> QED
    BY <2>1, <2>2
<1>4. e.to + (IF e.kind = "block" THEN q % Entries ELSE 0) \in Nat
  BY <1>2, <1>3
<1>5. Translation(e, q) \in {<<>>} \cup (Nat \X SUBSET Flags)
  BY <1>2, <1>4 DEF Translation
<1> QED
  BY <1>5 DEF e

LEMMA BootTranslationType ==
  ASSUME NEW b \in BootTables, NEW leaf \in b, NEW q \in Pages, Covers(leaf, q)
  PROVE  <<leaf.frame + (q - leaf.at), leaf.flags>> \in Nat \X SUBSET Flags
<1>1. leaf.at \in Nat /\ leaf.frame \in Nat /\ leaf.flags \in SUBSET Flags /\ leaf.pages \in Int
  BY AArch64Assumption, PagesType, EntriesType, SpanValues
<1>2. q \in Int /\ leaf.at <= q
  BY <1>1, PagesType DEF Covers
<1>3. leaf.frame + (q - leaf.at) \in Nat
  BY <1>1, <1>2
<1> QED
  BY <1>1, <1>3

LEMMA InForceType ==
  ASSUME IInv, NEW q \in Pages
  PROVE  InForce(q) \in {<<>>} \cup (Nat \X SUBSET Flags)
<1>1. Translate(q) \in {<<>>} \cup (Nat \X SUBSET Flags)
  BY Now, TranslateIsSeen, TranslationType
<1>2. TranslateByBoot(q) \in {<<>>} \cup (Nat \X SUBSET Flags)
  <2> DEFINE cover == {leaf \in boot : Covers(leaf, q)}
             leaf == CHOOSE l \in cover : TRUE
  <2>1. CASE cover = {}
    BY <2>1 DEF TranslateByBoot
  <2>2. CASE cover # {}
    <3>1. leaf \in boot /\ Covers(leaf, q)
      BY <2>2
    <3>2. TranslateByBoot(q) = <<leaf.frame + (q - leaf.at), leaf.flags>>
      BY <2>2 DEF TranslateByBoot
    <3> HIDE DEF leaf
    <3> QED
      BY <3>1, <3>2, Now, BootTranslationType
  <2> QED
    BY <2>1, <2>2
<1> QED
  BY <1>1, <1>2 DEF InForce

LEMMA CacheKeeps ==
  ASSUME IInv, NEW q \in Pages, Cache(q)
  PROVE  IInv'
<1>1. /\ UNCHANGED given /\ ttbr' = ttbr /\ UNCHANGED tables /\ pc' = pc /\ pc # "panic" /\ why' = why
      /\ at' = at /\ range' = range /\ job' = job /\ wanted' = wanted
      /\ tlb' = <<q, InForce(q)>> /\ InForce(q) # <<>>
  BY DEF Cache, walk, call
<1>2. tlb' \in Cached
  BY <1>1, InForceType DEF Cached
<1>3. pool' = pool /\ used' = used /\ boot' = boot /\ memmap' = memmap /\ supported' = supported
  BY <1>1 DEF tables, given
<1>4. TypeOK'
  BY <1>1, <1>2, <1>3 DEF IInv, TypeOK, Cached
<1>5. PoolInShape' /\ TablesInForce'
  BY <1>1, <1>3 DEF IInv, PoolInShape, TablesInForce
<1>6. CacheIsFresh'
  <2> SUFFICES ASSUME pc = "idle" PROVE Translate(q)' = InForce(q)
    BY <1>1 DEF CacheIsFresh
  <2>1. InForce(q) = Translate(q)
    BY DEF InForce, IInv, TablesInForce
  <2>2. Shape(pool, used) /\ Shape(pool', used')
    BY <1>3, Now
  <2> QED
    BY <1>3, <2>1, <2>2, TranslateIsSeen, TranslateIsSeenNext
<1> QED
  BY <1>4, <1>5, <1>6 DEF IInv

(***************************************************************************)
(* Every step keeps the invariant                                          *)
(***************************************************************************)
LEMMA NextKeeps ==
  ASSUME IInv, [Next]_vars
  PROVE  IInv'
<1>1. CASE UNCHANGED vars
  <2>1. /\ boot' = boot /\ memmap' = memmap /\ supported' = supported /\ ttbr' = ttbr
        /\ pool' = pool /\ used' = used /\ pc' = pc /\ why' = why /\ at' = at /\ range' = range
        /\ job' = job /\ wanted' = wanted /\ tlb' = tlb
    BY <1>1 DEF vars, given, tables, walk, call
  <2>2. TypeOK'
    BY <2>1 DEF IInv, TypeOK
  <2>3. PoolInShape' /\ TablesInForce'
    BY <2>1 DEF IInv, PoolInShape, TablesInForce
  <2>4. CacheIsFresh'
    BY <2>1 DEF IInv, CacheIsFresh, Translate, EntryOf
  <2> QED
    BY <2>2, <2>3, <2>4 DEF IInv
<1>2. CASE InitStep
  BY <1>2, InitRefusesKeeps, StartWalkKeeps, OpenRangeKeeps, ExtendRangeKeeps, HugeLeafKeeps,
     SkipMissingKeeps, MapRangeKeeps, DropRangeKeeps, LoadTablesKeeps DEF InitStep
<1>3. CASE MapStep
  <2>1. MapReturns => pc \in {"map", "unmap"} /\ Return
    BY DEF MapReturns, Returned
  <2> QED
    BY <1>3, <2>1, MapPanicKeeps, AddTableKeeps, SetEntryKeeps, ReturnKeeps DEF MapStep
<1>4. CASE UnmapStep
  <2>1. UnmapReturns => pc \in {"map", "unmap"} /\ Return
    BY DEF UnmapReturns, Returned
  <2> QED
    BY <1>4, <2>1, MapPanicKeeps, SkipPageKeeps, ClearEntryKeeps, ReturnKeeps DEF UnmapStep
<1>5. ASSUME NEW r \in Areas, MapPartial(r) PROVE IInv'
  BY <1>5, MapPartialKeeps
<1>6. ASSUME NEW r \in Mappings, MapMemory(r) PROVE IInv'
  BY <1>6, MapMemoryKeeps
<1>7. ASSUME NEW r \in Unmappings, UnmapRefuses(r) \/ UnmapMemory(r) PROVE IInv'
  BY <1>7, UnmapRefusesKeeps, UnmapMemoryKeeps
<1>8. ASSUME NEW q \in Pages, Cache(q) PROVE IInv'
  BY <1>8, CacheKeeps
<1> QED
  BY <1>1, <1>2, <1>3, <1>4, <1>5, <1>6, <1>7, <1>8 DEF Next

(* The invariant holds in every state of init, the calls of the kernel and  *)
(* the processor: types, the shape of the two trees of tables in the pool,  *)
(* which tables are in force, and what the cache may hold.                  *)
THEOREM Invariant == Spec => []IInv
<1>1. Init => IInv
  BY InitKeeps
<1>2. IInv /\ [Next]_vars => IInv'
  BY NextKeeps
<1> QED
  BY <1>1, <1>2, PTL DEF Spec

(* Every variable stays in its type: no step of paging.cpp leaves the pool, *)
(* the address space of the two roots or the four levels.                   *)
THEOREM TypeCorrect == Spec => []TypeOK
<1>1. IInv => TypeOK
  BY DEF IInv
<1> QED
  BY <1>1, Invariant, PTL

(* While no call is running, the processor caches no translation that the   *)
(* tables no longer have: each call that changed an entry the processor may *)
(* hold invalidates the cache before it returns.                            *)
THEOREM CacheFresh == Spec => []CacheIsFresh
<1>1. IInv => CacheIsFresh
  BY DEF IInv
<1> QED
  BY <1>1, Invariant, PTL

(***************************************************************************)
(* The tables are an address space                                         *)
(***************************************************************************)

(* The page of the higher half that the kernel's tables hold for job.at, and *)
(* the pages its entry covers: itself, or its block.                         *)
First == Fold(job.at)
RunOfJob == First .. First + job.pages - 1

LEMMA RunIsAlike ==
  ASSUME IInv, job.at % job.pages = 0
  PROVE  /\ First \in Upper /\ First \in Pages /\ First % job.pages = 0 /\ RunOfJob \subseteq Upper
         /\ First \in RunOfJob
         /\ \A q \in Upper :
              /\ q \in RunOfJob <=> Alike(job.at, q, LeafLevel)
              /\ q \in RunOfJob => (IF job.pages = Entries THEN q % Entries ELSE 0) = q - First
<1>0. /\ job.at \in Pages /\ job.pages \in {1, Entries} /\ 1 # Entries
  BY Now, EntriesType DEF Jobs
<1>1. /\ First \in Upper /\ First \in Pages /\ First \in Int
      /\ \A l \in 1 .. 4 : Index(job.at, l) = Index(First, l)
      /\ First % Entries = job.at % Entries
  BY <1>0, FoldIsAlike, HalfIsOfBlocks, PagesType DEF First
<1> HIDE DEF First
<1>2. CASE job.pages = Entries
  <2>1. First % Entries = 0 /\ LeafLevel = 3
    BY <1>0, <1>1, <1>2, LeafLevels
  <2>2. First .. First + Entries - 1 \subseteq Upper
    BY <1>1, <2>1, BlockIsOfPages
  <2>3. ASSUME NEW q \in Upper
        PROVE  /\ q \in First .. First + Entries - 1 <=> Alike(job.at, q, 3)
               /\ q \in First .. First + Entries - 1 => q % Entries = q - First
    <3>1. q \in First .. First + Entries - 1 <=> \A l \in 1 .. 3 : Index(First, l) = Index(q, l)
      BY <1>1, <2>1, BlockOfPages
    <3>2. q \in First .. First + Entries - 1 => q % Entries = q - First
      BY <1>1, <2>1, BlockOfPages
    <3> QED
      BY <1>1, <3>1, <3>2 DEF Alike
  <2>4. First \in First .. First + Entries - 1
    BY <1>1, EntriesType
  <2> QED
    BY <1>1, <1>2, <2>1, <2>2, <2>3, <2>4 DEF RunOfJob
<1>3. CASE job.pages = 1
  <2>1. First % 1 = 0 /\ LeafLevel = 4
    <3>1. First = 1 * First + 0 /\ 0 \in 0 .. 1 - 1
      BY <1>1
    <3> QED
      BY <1>0, <1>1, <1>3, <3>1, DivModUnique, LeafLevels
  <2>2. First .. First + 1 - 1 = {First}
    BY <1>1
  <2>3. ASSUME NEW q \in Upper
        PROVE  /\ q = First <=> Alike(job.at, q, 4)
               /\ q = First => q - First = 0
    <3>1. Alike(job.at, q, 4) <=> \A l \in 1 .. 4 : Index(First, l) = Index(q, l)
      BY <1>1 DEF Alike
    <3> QED
      BY <1>1, <3>1, SamePage
  <2> QED
    BY <1>0, <1>1, <1>3, <2>1, <2>2, <2>3 DEF RunOfJob
<1> QED
  BY <1>0, <1>2, <1>3

(* What a write at the leaf's level does to what the tables say of a page. *)
LEMMA LeafWrittenShows ==
  ASSUME IInv, Looping, NEW e, LeafWritten(e), job.at % job.pages = 0, NEW q \in Pages
  PROVE  /\ q \in RunOfJob => Seen(pool, q) = EntryAt(pool, job.at, LeafLevel) /\ Seen(pool', q) = e
         /\ q \notin RunOfJob => Seen(pool', q) = Seen(pool, q)
<1>1. CASE q \in Upper
  <2>1. q \in RunOfJob <=> Alike(job.at, q, LeafLevel)
    BY <1>1, RunIsAlike
  <2>2. /\ Alike(job.at, q, LeafLevel) =>
             Found(pool, q) = EntryAt(pool, job.at, LeafLevel) /\ Found(pool', q) = e
        /\ ~ Alike(job.at, q, LeafLevel) => Found(pool', q) = Found(pool, q)
    BY FoundAtLeaf DEF LeafWritten
  <2> QED
    BY <1>1, <2>1, <2>2 DEF Seen
<1>2. CASE q \notin Upper
  BY <1>2, RunIsAlike DEF Seen
<1> QED
  BY <1>1, <1>2

LEMMA SameSeenSameSpace ==
  ASSUME IInv, IInv', \A q \in Pages : Seen(pool', q) = Seen(pool, q)
  PROVE  [p \in Pages |-> Translate(p)]' = [p \in Pages |-> Translate(p)]
<1>1. Shape(pool, used) /\ Shape(pool', used')
  BY DEF IInv, PoolInShape
<1>2. \A q \in Pages : Translate(q)' = Translate(q)
  BY <1>1, TranslateIsSeen, TranslateIsSeenNext
<1> QED
  BY <1>2

LEMMA SetEntryMaps ==
  ASSUME IInv, IInv', SetEntry
  PROVE  TheSpace!Map(First, job.pages) \/ UNCHANGED [p \in Pages |-> Translate(p)]
<1>0. /\ Looping /\ job.at % job.pages = 0 /\ LeafWritten(NewEntry)
      /\ EntryAt(pool, job.at, LeafLevel) \in {Blank, NewEntry}
      /\ Shape(pool, used) /\ Shape(pool', used')
  BY EntryIsSet DEF SetEntry, Turn, Misaligned, Looping, IInv, PoolInShape
<1>1. CASE EntryAt(pool, job.at, LeafLevel) = NewEntry
  <2>1. \A q \in Pages : Seen(pool', q) = Seen(pool, q)
    BY <1>0, <1>1, LeafWrittenShows
  <2> QED
    BY <2>1, SameSeenSameSpace
<1>2. CASE EntryAt(pool, job.at, LeafLevel) = Blank
  <2>1. /\ NewEntry.to = job.frame /\ NewEntry.flags = job.flags
        /\ NewEntry.kind = IF job.pages = Entries THEN "block" ELSE "page"
        /\ job.frame \in Nat /\ job.flags \in SUBSET Flags
    BY NewEntryType, Now DEF Jobs
  <2>2. /\ First \in Pages /\ First % job.pages = 0 /\ RunOfJob \subseteq Pages /\ First \in RunOfJob
    BY <1>0, RunIsAlike, HalfType
  <2>3. ASSUME NEW q \in RunOfJob
        PROVE  Translate(q) = <<>> /\ Translate(q)' = <<job.frame + (q - First), job.flags>>
    <3>1. q \in Pages /\ q \in Upper
      BY <1>0, <2>3, RunIsAlike, HalfType
    <3>2. Translate(q) = Translation(Blank, q) /\ Translate(q)' = Translation(NewEntry, q)
      BY <1>0, <1>2, <2>3, <3>1, LeafWrittenShows, TranslateIsSeen, TranslateIsSeenNext
    <3>3. (IF job.pages = Entries THEN q % Entries ELSE 0) = q - First
      BY <1>0, <2>3, <3>1, RunIsAlike
    <3> QED
      BY <2>1, <3>2, <3>3, BlankType DEF Translation
  <2>4. ASSUME NEW q \in Pages, q \notin RunOfJob
        PROVE  Translate(q)' = Translate(q)
    BY <1>0, <2>4, LeafWrittenShows, TranslateIsSeen, TranslateIsSeenNext
  <2> DEFINE now  == [p \in Pages |-> Translate(p)]
             next == [p \in Pages |-> Translate(p)]'
  <2>5. next = [p \in Pages |-> Translate(p)']
    OBVIOUS
  <2>6. next = [q \in Pages |-> IF q \in RunOfJob THEN <<job.frame + (q - First), job.flags>> ELSE now[q]]
    BY <2>3, <2>4, <2>5
  <2>7. next[First] = <<job.frame, job.flags>>
    <3>1. job.frame + (First - First) = job.frame
      BY <2>1, <2>2, PagesType
    <3> QED
      BY <2>2, <2>3, <2>5, <3>1
  <2>8. next[First] \in Nat \X SUBSET Flags /\ next[First][1] = job.frame /\ next[First][2] = job.flags
    BY <2>1, <2>7
  <2>9. \A q \in RunOfJob : now[q] = <<>>
    BY <2>2, <2>3
  <2>10. TheSpace!Map(First, job.pages) <=>
           /\ First % job.pages = 0 /\ \A q \in RunOfJob : now[q] = <<>>
           /\ next[First] \in Nat \X SUBSET Flags
           /\ next = [q \in Pages |-> IF q \in RunOfJob THEN <<next[First][1] + (q - First), next[First][2]>>
                                                        ELSE now[q]]
    BY DEF TheSpace!Map, TheSpace!Run, RunOfJob
  <2> HIDE DEF now, next
  <2> QED
    BY <2>2, <2>6, <2>8, <2>9, <2>10
<1> QED
  BY <1>0, <1>1, <1>2

LEMMA ClearEntryUnmaps ==
  ASSUME IInv, IInv', ClearEntry
  PROVE  TheSpace!Unmap(First, job.pages)
<1>0. /\ Looping /\ LeafWritten(Blank) /\ Shape(pool, used) /\ Shape(pool', used')
      /\ job.pages = Entries => job.at % Entries = 0
  BY EntryIsCleared DEF ClearEntry, Turn, Looping, IInv, PoolInShape
<1>1. job.at % job.pages = 0
  <2>1. job.at \in Int /\ job.pages \in {1, Entries}
    BY Now, PagesType DEF Jobs
  <2>2. job.at = 1 * job.at + 0 /\ 0 \in 0 .. 1 - 1
    BY <2>1
  <2>3. job.at % 1 = 0
    BY <2>1, <2>2, DivModUnique
  <2> QED
    BY <1>0, <2>1, <2>3
<1>2. /\ First \in Pages /\ First % job.pages = 0 /\ RunOfJob \subseteq Pages
  BY <1>1, RunIsAlike, HalfType
<1>3. ASSUME NEW q \in RunOfJob PROVE Translate(q)' = <<>>
  <2>1. q \in Pages
    BY <1>2, <1>3
  <2>2. Translate(q)' = Translation(Blank, q)
    BY <1>0, <1>1, <1>3, <2>1, LeafWrittenShows, TranslateIsSeenNext
  <2> QED
    BY <2>2, BlankType DEF Translation
<1>4. ASSUME NEW q \in Pages, q \notin RunOfJob PROVE Translate(q)' = Translate(q)
  BY <1>0, <1>1, <1>4, LeafWrittenShows, TranslateIsSeen, TranslateIsSeenNext
<1> DEFINE now  == [p \in Pages |-> Translate(p)]
           next == [p \in Pages |-> Translate(p)]'
<1>5. next = [p \in Pages |-> Translate(p)']
  OBVIOUS
<1>6. next = [q \in Pages |-> IF q \in RunOfJob THEN <<>> ELSE now[q]]
  BY <1>3, <1>4, <1>5
<1>7. TheSpace!Unmap(First, job.pages) <=>
        /\ First % job.pages = 0
        /\ next = [q \in Pages |-> IF q \in RunOfJob THEN <<>> ELSE now[q]]
  BY DEF TheSpace!Unmap, TheSpace!Run, RunOfJob
<1> HIDE DEF now, next
<1> QED
  BY <1>2, <1>6, <1>7

(* All other steps leave what is seen as it is. *)
LEMMA OtherStepsShowNothing ==
  ASSUME IInv, [Next]_vars, ~SetEntry, ~ClearEntry
  PROVE  \A q \in Pages : Seen(pool', q) = Seen(pool, q)
<1>1. CASE AddTable
  <2> DEFINE l == LevelReached(Path(job.at), job.at)
  <2>1. Linkable(pool, used, job.at, l) /\ pool' = Write(pool, job.at, l, Link(used))
    BY <1>1, TableAdded
  <2>2. \A q \in Pages : Found(pool', q) = Found(pool, q)
    BY <2>1, FoundUnderLink
  <2> QED
    BY <2>2 DEF Seen
<1>2. CASE InitStep
  <2>1. pool' = pool
    BY <1>2 DEF InitStep, InitRefuses, StartWalk, OpenRange, ExtendRange, HugeLeaf, SkipMissing,
       MapRange, DropRange, LoadTables, tables
  <2> QED
    BY <2>1
<1>3. CASE MapRefuses \/ OutOfPool \/ BlockInTheWay \/ EntryExists \/ MapReturns \/ SkipPage
           \/ UnmapAsserts \/ UnmapReturns
  <2>1. pool' = pool
    BY <1>3 DEF MapRefuses, OutOfPool, BlockInTheWay, EntryExists, MapReturns, SkipPage,
       UnmapAsserts, UnmapReturns, Return, tables
  <2> QED
    BY <2>1
<1>4. CASE \/ \E r \in Areas : MapPartial(r)
           \/ \E r \in Mappings : MapMemory(r)
           \/ \E r \in Unmappings : UnmapRefuses(r) \/ UnmapMemory(r)
           \/ \E p \in Pages : Cache(p)
           \/ UNCHANGED vars
  <2>1. pool' = pool
    BY <1>4 DEF MapPartial, MapMemory, UnmapRefuses, UnmapMemory, Cache, vars, tables
  <2> QED
    BY <2>1
<1> QED
  BY <1>1, <1>2, <1>3, <1>4 DEF Next, MapStep, UnmapStep

LEMMA StepsOfTheSpace ==
  ASSUME IInv, IInv', [Next]_vars
  PROVE  [TheSpace!Next \/ \E p \in Pages, len \in {1, Entries} : TheSpace!Unmap(p, len)]_
           [p \in Pages |-> Translate(p)]
<1>0. First \in Pages /\ job.pages \in {1, Entries}
  BY Now, FoldIsAlike DEF First, Jobs
<1>1. CASE SetEntry
  BY <1>0, <1>1, SetEntryMaps DEF TheSpace!Next
<1>2. CASE ClearEntry
  BY <1>0, <1>2, ClearEntryUnmaps
<1>3. CASE ~SetEntry /\ ~ClearEntry
  <2>1. \A q \in Pages : Seen(pool', q) = Seen(pool, q)
    BY <1>3, OtherStepsShowNothing
  <2> QED
    BY <2>1, SameSeenSameSpace
<1> QED
  BY <1>1, <1>2, <1>3

LEMMA StartsAsTheSpace ==
  ASSUME Init
  PROVE  TheSpace!Init
<1>1. Shape(pool, used)
  BY InitKeeps DEF IInv, PoolInShape
<1>2. ASSUME NEW q \in Pages PROVE Translate(q) = <<>>
  <2>1. Index(q, 1) \in Slots /\ 1 \in PoolPages
    BY IndexType, PagesType, PoolType
  <2>2. Entry1(pool, q) = Blank
    BY <2>1 DEF Init, BlankTable, Slots, PoolPages, Entry1
  <2>3. Found(pool, q) = Blank
    BY <2>2, BlankType DEF Found, Reaches
  <2>4. Translate(q) = Translation(Blank, q)
    BY <1>1, <2>3, TranslateIsSeen DEF Seen
  <2> QED
    BY <2>4, BlankType DEF Translation
<1> QED
  BY <1>2 DEF TheSpace!Init

(* Whatever is mapped and unmapped, in whatever order: a page that has a    *)
(* frame keeps frame and flags until it is unmapped, and a run of pages is  *)
(* mapped and unmapped as a whole or not at all.                            *)
THEOREM TablesAreAnAddressSpace == Spec => ImplementsAddressSpace
<1>1. Init => TheSpace!Init
  BY StartsAsTheSpace
<1>2. IInv /\ IInv' /\ [Next]_vars =>
        [TheSpace!Next \/ \E p \in Pages, len \in {1, Entries} : TheSpace!Unmap(p, len)]_
          [p \in Pages |-> Translate(p)]
  BY StepsOfTheSpace
<1> QED
  BY <1>1, <1>2, Invariant, PTL DEF Spec, ImplementsAddressSpace, TheSpace!UnmappingSpec

(***************************************************************************)
(* What a turn shows                                                       *)
(***************************************************************************)
LEMMA SetShows ==
  ASSUME IInv, IInv', SetEntry, NEW q \in RunOfJob
  PROVE  Translate(q)' = <<job.frame + (q - First), job.flags>>
<1>1. Looping /\ job.at % job.pages = 0 /\ LeafWritten(NewEntry) /\ Shape(pool', used')
  BY EntryIsSet DEF SetEntry, Turn, Misaligned, Looping, IInv, PoolInShape
<1>2. /\ NewEntry.to = job.frame /\ NewEntry.flags = job.flags
      /\ NewEntry.kind = IF job.pages = Entries THEN "block" ELSE "page"
  BY NewEntryType
<1>3. q \in Pages /\ q \in Upper
  BY <1>1, RunIsAlike, HalfType
<1>4. Translate(q)' = Translation(NewEntry, q)
  BY <1>1, <1>3, LeafWrittenShows, TranslateIsSeenNext
<1>5. (IF job.pages = Entries THEN q % Entries ELSE 0) = q - First
  BY <1>1, <1>3, RunIsAlike
<1> QED
  BY <1>2, <1>4, <1>5 DEF Translation

(* What is mapped stays, but for unmapMemory. *)
LEMMA TranslationLasts ==
  ASSUME IInv, IInv', [Next]_vars, ~ClearEntry, NEW q \in Pages, Translate(q) # <<>>
  PROVE  Translate(q)' = Translate(q)
<1>1. Shape(pool, used) /\ Shape(pool', used')
  BY DEF IInv, PoolInShape
<1>2. Seen(pool, q) # Blank
  BY <1>1, TranslateIsSeen, BlankType DEF Translation
<1>3. CASE SetEntry
  <2>1. Looping /\ job.at % job.pages = 0 /\ LeafWritten(NewEntry)
        /\ EntryAt(pool, job.at, LeafLevel) \in {Blank, NewEntry}
    BY <1>3, EntryIsSet DEF SetEntry, Turn, Misaligned, Looping
  <2>2. Seen(pool', q) = Seen(pool, q)
    BY <1>2, <2>1, LeafWrittenShows
  <2> QED
    BY <1>1, <2>2, TranslateIsSeen, TranslateIsSeenNext
<1>4. CASE ~SetEntry
  <2>1. Seen(pool', q) = Seen(pool, q)
    BY <1>4, OtherStepsShowNothing
  <2> QED
    BY <1>1, <2>1, TranslateIsSeen, TranslateIsSeenNext
<1> QED
  BY <1>3, <1>4

(* Where the descent ends early, a whole run is not mapped, or in a block. *)
LEMMA SkippedIsGone ==
  ASSUME IInv, SkipPage, job.at % job.pages = 0, NEW q \in RunOfJob
  PROVE  Seen(pool, q).kind = "none" \/ (job.pages = 1 /\ Seen(pool, q).kind = "block")
<1> DEFINE l == LevelReached(Path(job.at), job.at)
<1>1. Looping /\ l < LeafLevel
  BY DEF SkipPage, Turn, Looping
<1>2. /\ job.at \in Pages /\ l \in 1 .. 3 /\ l \in 1 .. 4 /\ Reaches(pool, job.at, l)
      /\ EntryAt(pool, job.at, l).kind # "table"
  BY <1>1, LevelOfTurn
<1>3. EntryAt(pool, job.at, l).kind \in KindsOf(l)
  BY <1>2, Now DEF Shape, KindsByLevel
<1>4. LeafLevel \in {3, 4} /\ (LeafLevel = 4 <=> job.pages = 1) /\ l < LeafLevel
  BY <1>1, LeafLevels
<1>5. q \in Upper /\ q \in Pages /\ Alike(job.at, q, LeafLevel)
  BY RunIsAlike, HalfType
<1> HIDE DEF l
<1>6. Alike(job.at, q, l) /\ Alike(job.at, q, l - 1)
  BY <1>2, <1>4, <1>5 DEF Alike
<1>7. /\ Reaches(pool, q, l) /\ NodeAt(pool, q, l) = NodeAt(pool, job.at, l)
      /\ Index(q, l) = Index(job.at, l)
  BY <1>2, <1>6, SameIndexesSameTable DEF Alike
<1>8. EntryAt(pool, q, l) = EntryAt(pool, job.at, l)
  BY <1>2, <1>7, EntryOfNode
<1>9. CASE l = 3
  <2>1. Found(pool, q) = EntryAt(pool, q, 3)
    BY <1>2, <1>7, <1>8, <1>9, FoundByLevel
  <2>2. Found(pool, q).kind \in {"none", "block"} /\ job.pages = 1
    BY <1>2, <1>3, <1>4, <1>8, <1>9, <2>1 DEF KindsOf
  <2> QED
    BY <1>5, <2>2 DEF Seen
<1>10. CASE l # 3
  <2>1. ~ Reaches(pool, q, 3)
    BY <1>2, <1>8, <1>10 DEF Reaches, EntryAt
  <2> QED
    BY <1>5, <2>1, FoundByLevel, BlankType DEF Seen
<1> QED
  BY <1>9, <1>10

(***************************************************************************)
(* Numbers of the loops                                                    *)
(***************************************************************************)
LEMMA Product ==
  ASSUME NEW n \in Int, NEW m \in Int
  PROVE  n * m \in Int /\ (n - 1) * m = n * m - m /\ 0 * m = 0 /\ n * 1 = n
OBVIOUS

(* A block behind a block: the last one of the address space is followed by *)
(* the first.                                                               *)
LEMMA NextBlock ==
  ASSUME NEW p \in Pages, NEW n \in {1, Entries}, p % n = 0
  PROVE  ((p + n) % (2 * Half)) % n = 0
<1>1. CASE n = 1
  <2>1. (p + n) % (2 * Half) \in Int
    BY AdvanceFits, PagesType
  <2> DEFINE x == (p + n) % (2 * Half)
  <2> HIDE DEF x
  <2>2. x \in Int /\ x = 1 * x + 0 /\ 0 \in 0 .. 1 - 1
    BY <2>1 DEF x
  <2>3. x % 1 = 0
    BY <2>2, DivModUnique
  <2> QED
    BY <1>1, <2>3 DEF x
<1>2. CASE n = Entries
  <2> DEFINE N == 2 * Half
             k == p \div Entries
             s == p + Entries
  <2>0. p % Entries = 0 /\ p \in Nat
    BY <1>2, PagesType
  <2>1. s <= N /\ p \in Int /\ p >= 0 /\ N \in Int /\ N > 0 /\ Entries \in Int /\ Entries > 1
    <3>1. N \in Int /\ N > 0
      BY HalfType
    <3>2. s <= N
      BY <2>0, BlockIsOfPages
    <3> QED
      BY <2>0, <3>1, <3>2, EntriesType
  <2>2. k \in Int /\ p = Entries * k + 0
    BY <2>0, <2>1, DivMod
  <2> HIDE DEF N, k
  <2>3. Entries * (k + 1) = Entries * k + Entries
    BY <2>1, <2>2
  <2>4. s \in Int /\ s >= 0 /\ s = Entries * (k + 1) + 0 /\ 0 \in 0 .. Entries - 1 /\ k + 1 \in Int
    BY <2>1, <2>2, <2>3
  <2> DEFINE m == k + 1
  <2>8. s \in Int /\ m \in Int /\ s = Entries * m + 0 /\ 0 \in 0 .. Entries - 1 /\ Entries > 0 /\ Entries \in Int
    BY <2>1, <2>4
  <2> HIDE DEF s, m
  <2>5. s % Entries = 0
    BY <2>8, DivModUnique
  <2>6. CASE s < N
    <3>1. s = N * 0 + s /\ s \in 0 .. N - 1 /\ 0 \in Int
      BY <2>1, <2>4, <2>6
    <3>2. s % N = s
      BY <2>1, <2>4, <3>1, DivModUnique
    <3> QED
      BY <1>2, <2>5, <3>2 DEF N, s
  <2>7. CASE s = N
    <3>1. N = N * 1 + 0 /\ 0 \in 0 .. N - 1 /\ 1 \in Int
      BY <2>1
    <3>2. N % N = 0
      BY <2>1, <3>1, DivModUnique
    <3> QED
      BY <1>2, <2>7, <3>2, HalfIsOfBlocks DEF N, s
  <2> QED
    BY <2>1, <2>4, <2>6, <2>7
<1> QED
  BY <1>1, <1>2

LEMMA InsideStays ==
  ASSUME NEW x \in Nat, x < 2 * Half
  PROVE  x % (2 * Half) = x
<1> DEFINE N == 2 * Half
<1>1. N \in Int /\ N > 0 /\ x < N /\ x \in Int
  BY HalfType
<1> HIDE DEF N
<1>2. x = N * 0 + x /\ x \in 0 .. N - 1 /\ 0 \in Int
  BY <1>1
<1>3. x % N = x
  BY <1>1, <1>2, DivModUnique
<1> QED
  BY <1>3 DEF N

(* mapPartial maps enough pages for the area. *)
LEMMA LastIsCounted ==
  ASSUME NEW r \in Areas
  PROVE  (r.address + r.size - 1) \div PageBytes < r.address \div PageBytes + PartialPages(r)
<1> DEFINE s == r.size
           f == r.address \div PageBytes
           o == r.address % PageBytes
           whole == s \div PageBytes
           rest == s % PageBytes
           rounded == s + PageBytes - rest
           last == o + s - 1
           q == last \div PageBytes
           d == last % PageBytes
<1>1. PageBytes \in Int /\ PageBytes > 0 /\ s \in Nat /\ s > 0 /\ r.address \in Nat
  BY AArch64Assumption
<1>2. /\ whole \in Nat /\ rest \in 0 .. PageBytes - 1 /\ s = PageBytes * whole + rest
      /\ o \in 0 .. PageBytes - 1 /\ f \in Nat /\ r.address = PageBytes * f + o
  <2>1. s \in Int /\ s >= 0 /\ r.address \in Int /\ r.address >= 0
    BY <1>1
  <2>2. o \in 0 .. PageBytes - 1 /\ f \in Nat /\ r.address = PageBytes * f + o
    BY <1>1, <2>1, DivMod
  <2>3. whole \in Nat /\ rest \in 0 .. PageBytes - 1 /\ s = PageBytes * whole + rest
    BY <1>1, <2>1, DivMod
  <2> QED
    BY <2>2, <2>3
<1>3. PartialPages(r) = (IF o + s > rounded THEN rounded + PageBytes ELSE rounded) \div PageBytes
  BY DEF PartialPages
<1> HIDE DEF s, o, f, whole, rest
<1>4. /\ PageBytes * (whole + 1) = PageBytes * whole + PageBytes
      /\ PageBytes * (whole + 2) = PageBytes * whole + PageBytes + PageBytes
      /\ PageBytes * whole \in Int
  BY <1>1, <1>2
<1>5. rounded = PageBytes * (whole + 1) + 0 /\ rounded + PageBytes = PageBytes * (whole + 2) + 0
      /\ 0 \in 0 .. PageBytes - 1 /\ whole + 1 \in Int /\ whole + 2 \in Int
      /\ rounded \in Int /\ rounded + PageBytes \in Int
  BY <1>1, <1>2, <1>4
<1>6. rounded \div PageBytes = whole + 1 /\ (rounded + PageBytes) \div PageBytes = whole + 2
  BY <1>1, <1>5, DivModUnique
<1>7. /\ last \in Int /\ q \in Int /\ d \in 0 .. PageBytes - 1 /\ last = PageBytes * q + d
  BY <1>1, <1>2, DivMod
<1> HIDE DEF q, d
<1>8. q < PartialPages(r)
  <2>1. CASE o + s > rounded
    <3>1. last < PageBytes * (whole + 2)
      BY <1>1, <1>2, <1>4, <1>5
    <3>2. q < whole + 2
      BY <1>1, <1>5, <1>7, <3>1, DigitBound
    <3> QED
      BY <1>3, <1>6, <2>1, <3>2
  <2>2. CASE ~ (o + s > rounded)
    <3>1. last < PageBytes * (whole + 1)
      BY <1>1, <1>2, <1>5, <2>2
    <3>2. q < whole + 1
      BY <1>1, <1>5, <1>7, <3>1, DigitBound
    <3> QED
      BY <1>3, <1>6, <2>2, <3>2
  <2> QED
    BY <2>1, <2>2
<1>9. (r.address + s - 1) \div PageBytes = f + q
  <2>1. PageBytes * (f + q) = PageBytes * f + PageBytes * q /\ PageBytes * f \in Int /\ PageBytes * q \in Int
    BY <1>1, <1>2, <1>7
  <2> DEFINE x == PageBytes * f
             y == PageBytes * q
  <2>2. /\ r.address = x + o /\ last = y + d /\ x \in Int /\ y \in Int /\ PageBytes * (f + q) = x + y
    BY <1>2, <1>7, <2>1
  <2> HIDE DEF x, y
  <2>3. r.address + s - 1 = (x + y) + d /\ r.address + s - 1 \in Int /\ f + q \in Int
    BY <1>1, <1>2, <1>7, <2>2
  <2> DEFINE n == r.address + s - 1
             fq == f + q
  <2>4. n \in Int /\ fq \in Int /\ n = PageBytes * fq + d
    BY <2>2, <2>3
  <2> HIDE DEF n, fq
  <2>5. n \div PageBytes = fq
    BY <1>1, <1>7, <2>4, DivModUnique
  <2> QED
    BY <2>5 DEF n, fq
<1>10. PartialPages(r) \in Nat
  BY AreaCounts
<1> QED
  BY <1>2, <1>7, <1>8, <1>9, <1>10 DEF s, f

(***************************************************************************)
(* The calls of the kernel                                                 *)
(***************************************************************************)
Asked(q) == <<wanted.frame + (q - wanted.first), wanted.flags>>
Area == wanted.first .. wanted.last

(* How many pages mapMemory has behind it: they are mapped, and those ahead  *)
(* reach the end of the area.                                                *)
Done == job.frame - wanted.frame

MapServes ==
  pc = "map" /\ ttbr = "kernel" =>
    /\ wanted.first \in Upper /\ wanted.last < 2 * Half
    /\ Done \in Nat /\ job.flags = wanted.flags
    /\ wanted.last < wanted.first + Done + job.left * job.pages
    /\ wanted.first + Done <= wanted.last => job.at = wanted.first + Done
    /\ \A q \in Area : q < wanted.first + Done => Translate(q) = Asked(q)

(* The page that unmapMemory has reached: no page before it is mapped, but   *)
(* in a block.                                                               *)
Reached == wanted.last + 1 - job.left * job.pages

Gone(q) == Seen(pool, q).kind = "none" \/ (job.pages = 1 /\ Seen(pool, q).kind = "block")

UnmapServes ==
  pc = "unmap" =>
    /\ wanted.first \in Upper /\ wanted.last < 2 * Half /\ wanted.first <= Reached
    /\ job.left > 0 => job.at = Reached
    /\ wanted.first % job.pages = 0 =>
         /\ job.at % job.pages = 0
         /\ \A q \in Area : q < Reached => Gone(q)

Serves == MapServes /\ UnmapServes

(***************************************************************************)
(* A call begins                                                           *)
(***************************************************************************)
LEMMA MapMemoryServes ==
  ASSUME NEW r \in Mappings, MapMemory(r)
  PROVE  Serves'
<1> DEFINE m == r.count * r.pages
<1>1. /\ r.at \in Pages /\ r.frame \in Nat /\ r.pages \in {1, Entries} /\ r.count \in Nat
      /\ Half <= r.at /\ r.at + m <= 2 * Half
  BY AArch64Assumption
<1>2. m \in Int /\ r.at \in Upper /\ r.at \in Int /\ 2 * Half \in Int
  BY <1>1, EntriesType, HalfType DEF Upper
<1>3. /\ pc' = "map" /\ job'.at = r.at /\ job'.frame = r.frame /\ job'.flags = r.flags
      /\ job'.left * job'.pages = m
      /\ wanted'.first = r.at /\ wanted'.last = r.at + m - 1 /\ wanted'.frame = r.frame /\ wanted'.flags = r.flags
  BY DEF MapMemory
<1> HIDE DEF m
<1>4. Done' = 0
  BY <1>1, <1>3 DEF Done
<1>5. /\ wanted'.last < 2 * Half
      /\ wanted'.last < wanted'.first + Done' + job'.left * job'.pages
      /\ wanted'.first + Done' <= wanted'.last => job'.at = wanted'.first + Done'
  BY <1>1, <1>2, <1>3, <1>4
<1>6. ~ \E q \in Area' : q < wanted'.first + Done'
  BY <1>2, <1>3, <1>4 DEF Area
<1>7. MapServes'
  BY <1>2, <1>3, <1>4, <1>5, <1>6 DEF MapServes
<1> QED
  BY <1>3, <1>7 DEF Serves, UnmapServes

LEMMA MapPartialServes ==
  ASSUME NEW r \in Areas, MapPartial(r)
  PROVE  Serves'
<1> DEFINE frame == r.address \div PageBytes
           last == (r.address + r.size - 1) \div PageBytes
           n == PartialPages(r)
<1>1. /\ frame \in Nat /\ Half + frame \in Upper /\ Half + last \in Upper /\ n \in Nat /\ last < frame + n
  BY AreaCounts, LastIsCounted
<1>2. /\ pc' = "map" /\ job'.at = Half + frame /\ job'.frame = frame /\ job'.flags = r.flags
      /\ job'.left = n /\ job'.pages = 1
      /\ wanted'.first = Half + frame /\ wanted'.last = Half + last
      /\ wanted'.frame = frame /\ wanted'.flags = r.flags
  BY DEF MapPartial
<1>3. last \in Int /\ Half \in Int /\ Half + last < 2 * Half
  <2>1. last < Half
    BY AArch64Assumption
  <2>2. last \in Int
    <3>1. PageBytes \in Int /\ PageBytes > 0 /\ r.address + r.size - 1 \in Int
      BY AArch64Assumption
    <3> QED
      BY <3>1, DivMod
  <2> HIDE DEF last
  <2> QED
    BY <2>1, <2>2, HalfType
<1> HIDE DEF frame, last, n
<1>4. Done' = 0
  BY <1>1, <1>2 DEF Done
<1>5. job'.left * job'.pages = n
  BY <1>1, <1>2, Product
<1>6. /\ wanted'.first \in Upper /\ wanted'.last < 2 * Half
      /\ wanted'.last < wanted'.first + Done' + job'.left * job'.pages
      /\ wanted'.first + Done' <= wanted'.last => job'.at = wanted'.first + Done'
  BY <1>1, <1>2, <1>3, <1>4, <1>5
<1>7. ~ \E q \in Area' : q < wanted'.first + Done'
  BY <1>1, <1>2, <1>3, <1>4 DEF Area
<1>8. MapServes'
  BY <1>2, <1>4, <1>6, <1>7 DEF MapServes
<1> QED
  BY <1>2, <1>8 DEF Serves, UnmapServes

LEMMA UnmapMemoryServes ==
  ASSUME NEW r \in Unmappings, UnmapMemory(r)
  PROVE  Serves'
<1> DEFINE first == Half + r.address \div PageBytes
           m == r.count * r.pages
<1>1. /\ first \in Upper /\ first + m <= 2 * Half /\ first \in Int /\ m \in Int /\ 2 * Half \in Int
      /\ r.pages \in {1, Entries} /\ r.count \in Nat
  BY UnmappingCounts, HalfType, EntriesType
<1>2. /\ pc' = "unmap" /\ job'.at = first /\ job'.left * job'.pages = m /\ job'.pages = r.pages
      /\ wanted'.first = first /\ wanted'.last = first + m - 1
  BY DEF UnmapMemory
<1> HIDE DEF first, m
<1>3. Reached' = first
  BY <1>1, <1>2 DEF Reached
<1>4. wanted'.last < 2 * Half
  BY <1>1, <1>2
<1>5. ~ \E q \in Area' : q < Reached'
  BY <1>1, <1>2, <1>3 DEF Area
<1>6. UnmapServes'
  BY <1>1, <1>2, <1>3, <1>4, <1>5 DEF UnmapServes
<1> QED
  BY <1>2, <1>6 DEF Serves, MapServes

(***************************************************************************)
(* Turns                                                                   *)
(***************************************************************************)

(* Steps that leave the call as it is: nothing that was mapped is lost. *)
LEMMA MapTurnServes ==
  ASSUME IInv, IInv', [Next]_vars, ~ClearEntry, MapServes, pc = "map", ttbr = "kernel",
         wanted' = wanted, job' = job
  PROVE  MapServes'
<1>1. Done' = Done /\ Area' = Area
  BY DEF Done, Area
<1>2. ASSUME NEW q \in Area, q < wanted.first + Done PROVE (Translate(q) = Asked(q))'
  <2>1. Translate(q) = Asked(q) /\ Asked(q)' = Asked(q)
    BY <1>2 DEF MapServes, Asked
  <2>2. q \in Pages /\ Translate(q) # <<>>
    <3>1. wanted.first \in Nat /\ wanted.last < 2 * Half /\ wanted.last \in Int /\ 2 * Half \in Int
      BY Now, HalfType DEF MapServes, Requested
    <3> QED
      BY <2>1, <3>1, HalfType DEF Area, Asked
  <2> QED
    BY <2>1, <2>2, TranslationLasts
<1> QED
  BY <1>1, <1>2 DEF MapServes

LEMMA SetServes ==
  ASSUME IInv, IInv', [Next]_vars, MapServes, ttbr = "kernel", SetEntry
  PROVE  MapServes'
<1>1. /\ pc = "map" /\ Looping /\ job.left > 0 /\ Advance /\ wanted' = wanted /\ ~ClearEntry
  BY DEF SetEntry, Turn, Looping, ClearEntry
<1>2. /\ job'.pages = job.pages /\ job'.left = job.left - 1 /\ job'.frame = job.frame + job.pages
      /\ job'.at = (job.at + job.pages) % (2 * Half) /\ job'.flags = job.flags
  BY <1>1, Advances
<1>3. /\ wanted.first \in Upper /\ wanted.last < 2 * Half
      /\ Done \in Nat /\ job.flags = wanted.flags
      /\ wanted.last < wanted.first + Done + job.left * job.pages
      /\ wanted.first + Done <= wanted.last => job.at = wanted.first + Done
      /\ \A q \in Area : q < wanted.first + Done => Translate(q) = Asked(q)
  BY <1>1 DEF MapServes
<1>4. /\ wanted.first \in Nat /\ wanted.last \in Int /\ wanted.frame \in Nat /\ job.frame \in Nat
      /\ job.left \in Nat /\ job.pages \in Nat /\ job.pages > 0 /\ job.at \in Nat /\ 2 * Half \in Int
      /\ Half <= wanted.first
  <2>1. job \in Jobs /\ wanted \in Requested
    BY Now
  <2>2. /\ wanted.first \in Pages /\ wanted.last \in Int /\ wanted.frame \in Nat
        /\ job.at \in Pages /\ job.frame \in Nat /\ job.left \in Nat /\ job.pages \in {1, Entries}
    BY <2>1 DEF Requested, Jobs
  <2>3. wanted.first \in Nat /\ job.at \in Nat /\ 2 * Half \in Int /\ Half <= wanted.first
    BY <1>3, <2>2, HalfType DEF Upper
  <2> QED
    BY <2>2, <2>3, EntriesType
<1>5. Done' = Done + job.pages /\ Done' \in Nat /\ Area' = Area /\ job.frame = wanted.frame + Done
  <2>1. Done \in Nat
    BY <1>3
  <2> QED
    BY <1>1, <1>2, <1>4, <2>1 DEF Done, Area
<1>6. wanted'.last < wanted'.first + Done' + job'.left * job'.pages
  <2> DEFINE m == job.left * job.pages
  <2>1. m \in Int /\ job'.left * job'.pages = m - job.pages
    BY <1>2, <1>4, Product
  <2>2. wanted.last < wanted.first + Done + m
    BY <1>3
  <2> HIDE DEF m
  <2> QED
    BY <1>1, <1>3, <1>4, <1>5, <2>1, <2>2
<1>7. wanted'.first + Done' <= wanted'.last => job'.at = wanted'.first + Done'
  <2> SUFFICES ASSUME wanted.first + Done + job.pages <= wanted.last
               PROVE  job'.at = wanted.first + Done + job.pages
    BY <1>1, <1>3, <1>4, <1>5
  <2>1. job.at = wanted.first + Done
    BY <1>3, <1>4
  <2>2. job.at + job.pages \in Nat /\ job.at + job.pages < 2 * Half
    BY <1>3, <1>4, <2>1
  <2>3. job'.at = job.at + job.pages
    BY <1>2, <2>2, InsideStays
  <2> QED
    BY <1>3, <1>4, <2>1, <2>3
<1>8. ASSUME NEW q \in Area, q < wanted.first + Done' PROVE (Translate(q) = Asked(q))'
  <2>1. Asked(q)' = Asked(q) /\ Asked(q) # <<>> /\ q \in Int /\ wanted.first <= q /\ q <= wanted.last
    BY <1>1, <1>4 DEF Asked, Area
  <2>2. q \in Pages
    BY <1>3, <1>4, <2>1, HalfType
  <2>3. CASE q < wanted.first + Done
    BY <1>1, <1>3, <2>1, <2>2, <2>3, TranslationLasts
  <2>4. CASE wanted.first + Done <= q
    <3>1. job.at = wanted.first + Done /\ job.at < 2 * Half
      BY <1>3, <1>4, <2>1, <2>4
    <3>2. First = job.at
      <4>1. job.at \in Upper
        BY <1>3, <1>4, <3>1, HalfType DEF Upper
      <4> QED
        BY <4>1, Now, FoldIsAlike DEF First, Jobs
    <3>3. q \in RunOfJob
      <4>1. q < wanted.first + (Done + job.pages)
        BY <1>5, <1>8
      <4>2. First <= q /\ q < First + job.pages
        BY <1>3, <1>4, <2>1, <2>4, <3>1, <3>2, <4>1
      <4>3. First \in Int /\ job.pages \in Int /\ q \in Int
        BY <1>4, <2>1, <3>2
      <4> QED
        BY <4>2, <4>3 DEF RunOfJob
    <3>4. Translate(q)' = <<job.frame + (q - First), job.flags>>
      BY <3>3, SetShows
    <3>5. job.frame + (q - First) = wanted.frame + (q - wanted.first)
      BY <1>3, <1>4, <1>5, <2>1, <3>1, <3>2
    <3> QED
      BY <1>3, <2>1, <3>4, <3>5 DEF Asked
  <2> QED
    BY <1>3, <1>4, <2>1, <2>3, <2>4
<1> QED
  BY <1>1, <1>2, <1>3, <1>5, <1>6, <1>7, <1>8 DEF MapServes

(* A turn of unmapMemory: the run at hand is gone, and what was before stays. *)
LEMMA UnmapTurnServes ==
  ASSUME IInv, IInv', UnmapServes, pc = "unmap", job.left > 0, Advance, wanted' = wanted,
         \A q \in Area : Gone(q) => Gone(q)',
         job.at % job.pages = 0 => \A q \in RunOfJob \cap Area : Gone(q)'
  PROVE  UnmapServes'
<1>1. Looping
  BY DEF Looping
<1>2. /\ job'.pages = job.pages /\ job'.left = job.left - 1
      /\ job'.at = (job.at + job.pages) % (2 * Half)
  BY <1>1, Advances
<1>3. /\ wanted.first \in Upper /\ wanted.last < 2 * Half /\ wanted.first <= Reached /\ job.at = Reached
      /\ wanted.first % job.pages = 0 =>
           /\ job.at % job.pages = 0
           /\ \A q \in Area : q < Reached => Gone(q)
  BY DEF UnmapServes
<1>4. /\ wanted.first \in Nat /\ wanted.last \in Int /\ job.at \in Pages /\ job.at \in Nat
      /\ job.left \in Nat /\ job.pages \in Nat /\ job.pages > 0 /\ job.pages \in {1, Entries}
      /\ 2 * Half \in Int /\ Half <= wanted.first
  <2>1. job \in Jobs /\ wanted \in Requested
    BY Now
  <2>2. /\ wanted.first \in Pages /\ wanted.last \in Int
        /\ job.at \in Pages /\ job.left \in Nat /\ job.pages \in {1, Entries}
    BY <2>1 DEF Requested, Jobs
  <2>3. wanted.first \in Nat /\ job.at \in Nat /\ 2 * Half \in Int /\ Half <= wanted.first
    BY <1>3, <2>2, HalfType DEF Upper
  <2> QED
    BY <2>2, <2>3, EntriesType
<1> DEFINE m == job.left * job.pages
<1>5. m \in Int /\ job'.left * job'.pages = m - job.pages /\ Reached = wanted.last + 1 - m
  BY <1>2, <1>4, Product DEF Reached
<1>6. Reached' = Reached + job.pages /\ Reached \in Int /\ Area' = Area
  <2> HIDE DEF m
  <2> QED
    BY <1>4, <1>5 DEF Reached, Area
<1>7. job'.left > 0 => job'.at = Reached'
  <2> SUFFICES ASSUME job'.left > 0 PROVE job'.at = Reached'
    OBVIOUS
  <2> DEFINE k == job'.left * job'.pages
  <2>1. k > 0 /\ k \in Int
    <3>1. job'.left \in Int /\ job'.pages \in Int /\ 1 <= job'.left /\ job'.pages >= 0 /\ 1 \in Int
      BY <1>2, <1>4
    <3>2. job'.pages * 1 <= job'.pages * job'.left
      BY <3>1, TimesMonotonic
    <3>3. job'.pages * job'.left = k /\ job'.pages * 1 = job'.pages
      BY <3>1
    <3> QED
      BY <1>2, <1>4, <3>2, <3>3, <3>1, Product
  <2>2. Reached' = wanted.last + 1 - k
    BY DEF Reached
  <2> HIDE DEF k
  <2>3. job.at + job.pages < 2 * Half
    BY <1>3, <1>4, <1>6, <2>1, <2>2
  <2>4. job.at + job.pages \in Nat
    BY <1>4
  <2> QED
    BY <1>2, <1>3, <1>6, <2>3, <2>4, InsideStays
<1>8. wanted.first % job.pages = 0 => job'.at % job'.pages = 0
  BY <1>2, <1>3, <1>4, NextBlock
<1>9. ASSUME wanted.first % job.pages = 0, NEW q \in Area, q < Reached' PROVE Gone(q)'
  <2>1. q \in Int /\ wanted.first <= q /\ q <= wanted.last
    BY <1>4 DEF Area
  <2>2. CASE q < Reached
    BY <1>3, <1>9, <2>2
  <2>3. CASE Reached <= q
    <3>1. First = job.at
      <4>1. job.at \in Upper
        BY <1>3, <1>4, <1>6, HalfType DEF Upper
      <4> QED
        BY <1>4, <4>1, FoldIsAlike DEF First
    <3>2. q \in RunOfJob
      BY <1>3, <1>4, <1>6, <1>9, <2>1, <2>3, <3>1 DEF RunOfJob
    <3> QED
      BY <1>3, <1>9, <3>2
  <2> QED
    BY <1>6, <2>1, <2>2, <2>3
<1>10. wanted'.first <= Reached'
  BY <1>3, <1>4, <1>6
<1> QED
  BY <1>2, <1>3, <1>6, <1>7, <1>8, <1>9, <1>10 DEF UnmapServes

LEMMA AreaInPages ==
  ASSUME IInv, UnmapServes, pc = "unmap"
  PROVE  Area \subseteq Pages
<1>1. wanted.first \in Nat /\ wanted.last < 2 * Half /\ wanted.last \in Int /\ 2 * Half \in Int
  BY Now, HalfType DEF UnmapServes, Requested
<1> QED
  BY <1>1, HalfType DEF Area

LEMMA SkipServes ==
  ASSUME IInv, IInv', [Next]_vars, UnmapServes, SkipPage
  PROVE  UnmapServes'
<1>1. pc = "unmap" /\ Looping /\ job.left > 0 /\ Advance /\ wanted' = wanted /\ pool' = pool
  BY DEF SkipPage, Turn, Looping, tables
<1>2. job'.pages = job.pages
  BY <1>1, Advances
<1>3. \A q \in Area : Gone(q) => Gone(q)'
  BY <1>1, <1>2 DEF Gone
<1>4. job.at % job.pages = 0 => \A q \in RunOfJob \cap Area : Gone(q)'
  BY <1>1, <1>2, SkippedIsGone DEF Gone
<1> QED
  BY <1>1, <1>3, <1>4, UnmapTurnServes

LEMMA ClearServes ==
  ASSUME IInv, IInv', [Next]_vars, UnmapServes, ClearEntry
  PROVE  UnmapServes'
<1>1. /\ pc = "unmap" /\ Looping /\ job.left > 0 /\ Advance /\ wanted' = wanted
      /\ LeafWritten(Blank) /\ (job.pages = Entries => job.at % Entries = 0)
  BY EntryIsCleared DEF ClearEntry, Turn, Looping
<1>2. job'.pages = job.pages
  BY <1>1, Advances
<1>3. job.at % job.pages = 0
  <2>1. job.at \in Int /\ job.pages \in {1, Entries}
    BY Now, PagesType DEF Jobs
  <2>2. job.at = 1 * job.at + 0 /\ 0 \in 0 .. 1 - 1
    BY <2>1
  <2>3. job.at % 1 = 0
    BY <2>1, <2>2, DivModUnique
  <2> QED
    BY <1>1, <2>1, <2>3
<1>4. \A q \in Pages : Seen(pool', q) \in {Blank, Seen(pool, q)}
  BY <1>1, <1>3, LeafWrittenShows
<1>5. \A q \in RunOfJob \cap Pages : Seen(pool', q) = Blank
  BY <1>1, <1>3, LeafWrittenShows
<1>6. Area \subseteq Pages
  BY <1>1, AreaInPages
<1>7. \A q \in Area : Gone(q) => Gone(q)'
  BY <1>2, <1>4, <1>6, BlankType DEF Gone
<1>8. \A q \in RunOfJob \cap Area : Gone(q)'
  BY <1>2, <1>5, <1>6, BlankType DEF Gone
<1> QED
  BY <1>1, <1>7, <1>8, UnmapTurnServes

(***************************************************************************)
(* Every step serves                                                       *)
(***************************************************************************)
LEMMA MapStepServes ==
  ASSUME IInv, IInv', [Next]_vars, Serves, MapStep
  PROVE  Serves'
<1>0. pc = "map" /\ pc' \in {"map", "walk", "idle", "panic"}
  BY DEF MapStep, MapRefuses, AddTable, OutOfPool, BlockInTheWay, SetEntry, EntryExists, MapReturns,
     Turn, Returned, Return, Panic
<1>1. UnmapServes'
  BY <1>0 DEF UnmapServes
<1>2. CASE MapRefuses \/ OutOfPool \/ BlockInTheWay \/ EntryExists \/ MapReturns
  <2>1. pc' # "map"
    BY <1>2 DEF MapRefuses, OutOfPool, BlockInTheWay, EntryExists, MapReturns, Return, Panic
  <2>2. MapServes'
    BY <2>1 DEF MapServes
  <2> QED
    BY <1>1, <2>2 DEF Serves
<1>3. CASE AddTable
  <2>1. job' = job /\ wanted' = wanted /\ ttbr' = ttbr
    BY <1>3 DEF AddTable, call
  <2>2. ~ClearEntry
    BY <1>0 DEF ClearEntry, Turn
  <2>3. ttbr = "kernel" => MapServes'
    BY <1>0, <2>1, <2>2, MapTurnServes DEF Serves
  <2>4. ttbr # "kernel" => MapServes'
    BY <2>1 DEF MapServes
  <2> QED
    BY <1>1, <2>3, <2>4 DEF Serves
<1>4. CASE SetEntry
  <2>1. ttbr = "kernel" => MapServes'
    BY <1>4, SetServes DEF Serves
  <2>2. ttbr' = ttbr
    BY <1>4 DEF SetEntry
  <2>3. ttbr # "kernel" => MapServes'
    BY <2>2 DEF MapServes
  <2> QED
    BY <1>1, <2>1, <2>3 DEF Serves
<1> QED
  BY <1>1, <1>2, <1>3, <1>4 DEF Serves, MapStep

LEMMA UnmapStepServes ==
  ASSUME IInv, IInv', [Next]_vars, Serves, UnmapStep
  PROVE  Serves'
<1>0. pc = "unmap" /\ pc' # "map"
  BY DEF UnmapStep, SkipPage, UnmapAsserts, ClearEntry, UnmapReturns, Turn, Returned, Return, Panic
<1>1. MapServes'
  BY <1>0 DEF MapServes
<1>2. CASE UnmapAsserts \/ UnmapReturns
  <2>1. pc' # "unmap"
    BY <1>2 DEF UnmapAsserts, UnmapReturns, Return, Panic
  <2>2. UnmapServes'
    BY <2>1 DEF UnmapServes
  <2> QED
    BY <1>1, <2>2 DEF Serves
<1> QED
  BY <1>1, <1>2, SkipServes, ClearServes DEF Serves, UnmapStep

(* The processor, and steps of nobody. *)
LEMMA IdleServes ==
  ASSUME IInv, IInv', [Next]_vars, Serves, pc' = pc, ttbr' = ttbr, pool' = pool,
         job' = job, wanted' = wanted, ~ClearEntry
  PROVE  Serves'
<1>1. UnmapServes'
  <2>1. Reached' = Reached /\ Area' = Area
    BY DEF Reached, Area
  <2>2. \A q \in Area : Gone(q)' = Gone(q)
    BY DEF Gone
  <2> QED
    BY <2>1, <2>2 DEF Serves, UnmapServes
<1>2. pc = "map" /\ ttbr = "kernel" => MapServes'
  BY MapTurnServes DEF Serves
<1> QED
  BY <1>1, <1>2 DEF Serves, MapServes

LEMMA NextServes ==
  ASSUME IInv, IInv', [Next]_vars, Serves
  PROVE  Serves'
<1>1. CASE InitStep
  <2>1. pc' # "unmap" /\ (pc' = "map" => ttbr' # "kernel")
    BY <1>1 DEF InitStep, InitRefuses, StartWalk, OpenRange, ExtendRange, HugeLeaf, SkipMissing,
       MapRange, DropRange, LoadTables, RangeEnds, Panic, IInv, TablesInForce
  <2> QED
    BY <2>1 DEF Serves, MapServes, UnmapServes
<1>2. CASE MapStep
  BY <1>2, MapStepServes
<1>3. CASE UnmapStep
  BY <1>3, UnmapStepServes
<1>4. CASE \E r \in Areas : MapPartial(r)
  BY <1>4, MapPartialServes
<1>5. CASE \E r \in Mappings : MapMemory(r)
  BY <1>5, MapMemoryServes
<1>6. CASE \E r \in Unmappings : UnmapRefuses(r) \/ UnmapMemory(r)
  <2>1. ASSUME NEW r \in Unmappings, UnmapRefuses(r) PROVE Serves'
    BY <2>1 DEF UnmapRefuses, Panic, Serves, MapServes, UnmapServes
  <2> QED
    BY <1>6, <2>1, UnmapMemoryServes
<1>7. CASE (\E p \in Pages : Cache(p)) /\ ~ClearEntry
  <2>1. pc' = pc /\ ttbr' = ttbr /\ pool' = pool /\ job' = job /\ wanted' = wanted
    BY <1>7 DEF Cache, tables, call
  <2> QED
    BY <1>7, <2>1, IdleServes
<1>8. CASE UNCHANGED vars /\ ~ClearEntry
  <2>1. pc' = pc /\ ttbr' = ttbr /\ pool' = pool /\ job' = job /\ wanted' = wanted
    BY <1>8 DEF vars, tables, call
  <2> QED
    BY <1>8, <2>1, IdleServes
<1>9. ClearEntry => UnmapStep
  BY DEF UnmapStep
<1> QED
  BY <1>1, <1>2, <1>3, <1>4, <1>5, <1>6, <1>7, <1>8, <1>9 DEF Next

LEMMA ServedAsAsked ==
  ASSUME IInv, Serves
  PROVE  CallsDoAsAsked
<1>1. job \in Jobs /\ job.pages \in Int
  BY Now, EntriesType DEF Jobs
<1>2. ASSUME Returned("map"), ttbr = "kernel"
      PROVE  \A q \in Area : Translate(q) = Asked(q)
  <2>1. job.left = 0 /\ job.left * job.pages = 0
    BY <1>1, <1>2, Product DEF Returned
  <2>2. /\ wanted.last < wanted.first + Done + 0 /\ Done \in Nat
        /\ \A q \in Area : q < wanted.first + Done => Translate(q) = Asked(q)
    BY <1>2, <2>1 DEF Returned, Serves, MapServes
  <2>3. wanted.first \in Int /\ wanted.last \in Int
    BY Now, PagesType DEF Requested
  <2> QED
    BY <2>2, <2>3 DEF Area
<1>3. ASSUME Returned("unmap"), wanted.first % job.pages = 0, NEW q \in Area
      PROVE  Translate(q) = <<>> \/ (job.pages = 1 /\ EntryOf(q).kind = "block")
  <2>1. job.left = 0 /\ job.left * job.pages = 0 /\ pc = "unmap"
    BY <1>1, <1>3, Product DEF Returned
  <2>2. wanted.first \in Int /\ wanted.last \in Int
    BY Now, PagesType DEF Requested
  <2>3. q < Reached
    BY <2>1, <2>2 DEF Area, Reached
  <2>4. Gone(q) /\ q \in Pages
    BY <1>3, <2>1, <2>3, AreaInPages DEF Serves, UnmapServes
  <2>5. EntryOf(q) = Seen(pool, q) /\ Translate(q) = Translation(Seen(pool, q), q)
    BY <2>4, Now, EntryIsSeen, TranslateIsSeen
  <2> QED
    BY <2>4, <2>5 DEF Gone, Translation
<1> QED
  BY <1>2, <1>3 DEF CallsDoAsAsked, AreaIsMapped, OnlyBlocksRemain, Area, Asked

(* When mapMemory returns, every page it was asked for translates as asked; *)
(* when unmapMemory returns, none is mapped but pages inside a block.  The  *)
(* induction is over the turns of both loops: Serves says what the turns    *)
(* behind have done and that those ahead reach the end of the area.         *)
THEOREM CallsServed == Spec => []CallsDoAsAsked
<1>1. Init => Serves
  BY DEF Init, Serves, MapServes, UnmapServes
<1>2. IInv /\ IInv' /\ Serves /\ [Next]_vars => Serves'
  BY NextServes
<1>3. IInv /\ Serves => CallsDoAsAsked
  BY ServedAsAsked
<1> QED
  BY <1>1, <1>2, <1>3, Invariant, PTL DEF Spec

(***************************************************************************)
(* The walk                                                                *)
(***************************************************************************)
Loading == ttbr = "boot" /\ pc \in {"walk", "map"}
NoLower == \A leaf \in boot : leaf.at >= Half

(* From a page to the walk's next one there are leaves, all of one size,   *)
(* one set of flags and one distance to their frames.                      *)
RunOfLeaves(first, frame, pages, flags) ==
  \A q \in first .. at - 1 : \E leaf \in boot :
    /\ Covers(leaf, q) /\ first <= leaf.at /\ leaf.at + leaf.pages <= at
    /\ leaf.pages = pages /\ leaf.flags = flags
    /\ leaf.frame = frame + (leaf.at - first)

RangeOfLeaves ==
  Loading /\ Open => /\ range.at + range.count * range.pages = at
                     /\ RunOfLeaves(range.at, range.frame, range.pages, range.flags)

(* While init maps a range, what is left of it. *)
JobOfLeaves ==
  pc = "map" /\ ttbr = "boot" =>
    /\ ~Open /\ at \in Pages /\ ~Misaligned
    /\ job.left > 0 => /\ job.at + job.left * job.pages = at
                       /\ RunOfLeaves(job.at, job.frame, job.pages, job.flags)

(* The first page the walk has not settled. *)
Front ==
  IF pc = "map" /\ job.left > 0 THEN job.at
  ELSE IF Open THEN range.at ELSE at

(* What the higher half has before it is mapped, *)
Behind ==
  Loading =>
    \A leaf \in boot : leaf.at >= Half /\ InKeptMemory(leaf) /\ leaf.at < Front =>
      \A p \in leaf.at .. (leaf.at + leaf.pages - 1) :
        Translate(p) = <<leaf.frame + (p - leaf.at), leaf.flags>>

(* nothing is from there on if the lower half is empty, *)
Ahead ==
  Loading /\ NoLower => \A q \in Upper : q >= Front => Translate(q) = <<>>

(* and a last table holds a page, or is about to. *)
TablesHold ==
  Loading => \A q \in Upper : Reaches(pool, q, 4) =>
    \/ \E p \in Upper : Alike(q, p, 3) /\ Translate(p) # <<>>
    \/ pc = "map" /\ job.left > 0 /\ job.pages = 1 /\ Alike(job.at, q, 3)

(* What is mapped is a leaf of the page, or of its like in the lower half. *)
Folded ==
  ttbr = "boot" => \A q \in Upper :
    Translate(q) \in {<<>>, TranslateByBoot(q), TranslateByBoot(q - Half)}

(* Init begins with tables that map nothing. *)
StartsBlank ==
  pc = "start" => at = 0 /\ ~Open /\ \A q \in Upper : Entry1(pool, q) = Blank

WInv == /\ RangeOfLeaves /\ JobOfLeaves /\ Behind /\ Ahead /\ TablesHold /\ Folded
        /\ InitMeetsNothing /\ StartsBlank

(***************************************************************************)
(* Leaves of the boot loader                                               *)
(***************************************************************************)
LEMMA AlignedFits ==
  ASSUME NEW s \in Int, s > 0, NEW n \in Int, NEW all \in Int, all = s * n,
         NEW p \in Int, p >= 0, p < all, p % s = 0
  PROVE  p + s <= all
<1> DEFINE k == p \div s
<1>1. k \in Int /\ p = s * k + 0 /\ k >= 0
  BY DivMod
<1> HIDE DEF k
<1>2. k < n
  BY <1>1, DigitBound
<1>3. s * (k + 1) <= s * n
  BY <1>1, <1>2, TimesMonotonic
<1>4. s * (k + 1) = s * k + s
  BY <1>1
<1>5. s * k \in Int /\ s * n \in Int
  BY <1>1
<1> QED
  BY <1>1, <1>3, <1>4, <1>5

LEMMA Regroup == ASSUME NEW e \in Int, NEW m \in Int PROVE 2 * (e * (e * m)) = (e * e) * (2 * m)
<1>1. e * (e * m) = (e * e) * m
  OBVIOUS
<1> DEFINE a == e * e
<1>2. a \in Int /\ e * (e * m) = a * m
  BY <1>1
<1> HIDE DEF a
<1>3. 2 * (a * m) = a * (2 * m)
  BY <1>2
<1> QED
  BY <1>2, <1>3 DEF a

LEMMA LeafNumbers ==
  ASSUME NEW b \in BootTables, NEW leaf \in b
  PROVE  /\ leaf.at \in Nat /\ leaf.at \in Pages /\ leaf.pages \in Nat /\ leaf.pages > 0
         /\ leaf.frame \in Nat /\ leaf.at + leaf.pages <= 2 * Half /\ leaf.flags \subseteq Flags
         /\ leaf.at % leaf.pages = 0 /\ leaf.frame % leaf.pages = 0
<1>1. /\ leaf.at \in Pages /\ leaf.frame \in Nat /\ leaf.flags \subseteq Flags
      /\ leaf.pages \in {1, Entries, Span(2)} /\ leaf.at % leaf.pages = 0 /\ leaf.frame % leaf.pages = 0
  BY AArch64Assumption
<1>2. leaf.at \in Nat /\ leaf.at < 2 * Half /\ 2 * Half \in Nat
  <2>1. \A p \in Pages : p \in Nat /\ p < 2 * Half
    BY HalfType
  <2> QED
    BY <1>1, <2>1, HalfType
<1>3. CASE leaf.pages # Span(2)
  <2>1. leaf.pages \in Nat /\ leaf.pages > 0 /\ Walkable(leaf)
    BY <1>1, <1>3, EntriesType DEF Walkable
  <2>2. leaf.at + leaf.pages \in 0 .. 2 * Half
    BY <2>1, LeafFits
  <2> QED
    BY <1>1, <1>2, <2>1, <2>2
<1>4. CASE leaf.pages = Span(2)
  <2> DEFINE s == Entries * Entries
             n == 2 * s
             all == 2 * Half
  <2>1. Span(2) = s /\ s \in Int /\ s > 0
    BY SpanValues, EntriesType
  <2>2. all = s * n
    BY SpanValues, EntriesType, <2>1, Regroup
  <2>3. leaf.at \in Int /\ leaf.at >= 0 /\ leaf.at < all /\ all \in Int /\ leaf.at % s = 0 /\ n \in Int
    BY <1>1, <1>2, <1>4, <2>1
  <2> HIDE DEF s, n, all
  <2>4. leaf.at + s <= all
    BY <2>1, <2>2, <2>3, AlignedFits
  <2> QED
    BY <1>1, <1>2, <1>4, <2>1, <2>4 DEF all
<1> QED
  BY <1>3, <1>4

LEMMA LeavesApart ==
  ASSUME NEW b \in BootTables, NEW leaf \in b, NEW other \in b, NEW q \in Int,
         Covers(leaf, q), Covers(other, q)
  PROVE  leaf = other
<1>1. leaf # other => leaf.at + leaf.pages <= other.at \/ other.at + other.pages <= leaf.at
  BY AArch64Assumption
<1>2. /\ leaf.at \in Nat /\ leaf.pages \in Nat /\ other.at \in Nat /\ other.pages \in Nat
  BY LeafNumbers
<1> QED
  BY <1>1, <1>2 DEF Covers

LEMMA LeafCovers ==
  ASSUME NEW b \in BootTables, NEW leaf \in b
  PROVE  /\ Covers(leaf, leaf.at)
         /\ \A q : Covers(leaf, q) => q \in Pages /\ (leaf.at >= Half => q \in Upper)
<1>1. /\ leaf.at \in Nat /\ leaf.pages \in Nat /\ leaf.pages > 0 /\ leaf.at + leaf.pages <= 2 * Half
      /\ 2 * Half \in Nat /\ Half \in Nat
  BY LeafNumbers, HalfType
<1>2. Pages = 0 .. (2 * Half - 1)
  BY HalfType
<1> DEFINE all == 2 * Half
<1> HIDE DEF all
<1> QED
  BY <1>1, <1>2 DEF Covers, Upper

LEMMA BootTranslates ==
  ASSUME IInv, NEW leaf \in boot, NEW q \in Int, Covers(leaf, q)
  PROVE  TranslateByBoot(q) = <<leaf.frame + (q - leaf.at), leaf.flags>>
<1> DEFINE cover == {l \in boot : Covers(l, q)}
<1>1. \A l \in cover : l = leaf
  BY Now, LeavesApart
<1>2. leaf \in cover
  OBVIOUS
<1>3. (CHOOSE l \in cover : TRUE) = leaf
  BY <1>1, <1>2
<1> QED
  BY <1>2, <1>3 DEF TranslateByBoot

(***************************************************************************)
(* What stays                                                              *)
(***************************************************************************)
LEMMA FrontType ==
  ASSUME IInv
  PROVE  /\ Front \in Nat /\ at \in Nat /\ job.at \in Nat
         /\ job.left \in Nat /\ job.pages \in Nat /\ job.pages > 0 /\ job.frame \in Nat
         /\ Open => /\ range.at \in Nat /\ range.frame \in Nat /\ range.count \in Nat
                    /\ range.pages \in Nat /\ range.pages > 0
<1>1. job \in Jobs /\ at \in 0 .. 2 * Half /\ 2 * Half \in Nat
  BY Now, HalfType
<1>2. job.at \in Pages /\ job.pages \in {1, Entries} /\ job.frame \in Nat /\ job.left \in Nat
  BY <1>1 DEF Jobs
<1>3. Open => /\ range.at \in Pages /\ range.pages \in {1, Entries}
              /\ range.frame \in Nat /\ range.count \in Nat
  BY RangeType DEF Ranges
<1>4. /\ job.at \in Nat /\ at \in Nat /\ (Open => range.at \in Nat)
  BY <1>1, <1>2, <1>3, PagesType
<1> QED
  BY <1>2, <1>3, <1>4, EntriesType DEF Front

LEMMA FrontTypeNext == ASSUME IInv' PROVE Front' \in Nat
<1>1. job'.at \in Pages /\ at' \in 0 .. 2 * Half /\ range' \in {NoRange} \cup Ranges
  BY DEF IInv, TypeOK, Ranges
<1>2. Open' => range'.at \in Pages
  <2>1. range' = NoRange => ~ Open'
    BY DEF Open, NoRange
  <2> QED
    BY <1>1, <2>1 DEF Ranges
<1>3. job'.at \in Nat /\ at' \in Nat /\ (Open' => range'.at \in Nat)
  BY <1>1, <1>2, PagesType, HalfType
<1> QED
  BY <1>3 DEF Front

LEMMA GivenStays ==
  ASSUME [Next]_vars
  PROVE  /\ boot' = boot /\ memmap' = memmap
         /\ ttbr' = ttbr \/ ttbr' = "kernel"
         /\ pc' = "start" => /\ pc = "start" /\ at' = at /\ range' = range /\ pool' = pool
<1>1. CASE InitStep
  BY <1>1 DEF InitStep, InitRefuses, StartWalk, OpenRange, ExtendRange, HugeLeaf, SkipMissing,
     MapRange, DropRange, LoadTables, RangeEnds, Panic, given
<1>2. CASE MapStep
  BY <1>2 DEF MapStep, MapRefuses, AddTable, OutOfPool, BlockInTheWay, SetEntry, EntryExists,
     MapReturns, Return, Turn, Panic, given
<1>3. CASE UnmapStep
  BY <1>3 DEF UnmapStep, SkipPage, UnmapAsserts, ClearEntry, UnmapReturns, Return, Turn, Panic, given
<1>4. CASE \E r \in Areas : MapPartial(r)
  BY <1>4 DEF MapPartial, given
<1>5. CASE \E r \in Mappings : MapMemory(r)
  BY <1>5 DEF MapMemory, given
<1>6. CASE \E r \in Unmappings : UnmapRefuses(r) \/ UnmapMemory(r)
  BY <1>6 DEF UnmapRefuses, UnmapMemory, Panic, given
<1>7. CASE \E p \in Pages : Cache(p)
  BY <1>7 DEF Cache, given, tables, walk
<1>8. CASE UNCHANGED vars
  BY <1>8 DEF vars, given, tables, walk
<1> QED
  BY <1>1, <1>2, <1>3, <1>4, <1>5, <1>6, <1>7, <1>8 DEF Next

(* Once the kernel's tables are in force, nothing is claimed of the walk. *)
LEMMA KernelWalks ==
  ASSUME IInv, [Next]_vars, WInv, ttbr' = "kernel"
  PROVE  WInv'
<1>1. StartsBlank'
  BY GivenStays DEF WInv, StartsBlank, Open, Entry1, Index
<1> QED
  BY <1>1 DEF WInv, RangeOfLeaves, JobOfLeaves, Behind, Ahead, TablesHold, Folded, InitMeetsNothing,
     Loading

LEMMA SettledStays ==
  ASSUME IInv, IInv', [Next]_vars, ~ClearEntry, Behind, Loading,
         NEW leaf \in boot, leaf.at >= Half, InKeptMemory(leaf), leaf.at < Front,
         NEW p \in leaf.at .. (leaf.at + leaf.pages - 1)
  PROVE  Translate(p)' = <<leaf.frame + (p - leaf.at), leaf.flags>>
<1>1. Translate(p) = <<leaf.frame + (p - leaf.at), leaf.flags>>
  BY DEF Behind
<1>2. p \in Pages
  BY LeafCovers, Now DEF Covers
<1>3. Translate(p) # <<>>
  BY <1>1
<1> QED
  BY <1>1, <1>2, <1>3, TranslationLasts

LEMMA TranslatesAlike ==
  ASSUME IInv, IInv', [Next]_vars, ~SetEntry, ~ClearEntry, NEW q \in Pages
  PROVE  Translate(q)' = Translate(q)
<1>1. Seen(pool', q) = Seen(pool, q)
  BY OtherStepsShowNothing
<1>2. Shape(pool, used) /\ Shape(pool', used')
  BY Now DEF IInv, PoolInShape
<1>3. Translate(q) = Translation(Seen(pool, q), q)
  BY <1>2, TranslateIsSeen
<1>4. Translate(q)' = Translation(Seen(pool', q), q)
  BY <1>2, TranslateIsSeenNext
<1> QED
  BY <1>1, <1>3, <1>4

LEMMA UpperInPages == Upper \subseteq Pages
BY HalfType

LEMMA FoldedStays ==
  ASSUME IInv, IInv', [Next]_vars, ~SetEntry, ~ClearEntry, WInv
  PROVE  Folded'
<1>1. CASE ttbr' = "boot"
  <2>1. ttbr = "boot" /\ boot' = boot
    BY <1>1, GivenStays, Now
  <2>2. \A q \in Upper : Translate(q)' = Translate(q)
    BY TranslatesAlike, UpperInPages
  <2>3. \A q : TranslateByBoot(q)' = TranslateByBoot(q)
    BY <2>1 DEF TranslateByBoot, Covers
  <2> QED
    BY <2>1, <2>2, <2>3 DEF WInv, Folded
<1> QED
  BY <1>1 DEF Folded

(* What steps of init that write no entry have in common. *)
LEMMA QuietStepWalks ==
  ASSUME IInv, IInv', [Next]_vars, WInv, Loading, Loading', ~SetEntry, why' = why, pool' = pool,
         Front <= Front',
         \A leaf \in boot : InKeptMemory(leaf) /\ leaf.at < Front' => leaf.at < Front,
         pc = "map" /\ job.left > 0 => pc' = "map" /\ job' = job,
         RangeOfLeaves', JobOfLeaves'
  PROVE  WInv'
<1>1. boot' = boot /\ memmap' = memmap /\ ~ClearEntry
  BY GivenStays DEF Loading, ClearEntry, Turn
<1>2. \A q \in Pages : Translate(q)' = Translate(q)
  BY <1>1, TranslatesAlike
<1>3. Folded'
  BY <1>1, FoldedStays
<1>4. Behind'
  <2> SUFFICES ASSUME NEW leaf \in boot, leaf.at >= Half, InKeptMemory(leaf), leaf.at < Front',
                      NEW p \in leaf.at .. (leaf.at + leaf.pages - 1)
               PROVE  Translate(p)' = <<leaf.frame + (p - leaf.at), leaf.flags>>
    BY <1>1 DEF Behind, InKeptMemory
  <2> QED
    BY <1>1, SettledStays DEF WInv
<1>5. Ahead'
  <2> SUFFICES ASSUME NoLower, NEW q \in Upper, q >= Front'
               PROVE  Translate(q)' = <<>>
    BY <1>1 DEF Ahead, NoLower
  <2>1. Front \in Nat /\ Front' \in Nat /\ q \in Nat
    <3>1. Front' \in Nat
      BY FrontTypeNext
    <3> QED
      BY <3>1, FrontType, HalfType
  <2>2. q >= Front
    BY <2>1
  <2> QED
    BY <1>2, <2>2, UpperInPages DEF WInv, Ahead
<1>6. TablesHold'
  <2> SUFFICES ASSUME NEW q \in Upper, Reaches(pool, q, 4)
               PROVE  \/ \E p \in Upper : Alike(q, p, 3) /\ Translate(p)' # <<>>
                      \/ pc' = "map" /\ job'.left > 0 /\ job'.pages = 1 /\ Alike(job'.at, q, 3)
    BY DEF TablesHold, Reaches, Entry1, Entry2, Entry3, Index, Alike
  <2>1. CASE \E p \in Upper : Alike(q, p, 3) /\ Translate(p) # <<>>
    BY <1>2, <2>1, UpperInPages
  <2>2. CASE pc = "map" /\ job.left > 0 /\ job.pages = 1 /\ Alike(job.at, q, 3)
    BY <2>2
  <2> QED
    BY <2>1, <2>2 DEF WInv, TablesHold
<1>7. InitMeetsNothing' /\ StartsBlank'
  BY <1>1 DEF WInv, InitMeetsNothing, StartsBlank, Loading
<1> QED
  BY <1>3, <1>4, <1>5, <1>6, <1>7 DEF WInv

LEMMA PanicWalks ==
  ASSUME IInv, IInv', [Next]_vars, WInv, ttbr' = "boot", pc' = "panic", ~SetEntry, ~ClearEntry,
         NoLower => why' \in {"limine", "1GB", "pool"}
  PROVE  WInv'
<1>1. boot' = boot
  BY GivenStays
<1>2. Folded'
  BY FoldedStays
<1>3. InitMeetsNothing'
  BY <1>1 DEF InitMeetsNothing, NoLower
<1> QED
  BY <1>2, <1>3 DEF WInv, RangeOfLeaves, JobOfLeaves, Behind, Ahead, TablesHold, StartsBlank, Loading

(***************************************************************************)
(* The steps of the walk                                                   *)
(***************************************************************************)
LEMMA InitWalks ==
  ASSUME Init
  PROVE  WInv
<1>1. pc = "start" /\ ttbr = "boot" /\ at = 0 /\ ~Open /\ why = "none"
  BY DEF Init, Open, NoRange
<1>2. \A q \in Upper : Entry1(pool, q) = Blank
  <2> SUFFICES ASSUME NEW q \in Upper PROVE Entry1(pool, q) = Blank
    OBVIOUS
  <2>1. Index(q, 1) \in Slots /\ 1 \in PoolPages
    BY IndexType, PagesType, PoolType, UpperInPages
  <2> QED
    BY <2>1 DEF Init, BlankTable, Slots, PoolPages, Entry1
<1>3. \A q \in Upper : Translate(q) = <<>>
  <2> SUFFICES ASSUME NEW q \in Upper PROVE Translate(q) = <<>>
    OBVIOUS
  <2>1. Seen(pool, q) = Blank
    BY <1>2, BlankType DEF Found, Reaches, Seen
  <2>2. Translate(q) = Translation(Blank, q)
    BY <2>1, UpperInPages, InitKeeps, Now, TranslateIsSeen
  <2> QED
    BY <2>2, BlankType DEF Translation
<1> QED
  BY <1>1, <1>2, <1>3 DEF WInv, RangeOfLeaves, JobOfLeaves, Behind, Ahead, TablesHold, Folded,
     InitMeetsNothing, StartsBlank, Loading

LEMMA RefusesWalks ==
  ASSUME IInv, IInv', [Next]_vars, WInv, InitRefuses
  PROVE  WInv'
<1>1. pc = "start" /\ ttbr = "boot" /\ ttbr' = ttbr /\ pc' = "panic" /\ why' = "limine"
  BY DEF InitRefuses, Panic, IInv, TablesInForce
<1>2. ~SetEntry /\ ~ClearEntry
  BY <1>1 DEF SetEntry, ClearEntry, Turn
<1> QED
  BY <1>1, <1>2, PanicWalks

LEMMA HugeLeafWalks ==
  ASSUME IInv, IInv', [Next]_vars, WInv, HugeLeaf
  PROVE  WInv'
<1>1. pc = "walk" /\ ttbr = "boot" /\ ttbr' = ttbr /\ pc' = "panic" /\ why' = "1GB"
  BY DEF HugeLeaf, Panic, IInv, TablesInForce
<1>2. ~SetEntry /\ ~ClearEntry
  BY <1>1 DEF SetEntry, ClearEntry, Turn
<1> QED
  BY <1>1, <1>2, PanicWalks

LEMMA StartWalks ==
  ASSUME IInv, IInv', [Next]_vars, WInv, StartWalk
  PROVE  WInv'
<1>1. /\ pc = "start" /\ ttbr = "boot" /\ ~Open /\ at = 0 /\ pc' = "walk" /\ why' = why
      /\ ttbr' = ttbr /\ range' = range /\ at' = at /\ pool' = pool /\ ~Open' /\ boot' = boot
      /\ \A q \in Upper : Entry1(pool, q) = Blank
  BY GivenStays DEF StartWalk, walk, IInv, TablesInForce, WInv, StartsBlank, Open
<1>2. ~SetEntry /\ ~ClearEntry
  BY <1>1 DEF SetEntry, ClearEntry, Turn
<1>3. Folded'
  BY <1>2, FoldedStays
<1>4. \A q \in Upper : Translate(q)' = <<>>
  <2> SUFFICES ASSUME NEW q \in Upper PROVE Translate(q)' = <<>>
    OBVIOUS
  <2>1. Seen(pool, q) = Blank
    BY <1>1, BlankType DEF Found, Reaches, Seen
  <2>2. Translate(q) = Translation(Blank, q) /\ Translate(q)' = Translate(q)
    BY <1>2, <2>1, UpperInPages, Now, TranslateIsSeen, TranslatesAlike
  <2> QED
    BY <2>2, BlankType DEF Translation
<1>5. Behind'
  <2>1. Front' = 0
    BY <1>1 DEF Front
  <2>2. \A leaf \in boot' : ~ (leaf.at < 0)
    <3>1. boot' \in BootTables
      BY DEF IInv, TypeOK
    <3> QED
      BY <3>1, LeafNumbers
  <2> QED
    BY <2>1, <2>2 DEF Behind
<1>6. TablesHold'
  BY <1>1, BlankType DEF TablesHold, Reaches, Entry1, Index
<1> QED
  BY <1>1, <1>3, <1>4, <1>5, <1>6 DEF WInv, RangeOfLeaves, JobOfLeaves, Ahead, InitMeetsNothing,
     StartsBlank, NoLower

(* A run begins with the leaf of its first page. *)
LEMMA FirstLeaf ==
  ASSUME IInv, NEW first \in Nat, first < at, NEW frame, NEW pages, NEW flags,
         RunOfLeaves(first, frame, pages, flags), frame \in Nat
  PROVE  \E leaf \in boot :
           /\ leaf.at = first /\ leaf.pages = pages /\ leaf.flags = flags /\ leaf.frame = frame
           /\ first + pages <= at /\ first % pages = 0 /\ frame % pages = 0
<1>1. at \in Nat /\ boot \in BootTables
  BY FrontType, Now
<1>2. first \in first .. at - 1
  BY <1>1
<1>3. PICK leaf \in boot :
        /\ Covers(leaf, first) /\ first <= leaf.at /\ leaf.at + leaf.pages <= at
        /\ leaf.pages = pages /\ leaf.flags = flags /\ leaf.frame = frame + (leaf.at - first)
  BY <1>2 DEF RunOfLeaves
<1>4. /\ leaf.at \in Nat /\ leaf.pages \in Nat
      /\ leaf.at % leaf.pages = 0 /\ leaf.frame % leaf.pages = 0
  BY <1>1, LeafNumbers
<1>5. leaf.at = first
  <2>1. first \in leaf.at .. leaf.at + leaf.pages - 1 /\ first <= leaf.at
    BY <1>3 DEF Covers
  <2> QED
    BY <1>4, <2>1
<1> QED
  BY <1>3, <1>4, <1>5

LEMMA OpenWalks ==
  ASSUME IInv, IInv', [Next]_vars, WInv, OpenRange
  PROVE  WInv'
<1>1. PICK leaf \in LeafAt(at) :
        /\ pc = "walk" /\ Walkable(leaf) /\ ~Open
        /\ range' = [at |-> at, frame |-> leaf.frame, flags |-> leaf.flags,
                     pages |-> leaf.pages, count |-> 1]
        /\ at' = at + leaf.pages
        /\ UNCHANGED <<given, ttbr, tables, pc, why, call, tlb>>
  BY DEF OpenRange
<1>2. /\ boot \in BootTables /\ leaf \in boot /\ leaf.at = at /\ boot' = boot
      /\ leaf.at \in Nat /\ leaf.pages \in Nat /\ leaf.pages > 0 /\ leaf.frame \in Nat
  BY LeafNumbers, GivenStays, Now DEF LeafAt
<1>3. Open' /\ range'.at = at /\ Front' = at /\ Front = at
  BY <1>1 DEF Open, Front
<1>4. RangeOfLeaves'
  <2>1. range'.at + range'.count * range'.pages = at'
    BY <1>1, <1>2
  <2>2. RunOfLeaves(range.at, range.frame, range.pages, range.flags)'
    <3> SUFFICES ASSUME NEW q \in at .. at' - 1
                 PROVE  /\ Covers(leaf, q) /\ at <= leaf.at /\ leaf.at + leaf.pages <= at'
                        /\ leaf.frame = leaf.frame + (leaf.at - at)
      BY <1>1, <1>2 DEF RunOfLeaves, Covers
    <3> QED
      BY <1>1, <1>2 DEF Covers
  <2> QED
    BY <2>1, <2>2 DEF RangeOfLeaves
<1>5. JobOfLeaves'
  BY <1>1 DEF JobOfLeaves
<1>6. Front <= Front' /\ at \in Nat
  BY <1>2, <1>3
<1>7. Loading /\ Loading' /\ ~SetEntry /\ why' = why /\ pool' = pool
  BY <1>1 DEF Loading, IInv, TablesInForce, SetEntry, Turn, tables
<1> QED
  BY <1>1, <1>3, <1>4, <1>5, <1>6, <1>7, QuietStepWalks

LEMMA CountedOn ==
  ASSUME NEW n \in Nat, NEW m \in Nat
  PROVE  n * m \in Nat /\ (n + 1) * m = n * m + m
OBVIOUS

LEMMA ExtendWalks ==
  ASSUME IInv, IInv', [Next]_vars, WInv, ExtendRange
  PROVE  WInv'
<1>1. PICK leaf \in LeafAt(at) :
        /\ pc = "walk" /\ Walkable(leaf) /\ Open /\ Extends(leaf)
        /\ range' = [range EXCEPT !.count = @ + 1]
        /\ at' = at + leaf.pages
        /\ UNCHANGED <<given, ttbr, tables, pc, why, call, tlb>>
  BY DEF ExtendRange
<1>0. Loading /\ Loading' /\ ~SetEntry /\ why' = why /\ pool' = pool
  BY <1>1 DEF Loading, IInv, TablesInForce, SetEntry, Turn, tables
<1>2. /\ boot \in BootTables /\ leaf \in boot /\ leaf.at = at /\ boot' = boot
      /\ leaf.at \in Nat /\ leaf.pages \in Nat /\ leaf.pages > 0 /\ leaf.frame \in Nat
  BY LeafNumbers, GivenStays, Now DEF LeafAt
<1>3. range \in Ranges
  BY <1>1, RangeType
<1>4. /\ range.at \in Nat /\ range.frame \in Nat /\ range.pages \in Nat /\ range.count \in Nat
      /\ range'.at = range.at /\ range'.frame = range.frame /\ range'.flags = range.flags
      /\ range'.pages = range.pages /\ range'.count = range.count + 1
  BY <1>1, <1>3, FrontType DEF Ranges
<1>5. /\ range.at + range.count * range.pages = at
      /\ RunOfLeaves(range.at, range.frame, range.pages, range.flags)
      /\ leaf.frame = range.frame + range.count * range.pages
      /\ leaf.pages = range.pages /\ leaf.flags = range.flags
  BY <1>0, <1>1 DEF WInv, RangeOfLeaves, Extends
<1>6. /\ range.count * range.pages \in Nat
      /\ (range.count + 1) * range.pages = range.count * range.pages + range.pages
  BY <1>4, CountedOn
<1>7. Open' /\ Front' = range.at /\ Front = range.at
  BY <1>1, <1>4 DEF Open, Front
<1>8. RangeOfLeaves'
  <2>1. range'.at + range'.count * range'.pages = at'
    BY <1>1, <1>2, <1>4, <1>5, <1>6
  <2>2. RunOfLeaves(range.at, range.frame, range.pages, range.flags)'
    <3> SUFFICES ASSUME NEW q \in range.at .. at' - 1
                 PROVE  \E l \in boot :
                          /\ Covers(l, q) /\ range.at <= l.at /\ l.at + l.pages <= at'
                          /\ l.pages = range.pages /\ l.flags = range.flags
                          /\ l.frame = range.frame + (l.at - range.at)
      BY <1>2, <1>4 DEF RunOfLeaves, Covers
    <3>1. CASE q < at
      <4>1. q \in range.at .. at - 1
        BY <1>2, <1>4, <3>1
      <4>2. PICK l \in boot :
              /\ Covers(l, q) /\ range.at <= l.at /\ l.at + l.pages <= at
              /\ l.pages = range.pages /\ l.flags = range.flags
              /\ l.frame = range.frame + (l.at - range.at)
        BY <1>5, <4>1 DEF RunOfLeaves
      <4>3. l.at \in Nat /\ l.pages \in Nat
        BY <1>2, LeafNumbers
      <4>4. l.at + l.pages <= at'
        BY <1>1, <1>2, <4>2, <4>3
      <4> QED
        BY <4>2, <4>4
    <3>2. CASE q >= at
      <4>1. Covers(leaf, q)
        BY <1>1, <1>2, <1>4, <3>2 DEF Covers
      <4>2. /\ range.at <= leaf.at /\ leaf.at + leaf.pages <= at'
            /\ leaf.frame = range.frame + (leaf.at - range.at)
        BY <1>1, <1>2, <1>4, <1>5, <1>6
      <4> QED
        BY <1>2, <1>5, <4>1, <4>2
    <3> QED
      BY <1>2, <1>4, <3>1, <3>2
  <2> QED
    BY <2>1, <2>2 DEF RangeOfLeaves
<1>9. JobOfLeaves'
  BY <1>1 DEF JobOfLeaves
<1>10. Front <= Front'
  BY <1>4, <1>7
<1> QED
  BY <1>0, <1>1, <1>7, <1>8, <1>9, <1>10, QuietStepWalks

LEMMA SkipWalks ==
  ASSUME IInv, IInv', [Next]_vars, WInv, SkipMissing
  PROVE  WInv'
<1>1. /\ pc = "walk" /\ at \in Pages /\ LeafAt(at) = {} /\ ~Open
      /\ at' = Min({leaf.at : leaf \in {l \in boot : l.at > at}} \cup {2 * Half})
      /\ pc' = pc /\ ttbr' = ttbr /\ why' = why /\ range' = range
  BY DEF SkipMissing
<1>0. Loading /\ Loading' /\ ~SetEntry /\ pool' = pool
  BY <1>1 DEF Loading, IInv, TablesInForce, SetEntry, Turn, SkipMissing, tables
<1>2. boot \in BootTables /\ at \in Nat /\ at < 2 * Half /\ 2 * Half \in Nat
  BY <1>1, PagesType, HalfType, Now
<1>3. at' \in Nat /\ at <= at' /\ \A leaf \in boot : leaf.at > at => at' <= leaf.at
  <2> DEFINE S == {leaf.at : leaf \in {l \in boot : l.at > at}} \cup {2 * Half}
  <2>1. S \in SUBSET Nat /\ S # {} /\ \A k \in S : at <= k
    <3>1. \A leaf \in boot : leaf.at \in Nat
      BY <1>2, LeafNumbers
    <3> QED
      BY <1>2, <3>1
  <2>2. \A leaf \in boot : leaf.at > at => leaf.at \in S
    OBVIOUS
  <2>3. at' = Min(S)
    BY <1>1
  <2> HIDE DEF S
  <2>4. at' \in S /\ \A k \in S : at' <= k
    BY <2>1, <2>3, LeastIsMin
  <2> QED
    BY <2>1, <2>2, <2>4
<1>4. ~Open' /\ Front = at /\ Front' = at'
  BY <1>1 DEF Open, Front
<1>5. ASSUME NEW leaf \in boot, leaf.at < Front' PROVE leaf.at < Front
  <2>1. leaf.at \in Nat
    BY <1>2, LeafNumbers
  <2>2. leaf.at # at
    BY <1>1 DEF LeafAt
  <2> QED
    BY <1>2, <1>3, <1>4, <1>5, <2>1, <2>2
<1>6. RangeOfLeaves' /\ JobOfLeaves'
  BY <1>1, <1>4 DEF RangeOfLeaves, JobOfLeaves
<1> QED
  BY <1>0, <1>1, <1>3, <1>4, <1>5, <1>6, QuietStepWalks

LEMMA MapRangeWalks ==
  ASSUME IInv, IInv', [Next]_vars, WInv, MapRange
  PROVE  WInv'
<1>1. /\ pc = "walk" /\ Open /\ pc' = "map" /\ range' = NoRange
      /\ ttbr' = ttbr /\ why' = why /\ at' = at /\ at \in Pages /\ pool' = pool
      /\ job' = [at |-> range.at, frame |-> range.frame, flags |-> range.flags,
                 pages |-> range.pages, left |-> range.count]
  BY DEF MapRange, RangeEnds, tables
<1>2. ~Open' /\ boot' = boot
  BY <1>1, GivenStays DEF Open, NoRange
<1>3. Loading /\ Loading' /\ ~SetEntry
  BY <1>1 DEF Loading, IInv, TablesInForce, SetEntry, Turn
<1>4. job'.left > 0 /\ Front = range.at /\ Front' = range.at
  BY <1>1, <1>3 DEF Front, Open
<1>5. RangeOfLeaves'
  BY <1>2 DEF RangeOfLeaves
<1>6. JobOfLeaves'
  <2>1. /\ range.at + range.count * range.pages = at
        /\ RunOfLeaves(range.at, range.frame, range.pages, range.flags)
    BY <1>1, <1>3 DEF WInv, RangeOfLeaves
  <2>2. /\ range.at \in Nat /\ range.frame \in Nat /\ range.count \in Nat /\ range.count > 0
        /\ range.pages \in Nat /\ range.pages > 0 /\ at \in Nat
    BY <1>1, FrontType DEF Open
  <2>3. range.at < at
    <3>1. range.pages * 1 <= range.pages * range.count
      BY <2>2, TimesMonotonic
    <3>2. range.pages * 1 = range.pages /\ range.pages * range.count = range.count * range.pages
      BY <2>2
    <3> DEFINE n == range.count * range.pages
    <3>3. n \in Nat /\ n > 0 /\ range.at + n = at
      BY <2>1, <2>2, <3>1, <3>2, CountedOn
    <3> HIDE DEF n
    <3> QED
      BY <2>2, <3>3
  <2>4. range.at % range.pages = 0 /\ range.frame % range.pages = 0
    BY <2>1, <2>2, <2>3, FirstLeaf
  <2>5. ~Misaligned'
    BY <1>1, <2>4 DEF Misaligned
  <2> QED
    BY <1>1, <1>2, <2>1, <2>5 DEF JobOfLeaves, RunOfLeaves, Covers
<1>7. Front <= Front'
  BY <1>4, FrontType
<1> QED
  BY <1>1, <1>3, <1>4, <1>5, <1>6, <1>7, QuietStepWalks

LEMMA LeafOfRun ==
  ASSUME IInv, NEW first, NEW frame, NEW pages, NEW flags, RunOfLeaves(first, frame, pages, flags),
         first \in Nat, NEW leaf \in boot, first <= leaf.at, leaf.at < at
  PROVE  /\ leaf.at + leaf.pages <= at /\ leaf.pages = pages /\ leaf.flags = flags
         /\ leaf.frame = frame + (leaf.at - first)
<1>1. boot \in BootTables /\ leaf.at \in Nat /\ at \in Nat
  BY Now, FrontType, LeafNumbers
<1>2. leaf.at \in first .. at - 1
  BY <1>1
<1>3. PICK l \in boot :
        /\ Covers(l, leaf.at) /\ first <= l.at /\ l.at + l.pages <= at
        /\ l.pages = pages /\ l.flags = flags /\ l.frame = frame + (l.at - first)
  BY <1>2 DEF RunOfLeaves
<1>4. l = leaf
  BY <1>1, <1>3, LeavesApart, LeafCovers
<1> QED
  BY <1>3, <1>4

LEMMA DropRangeWalks ==
  ASSUME IInv, IInv', [Next]_vars, WInv, DropRange
  PROVE  WInv'
<1>1. /\ pc = "walk" /\ Open /\ ~IsKept /\ pc' = pc /\ range' = NoRange
      /\ ttbr' = ttbr /\ why' = why /\ at' = at /\ pool' = pool
  BY DEF DropRange, RangeEnds, tables
<1>0. Loading /\ Loading' /\ ~SetEntry
  BY <1>1 DEF Loading, IInv, TablesInForce, SetEntry, Turn
<1>2. ~Open' /\ Front = range.at /\ Front' = at
  BY <1>1 DEF Open, NoRange, Front
<1>3. /\ range.at + range.count * range.pages = at
      /\ RunOfLeaves(range.at, range.frame, range.pages, range.flags)
  BY <1>0, <1>1 DEF WInv, RangeOfLeaves
<1>4. /\ range.at \in Nat /\ range.frame \in Nat /\ range.count * range.pages \in Nat
      /\ boot \in BootTables /\ memmap \in MemoryMaps /\ at \in Nat
  BY <1>1, FrontType, CountedOn, Now
<1>5. ASSUME NEW leaf \in boot, InKeptMemory(leaf), leaf.at < Front' PROVE leaf.at < Front
  <2> SUFFICES ASSUME range.at <= leaf.at PROVE FALSE
    BY <1>2, <1>4, LeafNumbers
  <2>1. leaf.at \in Nat /\ leaf.pages \in Nat /\ leaf.pages > 0 /\ leaf.frame \in Nat
    BY <1>4, LeafNumbers
  <2>2. leaf.at + leaf.pages <= at /\ leaf.frame = range.frame + (leaf.at - range.at)
    BY <1>2, <1>3, <1>4, <1>5, LeafOfRun
  <2>3. PICK e \in memmap : e.kept /\ (e.base .. (e.base + e.length - 1))
                              \cap (leaf.frame .. (leaf.frame + leaf.pages - 1)) # {}
    BY <1>5 DEF InKeptMemory
  <2>4. e.base \in Nat /\ e.length \in Nat
    BY <1>4, AArch64Assumption
  <2>5. PICK x \in e.base .. (e.base + e.length - 1) : x \in leaf.frame .. (leaf.frame + leaf.pages - 1)
    BY <2>3
  <2>6. RangesOverlap(e)
    <3> DEFINE n == range.count * range.pages
    <3>1. n \in Nat /\ range.at + n = at
      BY <1>3, <1>4
    <3> HIDE DEF n
    <3>2. range.frame <= e.base + e.length /\ range.frame + n - 1 >= e.base
      BY <1>4, <2>1, <2>2, <2>4, <2>5, <3>1
    <3> QED
      BY <3>2 DEF RangesOverlap, n
  <2> QED
    BY <1>1, <2>3, <2>6 DEF IsKept
<1>6. RangeOfLeaves' /\ JobOfLeaves'
  BY <1>1, <1>2 DEF RangeOfLeaves, JobOfLeaves
<1>7. Front <= Front'
  BY <1>2, <1>3, <1>4
<1> QED
  BY <1>0, <1>1, <1>5, <1>6, <1>7, QuietStepWalks

(***************************************************************************)
(* The steps of mapMemory during init                                      *)
(***************************************************************************)

(* Without a lower half, the pages of the job and all behind it are blank. *)
LEMMA MapsToNothing ==
  ASSUME IInv, WInv, ttbr = "boot", Turn("map"), NoLower,
         NEW l, l = LevelReached(Path(job.at), job.at)
  PROVE  /\ EntryAt(pool, job.at, l).kind # "block"
         /\ l = LeafLevel => EntryAt(pool, job.at, l) = Blank
<1>1. /\ pc = "map" /\ job.left > 0 /\ Looping /\ Loading /\ Front = job.at
  BY DEF Turn, Looping, Loading, Front
<1>2. /\ Shape(pool, used) /\ job.at \in Pages /\ l \in 1 .. 4 /\ Reaches(pool, job.at, l)
  BY <1>1, Now, LevelOfTurn
<1>3. job.at \in Upper /\ job.at \in Nat /\ ~Misaligned
  <2>1. /\ job.at \in Nat /\ job.frame \in Nat /\ at \in Nat /\ boot \in BootTables
        /\ job.left \in Nat /\ job.pages \in Nat /\ job.pages > 0
    BY FrontType, Now
  <2>2. /\ job.at + job.left * job.pages = at /\ ~Misaligned
        /\ RunOfLeaves(job.at, job.frame, job.pages, job.flags)
    BY <1>1 DEF WInv, JobOfLeaves
  <2>3. job.at < at
    <3>1. job.pages * 1 <= job.pages * job.left
      BY <1>1, <2>1, TimesMonotonic
    <3>2. job.pages * 1 = job.pages /\ job.pages * job.left = job.left * job.pages
      BY <2>1
    <3> DEFINE n == job.left * job.pages
    <3>3. n \in Nat /\ n > 0 /\ job.at + n = at
      BY <2>1, <2>2, <3>1, <3>2, CountedOn
    <3> HIDE DEF n
    <3> QED
      BY <2>1, <3>3
  <2>4. PICK leaf \in boot : leaf.at = job.at
    BY <2>1, <2>2, <2>3, FirstLeaf
  <2>5. job.at >= Half
    BY <2>4 DEF NoLower
  <2> QED
    BY <1>2, <2>1, <2>2, <2>5, HalfType DEF Upper
<1>4. \A q \in Upper : q >= job.at => Seen(pool, q).kind = "none"
  <2> SUFFICES ASSUME NEW q \in Upper, q >= job.at PROVE Seen(pool, q).kind = "none"
    OBVIOUS
  <2>1. Translate(q) = <<>>
    BY <1>1 DEF WInv, Ahead
  <2>2. Translate(q) = Translation(Seen(pool, q), q)
    BY <1>2, UpperInPages, TranslateIsSeen
  <2> QED
    BY <2>1, <2>2 DEF Translation
<1>5. Found(pool, job.at).kind = "none"
  BY <1>3, <1>4 DEF Seen
<1>6. EntryAt(pool, job.at, l).kind = "none" => EntryAt(pool, job.at, l) = Blank
  <2>1. NodeAt(pool, job.at, l) \in PoolPages /\ Index(job.at, l) \in Slots
    BY <1>2, NodeType
  <2>2. EntryAt(pool, job.at, l) = pool[NodeAt(pool, job.at, l)][Index(job.at, l)]
    BY <1>2, EntryOfNode
  <2> QED
    BY <1>2, <2>1, <2>2 DEF Shape, NoneIsBlank
<1>7. EntryAt(pool, job.at, l).kind \in KindsOf(l)
  BY <1>2 DEF Shape, KindsByLevel
<1>8. EntryAt(pool, job.at, l).kind # "block"
  <2>1. l # 3 => EntryAt(pool, job.at, l).kind # "block"
    BY <1>7 DEF KindsOf
  <2>2. ASSUME l = 3, EntryAt(pool, job.at, l).kind = "block" PROVE FALSE
    BY <1>2, <1>5, <2>2, FoundByLevel
  <2> QED
    BY <2>1, <2>2
<1>9. ASSUME l = LeafLevel PROVE EntryAt(pool, job.at, l).kind = "none"
  <2>1. CASE l = 4
    BY <1>2, <1>5, <2>1, FoundByLevel
  <2>2. ASSUME l = 3, EntryAt(pool, job.at, l).kind = "table" PROVE FALSE
    <3>1. Reaches(pool, job.at, 4)
      <4>1. 3 \in 1 .. 3 /\ 3 + 1 = 4
        OBVIOUS
      <4> QED
        BY <1>2, <2>2, <4>1, DescentGoesOn
    <3>2. job.pages = Entries /\ job.pages # 1
      BY <1>9, <2>2, LeafLevels, EntriesType
    <3>3. PICK p \in Upper : Alike(job.at, p, 3) /\ Translate(p) # <<>>
      BY <1>1, <1>3, <3>1, <3>2 DEF WInv, TablesHold
    <3>4. p \in job.at .. job.at + Entries - 1
      <4>1. job.at % Entries = 0
        BY <1>3, <3>2 DEF Misaligned
      <4> QED
        BY <1>3, <3>3, <4>1, BlockOfPages DEF Alike
    <3>5. Translate(p) = <<>>
      BY <1>1, <1>3, <3>4, EntriesType DEF WInv, Ahead
    <3> QED
      BY <3>3, <3>5
  <2>3. CASE l = 3
    BY <1>7, <1>8, <2>2, <2>3 DEF KindsOf
  <2> QED
    BY <1>9, <2>1, <2>3, LeafLevels
<1> QED
  BY <1>6, <1>8, <1>9

LEMMA AddTableWalks ==
  ASSUME IInv, IInv', [Next]_vars, WInv, ttbr = "boot", AddTable
  PROVE  WInv'
<1> DEFINE l == LevelReached(Path(job.at), job.at)
<1>1. /\ pc = "map" /\ job.left > 0 /\ Looping /\ pc' = pc /\ ttbr' = ttbr /\ job' = job
      /\ at' = at /\ range' = range /\ why' = why /\ l < LeafLevel
  BY DEF AddTable, Turn, Looping, walk, call
<1>2. ~SetEntry /\ ~ClearEntry /\ boot' = boot /\ memmap' = memmap /\ Loading /\ Loading'
  <2>1. used' = used + 1 /\ used \in PoolPages
    BY TableAdded, Now
  <2>2. ~SetEntry
    BY <2>1, PoolType DEF SetEntry, PoolPages
  <2> QED
    BY <1>1, <2>2, GivenStays DEF ClearEntry, Turn, Loading
<1>3. \A q \in Pages : Translate(q)' = Translate(q)
  BY <1>2, TranslatesAlike
<1>4. Front' = Front
  BY <1>1 DEF Front, Open
<1>5. Folded'
  BY <1>2, FoldedStays
<1>6. Behind'
  <2> SUFFICES ASSUME NEW leaf \in boot, leaf.at >= Half, InKeptMemory(leaf), leaf.at < Front,
                      NEW p \in leaf.at .. (leaf.at + leaf.pages - 1)
               PROVE  Translate(p)' = <<leaf.frame + (p - leaf.at), leaf.flags>>
    BY <1>2, <1>4 DEF Behind, InKeptMemory
  <2> QED
    BY <1>2, SettledStays DEF WInv
<1>7. Ahead'
  BY <1>2, <1>3, <1>4, UpperInPages DEF WInv, Ahead, NoLower
<1>8. TablesHold'
  <2> SUFFICES ASSUME NEW q \in Upper, Reaches(pool', q, 4)
               PROVE  \/ \E p \in Upper : Alike(q, p, 3) /\ Translate(p)' # <<>>
                      \/ pc = "map" /\ job.left > 0 /\ job.pages = 1 /\ Alike(job.at, q, 3)
    BY <1>1 DEF TablesHold, Reaches, Entry1, Entry2, Entry3, Index, Alike
  <2>1. /\ Linkable(pool, used, job.at, l) /\ pool' = Write(pool, job.at, l, Link(used))
        /\ Link(used).to = used
    BY TableAdded, Now, LinkType
  <2>2. Write(pool, job.at, l, Link(used))[Link(used).to] = BlankTable
    BY <2>1, LinkedTableBlank
  <2>3. PathOld(pool, pool', job.at, l, Link(used), q, 4)
    BY <2>1, <2>2, PathsOld, UpperInPages DEF Linkable
  <2>4. CASE Reaches(pool, q, 4)
    <3>1. CASE \E p \in Upper : Alike(q, p, 3) /\ Translate(p) # <<>>
      BY <1>3, <3>1, UpperInPages
    <3> QED
      BY <1>2, <2>4, <3>1 DEF WInv, TablesHold
  <2>5. CASE 4 = l + 1 /\ Alike(job.at, q, l)
    <3>1. l \in 1 .. 4
      BY <1>1, LevelOfTurn
    <3>2. l = 3 /\ LeafLevel = 4
      BY <1>1, <2>5, <3>1, LeafLevels
    <3> QED
      BY <1>1, <2>5, <3>2, LeafLevels
  <2> QED
    BY <2>3, <2>4, <2>5 DEF PathOld
<1>9. RangeOfLeaves' /\ JobOfLeaves'
  BY <1>1, <1>2 DEF WInv, RangeOfLeaves, JobOfLeaves, RunOfLeaves, Open, Covers, Loading, Misaligned
<1>10. InitMeetsNothing' /\ StartsBlank'
  BY <1>1, <1>2 DEF WInv, InitMeetsNothing, StartsBlank
<1> QED
  BY <1>5, <1>6, <1>7, <1>8, <1>9, <1>10 DEF WInv

LEMMA ReturnWalks ==
  ASSUME IInv, IInv', [Next]_vars, WInv, ttbr = "boot", MapReturns
  PROVE  WInv'
<1>1. /\ at' = at /\ range' = range /\ pc = "map" /\ pc' = "walk" /\ job.left = 0
      /\ ttbr' = ttbr /\ why' = why /\ boot' = boot /\ pool' = pool
  BY GivenStays DEF MapReturns, Returned, Return, walk, tables
<1>2. ~Open /\ ~Open' /\ Front' = at /\ Front = at /\ at \in Nat
  <2>1. ~Open
    BY <1>1 DEF WInv, JobOfLeaves
  <2> QED
    BY <1>1, <2>1, FrontType DEF Front, Open
<1>3. ~SetEntry /\ Loading /\ Loading'
  BY <1>1 DEF SetEntry, Turn, Loading
<1>4. RangeOfLeaves' /\ JobOfLeaves'
  BY <1>1, <1>2 DEF RangeOfLeaves, JobOfLeaves
<1> QED
  BY <1>1, <1>2, <1>3, <1>4, QuietStepWalks

(***************************************************************************)
(* The entry that is set stands for the leaf at the job's page             *)
(***************************************************************************)
LEMMA LeafOfJob ==
  ASSUME IInv, WInv, ttbr = "boot", Turn("map")
  PROVE  /\ ~Open /\ at \in Nat /\ at < 2 * Half /\ job.at \in Nat /\ job.frame \in Nat
         /\ job.pages \in Nat /\ job.pages > 0 /\ job.left \in Nat /\ ~Misaligned
         /\ job.at + job.left * job.pages = at
         /\ RunOfLeaves(job.at, job.frame, job.pages, job.flags)
         /\ \E leaf \in boot :
              /\ leaf.at = job.at /\ leaf.pages = job.pages /\ leaf.frame = job.frame
              /\ leaf.flags = job.flags /\ job.at + job.pages <= at
<1>1. /\ ~Open /\ job.at + job.left * job.pages = at /\ at \in Pages /\ ~Misaligned
      /\ RunOfLeaves(job.at, job.frame, job.pages, job.flags) /\ job.left > 0
  BY DEF WInv, JobOfLeaves, Turn
<1>2. /\ at \in Nat /\ at < 2 * Half /\ job.at \in Nat /\ job.frame \in Nat
      /\ job.pages \in Nat /\ job.pages > 0 /\ job.left \in Nat
  BY <1>1, FrontType, PagesType
<1>3. job.at < at
  <2>1. job.pages * 1 <= job.pages * job.left
    BY <1>1, <1>2, TimesMonotonic
  <2>2. job.pages * 1 = job.pages /\ job.pages * job.left = job.left * job.pages
    BY <1>2
  <2> DEFINE n == job.left * job.pages
  <2>3. n \in Nat /\ n > 0 /\ job.at + n = at
    BY <1>1, <1>2, <2>1, <2>2, CountedOn
  <2> HIDE DEF n
  <2> QED
    BY <1>2, <2>3
<1>4. \E leaf \in boot :
        /\ leaf.at = job.at /\ leaf.pages = job.pages /\ leaf.frame = job.frame
        /\ leaf.flags = job.flags /\ job.at + job.pages <= at
  BY <1>1, <1>2, <1>3, FirstLeaf
<1> QED
  BY <1>1, <1>2, <1>4

LEMMA AlignedOn ==
  ASSUME NEW e \in Nat, e > 0, NEW n \in Nat, n % e = 0
  PROVE  (n + e) % e = 0
<1> DEFINE k == n \div e
           next == k + 1
           m == n + e
<1>1. k \in Int /\ n = e * k + 0
  BY DivMod
<1>2. next \in Int /\ m \in Int /\ e \in Int /\ 0 \in 0 .. e - 1
  BY <1>1
<1>3. e * next = e * k + e /\ e * k \in Int
  BY <1>1
<1>4. m = n + e
  OBVIOUS
<1> HIDE DEF k, next, m
<1>5. m = e * next + 0
  <2> DEFINE a == e * k
             b == e * next
  <2>1. n = a + 0 /\ b = a + e /\ a \in Int /\ m = n + e
    BY <1>1, <1>3, <1>4
  <2> HIDE DEF a, b
  <2>2. m = b + 0
    BY <2>1
  <2> QED
    BY <2>2 DEF b
<1>6. m % e = 0
  BY <1>2, <1>5, DivModUnique
<1> QED
  BY <1>6 DEF m

(* A turn of a job goes on with the next leaf, if there is one left. *)
LEMMA JobGoesOn ==
  ASSUME IInv, WInv, ttbr = "boot", Turn("map"), Advance
  PROVE  /\ job'.left = job.left - 1 /\ job'.pages = job.pages /\ job'.flags = job.flags
         /\ job'.frame = job.frame + job.pages /\ job'.at = job.at + job.pages
         /\ job'.at + job'.left * job'.pages = at /\ (job.left = 1 => job'.at = at)
         /\ ~Misaligned'
<1>1. /\ at \in Nat /\ at < 2 * Half /\ job.at \in Nat /\ job.frame \in Nat /\ 2 * Half \in Nat
      /\ job.pages \in Nat /\ job.pages > 0 /\ job.left \in Nat /\ job.left > 0 /\ ~Misaligned
      /\ job.at + job.left * job.pages = at /\ job.at + job.pages <= at
  BY LeafOfJob, HalfType DEF Turn
<1>2. Looping
  BY DEF Turn, Looping
<1>3. /\ job'.left = job.left - 1 /\ job'.frame = job.frame + job.pages /\ job'.pages = job.pages
      /\ job'.flags = job.flags /\ job'.at = (job.at + job.pages) % (2 * Half)
  BY <1>1, <1>2, Advances
<1>4. job'.at = job.at + job.pages
  <2> DEFINE n == job.at + job.pages
  <2>1. n \in Nat /\ n < 2 * Half
    BY <1>1
  <2> HIDE DEF n
  <2>2. n % (2 * Half) = n
    BY <2>1, InsideStays
  <2> QED
    BY <1>3, <2>2 DEF n
<1>5. job.at + job.pages + (job.left - 1) * job.pages = at /\ (job.left = 1 => job.at + job.pages = at)
  <2> DEFINE k == job.left - 1
             m == k * job.pages
             n == job.left * job.pages
  <2>1. k \in Nat /\ m \in Nat /\ m = n - job.pages /\ n \in Int
    BY <1>1, Product, CountedOn
  <2>2. job.left = 1 => m = 0
    BY <1>1, Product
  <2>3. job.at + n = at
    BY <1>1
  <2> HIDE DEF m, n
  <2>4. job.at + job.pages + m = at /\ (m = 0 => job.at + job.pages = at)
    BY <1>1, <2>1, <2>3
  <2> QED
    BY <2>2, <2>4 DEF m
<1>6. ~Misaligned'
  <2>1. \A n \in Nat : n % job.pages = 0 => (n + job.pages) % job.pages = 0
    BY <1>1, AlignedOn
  <2>2. job.frame % job.pages = 0 /\ job.at % job.pages = 0
    BY <1>1 DEF Misaligned
  <2>3. (job.frame + job.pages) % job.pages = 0 /\ (job.at + job.pages) % job.pages = 0
    BY <1>1, <2>1, <2>2
  <2> QED
    BY <1>3, <1>4, <2>3 DEF Misaligned
<1> QED
  BY <1>3, <1>4, <1>5, <1>6

LEMMA SetWalks ==
  ASSUME IInv, IInv', [Next]_vars, WInv, ttbr = "boot", SetEntry
  PROVE  WInv'
<1>1. /\ Turn("map") /\ pc = "map" /\ job.left > 0 /\ pc' = pc /\ ttbr' = ttbr /\ why' = why
      /\ at' = at /\ range' = range /\ boot' = boot /\ boot \in BootTables /\ memmap' = memmap
      /\ Advance /\ ~ClearEntry /\ Looping /\ Loading /\ Loading'
  BY GivenStays, Now DEF SetEntry, Turn, walk, ClearEntry, Looping, Loading
<1>2. /\ ~Open /\ at \in Nat /\ at < 2 * Half /\ job.at \in Nat /\ job.frame \in Nat
      /\ job.pages \in Nat /\ job.pages > 0 /\ job.left \in Nat /\ ~Misaligned
      /\ job.at + job.left * job.pages = at
      /\ RunOfLeaves(job.at, job.frame, job.pages, job.flags)
  BY <1>1, LeafOfJob
<1>3. PICK leaf \in boot :
        /\ leaf.at = job.at /\ leaf.pages = job.pages /\ leaf.frame = job.frame
        /\ leaf.flags = job.flags /\ job.at + job.pages <= at
  BY <1>1, LeafOfJob
<1>4. /\ job'.left = job.left - 1 /\ job'.pages = job.pages /\ job'.flags = job.flags
      /\ job'.frame = job.frame + job.pages /\ job'.at = job.at + job.pages
      /\ job'.at + job'.left * job'.pages = at /\ (job.left = 1 => job'.at = at)
      /\ ~Misaligned'
  BY <1>1, JobGoesOn
<1>5. /\ job.at \in Pages /\ First \in Upper /\ First \in RunOfJob /\ RunOfJob \subseteq Upper
      /\ \A q \in Upper : q \in RunOfJob <=> Alike(job.at, q, LeafLevel)
      /\ (job.at >= Half => First = job.at) /\ (job.at < Half => First = job.at + Half)
  <2>1. job.at \in Pages /\ job.at % job.pages = 0
    BY <1>2, Now DEF Jobs, Misaligned
  <2>2. job.at >= Half => job.at \in Upper
    BY <1>2, <2>1, HalfType DEF Upper
  <2>3. job.at < Half => job.at \in Lower
    BY <1>2, <2>1, HalfType DEF Lower
  <2> QED
    BY <2>1, <2>2, <2>3, RunIsAlike, FoldIsAlike DEF First
<1>6. \A q \in RunOfJob : Translate(q)' = <<job.frame + (q - First), job.flags>>
  BY SetShows
<1>7. \A q \in Pages : q \notin RunOfJob => Translate(q)' = Translate(q)
  <2> SUFFICES ASSUME NEW q \in Pages, q \notin RunOfJob PROVE Translate(q)' = Translate(q)
    OBVIOUS
  <2>1. Seen(pool', q) = Seen(pool, q)
    BY <1>1, <1>2, EntryIsSet, LeafWrittenShows DEF Misaligned
  <2>2. Translate(q) = Translation(Seen(pool, q), q)
    BY Now, TranslateIsSeen
  <2>3. Translate(q)' = Translation(Seen(pool', q), q)
    BY TranslateIsSeenNext DEF IInv, PoolInShape
  <2> QED
    BY <2>1, <2>2, <2>3
<1>8. Front = job.at /\ Front' = job.at + job.pages
  BY <1>1, <1>2, <1>4 DEF Front, Open
<1>9. Folded'
  <2> SUFFICES ASSUME NEW q \in Upper
               PROVE  Translate(q)' \in {<<>>, TranslateByBoot(q), TranslateByBoot(q - Half)}
    <3>1. \A q : TranslateByBoot(q)' = TranslateByBoot(q)
      BY <1>1 DEF TranslateByBoot, Covers
    <3> QED
      BY <1>1, <3>1 DEF Folded
  <2>1. CASE q \notin RunOfJob
    <3>1. Translate(q)' = Translate(q)
      BY <1>7, <2>1, UpperInPages
    <3> QED
      BY <1>1, <3>1 DEF WInv, Folded
  <2>2. CASE q \in RunOfJob
    <3> DEFINE p == job.at + (q - First)
    <3>1. q \in Nat /\ First \in Nat /\ Half \in Nat
      BY <1>5, HalfType
    <3>2. p \in Int /\ Covers(leaf, p) /\ p - leaf.at = q - First
      BY <1>2, <1>3, <2>2, <3>1 DEF Covers, RunOfJob
    <3>3. TranslateByBoot(p) = <<leaf.frame + (p - leaf.at), leaf.flags>>
      BY <3>2, BootTranslates
    <3>4. Translate(q)' = TranslateByBoot(p)
      BY <1>3, <1>6, <2>2, <3>2, <3>3
    <3>5. p = q \/ p = q - Half
      BY <1>2, <1>5, <3>1
    <3> QED
      BY <3>4, <3>5
  <2> QED
    BY <2>1, <2>2
<1>10. Behind'
  <2> SUFFICES ASSUME NEW l \in boot, l.at >= Half, InKeptMemory(l), l.at < job.at + job.pages,
                      NEW p \in l.at .. (l.at + l.pages - 1)
               PROVE  Translate(p)' = <<l.frame + (p - l.at), l.flags>>
    BY <1>1, <1>8 DEF Behind, InKeptMemory
  <2>1. l.at \in Nat
    BY <1>1, LeafNumbers
  <2>2. CASE l.at < job.at
    BY <1>1, <1>8, <2>2, SettledStays DEF WInv
  <2>3. CASE l.at >= job.at
    <3>1. Covers(leaf, l.at) /\ Covers(l, l.at)
      BY <1>1, <1>2, <1>3, <2>1, <2>3, LeafCovers DEF Covers
    <3>2. l = leaf
      BY <1>1, <2>1, <3>1, LeavesApart
    <3>3. First = job.at /\ p \in RunOfJob
      BY <1>3, <1>5, <3>2 DEF RunOfJob
    <3> QED
      BY <1>3, <1>6, <3>2, <3>3
  <2> QED
    BY <1>2, <2>1, <2>2, <2>3
<1>11. Ahead'
  <2> SUFFICES ASSUME NoLower, NEW q \in Upper, q >= job.at + job.pages
               PROVE  Translate(q)' = <<>>
    BY <1>1, <1>8 DEF Ahead, NoLower
  <2>1. First = job.at
    BY <1>3, <1>5 DEF NoLower
  <2>2. q \in Nat /\ q \notin RunOfJob /\ q >= job.at
    BY <1>2, <2>1, HalfType DEF RunOfJob
  <2>3. Translate(q)' = Translate(q)
    BY <1>7, <2>2, UpperInPages
  <2> QED
    BY <1>1, <1>8, <2>2, <2>3 DEF WInv, Ahead
<1>12. TablesHold'
  <2> SUFFICES ASSUME NEW q \in Upper, Reaches(pool', q, 4)
               PROVE  \E p \in Upper : Alike(q, p, 3) /\ Translate(p)' # <<>>
    BY DEF TablesHold, Reaches, Entry1, Entry2, Entry3, Index, Alike
  <2>1. Reaches(pool, q, 4)
    <3>1. LeafWritten(NewEntry) /\ NewEntry.kind # "table"
      BY EntryIsSet DEF LeafWritten, Settable
    <3>2. PathOld(pool, pool', job.at, LeafLevel, NewEntry, q, 4)
      BY <3>1, PathsOld, UpperInPages DEF LeafWritten, Settable
    <3> QED
      BY <3>1, <3>2 DEF PathOld
  <2>2. CASE \E p \in Upper : Alike(q, p, 3) /\ Translate(p) # <<>>
    BY <1>1, <2>2, TranslationLasts, UpperInPages
  <2>3. CASE job.pages = 1 /\ Alike(job.at, q, 3)
    <3>1. Alike(job.at, First, LeafLevel) /\ LeafLevel = 4
      BY <1>5, <2>3, LeafLevels
    <3>2. Alike(q, First, 3)
      BY <2>3, <3>1 DEF Alike
    <3>3. \A p \in RunOfJob : Translate(p)' # <<>>
      BY <1>6
    <3> QED
      BY <1>5, <3>2, <3>3
  <2> QED
    BY <1>1, <2>1, <2>2, <2>3 DEF WInv, TablesHold
<1>13. RangeOfLeaves'
  BY <1>1, <1>2 DEF RangeOfLeaves, Open
<1>14. JobOfLeaves'
  <2>1. at' \in Pages /\ ~Open'
    BY <1>1 DEF WInv, JobOfLeaves, Open
  <2>2. ASSUME NEW q \in job.at + job.pages .. at - 1
        PROVE  \E l \in boot :
                 /\ Covers(l, q) /\ job.at + job.pages <= l.at /\ l.at + l.pages <= at
                 /\ l.pages = job.pages /\ l.flags = job.flags
                 /\ l.frame = job.frame + job.pages + (l.at - (job.at + job.pages))
    <3>1. q \in job.at .. at - 1
      BY <1>2, <2>2
    <3>2. PICK l \in boot :
            /\ Covers(l, q) /\ job.at <= l.at /\ l.at + l.pages <= at
            /\ l.pages = job.pages /\ l.flags = job.flags
            /\ l.frame = job.frame + (l.at - job.at)
      BY <1>2, <3>1 DEF RunOfLeaves
    <3>3. l.at \in Nat
      BY <1>1, LeafNumbers
    <3>4. job.at + job.pages <= l.at
      <4> SUFFICES ASSUME l.at < job.at + job.pages PROVE FALSE
        BY <1>2, <3>3
      <4>1. Covers(leaf, l.at) /\ Covers(l, l.at)
        BY <1>1, <1>2, <1>3, <3>2, <3>3, LeafCovers DEF Covers
      <4>2. l = leaf
        BY <1>1, <3>3, <4>1, LeavesApart
      <4> QED
        BY <1>2, <1>3, <2>2, <3>2, <4>2 DEF Covers
    <3>5. l.frame = job.frame + job.pages + (l.at - (job.at + job.pages))
      BY <1>2, <3>2, <3>3
    <3> QED
      BY <3>2, <3>4, <3>5
  <2>3. RunOfLeaves(job.at, job.frame, job.pages, job.flags)'
    BY <1>1, <1>4, <2>2 DEF RunOfLeaves, Covers
  <2> QED
    BY <1>1, <1>4, <2>1, <2>3 DEF JobOfLeaves
<1>15. InitMeetsNothing' /\ StartsBlank'
  BY <1>1 DEF WInv, InitMeetsNothing, StartsBlank
<1> QED
  BY <1>9, <1>10, <1>11, <1>12, <1>13, <1>14, <1>15 DEF WInv

(***************************************************************************)
(* Every step walks                                                        *)
(***************************************************************************)
LEMMA InitStepWalks ==
  ASSUME IInv, IInv', [Next]_vars, WInv, InitStep
  PROVE  WInv'
<1>1. CASE LoadTables
  BY <1>1, KernelWalks DEF LoadTables
<1> QED
  BY <1>1, RefusesWalks, StartWalks, OpenWalks, ExtendWalks, HugeLeafWalks, SkipWalks, MapRangeWalks,
     DropRangeWalks DEF InitStep

LEMMA MapStepWalks ==
  ASSUME IInv, IInv', [Next]_vars, WInv, ttbr = "boot", MapStep
  PROVE  WInv'
<1>1. CASE MapRefuses
  BY <1>1 DEF MapRefuses, WInv, JobOfLeaves
<1>2. CASE OutOfPool \/ BlockInTheWay \/ EntryExists
  <2>1. /\ ttbr' = ttbr /\ pc' = "panic" /\ pc = "map" /\ Turn("map")
        /\ OutOfPool => why' = "pool"
    BY <1>2 DEF OutOfPool, BlockInTheWay, EntryExists, Panic, Turn
  <2>2. ~SetEntry /\ ~ClearEntry
    BY <2>1 DEF SetEntry, ClearEntry, Turn
  <2>3. NoLower => OutOfPool
    <3> SUFFICES ASSUME NoLower PROVE ~BlockInTheWay /\ ~EntryExists
      BY <1>2
    <3> DEFINE l == LevelReached(Path(job.at), job.at)
    <3>1. /\ EntryAt(pool, job.at, l).kind # "block"
          /\ l = LeafLevel => EntryAt(pool, job.at, l) = Blank
      BY <2>1, MapsToNothing
    <3>2. Looping /\ job.at \in Pages /\ l \in 1 .. 4
      BY <2>1, LevelOfTurn DEF Looping
    <3>3. EntryOn(Path(job.at), job.at, l) = EntryAt(pool, job.at, l)
      BY <3>2, PathOfPage
    <3> QED
      BY <3>1, <3>3 DEF BlockInTheWay, EntryExists, Conflict
  <2> QED
    BY <2>1, <2>2, <2>3, PanicWalks
<1> QED
  BY <1>1, <1>2, AddTableWalks, SetWalks, ReturnWalks DEF MapStep

LEMMA IdleWalks ==
  ASSUME IInv, IInv', [Next]_vars, WInv, UNCHANGED <<given, ttbr, tables, pc, why, walk, call>>
  PROVE  WInv'
<1>1. /\ at' = at /\ range' = range /\ job' = job /\ pc' = pc /\ ttbr' = ttbr /\ why' = why
      /\ boot' = boot /\ memmap' = memmap /\ pool' = pool
  BY DEF walk, given, tables, call
<1>2. Front' = Front /\ \A p : Translate(p)' = Translate(p)
  BY <1>1 DEF Front, Open, Translate, EntryOf, Index
<1>3. RangeOfLeaves' /\ JobOfLeaves'
  BY <1>1 DEF WInv, RangeOfLeaves, JobOfLeaves, RunOfLeaves, Open, Covers, Loading, Misaligned
<1>4. Behind'
  BY <1>1, <1>2 DEF WInv, Behind, InKeptMemory, Loading
<1>5. Ahead'
  BY <1>1, <1>2 DEF WInv, Ahead, Loading, NoLower
<1>6. TablesHold'
  BY <1>1, <1>2 DEF WInv, TablesHold, Loading, Reaches, Entry1, Entry2, Entry3, Index, Alike
<1>7. Folded'
  <2>1. \A q : TranslateByBoot(q)' = TranslateByBoot(q)
    BY <1>1 DEF TranslateByBoot, Covers
  <2> QED
    BY <1>1, <1>2, <2>1 DEF WInv, Folded
<1>8. InitMeetsNothing' /\ StartsBlank'
  BY <1>1 DEF WInv, InitMeetsNothing, StartsBlank, Open, Entry1, Index
<1> QED
  BY <1>3, <1>4, <1>5, <1>6, <1>7, <1>8 DEF WInv

LEMMA NextWalks ==
  ASSUME IInv, IInv', [Next]_vars, WInv
  PROVE  WInv'
<1>1. CASE ttbr' = "kernel"
  BY <1>1, KernelWalks
<1>2. CASE ttbr' = "boot"
  <2>1. ttbr = "boot" /\ pc \notin {"idle", "unmap"}
    BY <1>2, GivenStays, Now DEF IInv, TablesInForce
  <2>2. CASE InitStep
    BY <2>2, InitStepWalks
  <2>3. CASE MapStep
    BY <2>1, <2>3, MapStepWalks
  <2>4. ~UnmapStep
    BY <2>1 DEF UnmapStep, SkipPage, UnmapAsserts, ClearEntry, UnmapReturns, Turn, Returned
  <2>5. /\ \A r \in Areas : ~MapPartial(r)
        /\ \A r \in Mappings : ~MapMemory(r)
        /\ \A r \in Unmappings : ~(UnmapRefuses(r) \/ UnmapMemory(r))
    BY <2>1 DEF MapPartial, MapMemory, UnmapRefuses, UnmapMemory
  <2>6. CASE \E p \in Pages : Cache(p)
    BY <2>6, IdleWalks DEF Cache
  <2>7. CASE UNCHANGED vars
    BY <2>7, IdleWalks DEF vars
  <2> QED
    BY <2>2, <2>3, <2>4, <2>5, <2>6, <2>7 DEF Next
<1> QED
  BY <1>1, <1>2 DEF IInv, TypeOK

LEMMA WalkFolds ==
  ASSUME IInv, WInv
  PROVE  InitFoldsHalves
<1>1. HigherHalfStaysMapped
  <2> SUFFICES ASSUME pc = "walk", at = 2 * Half
               PROVE  /\ Open => range.at + range.count * range.pages = 2 * Half
                      /\ \A leaf \in boot :
                           leaf.at >= Half /\ InKeptMemory(leaf) /\ (Open => leaf.at < range.at) =>
                             \A p \in leaf.at .. (leaf.at + leaf.pages - 1) :
                               Translate(p) = <<leaf.frame + (p - leaf.at), leaf.flags>>
    BY DEF HigherHalfStaysMapped
  <2>1. Loading
    BY DEF Loading, IInv, TablesInForce
  <2>2. Open => range.at + range.count * range.pages = 2 * Half
    BY <2>1 DEF WInv, RangeOfLeaves
  <2>3. ASSUME NEW leaf \in boot, leaf.at >= Half, InKeptMemory(leaf), Open => leaf.at < range.at,
               NEW p \in leaf.at .. (leaf.at + leaf.pages - 1)
        PROVE  Translate(p) = <<leaf.frame + (p - leaf.at), leaf.flags>>
    <3>1. leaf.at < 2 * Half
      BY Now, LeafNumbers, PagesType
    <3>2. leaf.at < Front
      BY <2>3, <3>1 DEF Front
    <3> QED
      BY <2>1, <2>3, <3>2 DEF WInv, Behind
  <2> QED
    BY <2>2, <2>3
<1>2. LowerHalfFolds
  <2>1. pool[0] = BlankTable
    BY Now DEF Shape
  <2>2. ttbr = "boot" => \A p \in Half .. (2 * Half - 1) :
          Translate(p) \in {<<>>, TranslateByBoot(p), TranslateByBoot(p - Half)}
    BY DEF WInv, Folded, Upper
  <2> QED
    BY <2>1, <2>2 DEF LowerHalfFolds
<1> QED
  BY <1>1, <1>2 DEF WInv, InitFoldsHalves

(* Init hands on what the boot loader had mapped in the higher half of the    *)
(* memory the kernel runs from, folds the lower half into it and invents      *)
(* nothing, and without a lower half it stops for a missing answer, a 1 GiB   *)
(* leaf or an empty pool only.                                                *)
THEOREM InitFolds == Spec => []InitFoldsHalves
<1>1. Init => IInv /\ WInv
  BY InitKeeps, InitWalks
<1>2. IInv /\ WInv /\ [Next]_vars => (IInv /\ WInv)'
  BY NextKeeps, NextWalks
<1>3. IInv /\ WInv => InitFoldsHalves
  BY WalkFolds
<1> QED
  BY <1>1, <1>2, <1>3, PTL DEF Spec
=============================================================================
