--------------------------- MODULE PagingX86_proofs ---------------------------
(***************************************************************************)
(* Proofs about PagingX86, for every size of the tables and of the pool,   *)
(* all tables and memory maps of the boot loader, and all areas.           *)
(***************************************************************************)
EXTENDS PagingX86, FiniteSetTheorems, WellFoundedInduction, TLAPS

(***************************************************************************)
(* Pages and indexes                                                       *)
(***************************************************************************)
Slots == 0 .. (Entries - 1)

LEMMA EntriesType == Entries \in Int /\ Entries > 1
BY PagingAssumption

LEMMA DivMod ==
  ASSUME NEW n \in Int, NEW e \in Int, e > 0
  PROVE  /\ n \div e \in Int /\ n % e \in 0 .. e - 1 /\ n = e * (n \div e) + (n % e)
         /\ n >= 0 => n \div e \in Nat
BY SMTT(30)

LEMMA DivModUnique ==
  ASSUME NEW n \in Int, NEW e \in Int, e > 0, NEW q \in Int, NEW r \in 0 .. e - 1, n = e * q + r
  PROVE  n \div e = q /\ n % e = r
<1>1. n \div e \in Int /\ n % e \in 0 .. e - 1 /\ n = e * (n \div e) + (n % e)
  BY DivMod
<1> QED
  BY <1>1, SMTT(30)

LEMMA TimesMonotonic ==
  ASSUME NEW a \in Int, NEW b \in Int, NEW c \in Int, a <= b, c >= 0
  PROVE  c * a <= c * b
<1>1. c * (b - a) >= 0 /\ c * a \in Int /\ c * b \in Int
  OBVIOUS
<1>2. c * (b - a) = c * b - c * a
  OBVIOUS
<1> QED
  BY <1>1, <1>2

LEMMA DigitRange ==
  ASSUME NEW e \in Int, e > 0, NEW m \in Int, NEW q \in 0 .. m - 1, NEW d \in 0 .. e - 1
  PROVE  e * q + d \in 0 .. e * m - 1
<1>1. e * q <= e * (m - 1) /\ e * 0 <= e * q
  BY TimesMonotonic
<1>2. e * (m - 1) = e * m - e /\ e * 0 = 0 /\ e * q \in Int /\ e * m \in Int
  OBVIOUS
<1> QED
  BY <1>1, <1>2

LEMMA DigitBound ==
  ASSUME NEW e \in Int, e > 0, NEW m \in Int, NEW q \in Int, NEW d \in 0 .. e - 1, e * q + d < e * m
  PROVE  q < m
<1> SUFFICES ASSUME m <= q PROVE FALSE
  OBVIOUS
<1>1. e * m <= e * q
  BY TimesMonotonic
<1>2. e * m \in Int /\ e * q \in Int
  OBVIOUS
<1> QED
  BY <1>1, <1>2

LEMMA SpanValues ==
  /\ Span(1) = Entries * Entries * Entries /\ Span(2) = Entries * Entries
  /\ Span(3) = Entries /\ Span(4) = 1
  /\ PageCount = Entries * (Entries * (Entries * Entries))
  /\ \A l \in 1 .. 4 : Span(l) \in Int /\ Span(l) > 0
<1>1. Span(1) = Entries * Entries * Entries /\ Span(2) = Entries * Entries
      /\ Span(3) = Entries /\ Span(4) = 1
  BY DEF Span
<1>2. Entries * Entries \in Int /\ Entries * Entries > 0
  BY EntriesType
<1>3. Entries * Entries * Entries \in Int /\ Entries * Entries * Entries > 0
  BY EntriesType, <1>2
<1>4. PageCount = Entries * (Entries * (Entries * Entries))
  BY <1>1, <1>2, EntriesType DEF PageCount
<1>5. \A l \in 1 .. 4 : l = 1 \/ l = 2 \/ l = 3 \/ l = 4
  OBVIOUS
<1> QED
  BY <1>1, <1>2, <1>3, <1>4, <1>5, EntriesType

LEMMA IndexType ==
  ASSUME NEW p \in Int, NEW l \in 1 .. 4
  PROVE  Index(p, l) \in Slots
<1>1. Span(l) \in Int /\ Span(l) > 0
  BY SpanValues
<1>2. p \div Span(l) \in Int
  BY <1>1, DivMod
<1> QED
  BY <1>2, DivMod, EntriesType DEF Index, Slots

(* An index is a remainder: the table of a level is found by division.       *)
LEMMA IndexesByDivision ==
  ASSUME NEW p \in Int, p >= 0,
         NEW q3, q3 = p \div Entries, NEW q2, q2 = q3 \div Entries, NEW q1, q1 = q2 \div Entries
  PROVE  /\ q3 \in Int /\ q3 >= 0 /\ p = Entries * q3 + Index(p, 4)
         /\ q2 \in Int /\ q2 >= 0 /\ q3 = Entries * q2 + Index(p, 3)
         /\ q1 \in Int /\ q1 >= 0 /\ q2 = Entries * q1 + Index(p, 2)
         /\ Index(p, 1) = q1 % Entries
<1> DEFINE E == Entries
           d4 == p % E
           d3 == q3 % E
           d2 == q2 % E
<1>0. E \in Int /\ E > 1 /\ E > 0
  BY EntriesType
<1>1. q3 \in Int /\ p % E \in 0 .. E - 1 /\ p = E * q3 + (p % E) /\ q3 >= 0
  BY <1>0, DivMod
<1>2. q2 \in Int /\ q3 % E \in 0 .. E - 1 /\ q3 = E * q2 + (q3 % E) /\ q2 >= 0
  BY <1>0, <1>1, DivMod
<1>3. q1 \in Int /\ q2 % E \in 0 .. E - 1 /\ q2 = E * q1 + (q2 % E) /\ q1 >= 0
  BY <1>0, <1>2, DivMod
<1>4. E \in Int /\ E > 1 /\ d4 \in 0 .. E - 1 /\ d3 \in 0 .. E - 1 /\ d2 \in 0 .. E - 1
      /\ p = E * q3 + d4 /\ q3 = E * q2 + d3 /\ q2 = E * q1 + d2
  BY <1>0, <1>1, <1>2, <1>3
<1>5. p \div E = q3 /\ p % E = d4 /\ q3 % E = d3 /\ q2 % E = d2
  OBVIOUS
<1> HIDE DEF d4, d3, d2, E
<1>6. p \div (E * E) = q2
  <2>1. p = (E * E) * q2 + (E * d3 + d4)
    BY <1>1, <1>2, <1>4
  <2>2. E * d3 + d4 \in 0 .. E * E - 1
    <3>1. E \in Int /\ E > 0 /\ d3 \in 0 .. E - 1 /\ d4 \in 0 .. E - 1
      BY <1>4
    <3> QED
      BY <3>1, DigitRange
  <2>3. E * E \in Int /\ E * E > 0
    BY <1>4
  <2> QED
    BY <1>2, <2>1, <2>2, <2>3, DivModUnique
<1>7. p \div (E * E * E) = q1
  <2>1. p = (E * E * E) * q1 + (E * (E * d2 + d3) + d4)
    BY <1>1, <1>2, <1>3, <1>4
  <2>2. E * d2 + d3 \in 0 .. E * E - 1
    <3>1. E \in Int /\ E > 0 /\ d2 \in 0 .. E - 1 /\ d3 \in 0 .. E - 1
      BY <1>4
    <3> QED
      BY <3>1, DigitRange
  <2>4. E * (E * d2 + d3) + d4 \in 0 .. E * (E * E) - 1
    <3> DEFINE m == E * E
               q == E * d2 + d3
    <3>1. E \in Int /\ E > 0 /\ m \in Int /\ q \in 0 .. m - 1 /\ d4 \in 0 .. E - 1
      BY <1>4, <2>2
    <3> HIDE DEF m, q
    <3>2. E * q + d4 \in 0 .. E * m - 1
      BY <3>1, DigitRange
    <3> QED
      BY <3>2 DEF m, q
  <2>3. E * E * E \in Int /\ E * E * E > 0
    BY <1>4
  <2>5. E * (E * E) = E * E * E
    BY <1>4
  <2> QED
    BY <1>3, <2>1, <2>3, <2>4, <2>5, DivModUnique
<1>10. Index(p, 1) = q1 % E /\ Index(p, 2) = d2 /\ Index(p, 3) = d3
  BY <1>5, <1>6, <1>7, SpanValues DEF Index, E
<1>11. Index(p, 4) = d4
  <2>1. p \div 1 = p
    OBVIOUS
  <2> QED
    BY <1>5, <2>1, SpanValues DEF Index, E
<1> QED
  BY <1>1, <1>2, <1>3, <1>4, <1>10, <1>11 DEF E

(* The indexes are the digits of a page to the base Entries. *)
LEMMA IndexesAreDigits ==
  ASSUME NEW p \in Pages
  PROVE  p = Entries * (Entries * (Entries * Index(p, 1) + Index(p, 2)) + Index(p, 3)) + Index(p, 4)
<1> DEFINE E == Entries
           q3 == p \div E
           q2 == q3 \div E
           q1 == q2 \div E
           d4 == Index(p, 4)
           d3 == Index(p, 3)
           d2 == Index(p, 2)
<1>0. p \in Int /\ p >= 0 /\ p < PageCount
  BY SpanValues, EntriesType DEF Pages
<1>1. q3 \in Int /\ q3 >= 0 /\ p = E * q3 + d4
  BY <1>0, IndexesByDivision
<1>2. q2 \in Int /\ q2 >= 0 /\ q3 = E * q2 + d3
  BY <1>0, IndexesByDivision
<1>3. q1 \in Int /\ q1 >= 0 /\ q2 = E * q1 + d2 /\ Index(p, 1) = q1 % E
  BY <1>0, IndexesByDivision
<1>4. E \in Int /\ E > 1 /\ d4 \in 0 .. E - 1 /\ d3 \in 0 .. E - 1 /\ d2 \in 0 .. E - 1
      /\ p = E * q3 + d4 /\ q3 = E * q2 + d3 /\ q2 = E * q1 + d2
  BY <1>0, <1>1, <1>2, <1>3, EntriesType, IndexType DEF Slots
<1> HIDE DEF q3, q2, q1, d4, d3, d2, E
<1>8. q1 < E
  <2>1. E * E \in Int /\ E * (E * E) \in Int
    BY <1>4
  <2>2. p < E * (E * (E * E))
    BY <1>0, SpanValues DEF E
  <2>3. q3 < E * (E * E)
    <3> DEFINE m == E * (E * E)
    <3>1. E * q3 + d4 < E * m /\ m \in Int
      BY <1>4, <2>1, <2>2, Zenon
    <3> HIDE DEF m
    <3>2. E \in Int /\ E > 0 /\ q3 \in Int /\ d4 \in 0 .. E - 1
      BY <1>1, <1>4
    <3>3. q3 < m
      BY <3>1, <3>2, DigitBound
    <3> QED
      BY <3>3 DEF m
  <2>4. q2 < E * E
    <3> DEFINE m == E * E
    <3>1. E * q2 + d3 < E * m /\ m \in Int
      BY <1>4, <2>1, <2>3, Zenon
    <3> HIDE DEF m
    <3>2. E \in Int /\ E > 0 /\ q2 \in Int /\ d3 \in 0 .. E - 1
      BY <1>2, <1>4
    <3>3. q2 < m
      BY <3>1, <3>2, DigitBound
    <3> QED
      BY <3>3 DEF m
  <2> QED
    <3>1. E * q1 + d2 < E * E
      BY <1>4, <2>4, Zenon
    <3> QED
      BY <1>3, <1>4, <3>1, DigitBound
<1>9. q1 % E = q1
  <2>1. q1 = E * 0 + q1 /\ q1 \in 0 .. E - 1
    BY <1>3, <1>4, <1>8
  <2> QED
    BY <1>4, <2>1, DivModUnique
<1> QED
  BY <1>3, <1>4, <1>9 DEF E, d4, d3, d2

LEMMA SamePage ==
  ASSUME NEW p \in Pages, NEW q \in Pages, \A l \in 1 .. 4 : Index(p, l) = Index(q, l)
  PROVE  p = q
<1>1. Index(p, 1) = Index(q, 1) /\ Index(p, 2) = Index(q, 2)
      /\ Index(p, 3) = Index(q, 3) /\ Index(p, 4) = Index(q, 4)
  OBVIOUS
<1> QED
  BY <1>1, IndexesAreDigits, Zenon

(* A block is the pages that differ in the last index only. *)
LEMMA BlockOfPages ==
  ASSUME NEW p \in Pages, p % Entries = 0, NEW q \in Pages
  PROVE  /\ q \in p .. p + Entries - 1 <=> \A l \in 1 .. 3 : Index(p, l) = Index(q, l)
         /\ q \in p .. p + Entries - 1 => q % Entries = q - p
<1>0. /\ p \in Int /\ p >= 0 /\ q \in Int /\ q >= 0
      /\ Entries \in Int /\ Entries > 0
  BY SpanValues, EntriesType DEF Pages
<1>1. p = Entries * (p \div Entries) /\ p \div Entries \in Int
  BY <1>0, DivMod
<1>2. ASSUME q \in p .. p + Entries - 1
      PROVE  q \div Entries = p \div Entries /\ q % Entries = q - p
  <2>1. q - p \in 0 .. Entries - 1 /\ q = Entries * (p \div Entries) + (q - p)
    BY <1>0, <1>1, <1>2
  <2> QED
    BY <1>0, <1>1, <2>1, DivModUnique
<1>3. ASSUME q \div Entries = p \div Entries
      PROVE  \A l \in 1 .. 3 : Index(p, l) = Index(q, l)
  <2>1. \A r \in Int : r >= 0 =>
          \E k2, k1 \in Int :
            /\ k2 = (r \div Entries) \div Entries /\ r \div Entries = Entries * k2 + Index(r, 3)
            /\ k1 = k2 \div Entries /\ k2 = Entries * k1 + Index(r, 2) /\ Index(r, 1) = k1 % Entries
    <3> SUFFICES ASSUME NEW r \in Int, r >= 0
                 PROVE  \E k2, k1 \in Int :
                   /\ k2 = (r \div Entries) \div Entries /\ r \div Entries = Entries * k2 + Index(r, 3)
                   /\ k1 = k2 \div Entries /\ k2 = Entries * k1 + Index(r, 2) /\ Index(r, 1) = k1 % Entries
      OBVIOUS
    <3> DEFINE k3 == r \div Entries
               k2 == k3 \div Entries
               k1 == k2 \div Entries
    <3>1. k2 \in Int /\ k3 = Entries * k2 + Index(r, 3)
      BY IndexesByDivision
    <3>2. k1 \in Int /\ k2 = Entries * k1 + Index(r, 2) /\ Index(r, 1) = k1 % Entries
      BY IndexesByDivision
    <3> QED
      BY <3>1, <3>2, Zenon
  <2>2. PICK k2 \in Int, k1 \in Int :
          /\ k2 = (p \div Entries) \div Entries /\ p \div Entries = Entries * k2 + Index(p, 3)
          /\ k1 = k2 \div Entries /\ k2 = Entries * k1 + Index(p, 2) /\ Index(p, 1) = k1 % Entries
    BY <1>0, <2>1, Zenon
  <2>3. /\ p \div Entries = Entries * k2 + Index(q, 3)
        /\ k2 = Entries * k1 + Index(q, 2) /\ Index(q, 1) = k1 % Entries
    <3>1. PICK j2 \in Int, j1 \in Int :
            /\ j2 = (q \div Entries) \div Entries /\ q \div Entries = Entries * j2 + Index(q, 3)
            /\ j1 = j2 \div Entries /\ j2 = Entries * j1 + Index(q, 2) /\ Index(q, 1) = j1 % Entries
      BY <1>0, <2>1, Zenon
    <3>2. j2 = k2
      BY <1>3, <2>2, <3>1, Zenon
    <3>3. j1 = k1
      BY <2>2, <3>1, <3>2, Zenon
    <3> QED
      BY <1>3, <3>1, <3>2, <3>3, Zenon
  <2>4. Index(p, 2) \in Int /\ Index(q, 2) \in Int /\ Index(p, 3) \in Int /\ Index(q, 3) \in Int
    BY <1>0, IndexType DEF Slots
  <2>5. Entries * k2 \in Int /\ Entries * k1 \in Int
    <3>1. Entries \in Int
      BY <1>0
    <3>2. \A k \in Int : Entries * k \in Int
      BY <3>1
    <3> QED
      BY <3>2, Zenon
  <2>6. Index(p, 1) = Index(q, 1) /\ Index(p, 2) = Index(q, 2) /\ Index(p, 3) = Index(q, 3)
    <3>1. /\ Entries * k2 + Index(p, 3) = Entries * k2 + Index(q, 3)
          /\ Entries * k1 + Index(p, 2) = Entries * k1 + Index(q, 2)
          /\ Index(p, 1) = Index(q, 1)
      BY <2>2, <2>3, Zenon
    <3> QED
      BY <2>4, <2>5, <3>1
  <2> QED
    BY <2>6
<1>4. ASSUME \A l \in 1 .. 3 : Index(p, l) = Index(q, l)
      PROVE  q \in p .. p + Entries - 1
  <2> DEFINE base == Entries * (Entries * (Entries * Index(p, 1) + Index(p, 2)) + Index(p, 3))
  <2>1. Index(p, 1) = Index(q, 1) /\ Index(p, 2) = Index(q, 2) /\ Index(p, 3) = Index(q, 3)
    BY <1>4
  <2>2. p = base + Index(p, 4) /\ q = base + Index(q, 4)
    BY <2>1, IndexesAreDigits, Zenon
  <2>3. base \in Int
    BY <1>0, IndexType DEF Slots
  <2> HIDE DEF base
  <2>4. Index(p, 4) \in 0 .. Entries - 1 /\ Index(q, 4) \in 0 .. Entries - 1
    BY <1>0, IndexType DEF Slots
  <2>5. Index(p, 4) = 0
    <3>1. p = Entries * (p \div Entries) + Index(p, 4)
      BY <1>0, IndexesByDivision
    <3> QED
      BY <1>0, <1>1, <2>4, <3>1
  <2> QED
    BY <1>0, <2>2, <2>3, <2>4, <2>5
<1> QED
  BY <1>2, <1>3, <1>4

LEMMA BlockIsOfPages ==
  ASSUME NEW p \in Pages, p % Entries = 0
  PROVE  p .. p + Entries - 1 \subseteq Pages /\ p + Entries <= PageCount
<1> DEFINE m == Entries * (Entries * Entries)
           k == p \div Entries
<1>1. /\ p \in Int /\ p >= 0 /\ p < PageCount /\ Entries \in Int /\ Entries > 0
      /\ PageCount = Entries * m /\ m \in Int
  BY SpanValues, EntriesType DEF Pages
<1>2. k \in Int /\ p = Entries * k + 0 /\ k >= 0
  BY <1>1, DivMod
<1> HIDE DEF m, k
<1>3. k < m
  BY <1>1, <1>2, DigitBound
<1>4. Entries * k + (Entries - 1) \in 0 .. Entries * m - 1
  BY <1>1, <1>2, <1>3, DigitRange
<1> QED
  BY <1>1, <1>2, <1>4 DEF Pages

(***************************************************************************)
(* The descent through the tables of a pool                                *)
(***************************************************************************)
PoolPages == 0 .. (PoolSize - 1)

(* The entries a page leads to, level by level. *)
Entry1(P, p) == P[0][Index(p, 1)]
Entry2(P, p) == P[Entry1(P, p).to][Index(p, 2)]
Entry3(P, p) == P[Entry2(P, p).to][Index(p, 3)]
Entry4(P, p) == P[Entry3(P, p).to][Index(p, 4)]

EntryAt(P, p, l) ==
  IF l = 1 THEN Entry1(P, p) ELSE IF l = 2 THEN Entry2(P, p)
  ELSE IF l = 3 THEN Entry3(P, p) ELSE Entry4(P, p)

NodeAt(P, p, l) ==
  IF l = 1 THEN 0 ELSE IF l = 2 THEN Entry1(P, p).to
  ELSE IF l = 3 THEN Entry2(P, p).to ELSE Entry3(P, p).to

(* Whether the descent for a page comes to a level. *)
Reaches(P, p, l) ==
  /\ l >= 2 => Entry1(P, p).kind = "table"
  /\ l >= 3 => Entry2(P, p).kind = "table"
  /\ l >= 4 => Entry3(P, p).kind = "table"

(* What it finds in the end. *)
Found(P, p) ==
  IF Reaches(P, p, 4) THEN Entry4(P, p) ELSE IF Reaches(P, p, 3) THEN Entry3(P, p) ELSE Blank

LEMMA Levels == \A l \in 1 .. 4 : l = 1 \/ l = 2 \/ l = 3 \/ l = 4
OBVIOUS

LEMMA DescentBegins ==
  ASSUME NEW P, NEW p
  PROVE  NodeAt(P, p, 1) = 0 /\ Reaches(P, p, 1)
BY DEF NodeAt, Reaches

LEMMA EntryOfNode ==
  ASSUME NEW P, NEW p, NEW l \in 1 .. 4
  PROVE  EntryAt(P, p, l) = P[NodeAt(P, p, l)][Index(p, l)]
<1>1. /\ EntryAt(P, p, 1) = P[NodeAt(P, p, 1)][Index(p, 1)]
      /\ EntryAt(P, p, 2) = P[NodeAt(P, p, 2)][Index(p, 2)]
      /\ EntryAt(P, p, 3) = P[NodeAt(P, p, 3)][Index(p, 3)]
      /\ EntryAt(P, p, 4) = P[NodeAt(P, p, 4)][Index(p, 4)]
  BY DEF NodeAt, EntryAt, Entry1, Entry2, Entry3, Entry4
<1> QED
  BY <1>1, Levels, Zenon

LEMMA DescentGoesOn ==
  ASSUME NEW P, NEW p, NEW l \in 1 .. 3
  PROVE  /\ NodeAt(P, p, l + 1) = EntryAt(P, p, l).to
         /\ Reaches(P, p, l + 1) <=> Reaches(P, p, l) /\ EntryAt(P, p, l).kind = "table"
<1>1. l = 1 \/ l = 2 \/ l = 3
  OBVIOUS
<1>2. CASE l = 1
  BY <1>2 DEF NodeAt, EntryAt, Reaches
<1>3. CASE l = 2
  BY <1>3 DEF NodeAt, EntryAt, Reaches
<1>4. CASE l = 3
  BY <1>4 DEF NodeAt, EntryAt, Reaches
<1> QED
  BY <1>1, <1>2, <1>3, <1>4

(***************************************************************************)
(* The shape of the tables                                                 *)
(***************************************************************************)

(* A link leads from a table to one that was taken from the pool later. *)
LinksDown(P, u) ==
  \A t \in PoolPages, i \in Slots :
    P[t][i].kind = "table" => P[t][i] = Link(P[t][i].to) /\ P[t][i].to \in t + 1 .. u - 1

LinksUnique(P) ==
  \A s \in PoolPages, t \in PoolPages, i \in Slots, j \in Slots :
    P[s][i].kind = "table" /\ P[t][j].kind = "table" /\ P[s][i].to = P[t][j].to => s = t /\ i = j

UnusedBlank(P, u) == \A t \in u .. PoolSize - 1 : P[t] = BlankTable

NoneIsBlank(P) == \A t \in PoolPages, i \in Slots : P[t][i].kind = "none" => P[t][i] = Blank

(* Leaves are found where the level allows them. *)
KindsOf(l) ==
  IF l = 4 THEN {"none", "page"}
  ELSE IF l = 3 THEN {"none", "table", "huge"} ELSE {"none", "table"}

KindsByLevel(P) ==
  \A p \in Pages, l \in 1 .. 4 : Reaches(P, p, l) => EntryAt(P, p, l).kind \in KindsOf(l)

Shape(P, u) ==
  /\ P \in [PoolPages -> [Slots -> Entry]] /\ u \in PoolPages
  /\ LinksDown(P, u) /\ LinksUnique(P) /\ UnusedBlank(P, u) /\ NoneIsBlank(P) /\ KindsByLevel(P)

LEMMA PoolType == PoolSize \in Nat /\ PoolSize > 1 /\ 0 \in PoolPages
BY PagingAssumption DEF PoolPages

LEMMA PagesType == \A p \in Pages : p \in Nat /\ p < PageCount
BY SpanValues, EntriesType DEF Pages

LEMMA NodeType ==
  ASSUME NEW P, NEW u, Shape(P, u), NEW p \in Pages, NEW l \in 1 .. 4, Reaches(P, p, l)
  PROVE  /\ NodeAt(P, p, l) \in PoolPages /\ Index(p, l) \in Slots
         /\ EntryAt(P, p, l) \in Entry
         /\ l > 1 => NodeAt(P, p, l) > 0 /\ NodeAt(P, p, l) < u
<1>0. P \in [PoolPages -> [Slots -> Entry]] /\ u \in PoolPages /\ LinksDown(P, u)
  BY DEF Shape
<1>1. \A k \in 1 .. 4 : Index(p, k) \in Slots
  BY IndexType, PagesType
<1>2. ASSUME NEW k \in 1 .. 3, Reaches(P, p, k + 1), NodeAt(P, p, k) \in PoolPages
      PROVE  NodeAt(P, p, k + 1) \in PoolPages /\ NodeAt(P, p, k + 1) > 0 /\ NodeAt(P, p, k + 1) < u
  <2>1. EntryAt(P, p, k).kind = "table" /\ NodeAt(P, p, k + 1) = EntryAt(P, p, k).to
        /\ EntryAt(P, p, k) = P[NodeAt(P, p, k)][Index(p, k)] /\ Index(p, k) \in Slots
    BY <1>1, <1>2, DescentBegins, EntryOfNode, DescentGoesOn
  <2>2. EntryAt(P, p, k).to \in NodeAt(P, p, k) + 1 .. u - 1
    BY <1>0, <1>2, <2>1 DEF LinksDown
  <2> QED
    BY <1>0, <1>2, <2>1, <2>2, PoolType DEF PoolPages
<1>3. NodeAt(P, p, 1) \in PoolPages
  BY DescentBegins, PoolType
<1>4. Reaches(P, p, 2) => NodeAt(P, p, 2) \in PoolPages /\ NodeAt(P, p, 2) > 0 /\ NodeAt(P, p, 2) < u
  <2>1. 1 \in 1 .. 3 /\ 1 + 1 = 2
    OBVIOUS
  <2> QED
    BY <1>2, <1>3, <2>1
<1>5. Reaches(P, p, 3) => NodeAt(P, p, 3) \in PoolPages /\ NodeAt(P, p, 3) > 0 /\ NodeAt(P, p, 3) < u
  <2>1. 2 \in 1 .. 3 /\ 2 + 1 = 3 /\ (Reaches(P, p, 3) => Reaches(P, p, 2))
    BY DEF Reaches
  <2> QED
    BY <1>2, <1>4, <2>1
<1>6. Reaches(P, p, 4) => NodeAt(P, p, 4) \in PoolPages /\ NodeAt(P, p, 4) > 0 /\ NodeAt(P, p, 4) < u
  <2>1. 3 \in 1 .. 3 /\ 3 + 1 = 4 /\ (Reaches(P, p, 4) => Reaches(P, p, 3))
    BY DEF Reaches
  <2> QED
    BY <1>2, <1>5, <2>1
<1>7. NodeAt(P, p, l) \in PoolPages /\ (l > 1 => NodeAt(P, p, l) > 0 /\ NodeAt(P, p, l) < u)
  BY <1>3, <1>4, <1>5, <1>6, Levels
<1> QED
  BY <1>0, <1>1, <1>7, DescentBegins, EntryOfNode, DescentGoesOn

(* Two descents that come to the same table came the same way. *)
SameWay(P, l) ==
  \A p \in Pages, q \in Pages, k \in 1 .. 4 :
    Reaches(P, p, l) /\ Reaches(P, q, k) /\ NodeAt(P, p, l) = NodeAt(P, q, k) =>
      k = l /\ \A m \in 1 .. l - 1 : Index(p, m) = Index(q, m)

LEMMA SameWayDown ==
  ASSUME NEW P, NEW u, Shape(P, u), NEW l \in 1 .. 3, SameWay(P, l)
  PROVE  SameWay(P, l + 1)
<1> SUFFICES ASSUME NEW p \in Pages, NEW q \in Pages, NEW k \in 1 .. 4,
                    Reaches(P, p, l + 1), Reaches(P, q, k), NodeAt(P, p, l + 1) = NodeAt(P, q, k)
             PROVE  k = l + 1 /\ \A m \in 1 .. l : Index(p, m) = Index(q, m)
  BY DEF SameWay
<1>0. l \in 1 .. 4 /\ l + 1 \in 1 .. 4
  OBVIOUS
<1>1. NodeAt(P, p, l + 1) > 0
  BY <1>0, NodeType
<1>2. k # 1
  BY <1>1, DescentBegins, EntryOfNode, DescentGoesOn
<1> DEFINE j == k - 1
<1>3. j \in 1 .. 3 /\ j \in 1 .. 4 /\ k = j + 1
  BY <1>2
<1> HIDE DEF j
<1>4. /\ Reaches(P, p, l) /\ EntryAt(P, p, l).kind = "table"
      /\ NodeAt(P, p, l + 1) = EntryAt(P, p, l).to
      /\ EntryAt(P, p, l) = P[NodeAt(P, p, l)][Index(p, l)]
  BY <1>0, DescentBegins, EntryOfNode, DescentGoesOn
<1>5. /\ Reaches(P, q, j) /\ EntryAt(P, q, j).kind = "table"
      /\ NodeAt(P, q, k) = EntryAt(P, q, j).to
      /\ EntryAt(P, q, j) = P[NodeAt(P, q, j)][Index(q, j)]
  BY <1>3, DescentBegins, EntryOfNode, DescentGoesOn
<1>6. NodeAt(P, p, l) \in PoolPages /\ NodeAt(P, q, j) \in PoolPages
      /\ Index(p, l) \in Slots /\ Index(q, j) \in Slots
  BY <1>0, <1>3, <1>4, <1>5, NodeType
<1>7. NodeAt(P, p, l) = NodeAt(P, q, j) /\ Index(p, l) = Index(q, j)
  <2>1. LinksUnique(P)
    BY DEF Shape
  <2> QED
    BY <1>4, <1>5, <1>6, <2>1 DEF LinksUnique
<1>8. j = l /\ \A m \in 1 .. l - 1 : Index(p, m) = Index(q, m)
  BY <1>3, <1>4, <1>5, <1>7 DEF SameWay
<1> QED
  <2>1. \A m \in 1 .. l : m \in 1 .. l - 1 \/ m = l
    OBVIOUS
  <2> QED
    BY <1>3, <1>7, <1>8, <2>1

LEMMA SameTableSameWay ==
  ASSUME NEW P, NEW u, Shape(P, u), NEW l \in 1 .. 4
  PROVE  SameWay(P, l)
<1>1. SameWay(P, 1)
  <2> SUFFICES ASSUME NEW p \in Pages, NEW q \in Pages, NEW k \in 1 .. 4,
                      Reaches(P, q, k), NodeAt(P, p, 1) = NodeAt(P, q, k)
               PROVE  k = 1
    BY DEF SameWay
  <2>1. NodeAt(P, q, k) = 0
    BY DescentBegins, EntryOfNode, DescentGoesOn
  <2> QED
    BY <2>1, NodeType
<1>2. SameWay(P, 2)
  BY <1>1, SameWayDown
<1>3. SameWay(P, 3)
  BY <1>2, SameWayDown
<1>4. SameWay(P, 4)
  BY <1>3, SameWayDown
<1> QED
  BY <1>1, <1>2, <1>3, <1>4, Levels

(* And the same indexes lead to the same table. *)
Alike(p, q, l) == \A m \in 1 .. l : Index(p, m) = Index(q, m)

LEMMA SameIndexesSameTable ==
  ASSUME NEW P, NEW p, NEW q, NEW l \in 1 .. 4, Alike(p, q, l - 1)
  PROVE  (Reaches(P, p, l) <=> Reaches(P, q, l)) /\ NodeAt(P, p, l) = NodeAt(P, q, l)
<1>1. CASE l = 1
  BY <1>1 DEF Reaches, NodeAt
<1>2. CASE l = 2
  <2>1. Index(p, 1) = Index(q, 1)
    BY <1>2 DEF Alike
  <2> QED
    BY <1>2, <2>1 DEF Reaches, NodeAt, Entry1
<1>3. CASE l = 3
  <2>1. Index(p, 1) = Index(q, 1) /\ Index(p, 2) = Index(q, 2)
    BY <1>3 DEF Alike
  <2> QED
    BY <1>3, <2>1 DEF Reaches, NodeAt, Entry1, Entry2
<1>4. CASE l = 4
  <2>1. Index(p, 1) = Index(q, 1) /\ Index(p, 2) = Index(q, 2) /\ Index(p, 3) = Index(q, 3)
    BY <1>4 DEF Alike
  <2> QED
    BY <1>4, <2>1 DEF Reaches, NodeAt, Entry1, Entry2, Entry3
<1> QED
  BY <1>1, <1>2, <1>3, <1>4, Levels

(***************************************************************************)
(* What a write to an entry does to the descents                           *)
(***************************************************************************)
Write(P, p, l, e) == [P EXCEPT ![NodeAt(P, p, l)][Index(p, l)] = e]

(* An entry that is not a link may be written: what a descent has come to, *)
(* it still comes to.                                                      *)
Writable(P, u, p, l) ==
  Shape(P, u) /\ p \in Pages /\ l \in 1 .. 4 /\ Reaches(P, p, l) /\ EntryAt(P, p, l).kind # "table"

LEMMA EntriesWritten ==
  ASSUME NEW P, NEW u, NEW p, NEW l, Writable(P, u, p, l), NEW e
  PROVE  \A t \in PoolPages, i \in Slots :
              Write(P, p, l, e)[t][i] =
                IF t = NodeAt(P, p, l) /\ i = Index(p, l) THEN e ELSE P[t][i]
<1>1. P \in [PoolPages -> [Slots -> Entry]]
  BY DEF Writable, Shape
<1>2. NodeAt(P, p, l) \in PoolPages /\ Index(p, l) \in Slots
  BY NodeType DEF Writable
<1> QED
  BY <1>1, <1>2 DEF Write

LEMMA SamePlace ==
  ASSUME NEW P, NEW u, NEW p, NEW l, Writable(P, u, p, l),
         NEW q \in Pages, NEW k \in 1 .. 4, Reaches(P, q, k)
  PROVE  NodeAt(P, q, k) = NodeAt(P, p, l) /\ Index(q, k) = Index(p, l)
           <=> k = l /\ Alike(p, q, l)
<1>0. Shape(P, u) /\ p \in Pages /\ l \in 1 .. 4 /\ Reaches(P, p, l)
  BY DEF Writable
<1>1. ASSUME NodeAt(P, q, k) = NodeAt(P, p, l), Index(q, k) = Index(p, l)
      PROVE  k = l /\ Alike(p, q, l)
  <2>1. k = l /\ \A m \in 1 .. l - 1 : Index(p, m) = Index(q, m)
    <3>1. SameWay(P, l)
      BY <1>0, SameTableSameWay
    <3> QED
      BY <1>0, <1>1, <3>1 DEF SameWay
  <2>2. \A m \in 1 .. l : m \in 1 .. l - 1 \/ m = l
    BY <1>0
  <2> QED
    BY <1>1, <2>1, <2>2 DEF Alike
<1>2. ASSUME k = l, Alike(p, q, l)
      PROVE  NodeAt(P, q, k) = NodeAt(P, p, l) /\ Index(q, k) = Index(p, l)
  <2>1. Alike(p, q, l - 1) /\ l \in 1 .. l
    BY <1>0, <1>2 DEF Alike
  <2>2. NodeAt(P, p, l) = NodeAt(P, q, l)
    BY <1>0, <2>1, SameIndexesSameTable
  <2> QED
    BY <1>2, <2>1, <2>2 DEF Alike
<1> QED
  BY <1>1, <1>2

PathKept(P, Q, p, l, e, q, k) ==
  Reaches(P, q, k) =>
    /\ Reaches(Q, q, k) /\ NodeAt(Q, q, k) = NodeAt(P, q, k)
    /\ EntryAt(Q, q, k) = IF k = l /\ Alike(p, q, l) THEN e ELSE EntryAt(P, q, k)

LEMMA EntryKept ==
  ASSUME NEW P, NEW u, NEW p, NEW l, Writable(P, u, p, l), NEW e,
         NEW q \in Pages, NEW k \in 1 .. 4, Reaches(P, q, k),
         NodeAt(Write(P, p, l, e), q, k) = NodeAt(P, q, k)
  PROVE  EntryAt(Write(P, p, l, e), q, k) = IF k = l /\ Alike(p, q, l) THEN e ELSE EntryAt(P, q, k)
<1> DEFINE Q == Write(P, p, l, e)
<1>1. NodeAt(P, q, k) \in PoolPages /\ Index(q, k) \in Slots
  BY NodeType DEF Writable
<1>2. EntryAt(Q, q, k) = Q[NodeAt(P, q, k)][Index(q, k)]
  BY EntryOfNode
<1>3. EntryAt(P, q, k) = P[NodeAt(P, q, k)][Index(q, k)]
  BY EntryOfNode
<1>4. \A t \in PoolPages, i \in Slots :
        Q[t][i] = IF t = NodeAt(P, p, l) /\ i = Index(p, l) THEN e ELSE P[t][i]
  BY EntriesWritten
<1>5. NodeAt(P, q, k) = NodeAt(P, p, l) /\ Index(q, k) = Index(p, l) <=> k = l /\ Alike(p, q, l)
  BY SamePlace
<1> HIDE DEF Q
<1>6. EntryAt(Q, q, k) = IF k = l /\ Alike(p, q, l) THEN e ELSE EntryAt(P, q, k)
  BY <1>1, <1>2, <1>3, <1>4, <1>5
<1> QED
  BY <1>6 DEF Q

LEMMA PathGoesOn ==
  ASSUME NEW P, NEW u, NEW p, NEW l, Writable(P, u, p, l), NEW e,
         NEW q \in Pages, NEW k \in 1 .. 3, PathKept(P, Write(P, p, l, e), p, l, e, q, k)
  PROVE  PathKept(P, Write(P, p, l, e), p, l, e, q, k + 1)
<1> DEFINE Q == Write(P, p, l, e)
<1>0. k \in 1 .. 4 /\ k + 1 \in 1 .. 4
  OBVIOUS
<1> SUFFICES ASSUME Reaches(P, q, k + 1)
             PROVE  /\ Reaches(Q, q, k + 1) /\ NodeAt(Q, q, k + 1) = NodeAt(P, q, k + 1)
                    /\ EntryAt(Q, q, k + 1) = IF k + 1 = l /\ Alike(p, q, l) THEN e ELSE EntryAt(P, q, k + 1)
  BY DEF PathKept
<1>1. Reaches(P, q, k) /\ EntryAt(P, q, k).kind = "table"
  BY DescentGoesOn
<1>2. ~ (k = l /\ Alike(p, q, l))
  <2> SUFFICES ASSUME k = l, Alike(p, q, l) PROVE FALSE
    OBVIOUS
  <2>1. NodeAt(P, q, k) = NodeAt(P, p, l) /\ Index(q, k) = Index(p, l)
    BY <1>0, <1>1, SamePlace
  <2>2. EntryAt(P, q, k) = EntryAt(P, p, l)
    BY <1>0, <2>1, EntryOfNode
  <2> QED
    BY <1>1, <2>2 DEF Writable
<1>3. Reaches(Q, q, k) /\ EntryAt(Q, q, k) = EntryAt(P, q, k)
  BY <1>1, <1>2 DEF PathKept
<1>4. Reaches(Q, q, k + 1) /\ NodeAt(Q, q, k + 1) = NodeAt(P, q, k + 1)
  <2>1. Reaches(Q, q, k + 1)
    BY <1>1, <1>3, DescentGoesOn
  <2>2. NodeAt(Q, q, k + 1) = EntryAt(Q, q, k).to /\ NodeAt(P, q, k + 1) = EntryAt(P, q, k).to
    BY DescentGoesOn
  <2> QED
    BY <1>3, <2>1, <2>2
<1> QED
  BY <1>0, <1>4, EntryKept

LEMMA PathsKept ==
  ASSUME NEW P, NEW u, NEW p, NEW l, Writable(P, u, p, l), NEW e,
         NEW q \in Pages, NEW k \in 1 .. 4
  PROVE  PathKept(P, Write(P, p, l, e), p, l, e, q, k)
<1> DEFINE Q == Write(P, p, l, e)
<1>1. PathKept(P, Q, p, l, e, q, 1)
  <2>1. Reaches(Q, q, 1) /\ NodeAt(Q, q, 1) = 0 /\ NodeAt(P, q, 1) = 0 /\ Reaches(P, q, 1)
    BY DescentBegins
  <2>2. EntryAt(Q, q, 1) = IF 1 = l /\ Alike(p, q, l) THEN e ELSE EntryAt(P, q, 1)
    BY <2>1, EntryKept
  <2> QED
    BY <2>1, <2>2 DEF PathKept
<1>2. PathKept(P, Q, p, l, e, q, 2)
  BY <1>1, PathGoesOn
<1>3. PathKept(P, Q, p, l, e, q, 3)
  BY <1>2, PathGoesOn
<1>4. PathKept(P, Q, p, l, e, q, 4)
  BY <1>3, PathGoesOn
<1> QED
  BY <1>1, <1>2, <1>3, <1>4, Levels

(* What a descent comes to after the write it came to before, or it is     *)
(* the table just linked, which is blank.                                  *)
PathOld(P, Q, p, l, e, q, k) ==
  Reaches(Q, q, k) =>
    \/ Reaches(P, q, k)
    \/ /\ e.kind = "table" /\ k = l + 1 /\ Alike(p, q, l)
       /\ NodeAt(Q, q, k) = e.to /\ EntryAt(Q, q, k) = Blank

LEMMA NoNewPath ==
  ASSUME NEW P, NEW u, NEW p, NEW l, Writable(P, u, p, l), NEW e,
         e.kind = "table" => Write(P, p, l, e)[e.to] = BlankTable,
         NEW q \in Pages, NEW k \in 1 .. 3, PathOld(P, Write(P, p, l, e), p, l, e, q, k)
  PROVE  PathOld(P, Write(P, p, l, e), p, l, e, q, k + 1)
<1> DEFINE Q == Write(P, p, l, e)
<1>0. k \in 1 .. 4 /\ k + 1 \in 1 .. 4
  OBVIOUS
<1> SUFFICES ASSUME Reaches(Q, q, k + 1), ~ Reaches(P, q, k + 1)
             PROVE  /\ e.kind = "table" /\ k + 1 = l + 1 /\ Alike(p, q, l)
                    /\ NodeAt(Q, q, k + 1) = e.to /\ EntryAt(Q, q, k + 1) = Blank
  BY DEF PathOld
<1>1. Reaches(Q, q, k) /\ EntryAt(Q, q, k).kind = "table" /\ NodeAt(Q, q, k + 1) = EntryAt(Q, q, k).to
  BY DescentGoesOn
<1>2. Reaches(P, q, k)
  <2>1. EntryAt(Q, q, k) # Blank
    BY <1>1 DEF Blank
  <2> QED
    BY <1>1, <2>1 DEF PathOld
<1>3. EntryAt(P, q, k).kind # "table"
  BY <1>2, DescentGoesOn
<1>4. EntryAt(Q, q, k) = IF k = l /\ Alike(p, q, l) THEN e ELSE EntryAt(P, q, k)
  BY <1>0, <1>2, PathsKept DEF PathKept
<1>5. k = l /\ Alike(p, q, l) /\ EntryAt(Q, q, k) = e
  BY <1>1, <1>3, <1>4
<1>6. EntryAt(Q, q, k + 1) = Q[e.to][Index(q, k + 1)]
  BY <1>0, <1>1, <1>5, EntryOfNode
<1>7. Index(q, k + 1) \in Slots
  BY <1>0, IndexType, PagesType
<1>8. Q[e.to] = BlankTable
  BY <1>1, <1>5
<1>9. EntryAt(Q, q, k + 1) = Blank
  BY <1>6, <1>7, <1>8 DEF BlankTable, Slots
<1> QED
  BY <1>1, <1>5, <1>9

LEMMA PathsOld ==
  ASSUME NEW P, NEW u, NEW p, NEW l, Writable(P, u, p, l), NEW e,
         e.kind = "table" => Write(P, p, l, e)[e.to] = BlankTable,
         NEW q \in Pages, NEW k \in 1 .. 4
  PROVE  PathOld(P, Write(P, p, l, e), p, l, e, q, k)
<1> DEFINE Q == Write(P, p, l, e)
<1>1. PathOld(P, Q, p, l, e, q, 1)
  BY DescentBegins DEF PathOld
<1>2. PathOld(P, Q, p, l, e, q, 2)
  BY <1>1, NoNewPath
<1>3. PathOld(P, Q, p, l, e, q, 3)
  BY <1>2, NoNewPath
<1>4. PathOld(P, Q, p, l, e, q, 4)
  BY <1>3, NoNewPath
<1> QED
  BY <1>1, <1>2, <1>3, <1>4, Levels

(***************************************************************************)
(* A new table is linked to                                                *)
(***************************************************************************)
Linkable(P, u, p, l) ==
  Writable(P, u, p, l) /\ l # 4 /\ u > 0 /\ u + 1 \in PoolPages /\ EntryAt(P, p, l) = Blank

LEMMA LinkedTableBlank ==
  ASSUME NEW P, NEW u, NEW p, NEW l, Linkable(P, u, p, l)
  PROVE  /\ u \in PoolPages /\ NodeAt(P, p, l) \in PoolPages /\ NodeAt(P, p, l) < u
         /\ Write(P, p, l, Link(u))[u] = BlankTable
<1>1. P \in [PoolPages -> [Slots -> Entry]] /\ u \in PoolPages /\ UnusedBlank(P, u)
  BY DEF Linkable, Writable, Shape
<1>2. NodeAt(P, p, l) \in PoolPages /\ (l > 1 => NodeAt(P, p, l) < u)
  BY NodeType DEF Linkable, Writable
<1>3. NodeAt(P, p, l) < u
  <2>1. CASE l = 1
    BY <2>1, DescentBegins DEF Linkable
  <2>2. CASE l > 1
    BY <2>2, <1>2
  <2> QED
    BY <2>1, <2>2 DEF Linkable, Writable
<1>4. P[u] = BlankTable
  BY <1>1, PoolType DEF UnusedBlank, PoolPages
<1>5. u # NodeAt(P, p, l)
  BY <1>1, <1>2, <1>3 DEF PoolPages
<1>6. Write(P, p, l, Link(u))[u] = P[u]
  BY <1>1, <1>2, <1>5 DEF Write
<1> QED
  BY <1>1, <1>2, <1>3, <1>4, <1>6

LEMMA LinkType == \A u \in PoolPages : Link(u) \in Entry /\ Link(u).kind = "table" /\ Link(u).to = u
BY PoolType DEF Link, Entry, PoolPages

LEMMA BlankType == Blank \in Entry /\ Blank.kind = "none" /\ BlankTable \in [Slots -> Entry]
BY DEF Blank, BlankTable, Entry, Slots

LEMMA LinkKeepsLinks ==
  ASSUME NEW P, NEW u, NEW p, NEW l, Linkable(P, u, p, l)
  PROVE  LinksDown(Write(P, p, l, Link(u)), u + 1) /\ LinksUnique(Write(P, p, l, Link(u)))
<1> DEFINE Q == Write(P, p, l, Link(u))
<1>1. \A t \in PoolPages, i \in Slots :
        Q[t][i] = IF t = NodeAt(P, p, l) /\ i = Index(p, l) THEN Link(u) ELSE P[t][i]
  BY EntriesWritten DEF Linkable
<1>2. LinksDown(P, u) /\ LinksUnique(P) /\ u \in PoolPages
  BY DEF Linkable, Writable, Shape
<1>3. NodeAt(P, p, l) < u /\ NodeAt(P, p, l) \in PoolPages
  BY LinkedTableBlank
<1>4. Link(u).to = u /\ Link(u).kind = "table"
  BY <1>2, LinkType
<1> HIDE DEF Q
<1>5. LinksDown(Q, u + 1)
  <2> SUFFICES ASSUME NEW t \in PoolPages, NEW i \in Slots, Q[t][i].kind = "table"
               PROVE  Q[t][i] = Link(Q[t][i].to) /\ Q[t][i].to \in t + 1 .. (u + 1) - 1
    BY DEF LinksDown
  <2>1. CASE t = NodeAt(P, p, l) /\ i = Index(p, l)
    <3>1. Q[t][i] = Link(u)
      BY <1>1, <2>1
    <3> QED
      BY <1>2, <1>3, <1>4, <2>1, <3>1 DEF PoolPages
  <2>2. CASE ~ (t = NodeAt(P, p, l) /\ i = Index(p, l))
    <3>1. Q[t][i] = P[t][i]
      BY <1>1, <2>2
    <3>2. P[t][i] = Link(P[t][i].to) /\ P[t][i].to \in t + 1 .. u - 1
      BY <1>2, <3>1 DEF LinksDown
    <3> QED
      BY <1>2, <3>1, <3>2 DEF PoolPages
  <2> QED
    BY <2>1, <2>2
<1>6. LinksUnique(Q)
  <2> SUFFICES ASSUME NEW s \in PoolPages, NEW t \in PoolPages, NEW i \in Slots, NEW j \in Slots,
                      Q[s][i].kind = "table", Q[t][j].kind = "table", Q[s][i].to = Q[t][j].to
               PROVE  s = t /\ i = j
    BY DEF LinksUnique
  <2>1. \A r \in PoolPages, k \in Slots :
          \/ r = NodeAt(P, p, l) /\ k = Index(p, l) /\ Q[r][k].to = u
          \/ Q[r][k] = P[r][k] /\ (Q[r][k].kind = "table" => Q[r][k].to # u)
    <3> SUFFICES ASSUME NEW r \in PoolPages, NEW k \in Slots,
                        ~ (r = NodeAt(P, p, l) /\ k = Index(p, l)), P[r][k].kind = "table"
                 PROVE  P[r][k].to # u
      BY <1>1, <1>4
    <3>1. P[r][k].to \in r + 1 .. u - 1
      BY <1>2 DEF LinksDown
    <3> QED
      BY <1>2, <3>1 DEF PoolPages
  <2>2. CASE Q[s][i] = P[s][i] /\ Q[t][j] = P[t][j]
    BY <1>2, <2>2 DEF LinksUnique
  <2> QED
    BY <2>1, <2>2
<1> QED
  BY <1>5, <1>6 DEF Q

LEMMA LinkKeepsShape ==
  ASSUME NEW P, NEW u, NEW p, NEW l, Linkable(P, u, p, l)
  PROVE  Shape(Write(P, p, l, Link(u)), u + 1)
<1> DEFINE Q == Write(P, p, l, Link(u))
<1>0. Writable(P, u, p, l) /\ Shape(P, u) /\ u \in PoolPages /\ u + 1 \in PoolPages /\ l # 4 /\ l \in 1 .. 4
      /\ UnusedBlank(P, u) /\ KindsByLevel(P) /\ P \in [PoolPages -> [Slots -> Entry]]
  BY DEF Linkable, Writable, Shape
<1>1. NodeAt(P, p, l) < u /\ NodeAt(P, p, l) \in PoolPages /\ Q[u] = BlankTable
  BY LinkedTableBlank
<1>2. Link(u) \in Entry /\ Link(u).kind = "table" /\ Link(u).to = u
  BY <1>0, LinkType
<1>3. Q \in [PoolPages -> [Slots -> Entry]]
  BY <1>0, <1>1, <1>2 DEF Write
<1>4. UnusedBlank(Q, u + 1)
  <2> SUFFICES ASSUME NEW t \in u + 1 .. PoolSize - 1 PROVE Q[t] = BlankTable
    BY DEF UnusedBlank
  <2>1. t \in PoolPages /\ t # NodeAt(P, p, l) /\ t \in u .. PoolSize - 1
    BY <1>0, <1>1, PoolType DEF PoolPages
  <2>2. Q[t] = P[t]
    BY <1>0, <1>1, <2>1 DEF Write
  <2> QED
    BY <1>0, <2>1, <2>2 DEF UnusedBlank
<1>5. KindsByLevel(Q)
  <2> SUFFICES ASSUME NEW q \in Pages, NEW k \in 1 .. 4, Reaches(Q, q, k)
               PROVE  EntryAt(Q, q, k).kind \in KindsOf(k)
    BY DEF KindsByLevel
  <2>1. CASE Reaches(P, q, k)
    <3>1. EntryAt(Q, q, k) = IF k = l /\ Alike(p, q, l) THEN Link(u) ELSE EntryAt(P, q, k)
      BY <1>0, <2>1, PathsKept DEF PathKept
    <3>2. EntryAt(P, q, k).kind \in KindsOf(k)
      BY <1>0, <2>1 DEF KindsByLevel
    <3>3. k = l => "table" \in KindsOf(k)
      BY <1>0 DEF KindsOf
    <3> QED
      BY <1>2, <3>1, <3>2, <3>3
  <2>2. CASE ~ Reaches(P, q, k)
    <3>1. EntryAt(Q, q, k) = Blank
      BY <1>0, <1>1, <1>2, <2>2, PathsOld DEF PathOld
    <3> QED
      BY <3>1, BlankType DEF KindsOf
  <2> QED
    BY <2>1, <2>2
<1>6. LinksDown(Q, u + 1) /\ LinksUnique(Q)
  BY LinkKeepsLinks
<1>7. NoneIsBlank(Q)
  <2>1. \A t \in PoolPages, i \in Slots : Q[t][i] = Link(u) \/ Q[t][i] = P[t][i]
    BY <1>0, EntriesWritten
  <2> HIDE DEF Q
  <2> QED
    BY <1>0, <1>2, <2>1 DEF NoneIsBlank, Shape
<1> QED
  BY <1>0, <1>3, <1>4, <1>5, <1>6, <1>7 DEF Shape

(* A link changes no translation: what is found is blank before and after. *)
LEMMA FoundByLevel ==
  ASSUME NEW P, NEW q
  PROVE  /\ Reaches(P, q, 4) => Reaches(P, q, 3) /\ Found(P, q) = EntryAt(P, q, 4)
         /\ Reaches(P, q, 3) /\ EntryAt(P, q, 3).kind # "table" => Found(P, q) = EntryAt(P, q, 3)
         /\ ~ Reaches(P, q, 3) => Found(P, q) = Blank
<1>1. Reaches(P, q, 4) => Reaches(P, q, 3)
  BY DEF Reaches
<1>2. EntryAt(P, q, 4) = Entry4(P, q) /\ EntryAt(P, q, 3) = Entry3(P, q)
  BY DEF EntryAt
<1>3. Reaches(P, q, 3) /\ EntryAt(P, q, 3).kind # "table" => ~ Reaches(P, q, 4)
  BY <1>2 DEF Reaches
<1> QED
  BY <1>1, <1>2, <1>3 DEF Found

LEMMA FoundElsewhere ==
  ASSUME NEW P, NEW u, NEW p, NEW l, Writable(P, u, p, l), NEW e,
         e.kind = "table" => Write(P, p, l, e)[e.to] = BlankTable,
         NEW q \in Pages, ~ Alike(p, q, l)
  PROVE  Found(Write(P, p, l, e), q) = Found(P, q)
<1> DEFINE Q == Write(P, p, l, e)
<1>1. \A k \in 1 .. 4 : Reaches(Q, q, k) <=> Reaches(P, q, k)
  BY PathsKept, PathsOld DEF PathKept, PathOld
<1>2. \A k \in 1 .. 4 : Reaches(P, q, k) => EntryAt(Q, q, k) = EntryAt(P, q, k)
  BY PathsKept DEF PathKept
<1>3. /\ Reaches(Q, q, 4) <=> Reaches(P, q, 4)
      /\ Reaches(Q, q, 3) <=> Reaches(P, q, 3)
      /\ Reaches(P, q, 4) => Entry4(Q, q) = Entry4(P, q)
      /\ Reaches(P, q, 3) => Entry3(Q, q) = Entry3(P, q)
  BY <1>1, <1>2 DEF EntryAt
<1> QED
  BY <1>3 DEF Found

LEMMA FoundUnderLink ==
  ASSUME NEW P, NEW u, NEW p, NEW l, Linkable(P, u, p, l), NEW q \in Pages
  PROVE  Found(Write(P, p, l, Link(u)), q) = Found(P, q)
<1> DEFINE Q == Write(P, p, l, Link(u))
<1>0. /\ Writable(P, u, p, l) /\ Shape(P, u) /\ u \in PoolPages /\ l \in 1 .. 4 /\ l # 4
      /\ EntryAt(P, p, l) = Blank /\ p \in Pages /\ Reaches(P, p, l)
  BY DEF Linkable, Writable, Shape
<1>1. Link(u).kind = "table" /\ Link(u).to = u /\ Q[u] = BlankTable
  BY <1>0, LinkType, LinkedTableBlank
<1>2. Shape(Q, u + 1)
  BY LinkKeepsShape
<1>3. CASE ~ Alike(p, q, l)
  BY <1>0, <1>1, <1>2, <1>3, FoundElsewhere
<1>4. CASE Alike(p, q, l)
  <2>1. Reaches(P, q, l) /\ EntryAt(P, q, l) = Blank
    <3>1. Alike(p, q, l - 1) /\ Index(p, l) = Index(q, l)
      BY <1>0, <1>4 DEF Alike
    <3>2. Reaches(P, q, l) /\ NodeAt(P, p, l) = NodeAt(P, q, l)
      BY <1>0, <3>1, SameIndexesSameTable
    <3> QED
      BY <1>0, <3>1, <3>2, EntryOfNode
  <2>2. Found(P, q) = Blank
    <3>1. CASE l = 3
      BY <1>0, <2>1, <3>1, FoundByLevel, BlankType
    <3>2. CASE l = 1 \/ l = 2
      <4>1. ~ Reaches(P, q, 3)
        BY <2>1, <3>2, BlankType DEF Reaches, EntryAt
      <4> QED
        BY <1>0, <4>1, FoundByLevel
    <3> QED
      BY <1>0, <3>1, <3>2, Levels
  <2>3. \A k \in 1 .. 4 : Reaches(Q, q, k) => EntryAt(Q, q, k) = Blank \/ k <= l
    <3> SUFFICES ASSUME NEW k \in 1 .. 4, Reaches(Q, q, k), k > l
                 PROVE  EntryAt(Q, q, k) = Blank
      BY <1>0
    <3>1. ~ Reaches(P, q, k)
      BY <1>0, <2>1, BlankType DEF Reaches, EntryAt
    <3> QED
      BY <1>0, <1>1, <3>1, PathsOld DEF PathOld
  <2>4. Found(Q, q) = Blank
    <3>1. CASE Reaches(Q, q, 4)
      BY <1>0, <1>2, <2>3, <3>1, FoundByLevel
    <3>2. CASE ~ Reaches(Q, q, 4) /\ Reaches(Q, q, 3)
      <4>1. EntryAt(Q, q, 3).kind # "table"
        BY <3>2 DEF Reaches, EntryAt
      <4>2. EntryAt(Q, q, 3) = Blank \/ l = 3
        BY <1>0, <2>3, <3>2
      <4>3. l = 3 => EntryAt(Q, q, 3) = Link(u)
        BY <1>0, <1>4, <2>1, PathsKept DEF PathKept
      <4>4. EntryAt(Q, q, 3) = Blank
        BY <1>1, <4>1, <4>2, <4>3
      <4> QED
        BY <1>2, <3>2, <4>1, <4>4, FoundByLevel
    <3>3. CASE ~ Reaches(Q, q, 3)
      BY <1>2, <3>3, FoundByLevel
    <3> QED
      BY <3>1, <3>2, <3>3
  <2> QED
    BY <2>2, <2>4
<1> QED
  BY <1>3, <1>4

(***************************************************************************)
(* A leaf is set                                                           *)
(***************************************************************************)
Settable(P, u, p, l, e) ==
  /\ Writable(P, u, p, l) /\ l \in {3, 4}
  /\ e \in Entry /\ e.kind \in {"page", "huge"} /\ e.kind \in KindsOf(l)

LEMMA LeafKeepsShape ==
  ASSUME NEW P, NEW u, NEW p, NEW l, NEW e, Settable(P, u, p, l, e), NodeAt(P, p, l) < u
  PROVE  Shape(Write(P, p, l, e), u)
<1> DEFINE Q == Write(P, p, l, e)
<1>0. /\ Writable(P, u, p, l) /\ Shape(P, u) /\ l \in 1 .. 4 /\ p \in Pages /\ Reaches(P, p, l)
      /\ u \in PoolPages /\ LinksDown(P, u) /\ LinksUnique(P) /\ UnusedBlank(P, u)
      /\ KindsByLevel(P) /\ P \in [PoolPages -> [Slots -> Entry]]
      /\ e \in Entry /\ e.kind \notin {"none", "table"} /\ e.kind \in KindsOf(l)
  BY DEF Settable, Writable, Shape
<1>1. NodeAt(P, p, l) \in PoolPages /\ Index(p, l) \in Slots
  BY <1>0, NodeType
<1>2. Q \in [PoolPages -> [Slots -> Entry]]
  BY <1>0, <1>1 DEF Write
<1>2a. \A t \in PoolPages, i \in Slots : Q[t][i] = e \/ Q[t][i] = P[t][i]
  BY <1>0, EntriesWritten
<1>3. \A t \in PoolPages, i \in Slots : Q[t][i].kind = "table" => Q[t][i] = P[t][i]
  <2> HIDE DEF Q
  <2> QED
    BY <1>0, <1>2a
<1>4. UnusedBlank(Q, u)
  <2> SUFFICES ASSUME NEW t \in u .. PoolSize - 1 PROVE Q[t] = BlankTable
    BY DEF UnusedBlank
  <2>1. t \in PoolPages /\ t # NodeAt(P, p, l)
    BY <1>0, <1>1, PoolType DEF PoolPages
  <2>2. Q[t] = P[t]
    BY <1>0, <1>1, <2>1 DEF Write
  <2> QED
    BY <1>0, <2>2 DEF UnusedBlank
<1>5. KindsByLevel(Q)
  <2> SUFFICES ASSUME NEW q \in Pages, NEW k \in 1 .. 4, Reaches(Q, q, k)
               PROVE  EntryAt(Q, q, k).kind \in KindsOf(k)
    BY DEF KindsByLevel
  <2>1. Reaches(P, q, k)
    BY <1>0, PathsOld DEF PathOld
  <2>2. EntryAt(Q, q, k) = IF k = l /\ Alike(p, q, l) THEN e ELSE EntryAt(P, q, k)
    BY <1>0, <2>1, PathsKept DEF PathKept
  <2>3. EntryAt(P, q, k).kind \in KindsOf(k)
    BY <1>0, <2>1 DEF KindsByLevel
  <2> QED
    BY <1>0, <2>2, <2>3
<1> HIDE DEF Q
<1>6. LinksDown(Q, u)
  BY <1>0, <1>3 DEF LinksDown
<1>7. LinksUnique(Q)
  BY <1>0, <1>3 DEF LinksUnique
<1>8. NoneIsBlank(Q)
  BY <1>0, <1>2a DEF NoneIsBlank, Shape
<1>9. Shape(Q, u)
  BY <1>0, <1>2, <1>4, <1>5, <1>6, <1>7, <1>8 DEF Shape
<1> QED
  BY <1>9 DEF Q

LEMMA FoundAtLeaf ==
  ASSUME NEW P, NEW u, NEW p, NEW l, NEW e, Settable(P, u, p, l, e), NodeAt(P, p, l) < u,
         NEW q \in Pages
  PROVE  /\ Alike(p, q, l) => Found(P, q) = EntryAt(P, p, l) /\ Found(Write(P, p, l, e), q) = e
         /\ ~ Alike(p, q, l) => Found(Write(P, p, l, e), q) = Found(P, q)
<1> DEFINE Q == Write(P, p, l, e)
<1>0. /\ Writable(P, u, p, l) /\ Shape(P, u) /\ l \in 1 .. 4 /\ p \in Pages /\ Reaches(P, p, l)
      /\ e.kind # "table" /\ l \in {3, 4} /\ EntryAt(P, p, l).kind # "table"
  BY DEF Settable, Writable
<1>1. Shape(Q, u)
  BY LeafKeepsShape
<1>2. ASSUME ~ Alike(p, q, l)
      PROVE  Found(Q, q) = Found(P, q)
  BY <1>0, <1>1, <1>2, FoundElsewhere
<1>3. ASSUME Alike(p, q, l)
      PROVE  Found(P, q) = EntryAt(P, p, l) /\ Found(Q, q) = e
  <2>1. Reaches(P, q, l) /\ EntryAt(P, q, l) = EntryAt(P, p, l)
    <3>1. Alike(p, q, l - 1) /\ Index(p, l) = Index(q, l)
      BY <1>0, <1>3 DEF Alike
    <3>2. Reaches(P, q, l) /\ NodeAt(P, p, l) = NodeAt(P, q, l)
      BY <1>0, <3>1, SameIndexesSameTable
    <3> QED
      BY <1>0, <3>1, <3>2, EntryOfNode
  <2>2. Reaches(Q, q, l) /\ EntryAt(Q, q, l) = e
    BY <1>0, <1>3, <2>1, PathsKept DEF PathKept
  <2>3. CASE l = 3
    BY <1>0, <1>1, <2>1, <2>2, <2>3, FoundByLevel
  <2>4. CASE l = 4
    BY <1>0, <1>1, <2>1, <2>2, <2>4, FoundByLevel
  <2> QED
    BY <1>0, <2>3, <2>4
<1> QED
  BY <1>2, <1>3

(***************************************************************************)
(* The processor marks a leaf                                              *)
(***************************************************************************)
Unmarked(e) == <<e.kind, e.to, e.flags \ {"accessed"}>>

SameButMarks(P, Q) ==
  \A t \in PoolPages, i \in Slots :
    /\ Unmarked(Q[t][i]) = Unmarked(P[t][i])
    /\ P[t][i].kind \notin {"page", "huge"} => Q[t][i] = P[t][i]

LEMMA MarksKeepEntries ==
  ASSUME NEW P, NEW Q, NEW u, Shape(P, u), SameButMarks(P, Q),
         NEW q \in Pages, NEW k \in 1 .. 4, Reaches(P, q, k), NodeAt(Q, q, k) = NodeAt(P, q, k)
  PROVE  /\ Unmarked(EntryAt(Q, q, k)) = Unmarked(EntryAt(P, q, k))
         /\ EntryAt(P, q, k).kind \notin {"page", "huge"} => EntryAt(Q, q, k) = EntryAt(P, q, k)
<1>1. NodeAt(P, q, k) \in PoolPages /\ Index(q, k) \in Slots
  BY NodeType
<1>2. EntryAt(Q, q, k) = Q[NodeAt(P, q, k)][Index(q, k)] /\ EntryAt(P, q, k) = P[NodeAt(P, q, k)][Index(q, k)]
  BY EntryOfNode
<1> QED
  BY <1>1, <1>2 DEF SameButMarks

LEMMA MarksKeepPaths ==
  ASSUME NEW P, NEW Q, NEW u, Shape(P, u), SameButMarks(P, Q), NEW q \in Pages
  PROVE  \A k \in 1 .. 4 : /\ Reaches(Q, q, k) <=> Reaches(P, q, k)
                           /\ Reaches(P, q, k) =>
                                /\ NodeAt(Q, q, k) = NodeAt(P, q, k)
                                /\ Unmarked(EntryAt(Q, q, k)) = Unmarked(EntryAt(P, q, k))
<1> DEFINE Keeps(k) == /\ Reaches(Q, q, k) <=> Reaches(P, q, k)
                       /\ Reaches(P, q, k) => NodeAt(Q, q, k) = NodeAt(P, q, k)
<1>1. Keeps(1)
  BY DescentBegins
<1>2. ASSUME NEW k \in 1 .. 3, Keeps(k)
      PROVE  Keeps(k + 1)
  <2>1. /\ Reaches(Q, q, k + 1) <=> Reaches(Q, q, k) /\ EntryAt(Q, q, k).kind = "table"
        /\ Reaches(P, q, k + 1) <=> Reaches(P, q, k) /\ EntryAt(P, q, k).kind = "table"
        /\ NodeAt(Q, q, k + 1) = EntryAt(Q, q, k).to /\ NodeAt(P, q, k + 1) = EntryAt(P, q, k).to
    BY DescentGoesOn
  <2>2. Reaches(P, q, k) => Unmarked(EntryAt(Q, q, k)) = Unmarked(EntryAt(P, q, k))
    BY <1>2, MarksKeepEntries
  <2> QED
    BY <1>2, <2>1, <2>2 DEF Unmarked
<1>3. Keeps(2)
  BY <1>1, <1>2
<1>4. Keeps(3)
  BY <1>2, <1>3
<1>5. Keeps(4)
  BY <1>2, <1>4
<1>6. \A k \in 1 .. 4 : Keeps(k)
  BY <1>1, <1>3, <1>4, <1>5, Levels
<1> QED
  BY <1>6, MarksKeepEntries

LEMMA MarksKeepShape ==
  ASSUME NEW P, NEW Q, NEW u, Shape(P, u), SameButMarks(P, Q), Q \in [PoolPages -> [Slots -> Entry]],
         \A t \in u .. PoolSize - 1 : Q[t] = P[t]
  PROVE  Shape(Q, u)
<1>1. \A t \in PoolPages, i \in Slots : Q[t][i].kind = "table" => Q[t][i] = P[t][i]
  BY DEF SameButMarks, Unmarked
<1>2. LinksDown(Q, u)
  BY <1>1 DEF LinksDown, Shape
<1>3. LinksUnique(Q)
  BY <1>1 DEF LinksUnique, Shape
<1>4. UnusedBlank(Q, u)
  BY DEF UnusedBlank, Shape
<1>5. KindsByLevel(Q)
  BY MarksKeepPaths DEF KindsByLevel, Shape, Unmarked
<1>6. NoneIsBlank(Q)
  <2>1. NoneIsBlank(P)
    BY DEF Shape
  <2>2. \A t \in PoolPages, i \in Slots :
          /\ Q[t][i].kind = P[t][i].kind
          /\ P[t][i].kind \notin {"page", "huge"} => Q[t][i] = P[t][i]
    BY DEF SameButMarks, Unmarked
  <2> QED
    BY <2>1, <2>2 DEF NoneIsBlank
<1> QED
  BY <1>2, <1>3, <1>4, <1>5, <1>6 DEF Shape

LEMMA FoundUnderMarks ==
  ASSUME NEW P, NEW Q, NEW u, Shape(P, u), SameButMarks(P, Q), NEW q \in Pages
  PROVE  Unmarked(Found(Q, q)) = Unmarked(Found(P, q))
<1>1. /\ Reaches(Q, q, 3) <=> Reaches(P, q, 3)
      /\ Reaches(Q, q, 4) <=> Reaches(P, q, 4)
      /\ Reaches(P, q, 3) => Unmarked(EntryAt(Q, q, 3)) = Unmarked(EntryAt(P, q, 3))
      /\ Reaches(P, q, 4) => Unmarked(EntryAt(Q, q, 4)) = Unmarked(EntryAt(P, q, 4))
  BY MarksKeepPaths
<1>2. /\ Reaches(P, q, 3) => Unmarked(Entry3(Q, q)) = Unmarked(Entry3(P, q))
      /\ Reaches(P, q, 4) => Unmarked(Entry4(Q, q)) = Unmarked(Entry4(P, q))
  BY <1>1 DEF EntryAt
<1> QED
  BY <1>1, <1>2 DEF Found

(***************************************************************************)
(* What the processor finds                                                *)
(***************************************************************************)
LEMMA FoundAsWalked ==
  ASSUME NEW P, NEW u, Shape(P, u), NEW q \in Pages
  PROVE  Found(P, q) = IF Entry1(P, q).kind = "none" \/ Entry2(P, q).kind = "none" THEN Blank
                       ELSE IF Entry3(P, q).kind = "table" THEN Entry4(P, q) ELSE Entry3(P, q)
<1>1. /\ Entry1(P, q).kind \in {"none", "table"}
      /\ Reaches(P, q, 2) => Entry2(P, q).kind \in {"none", "table"}
  <2>1. /\ EntryAt(P, q, 1).kind \in KindsOf(1)
        /\ Reaches(P, q, 2) => EntryAt(P, q, 2).kind \in KindsOf(2)
    BY DescentBegins DEF Shape, KindsByLevel
  <2> QED
    BY <2>1 DEF EntryAt, KindsOf
<1> QED
  BY <1>1 DEF Found, Reaches

LEMMA EntryIsFound ==
  ASSUME NEW q \in Pages, Shape(pool, used)
  PROVE  EntryOf(q) = Found(pool, q)
BY FoundAsWalked DEF EntryOf, Entry1, Entry2, Entry3, Entry4

LEMMA EntryIsFoundNext ==
  ASSUME NEW q \in Pages, Shape(pool', used')
  PROVE  EntryOf(q)' = Found(pool', q)
BY FoundAsWalked DEF EntryOf, Entry1, Entry2, Entry3, Entry4

(***************************************************************************)
(* The inductive invariant                                                 *)
(***************************************************************************)

(* The pool has its shape, and the root is taken when the walk begins. *)
PoolInShape ==
  /\ Shape(pool, used)
  /\ pc = "start" => used = 0
  /\ pc \in {"walk", "map", "idle"} => used > 0

(* Every table but the root hangs from one that was taken earlier. *)
Linked ==
  \A t \in 1 .. used - 1 : \E s \in 0 .. t - 1, i \in Slots : pool[s][i] = Link(t)

(* mapMemory stands on the way to its page, and not below a huge page's level. *)
OnPath ==
  pc = "map" =>
    /\ Reaches(pool, job.at, level) /\ node = NodeAt(pool, job.at, level)
    /\ level = 4 => job.pages # Entries
    /\ job.left = 0 => level = 1

(* Only the table mapMemory has just added, and stands in, may be blank. *)
Filled ==
  pc \in {"walk", "map", "idle"} =>
    \A t \in 1 .. used - 1 : pool[t] = BlankTable => pc = "map" /\ t = node

Aligned ==
  /\ range.pages = Entries => range.at % Entries = 0
  /\ job.pages = Entries => job.at % Entries = 0

IInv == TypeOK /\ PoolInShape /\ Linked /\ OnPath /\ Filled /\ Aligned

(***************************************************************************)
(* Pages and counts                                                        *)
(***************************************************************************)
LEMMA PageNumbers ==
  /\ PageCount \in Nat /\ PageCount > 0 /\ 0 \in Pages /\ 0 % Entries = 0
  /\ \A n \in Nat : n % PageCount \in Pages
<1>1. PageCount \in Int /\ PageCount > 0
  <2>1. Span(1) \in Int /\ Span(1) > 0
    BY SpanValues
  <2> QED
    BY <2>1, EntriesType DEF PageCount
<1>2. 0 % Entries = 0
  <2>1. 0 = Entries * 0 + 0 /\ 0 \in 0 .. Entries - 1
    BY EntriesType
  <2> QED
    BY <2>1, EntriesType, DivModUnique
<1>3. ASSUME NEW n \in Nat PROVE n % PageCount \in Pages
  <2>1. n % PageCount \in 0 .. PageCount - 1
    BY <1>1, DivMod
  <2> QED
    BY <2>1 DEF Pages
<1> QED
  BY <1>1, <1>2, <1>3 DEF Pages

LEMMA NextBlock ==
  ASSUME NEW p \in Pages, p % Entries = 0
  PROVE  /\ (p + Entries) % Entries = 0
         /\ ((p + Entries) % PageCount) % Entries = 0
<1>0. /\ p \in Int /\ p >= 0 /\ Entries \in Int /\ Entries > 0
      /\ PageCount \in Int /\ PageCount > 0 /\ p + Entries <= PageCount
  <2>1. p + Entries <= PageCount
    BY BlockIsOfPages
  <2> QED
    BY <2>1, EntriesType, PageNumbers DEF Pages
<1>1. (p + Entries) % Entries = 0
  <2> DEFINE k == p \div Entries
             m == k + 1
             n == p + Entries
  <2>1. p = Entries * k + 0 /\ k \in Int
    BY <1>0, DivMod
  <2> HIDE DEF k
  <2>2. n = Entries * m + 0 /\ m \in Int /\ n \in Int /\ 0 \in 0 .. Entries - 1
    BY <1>0, <2>1
  <2> HIDE DEF m, n
  <2>3. n % Entries = 0
    BY <1>0, <2>2, DivModUnique
  <2> QED
    BY <2>3 DEF n
<1>2. CASE p + Entries = PageCount
  <2>1. PageCount % PageCount = 0
    <3>1. PageCount = PageCount * 1 + 0 /\ 0 \in 0 .. PageCount - 1 /\ 1 \in Int
      BY <1>0
    <3> QED
      BY <1>0, <3>1, DivModUnique
  <2> QED
    BY <1>1, <1>2, <2>1, PageNumbers
<1>3. CASE p + Entries < PageCount
  <2>1. (p + Entries) % PageCount = p + Entries
    <3>1. p + Entries = PageCount * 0 + (p + Entries) /\ p + Entries \in 0 .. PageCount - 1
          /\ 0 \in Int /\ p + Entries \in Int
      BY <1>0, <1>3
    <3> QED
      BY <1>0, <3>1, DivModUnique
  <2> QED
    BY <1>1, <2>1
<1> QED
  BY <1>0, <1>1, <1>2, <1>3

LEMMA LeafFits ==
  ASSUME NEW b \in BootTables, NEW leaf \in b, leaf.pages # Span(2)
  PROVE  /\ leaf.at \in Pages /\ leaf.frame \in Nat /\ leaf.flags \subseteq Flags
         /\ leaf.pages \in {1, Entries} /\ leaf.at + leaf.pages \in 0 .. PageCount
         /\ leaf.pages = Entries => leaf.at % Entries = 0
<1>1. /\ leaf.at \in Pages /\ leaf.frame \in Nat /\ leaf.flags \subseteq Flags
      /\ leaf.pages \in {1, Entries} /\ (leaf.pages = Entries => leaf.at % Entries = 0)
  BY PagingAssumption
<1>2. leaf.at + leaf.pages \in 0 .. PageCount
  <2>1. CASE leaf.pages = 1
    BY <1>1, <2>1, PageNumbers DEF Pages
  <2>2. CASE leaf.pages = Entries
    BY <1>1, <2>2, PageNumbers, EntriesType, BlockIsOfPages DEF Pages
  <2> QED
    BY <1>1, <2>1, <2>2
<1> QED
  BY <1>1, <1>2

LEMMA RequestCounts ==
  ASSUME NEW r \in Requests
  PROVE  /\ PartialPages(r) \in Nat /\ r.address \div PageBytes \in Nat /\ r.flags \subseteq Flags
         /\ (Hhdm + r.address \div PageBytes) % PageCount \in Pages
<1>0. /\ PageBytes \in Int /\ PageBytes > 0 /\ r.address \in Nat /\ r.size \in Nat /\ r.flags \subseteq Flags
      /\ Hhdm \in Nat
  BY PagingAssumption, PageNumbers DEF Pages
<1>1. r.address \div PageBytes \in Nat
  BY <1>0, DivMod
<1>2. (Hhdm + r.address \div PageBytes) % PageCount \in Pages
  BY <1>0, <1>1, PageNumbers
<1> DEFINE rounded == r.size + PageBytes - (r.size % PageBytes)
<1>3. rounded \in Nat
  <2>1. r.size % PageBytes \in 0 .. PageBytes - 1
    BY <1>0, DivMod
  <2> QED
    BY <1>0, <2>1
<1>4. PartialPages(r) =
        (IF (r.address % PageBytes) + r.size > rounded THEN rounded + PageBytes ELSE rounded) \div PageBytes
  BY DEF PartialPages
<1> HIDE DEF rounded
<1>5. (rounded + PageBytes) \div PageBytes \in Nat /\ rounded \div PageBytes \in Nat
  <2>1. rounded + PageBytes \in Int /\ rounded + PageBytes >= 0 /\ rounded \in Int /\ rounded >= 0
    BY <1>0, <1>3
  <2> QED
    BY <1>0, <2>1, DivMod
<1>6. PartialPages(r) \in Nat
  BY <1>4, <1>5
<1> QED
  BY <1>0, <1>1, <1>2, <1>6

(* A set of natural numbers that is not empty has a least element: of the     *)
(* intervals from 0 to its elements, one is smallest.                         *)
LEMMA LeastNatural ==
  ASSUME NEW T \in SUBSET Nat, T # {}
  PROVE  \E i \in T : \A k \in T : i <= k
<1> DEFINE Below == {0 .. i : i \in T}
<1>1. Below \subseteq FiniteSubsetsOf(Nat)
  <2>1. ASSUME NEW i \in T PROVE 0 .. i \in SUBSET Nat /\ IsFiniteSet(0 .. i)
    <3>1. 0 \in Int /\ i \in Int
      OBVIOUS
    <3>2. IsFiniteSet(0 .. i)
      BY <3>1, FS_Interval
    <3> QED
      BY <3>2
  <2> QED
    BY <2>1 DEF FiniteSubsetsOf
<1>2. PICK D \in Below : \A E \in Below : <<E, D>> \notin StrictSubsetOrdering(Nat)
  <2>1. Below # {}
    OBVIOUS
  <2> HIDE DEF Below
  <2> QED
    BY <1>1, <2>1, FS_StrictSubsetOrderingWellFounded, WFMin
<1>3. PICK i \in T : D = 0 .. i
  OBVIOUS
<1>4. ASSUME NEW k \in T, k < i PROVE FALSE
  <2>1. 0 .. k \in SUBSET Nat /\ 0 .. i \in SUBSET Nat
    BY <1>4
  <2>2. 0 .. k \subseteq 0 .. i /\ i \in 0 .. i /\ i \notin 0 .. k
    BY <1>4
  <2>3. <<0 .. k, 0 .. i>> \in StrictSubsetOrdering(Nat)
    BY <2>1, <2>2 DEF StrictSubsetOrdering
  <2> QED
    BY <1>2, <1>3, <2>3
<1> QED
  BY <1>4


LEMMA NextLeaf ==
  ASSUME NEW b \in BootTables, NEW a \in Nat
  PROVE  Min({leaf.at : leaf \in {l \in b : l.at > a}} \cup {PageCount}) \in 0 .. PageCount
<1> DEFINE T == {leaf.at : leaf \in {l \in b : l.at > a}} \cup {PageCount}
<1>1. T \subseteq 0 .. PageCount
  BY PagingAssumption, PageNumbers DEF Pages
<1>2. PageCount \in T
  OBVIOUS
<1> HIDE DEF T
<1>3. \E x \in T : \A y \in T : x <= y
  <2>1. T \in SUBSET Nat /\ T # {}
    BY <1>1, <1>2
  <2> QED
    BY <2>1, LeastNatural
<1>4. Min(T) \in T
  BY <1>3 DEF Min
<1>5. Min(T) \in 0 .. PageCount
  BY <1>1, <1>4
<1> QED
  BY <1>5 DEF T

(***************************************************************************)
(* The invariant holds at the start                                        *)
(***************************************************************************)
LEMMA BlankShape ==
  ASSUME NEW P, P = [t \in PoolPages |-> BlankTable]
  PROVE  Shape(P, 0)
<1>1. \A t \in PoolPages, i \in Slots : P[t][i] = Blank
  BY DEF BlankTable, Slots
<1>2. P \in [PoolPages -> [Slots -> Entry]] /\ 0 \in PoolPages
  BY BlankType, PoolType
<1>3. LinksDown(P, 0) /\ LinksUnique(P)
  BY <1>1, BlankType DEF LinksDown, LinksUnique
<1>4. UnusedBlank(P, 0) /\ NoneIsBlank(P)
  BY <1>1 DEF UnusedBlank, NoneIsBlank, PoolPages
<1>5. KindsByLevel(P)
  <2> SUFFICES ASSUME NEW p \in Pages, NEW l \in 1 .. 4, Reaches(P, p, l)
               PROVE  EntryAt(P, p, l).kind \in KindsOf(l)
    BY DEF KindsByLevel
  <2>1. EntryAt(P, p, 1) = Blank
    <3>1. Index(p, 1) \in Slots
      BY IndexType, PagesType
    <3> QED
      BY <1>1, <1>2, <3>1 DEF EntryAt, Entry1
  <2>2. l = 1
    BY <2>1, BlankType DEF Reaches, EntryAt
  <2> QED
    BY <2>1, <2>2, BlankType DEF KindsOf
<1> QED
  BY <1>2, <1>3, <1>4, <1>5 DEF Shape

LEMMA InitKeeps ==
  ASSUME Init
  PROVE  IInv
<1>1. PoolInShape
  BY BlankShape DEF Init, PoolInShape, PoolPages
<1>2. TypeOK
  <2>1. pool \in [0 .. (PoolSize - 1) -> [0 .. (Entries - 1) -> Entry]]
    BY BlankType DEF Init, Slots
  <2>2. used \in 0 .. (PoolSize - 1) /\ node \in 0 .. (PoolSize - 1) /\ level \in 1 .. 4
    BY PoolType DEF Init
  <2>3. job \in [at : Pages, frame : Nat, flags : SUBSET Flags, pages : {1, Entries}, left : Nat]
    BY PageNumbers DEF Init, NoJob
  <2>4. at \in 0 .. PageCount
    BY PageNumbers DEF Init
  <2> QED
    BY <2>1, <2>2, <2>3, <2>4 DEF Init, TypeOK
<1>3. Linked
  BY DEF Init, Linked
<1>4. OnPath /\ Filled
  BY DEF Init, OnPath, Filled
<1>5. Aligned
  BY EntriesType DEF Init, Aligned, NoRange, NoJob
<1> QED
  BY <1>1, <1>2, <1>3, <1>4, <1>5 DEF IInv

(***************************************************************************)
(* Steps that leave the tables alone                                       *)
(***************************************************************************)
LEMMA TablesStay ==
  ASSUME IInv, UNCHANGED tables, pc' # "start", pc \in {"walk", "map", "idle"} \/ pc' = "panic"
  PROVE  PoolInShape' /\ Linked'
<1>1. pool' = pool /\ used' = used
  BY DEF tables
<1>2. PoolInShape'
  BY <1>1 DEF IInv, PoolInShape
<1>3. Linked'
  BY <1>1 DEF IInv, Linked
<1> QED
  BY <1>2, <1>3

LEMMA WalkKeeps ==
  ASSUME IInv, pc = "walk", UNCHANGED <<given, cr3, tables, job, path, wanted>>,
         pc' \in {"walk", "idle", "panic"}, why' \in {"none", "limine", "1GB", "pool", "exists"},
         at' \in 0 .. PageCount,
         range' \in {NoRange} \cup [at : Pages, frame : Nat, flags : SUBSET Flags,
                                    pages : {1, Entries}, count : Nat],
         range'.pages = Entries => range'.at % Entries = 0
  PROVE  IInv'
<1>1. /\ boot' = boot /\ memmap' = memmap /\ supported' = supported /\ cr3' = cr3
      /\ pool' = pool /\ used' = used /\ job' = job /\ node' = node /\ level' = level /\ wanted' = wanted
  BY DEF given, tables, path
<1>2. TypeOK'
  BY <1>1 DEF IInv, TypeOK
<1>3. PoolInShape' /\ Linked'
  BY TablesStay
<1>4. OnPath'
  BY DEF OnPath
<1>5. Filled'
  BY <1>1 DEF IInv, Filled
<1>6. Aligned'
  BY <1>1 DEF IInv, Aligned
<1> QED
  BY <1>2, <1>3, <1>4, <1>5, <1>6 DEF IInv

LEMMA InitRefusesKeeps ==
  ASSUME IInv, InitRefuses
  PROVE  IInv'
<1>1. /\ boot' = boot /\ memmap' = memmap /\ supported' = supported /\ cr3' = cr3
      /\ pool' = pool /\ used' = used /\ at' = at /\ range' = range /\ job' = job
      /\ node' = node /\ level' = level /\ wanted' = wanted /\ pc' = "panic" /\ why' = "limine"
  BY DEF InitRefuses, Panic, given, tables, walk, path
<1>2. TypeOK'
  BY <1>1 DEF IInv, TypeOK
<1>3. PoolInShape' /\ Linked'
  BY <1>1, TablesStay DEF tables
<1>4. OnPath' /\ Filled' /\ Aligned'
  BY <1>1 DEF IInv, OnPath, Filled, Aligned
<1> QED
  BY <1>2, <1>3, <1>4 DEF IInv

LEMMA StartWalkKeeps ==
  ASSUME IInv, StartWalk
  PROVE  IInv'
<1>1. /\ boot' = boot /\ memmap' = memmap /\ supported' = supported /\ cr3' = cr3
      /\ pool' = pool /\ used' = 1 /\ at' = at /\ range' = range /\ job' = job
      /\ node' = node /\ level' = level /\ wanted' = wanted /\ pc' = "walk" /\ why' = why
  BY DEF StartWalk, given, walk, path, IInv, PoolInShape
<1>2. TypeOK'
  <2>1. 1 \in 0 .. (PoolSize - 1)
    BY PoolType
  <2> QED
    BY <1>1, <2>1 DEF IInv, TypeOK
<1>3. PoolInShape'
  <2>1. Shape(pool, 0) /\ 1 \in PoolPages
    BY PoolType DEF StartWalk, IInv, PoolInShape, PoolPages
  <2>2. LinksDown(pool, 1)
    BY <2>1 DEF Shape, LinksDown, PoolPages
  <2>3. UnusedBlank(pool, 1)
    BY <2>1, PoolType DEF Shape, UnusedBlank
  <2>4. Shape(pool, 1)
    BY <2>1, <2>2, <2>3 DEF Shape
  <2> QED
    BY <1>1, <2>4 DEF PoolInShape
<1>4. Linked' /\ OnPath' /\ Filled'
  BY <1>1 DEF Linked, OnPath, Filled
<1>5. Aligned'
  BY <1>1 DEF IInv, Aligned
<1> QED
  BY <1>2, <1>3, <1>4, <1>5 DEF IInv

LEMMA RangeType ==
  ASSUME IInv, Open
  PROVE  range \in [at : Pages, frame : Nat, flags : SUBSET Flags, pages : {1, Entries}, count : Nat]
BY DEF IInv, TypeOK, Open, NoRange

LEMMA KeptType == ASSUME NEW flags \in SUBSET Flags PROVE Kept(flags) \in SUBSET Flags
BY DEF Kept

LEMMA OpenRangeKeeps ==
  ASSUME IInv, OpenRange
  PROVE  IInv'
<1>1. PICK leaf \in LeafAt(at) :
        /\ pc = "walk" /\ leaf.pages # Span(2)
        /\ range' = [at |-> at, frame |-> leaf.frame, flags |-> Kept(leaf.flags),
                     pages |-> leaf.pages, count |-> 1]
        /\ at' = at + leaf.pages
        /\ UNCHANGED <<given, cr3, tables, pc, why, job, path, wanted>>
  BY DEF OpenRange
<1>2. boot \in BootTables /\ leaf \in boot /\ leaf.at = at /\ why \in {"none", "limine", "1GB", "pool", "exists"}
  BY DEF LeafAt, IInv, TypeOK
<1>3. /\ at \in Pages /\ leaf.frame \in Nat /\ leaf.flags \subseteq Flags
      /\ leaf.pages \in {1, Entries} /\ at + leaf.pages \in 0 .. PageCount
      /\ leaf.pages = Entries => at % Entries = 0
  BY <1>1, <1>2, LeafFits
<1>4. range' \in [at : Pages, frame : Nat, flags : SUBSET Flags, pages : {1, Entries}, count : Nat]
  BY <1>1, <1>3, KeptType
<1>5. range'.pages = Entries => range'.at % Entries = 0
  BY <1>1, <1>3
<1> QED
  BY <1>1, <1>2, <1>3, <1>4, <1>5, WalkKeeps

LEMMA ExtendRangeKeeps ==
  ASSUME IInv, ExtendRange
  PROVE  IInv'
<1>1. PICK leaf \in LeafAt(at) :
        /\ pc = "walk" /\ leaf.pages # Span(2) /\ Open
        /\ range' = [range EXCEPT !.count = @ + 1]
        /\ at' = at + leaf.pages
        /\ UNCHANGED <<given, cr3, tables, pc, why, job, path, wanted>>
  BY DEF ExtendRange
<1>2. boot \in BootTables /\ leaf \in boot /\ leaf.at = at /\ why \in {"none", "limine", "1GB", "pool", "exists"}
  BY DEF LeafAt, IInv, TypeOK
<1>3. at + leaf.pages \in 0 .. PageCount
  BY <1>1, <1>2, LeafFits
<1>4. range \in [at : Pages, frame : Nat, flags : SUBSET Flags, pages : {1, Entries}, count : Nat]
  BY <1>1, RangeType
<1>5. /\ range' \in [at : Pages, frame : Nat, flags : SUBSET Flags, pages : {1, Entries}, count : Nat]
      /\ range'.pages = range.pages /\ range'.at = range.at
  BY <1>1, <1>4
<1>6. range'.pages = Entries => range'.at % Entries = 0
  BY <1>5 DEF IInv, Aligned
<1> QED
  BY <1>1, <1>2, <1>3, <1>5, <1>6, WalkKeeps

LEMMA RangeNow ==
  ASSUME IInv
  PROVE  /\ boot \in BootTables /\ at \in 0 .. PageCount
         /\ why \in {"none", "limine", "1GB", "pool", "exists"}
         /\ range \in {NoRange} \cup [at : Pages, frame : Nat, flags : SUBSET Flags,
                                      pages : {1, Entries}, count : Nat]
         /\ range.pages = Entries => range.at % Entries = 0
BY DEF IInv, TypeOK, Aligned

LEMMA HugeLeafKeeps ==
  ASSUME IInv, HugeLeaf
  PROVE  IInv'
<1>1. /\ pc = "walk" /\ pc' = "panic" /\ why' = "1GB" /\ at' = at /\ range' = range
      /\ UNCHANGED <<given, cr3, tables, job, path, wanted>>
  BY DEF HugeLeaf, Panic, walk
<1> QED
  BY <1>1, RangeNow, WalkKeeps

LEMMA SkipMissingKeeps ==
  ASSUME IInv, SkipMissing
  PROVE  IInv'
<1>1. /\ pc = "walk" /\ pc' = "walk" /\ why' = why /\ range' = range
      /\ UNCHANGED <<given, cr3, tables, job, path, wanted>>
  BY DEF SkipMissing
<1>2. at' \in 0 .. PageCount
  <2>1. at \in Nat
    BY RangeNow, PageNumbers
  <2> QED
    BY <2>1, RangeNow, NextLeaf DEF SkipMissing
<1> QED
  BY <1>1, <1>2, RangeNow, WalkKeeps

LEMMA DropRangeKeeps ==
  ASSUME IInv, DropRange
  PROVE  IInv'
<1>1. /\ pc = "walk" /\ pc' = "walk" /\ why' = why /\ at' = at /\ range' = NoRange
      /\ UNCHANGED <<given, cr3, tables, job, path, wanted>>
  BY DEF DropRange, RangeEnds
<1>2. NoRange.pages # Entries
  BY EntriesType DEF NoRange
<1> QED
  BY <1>1, <1>2, RangeNow, WalkKeeps

LEMMA LoadCr3Keeps ==
  ASSUME IInv, LoadCr3
  PROVE  IInv'
<1>1. /\ boot' = boot /\ memmap' = memmap /\ supported' = supported /\ cr3' = "kernel"
      /\ pool' = pool /\ used' = used /\ at' = at /\ range' = range /\ job' = job
      /\ node' = node /\ level' = level /\ wanted' = wanted
      /\ pc = "walk" /\ pc' = "idle" /\ why' = why
  BY DEF LoadCr3, given, tables, walk, path
<1>2. TypeOK'
  BY <1>1 DEF IInv, TypeOK
<1>3. PoolInShape' /\ Linked'
  BY <1>1, TablesStay DEF tables
<1>4. OnPath' /\ Filled' /\ Aligned'
  BY <1>1 DEF IInv, OnPath, Filled, Aligned
<1> QED
  BY <1>2, <1>3, <1>4 DEF IInv

(***************************************************************************)
(* A call of mapMemory begins                                              *)
(***************************************************************************)
LEMMA CallKeeps ==
  ASSUME IInv, pc \in {"walk", "idle"}, UNCHANGED <<given, cr3, tables, why, at>>,
         pc' = "map", node' = 0, level' = 1,
         range' \in {NoRange, range}, wanted' \in Requests \cup {Idle},
         job' \in [at : Pages, frame : Nat, flags : SUBSET Flags, pages : {1, Entries}, left : Nat],
         job'.pages = Entries => job'.at % Entries = 0
  PROVE  IInv'
<1>1. /\ boot' = boot /\ memmap' = memmap /\ supported' = supported /\ cr3' = cr3
      /\ pool' = pool /\ used' = used /\ at' = at /\ why' = why
  BY DEF given, tables
<1>2. TypeOK'
  <2>1. range' \in {NoRange} \cup [at : Pages, frame : Nat, flags : SUBSET Flags,
                                   pages : {1, Entries}, count : Nat]
    BY RangeNow
  <2>2. node' \in 0 .. (PoolSize - 1) /\ level' \in 1 .. 4
    BY PoolType
  <2> QED
    BY <1>1, <2>1, <2>2 DEF IInv, TypeOK
<1>3. PoolInShape' /\ Linked'
  BY TablesStay
<1>4. OnPath'
  BY <1>1, DescentBegins DEF OnPath
<1>5. Filled'
  BY <1>1 DEF IInv, Filled
<1>6. Aligned'
  BY EntriesType, RangeNow DEF Aligned, NoRange
<1> QED
  BY <1>2, <1>3, <1>4, <1>5, <1>6 DEF IInv

LEMMA MapRangeKeeps ==
  ASSUME IInv, MapRange
  PROVE  IInv'
<1>1. /\ pc = "walk" /\ pc' = "map" /\ range' = NoRange /\ node' = 0 /\ level' = 1 /\ Open
      /\ job' = [at |-> range.at, frame |-> range.frame, flags |-> range.flags,
                 pages |-> range.pages, left |-> range.count]
      /\ UNCHANGED <<given, cr3, tables, why, at>> /\ wanted' = wanted
  BY DEF MapRange, RangeEnds
<1>2. range \in [at : Pages, frame : Nat, flags : SUBSET Flags, pages : {1, Entries}, count : Nat]
  BY <1>1, RangeType
<1>3. job' \in [at : Pages, frame : Nat, flags : SUBSET Flags, pages : {1, Entries}, left : Nat]
  BY <1>1, <1>2
<1>4. job'.pages = Entries => job'.at % Entries = 0
  BY <1>1, RangeNow
<1>5. wanted' \in Requests \cup {Idle}
  BY <1>1 DEF IInv, TypeOK
<1> QED
  BY <1>1, <1>3, <1>4, <1>5, CallKeeps

LEMMA MapPartialKeeps ==
  ASSUME IInv, NEW r \in Requests, MapPartial(r)
  PROVE  IInv'
<1>1. /\ pc = "idle" /\ pc' = "map" /\ node' = 0 /\ level' = 1 /\ wanted' = r /\ range' = range
      /\ job' = [at |-> (Hhdm + r.address \div PageBytes) % PageCount,
                 frame |-> r.address \div PageBytes, flags |-> r.flags,
                 pages |-> 1, left |-> PartialPages(r)]
      /\ UNCHANGED <<given, cr3, tables, why, at>>
  BY DEF MapPartial, walk
<1>2. job' \in [at : Pages, frame : Nat, flags : SUBSET Flags, pages : {1, Entries}, left : Nat]
  BY <1>1, RequestCounts
<1>3. job'.pages # Entries
  BY <1>1, EntriesType
<1> QED
  BY <1>1, <1>2, <1>3, CallKeeps

(***************************************************************************)
(* The steps of mapMemory                                                  *)
(***************************************************************************)
LEMMA MapNow ==
  ASSUME IInv, pc = "map"
  PROVE  /\ Shape(pool, used) /\ used > 0 /\ used \in PoolPages
         /\ job.at \in Pages /\ level \in 1 .. 4 /\ Reaches(pool, job.at, level)
         /\ node = NodeAt(pool, job.at, level) /\ node \in PoolPages /\ node < used
         /\ Slot = Index(job.at, level) /\ Slot \in Slots
         /\ Here = EntryAt(pool, job.at, level) /\ Here \in Entry /\ Here.kind \in KindsOf(level)
         /\ job \in [at : Pages, frame : Nat, flags : SUBSET Flags, pages : {1, Entries}, left : Nat]
         /\ pool \in [PoolPages -> [Slots -> Entry]]
<1>1. /\ Shape(pool, used) /\ used > 0 /\ used \in PoolPages
      /\ pool \in [PoolPages -> [Slots -> Entry]] /\ KindsByLevel(pool)
  BY DEF IInv, PoolInShape, Shape
<1>2. job \in [at : Pages, frame : Nat, flags : SUBSET Flags, pages : {1, Entries}, left : Nat]
      /\ level \in 1 .. 4
  BY DEF IInv, TypeOK
<1>3. job.at \in Pages
  BY <1>2
<1>4. Reaches(pool, job.at, level) /\ node = NodeAt(pool, job.at, level)
  BY DEF IInv, OnPath
<1>5. node \in PoolPages /\ Index(job.at, level) \in Slots /\ EntryAt(pool, job.at, level) \in Entry
      /\ (level > 1 => node < used)
  BY <1>1, <1>2, <1>3, <1>4, NodeType
<1>6. node < used
  BY <1>1, <1>2, <1>4, <1>5, DescentBegins
<1>7. Here = EntryAt(pool, job.at, level)
  BY <1>2, <1>4, EntryOfNode DEF Here, Slot
<1>8. EntryAt(pool, job.at, level).kind \in KindsOf(level)
  BY <1>1, <1>2, <1>3, <1>4 DEF KindsByLevel
<1> QED
  BY <1>1, <1>2, <1>3, <1>4, <1>5, <1>6, <1>7, <1>8 DEF Slot

(* Below the leaf level there is a next level. *)
LEMMA Deeper ==
  ASSUME IInv, Mapping, ~AtLeaf
  PROVE  level \in 1 .. 3 /\ level + 1 \in 1 .. 4 /\ (level + 1 = 4 => job.pages # Entries) /\ job.left # 0
<1>1. level \in 1 .. 4 /\ job.left \in Nat
  BY MapNow DEF Mapping
<1> QED
  BY <1>1 DEF Mapping, AtLeaf

LEMMA DescendKeeps ==
  ASSUME IInv, Descend
  PROVE  IInv'
<1>1. /\ boot' = boot /\ memmap' = memmap /\ supported' = supported /\ cr3' = cr3
      /\ pool' = pool /\ used' = used /\ at' = at /\ range' = range /\ job' = job
      /\ wanted' = wanted /\ pc' = "map" /\ pc = "map" /\ why' = why
      /\ node' = Here.to /\ level' = level + 1 /\ Here.kind = "table"
  BY DEF Descend, Mapping, given, tables, walk
<1>2. level \in 1 .. 3 /\ level' \in 1 .. 4 /\ (level' = 4 => job.pages # Entries) /\ job.left # 0
  BY <1>1, Deeper DEF Descend
<1>3. Reaches(pool, job.at, level') /\ node' = NodeAt(pool, job.at, level')
  BY <1>1, <1>2, MapNow, DescentGoesOn
<1>4. node' \in PoolPages
  BY <1>1, <1>2, <1>3, MapNow, NodeType
<1>5. TypeOK'
  BY <1>1, <1>2, <1>4 DEF IInv, TypeOK, PoolPages
<1>6. PoolInShape' /\ Linked'
  BY <1>1, TablesStay DEF tables
<1>7. OnPath'
  BY <1>1, <1>2, <1>3 DEF OnPath
<1>8. Filled'
  <2>1. pool[node] # BlankTable
    <3>1. Here.kind # "none" /\ Slot \in Slots
      BY <1>1, MapNow
    <3> QED
      BY <3>1, BlankType DEF Here, BlankTable, Slots
  <2> QED
    BY <1>1, <2>1 DEF IInv, Filled
<1>9. Aligned'
  BY <1>1 DEF IInv, Aligned
<1> QED
  BY <1>5, <1>6, <1>7, <1>8, <1>9 DEF IInv

LEMMA PanicKeeps ==
  ASSUME IInv, pc = "map", pc' = "panic", why' \in {"none", "limine", "1GB", "pool", "exists"},
         UNCHANGED <<given, cr3, tables, walk, job, path, wanted>>
  PROVE  IInv'
<1>1. /\ boot' = boot /\ memmap' = memmap /\ supported' = supported /\ cr3' = cr3
      /\ pool' = pool /\ used' = used /\ at' = at /\ range' = range /\ job' = job
      /\ node' = node /\ level' = level /\ wanted' = wanted
  BY DEF given, tables, walk, path
<1>2. TypeOK'
  BY <1>1 DEF IInv, TypeOK
<1>3. PoolInShape' /\ Linked'
  BY <1>1, TablesStay DEF tables
<1>4. OnPath' /\ Filled' /\ Aligned'
  BY <1>1 DEF IInv, OnPath, Filled, Aligned
<1> QED
  BY <1>2, <1>3, <1>4 DEF IInv

LEMMA MapReturnsKeeps ==
  ASSUME IInv, MapReturns
  PROVE  IInv'
<1>1. /\ boot' = boot /\ memmap' = memmap /\ supported' = supported /\ cr3' = cr3
      /\ pool' = pool /\ used' = used /\ at' = at /\ range' = range /\ job' = NoJob
      /\ node' = node /\ level' = level /\ wanted' = Idle /\ pc = "map" /\ job.left = 0
      /\ pc' \in {"walk", "idle"} /\ why' = why
  BY DEF MapReturns, Mapped, given, tables, walk, path
<1>2. NoJob \in [at : Pages, frame : Nat, flags : SUBSET Flags, pages : {1, Entries}, left : Nat]
      /\ NoJob.pages # Entries
  BY PageNumbers, EntriesType DEF NoJob
<1>3. TypeOK'
  BY <1>1, <1>2 DEF IInv, TypeOK
<1>4. PoolInShape' /\ Linked'
  BY <1>1, TablesStay DEF tables
<1>5. OnPath'
  BY <1>1 DEF OnPath
<1>6. Filled'
  <2>1. node = 0
    BY <1>1, DescentBegins DEF IInv, OnPath
  <2>2. \A t \in 1 .. used - 1 : t # node
    BY <2>1
  <2> QED
    BY <1>1, <2>2 DEF IInv, Filled
<1>7. Aligned'
  BY <1>1, <1>2 DEF IInv, Aligned
<1> QED
  BY <1>3, <1>4, <1>5, <1>6, <1>7 DEF IInv

(* The turn of a page ends. *)
LEMMA HugeInTheWayKeeps ==
  ASSUME IInv, HugeInTheWay
  PROVE  IInv'
<1>1. /\ boot' = boot /\ memmap' = memmap /\ supported' = supported /\ cr3' = cr3
      /\ pool' = pool /\ used' = used /\ at' = at /\ range' = range
      /\ wanted' = wanted /\ pc' = "map" /\ pc = "map" /\ why' = why
      /\ node' = 0 /\ level' = 1 /\ job' = [job EXCEPT !.left = @ - 1]
      /\ Here.kind = "huge" /\ job.left > 0
  BY DEF HugeInTheWay, Mapping, given, tables, walk
<1>2. /\ job' \in [at : Pages, frame : Nat, flags : SUBSET Flags, pages : {1, Entries}, left : Nat]
      /\ job'.pages = job.pages /\ job'.at = job.at
  <2>1. job \in [at : Pages, frame : Nat, flags : SUBSET Flags, pages : {1, Entries}, left : Nat]
    BY <1>1, MapNow
  <2>2. job.left - 1 \in Nat
    BY <1>1, <2>1
  <2> QED
    BY <1>1, <2>1, <2>2
<1>3. node' \in 0 .. (PoolSize - 1) /\ level' \in 1 .. 4
  BY <1>1, PoolType
<1>4. TypeOK'
  BY <1>1, <1>2, <1>3 DEF IInv, TypeOK
<1>5. PoolInShape' /\ Linked'
  BY <1>1, TablesStay DEF tables
<1>6. OnPath'
  BY <1>1, DescentBegins DEF OnPath
<1>7. Filled'
  <2>1. pool[node] # BlankTable
    <3>1. Here.kind # "none" /\ Slot \in Slots
      BY <1>1, MapNow
    <3> QED
      BY <3>1, BlankType DEF Here, BlankTable, Slots
  <2> QED
    BY <1>1, <2>1 DEF IInv, Filled
<1>8. Aligned'
  BY <1>1, <1>2 DEF IInv, Aligned
<1> QED
  BY <1>4, <1>5, <1>6, <1>7, <1>8 DEF IInv

(***************************************************************************)
(* A table is added                                                        *)
(***************************************************************************)
LEMMA TableAdded ==
  ASSUME IInv, AddTable
  PROVE  /\ Linkable(pool, used, job.at, level)
         /\ pool' = Write(pool, job.at, level, Link(used)) /\ used' = used + 1
<1>1. /\ pc = "map" /\ Here.kind = "none" /\ ~PoolEmpty /\ used' = used + 1
      /\ pool' = [pool EXCEPT ![used] = BlankTable, ![node][Slot] = Link(used)]
  BY DEF AddTable, Mapping
<1>2. level \in 1 .. 3
  BY Deeper DEF AddTable
<1>3. used + 1 \in PoolPages
  BY <1>1, MapNow, PoolType DEF PoolEmpty, PoolPages
<1>4. Here = Blank
  BY <1>1, MapNow DEF Here, Shape, NoneIsBlank
<1>5. Linkable(pool, used, job.at, level)
  BY <1>1, <1>2, <1>3, <1>4, MapNow DEF Linkable, Writable
<1>6. pool[used] = BlankTable
  BY <1>1, MapNow, PoolType DEF Shape, UnusedBlank, PoolPages
<1>7. pool' = Write(pool, job.at, level, Link(used))
  <2>1. [pool EXCEPT ![used] = BlankTable] = pool
    BY <1>1, <1>6, MapNow
  <2>2. pool' = [[pool EXCEPT ![used] = BlankTable] EXCEPT ![node][Slot] = Link(used)]
    BY <1>1
  <2>3. pool' = [pool EXCEPT ![node][Slot] = Link(used)]
    BY <2>1, <2>2
  <2> QED
    BY <1>1, <2>3, MapNow DEF Write
<1> QED
  BY <1>1, <1>5, <1>7

LEMMA AddTableKeeps ==
  ASSUME IInv, AddTable
  PROVE  IInv'
<1>1. /\ boot' = boot /\ memmap' = memmap /\ supported' = supported /\ cr3' = cr3
      /\ at' = at /\ range' = range /\ job' = job
      /\ wanted' = wanted /\ pc' = "map" /\ pc = "map" /\ why' = why
      /\ used' = used + 1 /\ node' = used /\ level' = level + 1
  BY DEF AddTable, Mapping, given, walk
<1>2. Linkable(pool, used, job.at, level) /\ pool' = Write(pool, job.at, level, Link(used))
  BY TableAdded
<1>3. level \in 1 .. 3 /\ level' \in 1 .. 4 /\ (level' = 4 => job.pages # Entries) /\ job.left # 0
  BY <1>1, Deeper DEF AddTable
<1>4. /\ used \in PoolPages /\ used' \in PoolPages /\ used > 0 /\ Shape(pool', used')
      /\ pool' \in [PoolPages -> [Slots -> Entry]]
  BY <1>1, <1>2, LinkKeepsShape, MapNow DEF Shape
<1>5. TypeOK'
  BY <1>1, <1>3, <1>4 DEF IInv, TypeOK, PoolPages, Slots
<1>6. PoolInShape'
  BY <1>1, <1>4 DEF PoolInShape, PoolPages
<1>7. /\ \A t \in PoolPages, i \in Slots :
           pool'[t][i] = IF t = node /\ i = Slot THEN Link(used) ELSE pool[t][i]
      /\ node \in PoolPages /\ node < used /\ Slot \in Slots /\ Here.kind = "none" /\ Here = pool[node][Slot]
  BY <1>1, <1>2, EntriesWritten, MapNow DEF Linkable, AddTable, Here
<1>8. Linked'
  <2> SUFFICES ASSUME NEW t \in 1 .. used' - 1
               PROVE  \E s \in 0 .. t - 1, i \in Slots : pool'[s][i] = Link(t)
    BY DEF Linked
  <2>1. CASE t = used
    <3>1. node \in 0 .. t - 1 /\ pool'[node][Slot] = Link(t)
      BY <1>4, <1>7, <2>1 DEF PoolPages
    <3> QED
      BY <1>7, <3>1
  <2>2. CASE t # used
    <3>1. t \in 1 .. used - 1
      BY <1>1, <1>4, <2>2 DEF PoolPages
    <3>2. PICK s \in 0 .. t - 1, i \in Slots : pool[s][i] = Link(t)
      BY <3>1 DEF IInv, Linked
    <3>3. s \in PoolPages
      BY <1>4, <3>1, PoolType DEF PoolPages
    <3>4. pool'[s][i] = pool[s][i]
      BY <1>7, <3>2, <3>3 DEF Link
    <3> QED
      BY <3>2, <3>4
  <2> QED
    BY <2>1, <2>2
<1>9. OnPath'
  <2>1. /\ Reaches(pool', job.at, level) /\ EntryAt(pool', job.at, level) = Link(used)
    <3>1. Alike(job.at, job.at, level)
      BY DEF Alike
    <3>2. PathKept(pool, pool', job.at, level, Link(used), job.at, level)
      BY <1>1, <1>2, MapNow, PathsKept DEF Linkable
    <3> QED
      BY <1>1, <3>1, <3>2, MapNow DEF PathKept
  <2>2. Reaches(pool', job.at, level + 1) /\ NodeAt(pool', job.at, level + 1) = used
    BY <1>3, <1>4, <2>1, DescentGoesOn, LinkType
  <2> QED
    BY <1>1, <1>3, <2>2 DEF OnPath
<1>10. Filled'
  <2> SUFFICES ASSUME NEW t \in 1 .. used' - 1, t # used
               PROVE  pool'[t] # BlankTable
    BY <1>1 DEF Filled
  <2>1. t \in 1 .. used - 1 /\ t \in PoolPages
    BY <1>1, <1>4, PoolType DEF PoolPages
  <2>2. \A i \in Slots : BlankTable[i].kind = "none"
    BY BlankType DEF BlankTable, Slots
  <2>3. CASE t = node
    <3>1. pool'[node][Slot].kind = "table"
      BY <1>4, <1>7, LinkType
    <3> QED
      BY <1>7, <2>2, <2>3, <3>1
  <2>4. CASE t # node
    <3>1. pool[t] # BlankTable
      BY <1>1, <2>1, <2>4 DEF IInv, Filled
    <3>2. pool[t] \in [Slots -> Entry] /\ pool'[t] \in [Slots -> Entry]
      BY <1>1, <1>4, <2>1, MapNow
    <3>3. \A i \in Slots : pool'[t][i] = pool[t][i]
      BY <1>7, <2>1, <2>4
    <3> QED
      BY <3>1, <3>2, <3>3
  <2> QED
    BY <2>3, <2>4
<1>11. Aligned'
  BY <1>1 DEF IInv, Aligned
<1> QED
  BY <1>5, <1>6, <1>8, <1>9, <1>10, <1>11 DEF IInv

(***************************************************************************)
(* An entry is set                                                         *)
(***************************************************************************)
LEMMA EntrySet ==
  ASSUME IInv, SetEntry, Here # NewEntry
  PROVE  /\ Settable(pool, used, job.at, level, NewEntry) /\ NodeAt(pool, job.at, level) < used
         /\ Here = Blank /\ pool' = Write(pool, job.at, level, NewEntry)
<1>1. pc = "map" /\ AtLeaf /\ Here = Blank /\ pool' = [pool EXCEPT ![node][Slot] = NewEntry]
  BY DEF SetEntry, Mapping, Conflict
<1>2. level \in {3, 4} /\ (level = 3 => job.pages = Entries) /\ (level = 4 => job.pages # Entries)
  BY <1>1 DEF AtLeaf, IInv, OnPath
<1>3. NewEntry \in Entry /\ NewEntry.kind \in {"page", "huge"} /\ NewEntry.kind \in KindsOf(level)
  <2>1. job \in [at : Pages, frame : Nat, flags : SUBSET Flags, pages : {1, Entries}, left : Nat]
    BY <1>1, MapNow
  <2>2. NewEntry = [kind |-> IF job.pages = Entries THEN "huge" ELSE "page", to |-> job.frame, flags |-> job.flags]
    BY DEF NewEntry, Leaf
  <2>3. NewEntry \in Entry
    BY <2>1, <2>2 DEF Entry
  <2> QED
    BY <1>2, <2>2, <2>3 DEF KindsOf
<1>4. Writable(pool, used, job.at, level)
  BY <1>1, MapNow, BlankType DEF Writable
<1> QED
  BY <1>1, <1>2, <1>3, <1>4, MapNow DEF Settable, Write

LEMMA SetEntryKeeps ==
  ASSUME IInv, SetEntry
  PROVE  IInv'
<1>1. /\ boot' = boot /\ memmap' = memmap /\ supported' = supported /\ cr3' = cr3
      /\ used' = used /\ at' = at /\ range' = range
      /\ wanted' = wanted /\ pc' = "map" /\ pc = "map" /\ why' = why
      /\ node' = 0 /\ level' = 1 /\ job.left > 0
      /\ job' = [job EXCEPT !.left = @ - 1, !.frame = @ + job.pages, !.at = (@ + job.pages) % PageCount]
  BY DEF SetEntry, NextPage, Mapping, given, walk
<1>2. /\ job' \in [at : Pages, frame : Nat, flags : SUBSET Flags, pages : {1, Entries}, left : Nat]
      /\ job'.pages = Entries => job'.at % Entries = 0
  <2>1. job \in [at : Pages, frame : Nat, flags : SUBSET Flags, pages : {1, Entries}, left : Nat]
    BY <1>1, MapNow
  <2>2. job.left - 1 \in Nat /\ job.frame + job.pages \in Nat /\ job.at + job.pages \in Nat
    BY <1>1, <2>1, PagesType, EntriesType
  <2>3. (job.at + job.pages) % PageCount \in Pages
    BY <2>2, PageNumbers
  <2>4. job' \in [at : Pages, frame : Nat, flags : SUBSET Flags, pages : {1, Entries}, left : Nat]
        /\ job'.pages = job.pages /\ job'.at = (job.at + job.pages) % PageCount
    BY <1>1, <2>1, <2>2, <2>3
  <2>5. job.pages = Entries => job'.at % Entries = 0
    BY <2>1, <2>4, NextBlock DEF IInv, Aligned
  <2> QED
    BY <2>4, <2>5
<1>3. Shape(pool, used) /\ used > 0 /\ pool \in [PoolPages -> [Slots -> Entry]]
      /\ node \in PoolPages /\ Slot \in Slots /\ Here = pool[node][Slot]
  BY <1>1, MapNow DEF Here
<1>4. NewEntry.kind \in {"page", "huge"}
  BY DEF NewEntry, Leaf
<1>5. Shape(pool', used) /\ pool' = [pool EXCEPT ![node][Slot] = NewEntry]
  <2>1. CASE Here = NewEntry
    BY <1>3, <2>1 DEF SetEntry
  <2>2. CASE Here # NewEntry
    BY <2>2, EntrySet, LeafKeepsShape DEF SetEntry
  <2> QED
    BY <2>1, <2>2
<1>6. pool' \in [PoolPages -> [Slots -> Entry]]
  BY <1>5 DEF Shape
<1>7. TypeOK'
  <2>1. node' \in 0 .. (PoolSize - 1) /\ level' \in 1 .. 4
    BY <1>1, PoolType
  <2> QED
    BY <1>1, <1>2, <1>6, <2>1 DEF IInv, TypeOK, PoolPages, Slots
<1>8. PoolInShape'
  BY <1>1, <1>3, <1>5 DEF PoolInShape
<1>9. \A t \in PoolPages, i \in Slots :
        pool'[t][i] = IF t = node /\ i = Slot THEN NewEntry ELSE pool[t][i]
  BY <1>3, <1>5
<1>10. pool[node][Slot].kind # "table"
  <2>1. Here = Blank \/ Here = NewEntry
    BY DEF SetEntry, Conflict
  <2> QED
    BY <1>3, <1>4, <2>1, BlankType
<1>11. Linked'
  <2> SUFFICES ASSUME NEW t \in 1 .. used - 1
               PROVE  \E s \in 0 .. t - 1, i \in Slots : pool'[s][i] = Link(t)
    BY <1>1 DEF Linked
  <2>1. PICK s \in 0 .. t - 1, i \in Slots : pool[s][i] = Link(t)
    BY DEF IInv, Linked
  <2>2. s \in PoolPages
    BY PoolType DEF PoolPages, IInv, PoolInShape, Shape
  <2>3. pool'[s][i] = pool[s][i]
    BY <1>9, <1>10, <2>1, <2>2 DEF Link
  <2> QED
    BY <2>1, <2>3
<1>12. OnPath'
  BY <1>1, DescentBegins DEF OnPath
<1>13. Filled'
  <2> SUFFICES ASSUME NEW t \in 1 .. used - 1
               PROVE  pool'[t] # BlankTable
    BY <1>1 DEF Filled
  <2>1. t \in PoolPages
    BY PoolType DEF PoolPages, IInv, PoolInShape, Shape
  <2>2. CASE t = node
    <3>1. pool'[node][Slot].kind # "none"
      BY <1>3, <1>4, <1>9
    <3>2. BlankTable[Slot].kind = "none"
      BY <1>3, BlankType DEF BlankTable, Slots
    <3> QED
      BY <2>2, <3>1, <3>2
  <2>3. CASE t # node
    <3>1. pool[t] # BlankTable
      BY <1>1, <2>3 DEF IInv, Filled
    <3>2. pool'[t] = pool[t]
      BY <1>3, <1>5, <2>1, <2>3
    <3> QED
      BY <3>1, <3>2
  <2> QED
    BY <2>2, <2>3
<1>14. Aligned'
  BY <1>1, <1>2 DEF IInv, Aligned
<1> QED
  BY <1>7, <1>8, <1>11, <1>12, <1>13, <1>14 DEF IInv

(***************************************************************************)
(* The processor marks an entry                                            *)
(***************************************************************************)
LEMMA EntryMarked ==
  ASSUME IInv, NEW t \in 0 .. (used - 1), NEW i \in 0 .. (Entries - 1), Access(t, i)
  PROVE  /\ SameButMarks(pool, pool') /\ pool' \in [PoolPages -> [Slots -> Entry]]
         /\ \A s \in used .. PoolSize - 1 : pool'[s] = pool[s]
         /\ Shape(pool, used) /\ Shape(pool', used) /\ used > 0 /\ used \in PoolPages
<1>1. Shape(pool, used) /\ pool \in [PoolPages -> [Slots -> Entry]] /\ used \in PoolPages
  BY DEF IInv, PoolInShape, Shape
<1>2. t \in PoolPages /\ i \in Slots /\ used > 0
  BY <1>1, PoolType DEF PoolPages, Slots
<1>3. pool[t][i].kind \in {"page", "huge"} /\ pool' = [pool EXCEPT ![t][i].flags = @ \cup {"accessed"}]
  BY DEF Access
<1> DEFINE e == pool[t][i]
           f == [e EXCEPT !.flags = @ \cup {"accessed"}]
<1>4. e \in Entry /\ f \in Entry /\ Unmarked(f) = Unmarked(e)
  <2>1. e \in Entry
    BY <1>1, <1>2
  <2>2. f \in Entry /\ f.kind = e.kind /\ f.to = e.to /\ f.flags = e.flags \cup {"accessed"}
    BY <2>1 DEF Entry, Flags
  <2>3. f.flags \ {"accessed"} = e.flags \ {"accessed"}
    BY <2>2
  <2> QED
    BY <2>1, <2>2, <2>3 DEF Unmarked
<1>5. pool' = [pool EXCEPT ![t][i] = f]
  BY <1>1, <1>2, <1>3
<1> HIDE DEF e, f
<1>6. \A s \in PoolPages, j \in Slots : pool'[s][j] = IF s = t /\ j = i THEN f ELSE pool[s][j]
  BY <1>1, <1>2, <1>5
<1>7. SameButMarks(pool, pool')
  BY <1>3, <1>4, <1>6 DEF SameButMarks, e
<1>8. pool' \in [PoolPages -> [Slots -> Entry]]
  BY <1>1, <1>2, <1>4, <1>5
<1>9. \A s \in used .. PoolSize - 1 : pool'[s] = pool[s]
  BY <1>1, <1>2, <1>5 DEF PoolPages
<1>10. Shape(pool', used)
  BY <1>1, <1>7, <1>8, <1>9, MarksKeepShape
<1> QED
  BY <1>1, <1>2, <1>7, <1>8, <1>9, <1>10

LEMMA AccessKeeps ==
  ASSUME IInv, NEW t \in 0 .. (used - 1), NEW i \in 0 .. (Entries - 1), Access(t, i)
  PROVE  IInv'
<1>1. /\ boot' = boot /\ memmap' = memmap /\ supported' = supported /\ cr3' = cr3
      /\ used' = used /\ at' = at /\ range' = range /\ job' = job
      /\ wanted' = wanted /\ pc' = pc /\ why' = why /\ node' = node /\ level' = level
  BY DEF Access, given, walk, path
<1>2. /\ SameButMarks(pool, pool') /\ pool' \in [PoolPages -> [Slots -> Entry]]
      /\ Shape(pool, used) /\ Shape(pool', used) /\ used > 0 /\ used \in PoolPages
  BY EntryMarked
<1>3. TypeOK'
  BY <1>1, <1>2 DEF IInv, TypeOK, PoolPages, Slots
<1>4. PoolInShape'
  BY <1>1, <1>2 DEF IInv, PoolInShape
<1>5. Linked'
  <2> SUFFICES ASSUME NEW s \in 1 .. used - 1
               PROVE  \E r \in 0 .. s - 1, j \in Slots : pool'[r][j] = Link(s)
    BY <1>1 DEF Linked
  <2>1. PICK r \in 0 .. s - 1, j \in Slots : pool[r][j] = Link(s)
    BY DEF IInv, Linked
  <2>2. r \in PoolPages
    BY <1>2, PoolType DEF PoolPages
  <2>3. pool'[r][j] = pool[r][j]
    BY <1>2, <2>1, <2>2 DEF SameButMarks, Link
  <2> QED
    BY <2>1, <2>3
<1>6. OnPath'
  <2> SUFFICES ASSUME pc = "map"
               PROVE  Reaches(pool', job.at, level) /\ node = NodeAt(pool', job.at, level)
    BY <1>1 DEF IInv, OnPath
  <2> QED
    BY <1>2, MapNow, MarksKeepPaths
<1>7. Filled'
  <2> SUFFICES ASSUME NEW s \in 1 .. used - 1, pool'[s] = BlankTable
               PROVE  pool[s] = BlankTable
    BY <1>1 DEF IInv, Filled
  <2>1. s \in PoolPages
    BY <1>2, PoolType DEF PoolPages
  <2>2. pool[s] \in [Slots -> Entry] /\ BlankTable \in [Slots -> Entry]
    BY <2>1, BlankType DEF IInv, PoolInShape, Shape
  <2>3. \A j \in Slots : pool[s][j] = BlankTable[j]
    <3> SUFFICES ASSUME NEW j \in Slots PROVE pool[s][j] = BlankTable[j]
      OBVIOUS
    <3>1. pool'[s][j] = Blank /\ BlankTable[j] = Blank
      BY DEF BlankTable, Slots
    <3>2. pool[s][j].kind = "none"
      BY <1>2, <2>1, <3>1, BlankType DEF SameButMarks, Unmarked
    <3> QED
      BY <1>2, <2>1, <3>1, <3>2 DEF SameButMarks
  <2> QED
    BY <2>2, <2>3
<1>8. Aligned'
  BY <1>1 DEF IInv, Aligned
<1> QED
  BY <1>3, <1>4, <1>5, <1>6, <1>7, <1>8 DEF IInv

LEMMA NextKeeps ==
  ASSUME IInv, [Next]_vars
  PROVE  IInv'
<1>1. CASE InitStep
  BY <1>1, InitRefusesKeeps, StartWalkKeeps, OpenRangeKeeps, ExtendRangeKeeps, HugeLeafKeeps,
     SkipMissingKeeps, MapRangeKeeps, DropRangeKeeps, LoadCr3Keeps DEF InitStep
<1>2. CASE Descend
  BY <1>2, DescendKeeps
<1>3. CASE AddTable
  BY <1>3, AddTableKeeps
<1>4. CASE OutOfPool
  <2>1. /\ pc = "map" /\ pc' = "panic" /\ why' = "pool"
        /\ UNCHANGED <<given, cr3, tables, walk, job, path, wanted>>
    BY <1>4 DEF OutOfPool, Mapping, Panic
  <2> QED
    BY <2>1, PanicKeeps
<1>5. CASE HugeInTheWay
  BY <1>5, HugeInTheWayKeeps
<1>6. CASE SetEntry
  BY <1>6, SetEntryKeeps
<1>7. CASE EntryExists
  <2>1. /\ pc = "map" /\ pc' = "panic" /\ why' = "exists"
        /\ UNCHANGED <<given, cr3, tables, walk, job, path, wanted>>
    BY <1>7 DEF EntryExists, Mapping, Panic
  <2> QED
    BY <2>1, PanicKeeps
<1>8. CASE MapReturns
  BY <1>8, MapReturnsKeeps
<1>9. CASE \E r \in Requests : MapPartial(r)
  BY <1>9, MapPartialKeeps
<1>10. CASE \E t \in 0 .. (used - 1), i \in 0 .. (Entries - 1) : Access(t, i)
  BY <1>10, AccessKeeps
<1>11. CASE UNCHANGED vars
  <2>1. /\ boot' = boot /\ memmap' = memmap /\ supported' = supported /\ cr3' = cr3
        /\ pool' = pool /\ used' = used /\ pc' = pc /\ why' = why /\ at' = at /\ range' = range
        /\ job' = job /\ node' = node /\ level' = level /\ wanted' = wanted
    BY <1>11 DEF vars, given, tables, walk, path
  <2> QED
    BY <2>1 DEF IInv, TypeOK, PoolInShape, Linked, OnPath, Filled, Aligned
<1> QED
  BY <1>1, <1>2, <1>3, <1>4, <1>5, <1>6, <1>7, <1>8, <1>9, <1>10, <1>11 DEF Next, MapStep

(* In every state of mapMemory, mapPartial, init and the processor, IInv     *)
(* holds.                                                                   *)
THEOREM Invariant == Spec => []IInv
<1>1. Init => IInv
  BY InitKeeps
<1>2. IInv /\ [Next]_vars => IInv'
  BY NextKeeps
<1> QED
  BY <1>1, <1>2, PTL DEF Spec

(* Every variable stays in its type: no step of paging.cpp leaves the pool, *)
(* the address space or the four levels.                                    *)
THEOREM TypeCorrect == Spec => []TypeOK
<1>1. IInv => TypeOK
  BY DEF IInv
<1> QED
  BY <1>1, Invariant, PTL

(* The pages of initialPool form a tree under the root, and mapMemory leaves *)
(* no table behind that maps nothing.                                        *)
THEOREM TablesAreATree == Spec => []TablesFormATree
<1>1. ASSUME IInv PROVE TablesFormATree
  <2>1. /\ Shape(pool, used) /\ used \in PoolPages /\ LinksUnique(pool) /\ UnusedBlank(pool, used)
    BY <1>1 DEF IInv, PoolInShape, Shape
  <2>2. ASSUME NEW t \in 1 .. (used - 1)
        PROVE  \E s \in 0 .. (t - 1), i \in 0 .. (Entries - 1) :
                 \A r \in 0 .. (PoolSize - 1), j \in 0 .. (Entries - 1) :
                   pool[r][j] = Link(t) <=> r = s /\ j = i
    <3>1. PICK s \in 0 .. t - 1, i \in Slots : pool[s][i] = Link(t)
      BY <1>1, <2>2 DEF IInv, Linked
    <3>2. s \in PoolPages
      BY <2>1, PoolType DEF PoolPages
    <3>3. Link(t).kind = "table" /\ Link(t).to = t
      BY DEF Link
    <3>4. \A r \in PoolPages, j \in Slots : pool[r][j] = Link(t) <=> r = s /\ j = i
      BY <2>1, <3>1, <3>2, <3>3 DEF LinksUnique
    <3> QED
      BY <3>1, <3>4 DEF PoolPages, Slots
  <2>3. ASSUME NEW t \in 1 .. (used - 1), pc \in {"walk", "idle"}
        PROVE  pool[t] # BlankTable
    BY <1>1, <2>3 DEF IInv, Filled
  <2> QED
    BY <2>1, <2>2, <2>3 DEF TablesFormATree, UnusedBlank
<1> QED
  BY <1>1, Invariant, PTL

(***************************************************************************)
(* The tables are an address space                                         *)
(***************************************************************************)
Translation(e, p) ==
  IF e.kind = "none" THEN <<>>
  ELSE <<e.to + (IF e.kind = "huge" THEN p % Entries ELSE 0), e.flags \ {"accessed"}>>

LEMMA TranslateFound ==
  ASSUME Shape(pool, used), NEW p \in Pages
  PROVE  Translate(p) = Translation(Found(pool, p), p)
BY EntryIsFound DEF Translate, Translation

LEMMA TranslateFoundNext ==
  ASSUME Shape(pool', used'), NEW p \in Pages
  PROVE  Translate(p)' = Translation(Found(pool', p), p)
BY EntryIsFoundNext DEF Translate, Translation

LEMMA SameFoundSameTranslation ==
  ASSUME NEW e, NEW f, NEW p, Unmarked(e) = Unmarked(f)
  PROVE  Translation(e, p) = Translation(f, p)
BY DEF Unmarked, Translation

(* A step that changes what is found only in marks is no step of the space. *)
LEMMA TranslationsStay ==
  ASSUME IInv, IInv', \A p \in Pages : Unmarked(Found(pool', p)) = Unmarked(Found(pool, p))
  PROVE  \A p \in Pages : Translate(p)' = Translate(p)
<1>1. Shape(pool, used) /\ Shape(pool', used')
  BY DEF IInv, PoolInShape
<1> QED
  BY <1>1, TranslateFound, TranslateFoundNext, SameFoundSameTranslation

(* The entry of a page covers a run of pages: itself, or its block. *)
LEMMA RunIsAlike ==
  ASSUME IInv, SetEntry, NEW q \in Pages
  PROVE  /\ job.at % job.pages = 0
         /\ q \in job.at .. job.at + job.pages - 1 <=> Alike(job.at, q, level)
         /\ Alike(job.at, q, level) =>
              (IF NewEntry.kind = "huge" THEN q % Entries ELSE 0) = q - job.at
<1>0. /\ job.at \in Pages /\ job.pages \in {1, Entries} /\ level \in {3, 4}
      /\ level = 3 => job.pages = Entries
      /\ level = 4 => job.pages = 1
      /\ NewEntry.kind = IF job.pages = Entries THEN "huge" ELSE "page"
  <2>1. job \in [at : Pages, frame : Nat, flags : SUBSET Flags, pages : {1, Entries}, left : Nat]
        /\ (level = 4 => job.pages # Entries)
    BY DEF SetEntry, Mapping, IInv, TypeOK, OnPath
  <2> QED
    BY <2>1 DEF SetEntry, AtLeaf, NewEntry, Leaf
<1>1. CASE level = 3
  <2>1. job.at % Entries = 0
    BY <1>0, <1>1 DEF IInv, Aligned
  <2>2. q \in job.at .. job.at + Entries - 1 <=> \A l \in 1 .. 3 : Index(job.at, l) = Index(q, l)
    BY <1>0, <2>1, BlockOfPages
  <2>3. q \in job.at .. job.at + Entries - 1 => q % Entries = q - job.at
    BY <1>0, <2>1, BlockOfPages
  <2> QED
    BY <1>0, <1>1, <2>1, <2>2, <2>3 DEF Alike
<1>2. CASE level = 4
  <2>1. job.at \in Int /\ q \in Int /\ job.at % 1 = 0
    <3>1. job.at \in Int /\ q \in Int
      BY <1>0, PagesType
    <3>2. job.at = 1 * job.at + 0 /\ 0 \in 0 .. 1 - 1
      BY <3>1
    <3> QED
      BY <3>1, <3>2, DivModUnique
  <2>2. Alike(job.at, q, 4) <=> job.at = q
    BY <1>0, SamePage DEF Alike
  <2>3. q \in job.at .. job.at + 1 - 1 <=> job.at = q
    BY <2>1
  <2>4. NewEntry.kind # "huge"
    BY <1>0, <1>2, EntriesType
  <2> QED
    BY <1>0, <1>2, <2>1, <2>2, <2>3, <2>4
<1> QED
  BY <1>0, <1>1, <1>2

(* What setting an entry does to what the tables say of each page. *)
LEMMA SetEntryTranslates ==
  ASSUME IInv, IInv', SetEntry, Here # NewEntry, NEW q \in Pages
  PROVE  /\ q \in job.at .. job.at + job.pages - 1 =>
              /\ Translate(q) = <<>>
              /\ Translate(q)' = <<job.frame + (q - job.at), job.flags \ {"accessed"}>>
         /\ q \notin job.at .. job.at + job.pages - 1 =>
              /\ Translate(q)' = Translate(q)
              /\ Found(pool', q) = Found(pool, q)
<1>0. /\ Settable(pool, used, job.at, level, NewEntry) /\ NodeAt(pool, job.at, level) < used
      /\ Here = Blank /\ pool' = Write(pool, job.at, level, NewEntry)
      /\ Here = EntryAt(pool, job.at, level) /\ job.at \in Pages /\ level \in 1 .. 4
      /\ Shape(pool, used) /\ Shape(pool', used')
      /\ job \in [at : Pages, frame : Nat, flags : SUBSET Flags, pages : {1, Entries}, left : Nat]
  BY EntrySet, MapNow DEF SetEntry, Mapping, IInv, PoolInShape
<1>1. NewEntry.to = job.frame /\ NewEntry.flags = job.flags /\ NewEntry.kind # "none"
  BY DEF NewEntry, Leaf
<1> DEFINE Run == job.at .. job.at + job.pages - 1
<1>2. ASSUME q \in Run
      PROVE  Translate(q) = <<>> /\ Translate(q)' = <<job.frame + (q - job.at), job.flags \ {"accessed"}>>
  <2>1. Alike(job.at, q, level) /\ (IF NewEntry.kind = "huge" THEN q % Entries ELSE 0) = q - job.at
    BY <1>2, RunIsAlike
  <2>2. Found(pool, q) = Blank /\ Found(pool', q) = NewEntry
    BY <1>0, <1>2, <2>1, FoundAtLeaf
  <2>3. Translate(q) = Translation(Blank, q) /\ Translate(q)' = Translation(NewEntry, q)
    BY <1>0, <1>2, <2>2, TranslateFound, TranslateFoundNext
  <2> QED
    BY <1>1, <2>1, <2>3, BlankType DEF Translation
<1>3. ASSUME q \notin Run
      PROVE  Translate(q)' = Translate(q) /\ Found(pool', q) = Found(pool, q)
  <2>1. ~ Alike(job.at, q, level)
    BY <1>3, RunIsAlike
  <2>2. Found(pool', q) = Found(pool, q)
    BY <1>0, <1>3, <2>1, FoundAtLeaf
  <2> QED
    BY <1>0, <1>3, <2>2, TranslateFound, TranslateFoundNext
<1> QED
  BY <1>2, <1>3

LEMMA SetEntryMaps ==
  ASSUME IInv, IInv', SetEntry, Here # NewEntry
  PROVE  TheSpace!Map(job.at, job.pages)
<1>0. /\ job.at \in Pages /\ level \in 1 .. 4
      /\ job \in [at : Pages, frame : Nat, flags : SUBSET Flags, pages : {1, Entries}, left : Nat]
  BY MapNow DEF SetEntry, Mapping
<1> DEFINE attributes == job.flags \ {"accessed"}
           Run == job.at .. job.at + job.pages - 1
<1>2. \A q \in Run \cap Pages : /\ Translate(q) = <<>>
                               /\ Translate(q)' = <<job.frame + (q - job.at), attributes>>
  BY SetEntryTranslates
<1>3. \A q \in Pages \ Run : Translate(q)' = Translate(q)
  BY SetEntryTranslates
<1>4. job.at \in Run /\ job.at % job.pages = 0 /\ job.frame + (job.at - job.at) = job.frame
  <2>1. job.at \in Int /\ job.pages \in Int /\ job.pages > 0 /\ job.frame \in Int
    BY <1>0, PagesType, EntriesType
  <2>2. job.at % job.pages = 0
    BY <1>0, RunIsAlike
  <2> QED
    BY <2>1, <2>2
<1>5. Run \subseteq Pages
  <2>1. CASE job.pages = Entries
    <3>1. job.at % Entries = 0
      BY <2>1 DEF IInv, Aligned
    <3> QED
      BY <1>0, <2>1, <3>1, BlockIsOfPages
  <2>2. CASE job.pages = 1
    BY <1>0, <2>2, PagesType
  <2> QED
    BY <1>0, <2>1, <2>2
<1>6. job.frame \in Nat /\ attributes \in SUBSET (Flags \ {"accessed"})
  BY <1>0
<1> DEFINE now  == [p \in Pages |-> Translate(p)]
           next == [p \in Pages |-> Translate(p)]'
<1>7. next = [p \in Pages |-> Translate(p)']
  OBVIOUS
<1>8. next[job.at] = <<job.frame, attributes>>
  BY <1>0, <1>2, <1>4, <1>7
<1>9. next[job.at] \in Nat \X SUBSET (Flags \ {"accessed"})
      /\ next[job.at][1] = job.frame /\ next[job.at][2] = attributes
  BY <1>6, <1>8
<1>10. next = [q \in Pages |-> IF q \in Run THEN <<job.frame + (q - job.at), attributes>> ELSE now[q]]
  BY <1>2, <1>3, <1>7
<1>11. \A q \in Run : now[q] = <<>>
  BY <1>2, <1>5
<1>12. TheSpace!Map(job.at, job.pages) <=>
         /\ job.at % job.pages = 0 /\ \A q \in Run : now[q] = <<>>
         /\ next[job.at] \in Nat \X SUBSET (Flags \ {"accessed"})
         /\ next = [q \in Pages |-> IF q \in Run THEN <<next[job.at][1] + (q - job.at), next[job.at][2]>>
                                                 ELSE now[q]]
  BY DEF TheSpace!Map, TheSpace!Run
<1> HIDE DEF now, next, Run, attributes
<1> QED
  BY <1>4, <1>9, <1>10, <1>11, <1>12

(* All other steps leave what is found as it is, but for marks. *)
LEMMA FoundStays ==
  ASSUME IInv, [Next]_vars, ~ (SetEntry /\ Here # NewEntry)
  PROVE  \A p \in Pages : Unmarked(Found(pool', p)) = Unmarked(Found(pool, p))
<1>1. CASE pool' = pool
  BY <1>1
<1>2. CASE AddTable
  <2>1. /\ Linkable(pool, used, job.at, level)
        /\ pool' = Write(pool, job.at, level, Link(used))
    BY <1>2, TableAdded
  <2>2. \A p \in Pages : Found(pool', p) = Found(pool, p)
    BY <2>1, FoundUnderLink
  <2> QED
    BY <2>2
<1>3. CASE \E t \in 0 .. (used - 1), i \in 0 .. (Entries - 1) : Access(t, i)
  <2>1. SameButMarks(pool, pool') /\ Shape(pool, used)
    BY <1>3, EntryMarked
  <2> QED
    BY <2>1, FoundUnderMarks
<1>4. CASE SetEntry
  <2>1. pool' = pool
    <3>1. Here = NewEntry /\ pool' = [pool EXCEPT ![node][Slot] = NewEntry]
      BY <1>4 DEF SetEntry
    <3>2. pool \in [PoolPages -> [Slots -> Entry]] /\ node \in PoolPages /\ Slot \in Slots
      BY <1>4, MapNow DEF SetEntry, Mapping
    <3> QED
      BY <3>1, <3>2 DEF Here
  <2> QED
    BY <1>1, <2>1
<1>5. CASE InitStep
  <2>1. pool' = pool
    BY <1>5 DEF InitStep, InitRefuses, StartWalk, OpenRange, ExtendRange, HugeLeaf, SkipMissing,
       MapRange, DropRange, LoadCr3, tables
  <2> QED
    BY <1>1, <2>1
<1>6. CASE Descend \/ OutOfPool \/ HugeInTheWay \/ EntryExists \/ MapReturns
  <2>1. pool' = pool
    BY <1>6 DEF Descend, OutOfPool, HugeInTheWay, EntryExists, MapReturns, tables
  <2> QED
    BY <1>1, <2>1
<1>7. CASE \E r \in Requests : MapPartial(r)
  <2>1. pool' = pool
    BY <1>7 DEF MapPartial, tables
  <2> QED
    BY <1>1, <2>1
<1>8. CASE UNCHANGED vars
  <2>1. pool' = pool
    BY <1>8 DEF vars, tables
  <2> QED
    BY <1>1, <2>1
<1> QED
  BY <1>2, <1>3, <1>4, <1>5, <1>6, <1>7, <1>8 DEF Next, MapStep

LEMMA OtherStepsStutter ==
  ASSUME IInv, IInv', [Next]_vars, ~ (SetEntry /\ Here # NewEntry)
  PROVE  \A p \in Pages : Translate(p)' = Translate(p)
BY FoundStays, TranslationsStay

LEMMA StepsOfTheSpace ==
  ASSUME IInv, IInv', [Next]_vars
  PROVE  [TheSpace!Next]_[p \in Pages |-> Translate(p)]
<1>1. CASE SetEntry /\ Here # NewEntry
  <2>1. TheSpace!Map(job.at, job.pages)
    BY <1>1, SetEntryMaps
  <2>2. job.at \in Pages /\ job.pages \in {1, Entries}
    BY DEF IInv, TypeOK
  <2> QED
    BY <2>1, <2>2 DEF TheSpace!Next
<1>2. CASE ~ (SetEntry /\ Here # NewEntry)
  <2>1. \A p \in Pages : Translate(p)' = Translate(p)
    BY <1>2, OtherStepsStutter
  <2>2. [p \in Pages |-> Translate(p)]' = [p \in Pages |-> Translate(p)]
    BY <2>1
  <2> QED
    BY <2>2
<1> QED
  BY <1>1, <1>2

LEMMA StartsAsTheSpace ==
  ASSUME Init
  PROVE  TheSpace!Init
<1>1. IInv
  BY InitKeeps
<1>2. ASSUME NEW p \in Pages PROVE Translate(p) = <<>>
  <2>1. Index(p, 1) \in Slots /\ 0 \in PoolPages
    BY IndexType, PagesType, PoolType
  <2>2. Entry1(pool, p) = Blank
    BY <2>1 DEF Init, BlankTable, Slots, PoolPages, Entry1
  <2>3. EntryOf(p) = Blank
    BY <2>2, BlankType DEF EntryOf, Entry1
  <2> QED
    BY <2>3, BlankType DEF Translate
<1> QED
  BY <1>2 DEF TheSpace!Init

(* Whatever is mapped, and in whatever order: a page that has a frame keeps  *)
(* frame and flags, and a run of pages is mapped as a whole or not at all.   *)
THEOREM TablesAreAnAddressSpace == Spec => ImplementsAddressSpace
<1>1. Init => TheSpace!Init
  BY StartsAsTheSpace
<1>2. IInv /\ IInv' /\ [Next]_vars => [TheSpace!Next]_[p \in Pages |-> Translate(p)]
  BY StepsOfTheSpace
<1> QED
  BY <1>1, <1>2, Invariant, PTL DEF Spec, ImplementsAddressSpace, TheSpace!Spec

(***************************************************************************)
(* What is mapped stays                                                    *)
(***************************************************************************)
LEMMA FoundLasts ==
  ASSUME IInv, [Next]_vars, NEW p \in Pages, Found(pool, p).kind # "none"
  PROVE  Unmarked(Found(pool', p)) = Unmarked(Found(pool, p))
<1>1. CASE SetEntry /\ Here # NewEntry
  <2>1. /\ Settable(pool, used, job.at, level, NewEntry) /\ NodeAt(pool, job.at, level) < used
        /\ Here = Blank /\ pool' = Write(pool, job.at, level, NewEntry)
        /\ Here = EntryAt(pool, job.at, level)
    BY <1>1, EntrySet, MapNow DEF SetEntry, Mapping
  <2>2. ~ Alike(job.at, p, level)
    BY <2>1, FoundAtLeaf, BlankType
  <2>3. Found(pool', p) = Found(pool, p)
    BY <2>1, <2>2, FoundAtLeaf
  <2> QED
    BY <2>3
<1>2. CASE ~ (SetEntry /\ Here # NewEntry)
  BY <1>2, FoundStays
<1> QED
  BY <1>1, <1>2

LEMMA TranslationLasts ==
  ASSUME IInv, IInv', [Next]_vars, NEW p \in Pages, Translate(p) # <<>>
  PROVE  Translate(p)' = Translate(p)
<1>1. Shape(pool, used) /\ Shape(pool', used')
  BY DEF IInv, PoolInShape
<1>2. Found(pool, p).kind # "none"
  BY <1>1, TranslateFound DEF Translation
<1> QED
  BY <1>1, <1>2, FoundLasts, TranslateFound, TranslateFoundNext, SameFoundSameTranslation

(***************************************************************************)
(* The walk                                                                *)
(***************************************************************************)

(* From a page to the walk's next one there are leaves, all of one size,   *)
(* one set of flags and one distance to their frames.                      *)
RunOfLeaves(first, frame, pages, flags) ==
  \A q \in first .. at - 1 : \E leaf \in boot :
    /\ Covers(leaf, q) /\ first <= leaf.at /\ leaf.at + leaf.pages <= at
    /\ leaf.pages = pages /\ Kept(leaf.flags) = flags
    /\ leaf.frame = frame + (leaf.at - first)

RangeOfLeaves ==
  Open => /\ range.at + range.count * range.pages = at
          /\ RunOfLeaves(range.at, range.frame, range.pages, range.flags)

(* While init maps a range, what is left of it. *)
JobOfLeaves ==
  pc = "map" /\ cr3 = "boot" =>
    /\ ~Open
    /\ job.left > 0 => /\ job.at + job.left * job.pages = at
                       /\ RunOfLeaves(job.at, job.frame, job.pages, job.flags)

(* The first page the walk has not settled. *)
Front ==
  IF pc = "map" /\ cr3 = "boot" /\ job.left > 0 THEN job.at
  ELSE IF Open THEN range.at ELSE at

(* Nothing is mapped from there on, *)
Ahead ==
  cr3 = "boot" /\ pc \in {"walk", "map"} =>
    \A q \in Pages : q >= Front => Found(pool, q).kind = "none"

(* and everything is mapped before it that is to be. *)
Behind ==
  cr3 = "kernel" \/ pc \in {"walk", "map"} =>
    \A leaf \in boot : InKeptMemory(leaf) /\ leaf.at < Front =>
      \A p \in leaf.at .. (leaf.at + leaf.pages - 1) :
        Translate(p) = <<leaf.frame + (p - leaf.at), Kept(leaf.flags)>>

(* Init begins with tables that map nothing, and ends at the last page. *)
Phases ==
  /\ pc = "start" => cr3 = "boot" /\ at = 0 /\ ~Open /\ \A q \in Pages : Found(pool, q) = Blank
  /\ pc = "idle" => cr3 = "kernel"
  /\ pc = "walk" => cr3 = "boot"
  /\ cr3 = "kernel" => at = PageCount
  /\ why = "exists" => cr3 = "kernel"

WInv == /\ RangeOfLeaves /\ JobOfLeaves /\ Ahead /\ Behind /\ NothingInvented /\ Phases

(***************************************************************************)
(* Leaves of the boot loader                                               *)
(***************************************************************************)
LEMMA AlignedFits ==
  ASSUME NEW s \in Int, s > 0, NEW n \in Int, NEW all \in Int, all = s * n,
         NEW p \in Int, p >= 0, p < all, p % s = 0
  PROVE  p + s <= all
<1> DEFINE k == p \div s
<1>1. k \in Int /\ p = s * k + 0 /\ k >= 0
  BY DivMod
<1> HIDE DEF k
<1>2. k < n
  BY <1>1, DigitBound
<1>3. s * (k + 1) <= s * n
  BY <1>1, <1>2, TimesMonotonic
<1>4. s * (k + 1) = s * k + s
  BY <1>1
<1>5. s * k \in Int /\ s * n \in Int
  BY <1>1
<1> QED
  BY <1>1, <1>3, <1>4, <1>5

LEMMA Regroup == ASSUME NEW e \in Int, NEW m \in Int PROVE e * (e * m) = (e * e) * m
OBVIOUS

LEMMA LeafNumbers ==
  ASSUME NEW b \in BootTables, NEW leaf \in b
  PROVE  /\ leaf.at \in Nat /\ leaf.pages \in Nat /\ leaf.pages > 0 /\ leaf.frame \in Nat
         /\ leaf.at + leaf.pages <= PageCount /\ leaf.flags \subseteq Flags
<1>1. /\ leaf.at \in Pages /\ leaf.frame \in Nat /\ leaf.flags \subseteq Flags
      /\ leaf.pages \in {1, Entries, Span(2)} /\ leaf.at % leaf.pages = 0
  BY PagingAssumption
<1>2. leaf.at \in Nat /\ leaf.at < PageCount /\ PageCount \in Nat
  BY <1>1, PagesType, PageNumbers
<1>3. CASE leaf.pages # Span(2)
  BY <1>1, <1>2, <1>3, LeafFits, PageNumbers, EntriesType
<1>4. CASE leaf.pages = Span(2)
  <2> DEFINE s == Entries * Entries
  <2>1. Span(2) = s /\ s \in Int /\ s > 0
    BY SpanValues
  <2>2. PageCount = s * s
    <3>1. PageCount = Entries * (Entries * (Entries * Entries))
      BY SpanValues
    <3>2. PageCount = Entries * (Entries * s)
      BY <3>1
    <3>3. Entries * (Entries * s) = (Entries * Entries) * s
      BY <2>1, EntriesType, Regroup
    <3> QED
      BY <3>2, <3>3
  <2> HIDE DEF s
  <2>3. leaf.at \in Int /\ leaf.at >= 0 /\ leaf.at < PageCount /\ PageCount \in Int /\ leaf.at % s = 0
    BY <1>1, <1>2, <1>4, <2>1
  <2>4. leaf.at + s <= PageCount
    BY <2>1, <2>2, <2>3, AlignedFits
  <2> QED
    BY <1>1, <1>2, <1>4, <2>1, <2>4
<1> QED
  BY <1>3, <1>4

LEMMA LeavesApart ==
  ASSUME NEW b \in BootTables, NEW leaf \in b, NEW other \in b, NEW q \in Int,
         Covers(leaf, q), Covers(other, q)
  PROVE  leaf = other
<1>1. leaf # other => leaf.at + leaf.pages <= other.at \/ other.at + other.pages <= leaf.at
  BY PagingAssumption
<1>2. /\ leaf.at \in Nat /\ leaf.pages \in Nat /\ other.at \in Nat /\ other.pages \in Nat
  BY LeafNumbers
<1> QED
  BY <1>1, <1>2 DEF Covers

LEMMA LeafCoversItsStart ==
  ASSUME NEW b \in BootTables, NEW leaf \in b
  PROVE  Covers(leaf, leaf.at) /\ \A q : Covers(leaf, q) => q \in Pages
<1>1. /\ leaf.at \in Nat /\ leaf.pages \in Nat /\ leaf.pages > 0 /\ leaf.at + leaf.pages <= PageCount
      /\ PageCount \in Nat
  BY LeafNumbers, PageNumbers
<1> QED
  BY <1>1 DEF Covers, Pages

(***************************************************************************)
(* What stays                                                              *)
(***************************************************************************)
LEMMA GivenStays ==
  ASSUME [Next]_vars
  PROVE  /\ boot' = boot /\ memmap' = memmap
         /\ cr3' = cr3 \/ (LoadCr3 /\ cr3' = "kernel")
<1>1. CASE InitStep
  BY <1>1 DEF InitStep, InitRefuses, StartWalk, OpenRange, ExtendRange, HugeLeaf, SkipMissing,
     MapRange, DropRange, LoadCr3, given
<1>2. CASE MapStep
  BY <1>2 DEF MapStep, Descend, AddTable, OutOfPool, HugeInTheWay, SetEntry, EntryExists, MapReturns, given
<1>3. CASE \E r \in Requests : MapPartial(r)
  BY <1>3 DEF MapPartial, given
<1>4. CASE \E t \in 0 .. (used - 1), i \in 0 .. (Entries - 1) : Access(t, i)
  BY <1>4 DEF Access, given
<1>5. CASE UNCHANGED vars
  BY <1>5 DEF vars, given
<1> QED
  BY <1>1, <1>2, <1>3, <1>4, <1>5 DEF Next

LEMMA NothingInventedStays ==
  ASSUME IInv, IInv', [Next]_vars, ~ (SetEntry /\ Here # NewEntry), NothingInvented
  PROVE  NothingInvented'
<1>1. boot' = boot /\ (cr3' = "boot" => cr3 = "boot")
  BY GivenStays
<1>2. \A p \in Pages : Translate(p)' = Translate(p)
  BY OtherStepsStutter
<1> QED
  BY <1>1, <1>2 DEF NothingInvented, Covers

LEMMA AheadStays ==
  ASSUME IInv, IInv', [Next]_vars, ~ (SetEntry /\ Here # NewEntry), Ahead,
         Front \in Nat, Front' \in Nat, Front <= Front',
         cr3' = "boot" /\ pc' \in {"walk", "map"} => cr3 = "boot" /\ pc \in {"walk", "map"}
  PROVE  Ahead'
<1> SUFFICES ASSUME cr3' = "boot", pc' \in {"walk", "map"}, NEW q \in Pages, q >= Front'
             PROVE  Found(pool', q).kind = "none"
  BY DEF Ahead
<1>1. q >= Front
  BY PagesType
<1>2. Found(pool, q).kind = "none"
  BY <1>1 DEF Ahead
<1>3. Unmarked(Found(pool', q)) = Unmarked(Found(pool, q))
  BY FoundStays
<1> QED
  BY <1>2, <1>3 DEF Unmarked

LEMMA SettledStays ==
  ASSUME IInv, IInv', [Next]_vars, Behind, cr3 = "kernel" \/ pc \in {"walk", "map"},
         NEW leaf \in boot, InKeptMemory(leaf), leaf.at < Front,
         NEW p \in leaf.at .. (leaf.at + leaf.pages - 1)
  PROVE  Translate(p)' = <<leaf.frame + (p - leaf.at), Kept(leaf.flags)>>
<1>1. Translate(p) = <<leaf.frame + (p - leaf.at), Kept(leaf.flags)>>
  BY DEF Behind
<1>2. p \in Pages
  BY LeafCoversItsStart DEF Covers, IInv, TypeOK
<1>3. Translate(p) # <<>>
  BY <1>1
<1> QED
  BY <1>1, <1>2, <1>3, TranslationLasts

LEMMA BehindStays ==
  ASSUME IInv, IInv', [Next]_vars, Behind,
         cr3' = "kernel" \/ pc' \in {"walk", "map"} => cr3 = "kernel" \/ pc \in {"walk", "map"},
         \A leaf \in boot : InKeptMemory(leaf) /\ leaf.at < Front' => leaf.at < Front
  PROVE  Behind'
<1>1. boot' = boot /\ memmap' = memmap
  BY GivenStays
<1> SUFFICES ASSUME cr3' = "kernel" \/ pc' \in {"walk", "map"}, NEW leaf \in boot, InKeptMemory(leaf),
                    leaf.at < Front', NEW p \in leaf.at .. (leaf.at + leaf.pages - 1)
             PROVE  Translate(p)' = <<leaf.frame + (p - leaf.at), Kept(leaf.flags)>>
  BY <1>1 DEF Behind, InKeptMemory
<1> QED
  BY SettledStays

LEMMA FrontType == ASSUME IInv PROVE Front \in Nat
<1>1. job.at \in Nat /\ (Open => range.at \in Nat) /\ at \in Nat
  <2>1. job.at \in Pages /\ at \in 0 .. PageCount
    BY DEF IInv, TypeOK
  <2>2. Open => range.at \in Pages
    BY RangeType
  <2> QED
    BY <2>1, <2>2, PagesType, PageNumbers
<1> QED
  BY <1>1 DEF Front

LEMMA Product ==
  ASSUME NEW n \in Nat, NEW m \in Nat
  PROVE  n * m \in Nat /\ (n + 1) * m = n * m + m /\ 1 * m = m /\ 0 * m = 0
OBVIOUS

(***************************************************************************)
(* After init                                                              *)
(***************************************************************************)
LEMMA KernelSteps ==
  ASSUME [Next]_vars, Phases, cr3 = "kernel"
  PROVE  cr3' = cr3 /\ at' = at /\ range' = range /\ (pc' \in {"map", "idle", "panic"} \/ pc' = pc)
<1>0. pc \notin {"start", "walk"}
  BY DEF Phases
<1>1. CASE InitStep
  BY <1>0, <1>1 DEF InitStep, InitRefuses, StartWalk, OpenRange, ExtendRange, HugeLeaf, SkipMissing,
     MapRange, DropRange, LoadCr3, RangeEnds
<1>2. CASE MapStep
  BY <1>2 DEF MapStep, Descend, AddTable, OutOfPool, HugeInTheWay, SetEntry, EntryExists, MapReturns,
     walk, Panic, Mapping
<1>3. CASE \E r \in Requests : MapPartial(r)
  BY <1>3 DEF MapPartial, walk
<1>4. CASE \E t \in 0 .. (used - 1), i \in 0 .. (Entries - 1) : Access(t, i)
  BY <1>4 DEF Access, walk
<1>5. CASE UNCHANGED vars
  BY <1>5 DEF vars, walk
<1> QED
  BY <1>1, <1>2, <1>3, <1>4, <1>5 DEF Next

LEMMA KernelKeeps ==
  ASSUME IInv, IInv', [Next]_vars, WInv, cr3 = "kernel"
  PROVE  WInv'
<1>1. /\ cr3' = "kernel" /\ at' = at /\ range' = range /\ boot' = boot
      /\ pc \notin {"start", "walk"} /\ pc' \notin {"start", "walk"}
  BY KernelSteps, GivenStays DEF WInv, Phases
<1>2. RangeOfLeaves'
  BY <1>1 DEF WInv, RangeOfLeaves, RunOfLeaves, Open, Covers
<1>3. JobOfLeaves' /\ Ahead' /\ NothingInvented'
  BY <1>1 DEF JobOfLeaves, Ahead, NothingInvented
<1>4. Behind'
  <2>1. Front' = Front
    BY <1>1 DEF Front, Open
  <2> QED
    BY <2>1, BehindStays DEF WInv
<1>5. Phases'
  BY <1>1 DEF WInv, Phases
<1> QED
  BY <1>2, <1>3, <1>4, <1>5 DEF WInv

(***************************************************************************)
(* The steps of the walk                                                   *)
(***************************************************************************)
LEMMA InitWalks ==
  ASSUME Init
  PROVE  WInv
<1>1. pc = "start" /\ cr3 = "boot" /\ at = 0 /\ ~Open /\ why = "none"
  BY DEF Init, Open, NoRange
<1>2. \A q \in Pages : Found(pool, q) = Blank /\ Translate(q) = <<>>
  <2> SUFFICES ASSUME NEW q \in Pages PROVE Found(pool, q) = Blank /\ Translate(q) = <<>>
    OBVIOUS
  <2>1. Index(q, 1) \in Slots /\ 0 \in PoolPages
    BY IndexType, PagesType, PoolType
  <2>2. Entry1(pool, q) = Blank
    BY <2>1 DEF Init, BlankTable, Slots, PoolPages, Entry1
  <2>3. Found(pool, q) = Blank
    BY <2>2, BlankType DEF Found, Reaches
  <2>4. Shape(pool, used)
    BY InitKeeps DEF IInv, PoolInShape
  <2> QED
    BY <2>3, <2>4, TranslateFound, BlankType DEF Translation
<1>3. PageCount # 0
  BY PageNumbers
<1> QED
  BY <1>1, <1>2, <1>3 DEF WInv, RangeOfLeaves, JobOfLeaves, Ahead, Behind, NothingInvented, Phases

LEMMA RefusesWalks ==
  ASSUME IInv, IInv', [Next]_vars, WInv, InitRefuses
  PROVE  WInv'
<1>1. /\ pc = "start" /\ cr3 = "boot" /\ ~Open /\ pc' = "panic" /\ why' = "limine"
      /\ cr3' = cr3 /\ range' = range
  BY DEF InitRefuses, Panic, walk, WInv, Phases
<1>2. ~ SetEntry
  BY <1>1 DEF SetEntry, Mapping
<1>3. NothingInvented'
  BY <1>2, NothingInventedStays DEF WInv
<1>4. ~ Open'
  BY <1>1 DEF Open
<1> QED
  BY <1>1, <1>3, <1>4 DEF WInv, RangeOfLeaves, JobOfLeaves, Ahead, Behind, Phases

LEMMA StartWalks ==
  ASSUME IInv, IInv', [Next]_vars, WInv, StartWalk
  PROVE  WInv'
<1>1. /\ pc = "start" /\ cr3 = "boot" /\ ~Open /\ at = 0 /\ pc' = "walk" /\ why' = why
      /\ cr3' = cr3 /\ range' = range /\ at' = at /\ pool' = pool /\ ~Open'
      /\ \A q \in Pages : Found(pool, q) = Blank
  BY DEF StartWalk, walk, WInv, Phases, Open
<1>2. ~ SetEntry
  BY <1>1 DEF SetEntry, Mapping
<1>3. NothingInvented'
  BY <1>2, NothingInventedStays DEF WInv
<1>4. Ahead'
  BY <1>1, BlankType DEF Ahead
<1>5. Behind'
  <2>1. Front' = 0
    BY <1>1 DEF Front
  <2>2. \A leaf \in boot' : ~ (leaf.at < 0)
    <3>1. boot' \in BootTables
      BY DEF IInv, TypeOK
    <3> QED
      BY <3>1, LeafNumbers
  <2> QED
    BY <2>1, <2>2 DEF Behind
<1>6. RangeOfLeaves' /\ JobOfLeaves'
  BY <1>1 DEF RangeOfLeaves, JobOfLeaves
<1>7. Phases'
  BY <1>1, PageNumbers DEF Phases, WInv
<1> QED
  BY <1>3, <1>4, <1>5, <1>6, <1>7 DEF WInv

LEMMA FrontTypeNext == ASSUME IInv' PROVE Front' \in Nat
<1>1. /\ job'.at \in Pages /\ at' \in 0 .. PageCount
      /\ range' \in {NoRange} \cup [at : Pages, frame : Nat, flags : SUBSET Flags,
                                    pages : {1, Entries}, count : Nat]
  BY DEF IInv, TypeOK
<1>2. Open' => range'.at \in Pages
  <2>1. range' = NoRange => ~ Open'
    BY DEF Open, NoRange
  <2> QED
    BY <1>1, <2>1
<1>3. job'.at \in Nat /\ at' \in Nat /\ (Open' => range'.at \in Nat)
  BY <1>1, <1>2, PagesType, PageNumbers
<1> QED
  BY <1>3 DEF Front

(* What all steps of the walk have in common. *)
LEMMA WalkStepsWalk ==
  ASSUME IInv, IInv', [Next]_vars, WInv, pc = "walk", pc' \in {"walk", "map"}, cr3' = cr3, why' = why,
         Front <= Front', \A leaf \in boot : InKeptMemory(leaf) /\ leaf.at < Front' => leaf.at < Front,
         RangeOfLeaves', JobOfLeaves'
  PROVE  WInv'
<1>1. cr3 = "boot" /\ ~ SetEntry
  BY DEF WInv, Phases, SetEntry, Mapping
<1>2. NothingInvented'
  BY <1>1, NothingInventedStays DEF WInv
<1>3. Ahead'
  BY <1>1, FrontType, FrontTypeNext, AheadStays DEF WInv
<1>4. Behind'
  BY BehindStays DEF WInv
<1>5. Phases'
  BY <1>1 DEF Phases, WInv
<1> QED
  BY <1>2, <1>3, <1>4, <1>5 DEF WInv

LEMMA OpenWalks ==
  ASSUME IInv, IInv', [Next]_vars, WInv, OpenRange
  PROVE  WInv'
<1>1. PICK leaf \in LeafAt(at) :
        /\ pc = "walk" /\ leaf.pages # Span(2) /\ ~Open
        /\ range' = [at |-> at, frame |-> leaf.frame, flags |-> Kept(leaf.flags),
                     pages |-> leaf.pages, count |-> 1]
        /\ at' = at + leaf.pages
        /\ UNCHANGED <<given, cr3, tables, pc, why, job, path, wanted>>
  BY DEF OpenRange
<1>2. /\ boot \in BootTables /\ leaf \in boot /\ leaf.at = at /\ boot' = boot
      /\ leaf.at \in Nat /\ leaf.pages \in Nat /\ leaf.pages > 0 /\ leaf.frame \in Nat
  BY LeafNumbers, GivenStays DEF LeafAt, IInv, TypeOK
<1>3. Open' /\ range'.at = at /\ Front' = at /\ Front = at
  BY <1>1 DEF Open, Front
<1>4. RangeOfLeaves'
  <2>1. range'.at + range'.count * range'.pages = at'
    BY <1>1, <1>2, Product
  <2>2. RunOfLeaves(range.at, range.frame, range.pages, range.flags)'
    <3> SUFFICES ASSUME NEW q \in at .. at' - 1
                 PROVE  /\ Covers(leaf, q) /\ at <= leaf.at /\ leaf.at + leaf.pages <= at'
                        /\ leaf.frame = leaf.frame + (leaf.at - at)
      BY <1>1, <1>2 DEF RunOfLeaves, Covers
    <3> QED
      BY <1>1, <1>2 DEF Covers
  <2> QED
    BY <2>1, <2>2 DEF RangeOfLeaves
<1>5. JobOfLeaves'
  BY <1>1 DEF JobOfLeaves
<1>6. Front <= Front' /\ at \in Nat
  BY <1>2, <1>3
<1> QED
  BY <1>1, <1>3, <1>4, <1>5, <1>6, WalkStepsWalk

LEMMA ExtendWalks ==
  ASSUME IInv, IInv', [Next]_vars, WInv, ExtendRange
  PROVE  WInv'
<1>1. PICK leaf \in LeafAt(at) :
        /\ pc = "walk" /\ leaf.pages # Span(2) /\ Open /\ Extends(leaf)
        /\ range' = [range EXCEPT !.count = @ + 1]
        /\ at' = at + leaf.pages
        /\ UNCHANGED <<given, cr3, tables, pc, why, job, path, wanted>>
  BY DEF ExtendRange
<1>2. /\ boot \in BootTables /\ leaf \in boot /\ leaf.at = at /\ boot' = boot
      /\ leaf.at \in Nat /\ leaf.pages \in Nat /\ leaf.pages > 0 /\ leaf.frame \in Nat
  BY LeafNumbers, GivenStays DEF LeafAt, IInv, TypeOK
<1>3. range \in [at : Pages, frame : Nat, flags : SUBSET Flags, pages : {1, Entries}, count : Nat]
  BY <1>1, RangeType
<1>4. /\ range.at \in Nat /\ range.frame \in Nat /\ range.pages \in Nat /\ range.count \in Nat
      /\ range'.at = range.at /\ range'.frame = range.frame /\ range'.flags = range.flags
      /\ range'.pages = range.pages /\ range'.count = range.count + 1
  <2>1. range.at \in Pages /\ range.pages \in {1, Entries}
    BY <1>3
  <2> QED
    BY <1>1, <1>3, <2>1, PagesType, EntriesType
<1>5. /\ range.at + range.count * range.pages = at
      /\ RunOfLeaves(range.at, range.frame, range.pages, range.flags)
      /\ leaf.frame = range.frame + range.count * range.pages
      /\ leaf.pages = range.pages /\ Kept(leaf.flags) = range.flags
  BY <1>1 DEF WInv, RangeOfLeaves, Extends
<1>6. /\ range.count * range.pages \in Nat
      /\ (range.count + 1) * range.pages = range.count * range.pages + range.pages
  BY <1>4, Product
<1>7. Open' /\ Front' = range.at /\ Front = range.at
  BY <1>1, <1>4 DEF Open, Front
<1>8. RangeOfLeaves'
  <2>1. range'.at + range'.count * range'.pages = at'
    BY <1>1, <1>2, <1>4, <1>5, <1>6
  <2>2. RunOfLeaves(range.at, range.frame, range.pages, range.flags)'
    <3> SUFFICES ASSUME NEW q \in range.at .. at' - 1
                 PROVE  \E l \in boot :
                          /\ Covers(l, q) /\ range.at <= l.at /\ l.at + l.pages <= at'
                          /\ l.pages = range.pages /\ Kept(l.flags) = range.flags
                          /\ l.frame = range.frame + (l.at - range.at)
      BY <1>2, <1>4 DEF RunOfLeaves, Covers
    <3>1. CASE q < at
      <4>1. q \in range.at .. at - 1
        BY <1>2, <1>4, <3>1
      <4>2. PICK l \in boot :
              /\ Covers(l, q) /\ range.at <= l.at /\ l.at + l.pages <= at
              /\ l.pages = range.pages /\ Kept(l.flags) = range.flags
              /\ l.frame = range.frame + (l.at - range.at)
        BY <1>5, <4>1 DEF RunOfLeaves
      <4>3. l.at \in Nat /\ l.pages \in Nat
        BY <1>2, LeafNumbers
      <4>4. l.at + l.pages <= at'
        BY <1>1, <1>2, <4>2, <4>3
      <4> QED
        BY <4>2, <4>4
    <3>2. CASE q >= at
      <4>1. Covers(leaf, q)
        BY <1>1, <1>2, <1>4, <3>2 DEF Covers
      <4>2. /\ range.at <= leaf.at /\ leaf.at + leaf.pages <= at'
            /\ leaf.frame = range.frame + (leaf.at - range.at)
        BY <1>1, <1>2, <1>4, <1>5, <1>6
      <4> QED
        BY <1>2, <1>5, <4>1, <4>2
    <3> QED
      BY <1>2, <1>4, <3>1, <3>2
  <2> QED
    BY <2>1, <2>2 DEF RangeOfLeaves
<1>9. JobOfLeaves'
  BY <1>1 DEF JobOfLeaves
<1>10. Front <= Front'
  BY <1>4, <1>7
<1> QED
  BY <1>1, <1>7, <1>8, <1>9, <1>10, WalkStepsWalk

LEMMA PanicWalks ==
  ASSUME IInv, IInv', [Next]_vars, WInv, cr3 = "boot", pc' = "panic", why' # "exists", ~ SetEntry,
         UNCHANGED <<cr3, walk>>
  PROVE  WInv'
<1>1. at' = at /\ range' = range /\ boot' = boot /\ cr3' = cr3
  BY GivenStays DEF walk
<1>2. NothingInvented'
  BY NothingInventedStays DEF WInv
<1>3. RangeOfLeaves'
  BY <1>1 DEF WInv, RangeOfLeaves, RunOfLeaves, Open, Covers
<1> QED
  BY <1>1, <1>2, <1>3 DEF WInv, JobOfLeaves, Ahead, Behind, Phases

LEMMA HugeLeafWalks ==
  ASSUME IInv, IInv', [Next]_vars, WInv, HugeLeaf
  PROVE  WInv'
<1>1. pc = "walk" /\ pc' = "panic" /\ why' = "1GB" /\ UNCHANGED <<cr3, walk>>
  BY DEF HugeLeaf, Panic
<1>2. cr3 = "boot" /\ ~ SetEntry
  BY <1>1 DEF WInv, Phases, SetEntry, Mapping
<1> QED
  BY <1>1, <1>2, PanicWalks

LEMMA LeastLeaf ==
  ASSUME NEW b \in BootTables, NEW a \in Nat, a <= PageCount,
         NEW m, m = Min({leaf.at : leaf \in {l \in b : l.at > a}} \cup {PageCount})
  PROVE  m \in Nat /\ a <= m /\ \A leaf \in b : leaf.at > a => m <= leaf.at
<1> DEFINE S == {leaf.at : leaf \in {l \in b : l.at > a}} \cup {PageCount}
<1>1. S \in SUBSET Nat /\ S # {} /\ \A k \in S : a <= k
  <2>1. \A leaf \in b : leaf.at \in Nat
    BY LeafNumbers
  <2> QED
    BY <2>1, PageNumbers
<1>2. PICK i \in S : \A k \in S : i <= k
  BY <1>1, LeastNatural
<1>3. m \in S /\ \A k \in S : m <= k
  BY <1>2 DEF Min
<1> QED
  BY <1>1, <1>3

LEMMA SkipWalks ==
  ASSUME IInv, IInv', [Next]_vars, WInv, SkipMissing
  PROVE  WInv'
<1>1. /\ pc = "walk" /\ at \in Pages /\ LeafAt(at) = {} /\ ~Open
      /\ at' = Min({leaf.at : leaf \in {l \in boot : l.at > at}} \cup {PageCount})
      /\ pc' = pc /\ cr3' = cr3 /\ why' = why /\ range' = range
  BY DEF SkipMissing
<1>2. boot \in BootTables /\ at \in Nat /\ at <= PageCount
  BY <1>1, PagesType, PageNumbers DEF IInv, TypeOK
<1>3. at' \in Nat /\ at <= at' /\ \A leaf \in boot : leaf.at > at => at' <= leaf.at
  BY <1>1, <1>2, LeastLeaf
<1>4. ~Open' /\ Front = at /\ Front' = at'
  BY <1>1 DEF Open, Front
<1>5. ASSUME NEW leaf \in boot, leaf.at < Front' PROVE leaf.at < Front
  <2>1. leaf.at \in Nat
    BY <1>2, LeafNumbers
  <2>2. leaf.at # at
    BY <1>1 DEF LeafAt
  <2> QED
    BY <1>2, <1>3, <1>4, <1>5, <2>1, <2>2
<1>6. RangeOfLeaves' /\ JobOfLeaves'
  BY <1>1, <1>4 DEF RangeOfLeaves, JobOfLeaves
<1> QED
  BY <1>1, <1>3, <1>4, <1>5, <1>6, WalkStepsWalk

LEMMA MapRangeWalks ==
  ASSUME IInv, IInv', [Next]_vars, WInv, MapRange
  PROVE  WInv'
<1>1. /\ pc = "walk" /\ Open /\ pc' = "map" /\ range' = NoRange
      /\ cr3' = cr3 /\ why' = why /\ at' = at
      /\ job' = [at |-> range.at, frame |-> range.frame, flags |-> range.flags,
                 pages |-> range.pages, left |-> range.count]
  BY DEF MapRange, RangeEnds
<1>2. ~Open' /\ boot' = boot
  BY <1>1, GivenStays DEF Open, NoRange
<1>3. cr3 = "boot"
  BY <1>1 DEF WInv, Phases
<1>4. job'.left > 0 /\ Front = range.at /\ Front' = range.at
  BY <1>1, <1>3 DEF Front, Open
<1>5. RangeOfLeaves'
  BY <1>2 DEF RangeOfLeaves
<1>6. JobOfLeaves'
  <2>1. /\ range.at + range.count * range.pages = at
        /\ RunOfLeaves(range.at, range.frame, range.pages, range.flags)
    BY <1>1 DEF WInv, RangeOfLeaves
  <2> QED
    BY <1>1, <1>2, <2>1 DEF JobOfLeaves, RunOfLeaves, Covers
<1>7. Front <= Front'
  BY <1>4, FrontType
<1> QED
  BY <1>1, <1>4, <1>5, <1>6, <1>7, WalkStepsWalk

LEMMA LeafOfRun ==
  ASSUME IInv, NEW first, NEW frame, NEW pages, NEW flags, RunOfLeaves(first, frame, pages, flags),
         first \in Nat, NEW leaf \in boot, first <= leaf.at, leaf.at < at
  PROVE  /\ leaf.at + leaf.pages <= at /\ leaf.pages = pages /\ Kept(leaf.flags) = flags
         /\ leaf.frame = frame + (leaf.at - first)
<1>1. boot \in BootTables /\ leaf.at \in Nat /\ at \in Nat
  <2>1. boot \in BootTables /\ at \in 0 .. PageCount
    BY DEF IInv, TypeOK
  <2> QED
    BY <2>1, LeafNumbers, PageNumbers
<1>2. leaf.at \in first .. at - 1
  BY <1>1
<1>3. PICK l \in boot :
        /\ Covers(l, leaf.at) /\ first <= l.at /\ l.at + l.pages <= at
        /\ l.pages = pages /\ Kept(l.flags) = flags /\ l.frame = frame + (l.at - first)
  BY <1>2 DEF RunOfLeaves
<1>4. l = leaf
  BY <1>1, <1>3, LeavesApart, LeafCoversItsStart
<1> QED
  BY <1>3, <1>4

LEMMA DropRangeWalks ==
  ASSUME IInv, IInv', [Next]_vars, WInv, DropRange
  PROVE  WInv'
<1>1. /\ pc = "walk" /\ Open /\ ~IsKept /\ pc' = pc /\ range' = NoRange
      /\ cr3' = cr3 /\ why' = why /\ at' = at
  BY DEF DropRange, RangeEnds
<1>2. ~Open' /\ Front = range.at /\ Front' = at
  BY <1>1 DEF Open, NoRange, Front
<1>3. /\ range.at + range.count * range.pages = at
      /\ RunOfLeaves(range.at, range.frame, range.pages, range.flags)
  BY <1>1 DEF WInv, RangeOfLeaves
<1>4. /\ range.at \in Nat /\ range.frame \in Nat /\ range.count * range.pages \in Nat
      /\ boot \in BootTables /\ memmap \in MemoryMaps
  <2>1. range \in [at : Pages, frame : Nat, flags : SUBSET Flags, pages : {1, Entries}, count : Nat]
    BY <1>1, RangeType
  <2>2. range.at \in Pages /\ range.frame \in Nat /\ range.count \in Nat /\ range.pages \in Nat
    BY <2>1, EntriesType
  <2> QED
    BY <2>2, PagesType, Product DEF IInv, TypeOK
<1>5. ASSUME NEW leaf \in boot, InKeptMemory(leaf), leaf.at < Front' PROVE leaf.at < Front
  <2> SUFFICES ASSUME range.at <= leaf.at PROVE FALSE
    BY <1>2, <1>4, LeafNumbers
  <2>1. leaf.at \in Nat /\ leaf.pages \in Nat /\ leaf.pages > 0 /\ leaf.frame \in Nat
    BY <1>4, LeafNumbers
  <2>2. leaf.at + leaf.pages <= at /\ leaf.frame = range.frame + (leaf.at - range.at)
    BY <1>2, <1>3, <1>4, <1>5, LeafOfRun
  <2>3. PICK e \in memmap : e.kept /\ (e.base .. (e.base + e.length - 1))
                              \cap (leaf.frame .. (leaf.frame + leaf.pages - 1)) # {}
    BY <1>5 DEF InKeptMemory
  <2>4. e.base \in Nat /\ e.length \in Nat
    BY <1>4, PagingAssumption
  <2>5. PICK x \in e.base .. (e.base + e.length - 1) : x \in leaf.frame .. (leaf.frame + leaf.pages - 1)
    BY <2>3
  <2>6. RangesOverlap(e)
    <3> DEFINE n == range.count * range.pages
    <3>1. n \in Nat /\ range.at + n = at
      BY <1>3, <1>4
    <3> HIDE DEF n
    <3>2. range.frame <= e.base + e.length /\ range.frame + n - 1 >= e.base
      BY <1>4, <2>1, <2>2, <2>4, <2>5, <3>1
    <3> QED
      BY <3>2 DEF RangesOverlap, n
  <2> QED
    BY <1>1, <2>3, <2>6 DEF IsKept
<1>6. RangeOfLeaves' /\ JobOfLeaves'
  BY <1>1, <1>2 DEF RangeOfLeaves, JobOfLeaves
<1>7. Front <= Front'
  BY <1>2, <1>3, <1>4
<1> QED
  BY <1>1, <1>5, <1>6, <1>7, WalkStepsWalk

LEMMA LoadWalks ==
  ASSUME IInv, IInv', [Next]_vars, WInv, LoadCr3
  PROVE  WInv'
<1>1. /\ pc = "walk" /\ at = PageCount /\ pc' = "idle" /\ cr3' = "kernel" /\ cr3 = "boot"
      /\ at' = at /\ range' = range /\ why' = why /\ boot' = boot
  BY GivenStays DEF LoadCr3, walk, WInv, Phases
<1>2. Front' = Front
  BY <1>1 DEF Front, Open
<1>3. Behind'
  BY <1>1, <1>2, BehindStays DEF WInv
<1>4. RangeOfLeaves' /\ JobOfLeaves' /\ Ahead' /\ NothingInvented'
  BY <1>1 DEF WInv, RangeOfLeaves, RunOfLeaves, Open, Covers, JobOfLeaves, Ahead, NothingInvented
<1>5. Phases'
  BY <1>1 DEF WInv, Phases
<1> QED
  BY <1>3, <1>4, <1>5 DEF WInv

(***************************************************************************)
(* The steps of mapMemory during init                                      *)
(***************************************************************************)
LEMMA MapsToNothing ==
  ASSUME IInv, WInv, cr3 = "boot", Mapping
  PROVE  /\ AtLeaf => Here = Blank
         /\ ~AtLeaf => Here.kind # "huge"
<1>1. /\ Shape(pool, used) /\ job.at \in Pages /\ level \in 1 .. 4 /\ Reaches(pool, job.at, level)
      /\ node = NodeAt(pool, job.at, level) /\ node \in PoolPages /\ Slot \in Slots
      /\ Here = EntryAt(pool, job.at, level) /\ Here.kind \in KindsOf(level)
      /\ pc = "map" /\ job.left > 0
  BY MapNow DEF Mapping
<1>2. Front = job.at
  BY <1>1 DEF Front
<1>3. \A q \in Pages : q >= job.at => Found(pool, q).kind = "none"
  BY <1>1, <1>2 DEF WInv, Ahead
<1>4. Found(pool, job.at).kind = "none"
  BY <1>1, <1>3, PagesType
<1>5. Here.kind = "none" => Here = Blank
  BY <1>1 DEF Shape, NoneIsBlank, Here
<1>6. CASE level = 4
  BY <1>1, <1>4, <1>5, <1>6, FoundByLevel DEF AtLeaf
<1>7. CASE level \in {1, 2}
  BY <1>1, <1>7 DEF AtLeaf, KindsOf
<1>8. CASE level = 3 /\ Here.kind # "table"
  BY <1>1, <1>4, <1>5, <1>8, FoundByLevel
<1>9. CASE level = 3 /\ Here.kind = "table" /\ job.pages # Entries
  BY <1>9 DEF AtLeaf
<1>10. CASE level = 3 /\ Here.kind = "table" /\ job.pages = Entries
  <2> DEFINE t == Here.to
  <2>1. t \in node + 1 .. used - 1 /\ used \in PoolPages
    BY <1>1, <1>10 DEF Shape, LinksDown, Here
  <2>2. t \in PoolPages /\ t \in 1 .. used - 1 /\ t # node
    <3>1. node \in Nat /\ used \in Nat /\ used <= PoolSize - 1
      BY <1>1, <2>1, PoolType DEF PoolPages
    <3> QED
      BY <2>1, <3>1, PoolType DEF PoolPages
  <2>3. pool[t] # BlankTable
    BY <1>1, <2>2 DEF IInv, Filled
  <2>4. pool[t] \in [Slots -> Entry]
    BY <1>1, <2>2 DEF Shape
  <2> HIDE DEF t
  <2>5. PICK i \in Slots : pool[t][i] # Blank
    BY <2>3, <2>4 DEF BlankTable, Slots
  <2> DEFINE q == job.at + i
  <2>6. job.at % Entries = 0
    BY <1>10 DEF IInv, Aligned
  <2>7. q \in job.at .. job.at + Entries - 1 /\ q >= job.at /\ q - job.at = i
    BY <1>1, EntriesType, PagesType DEF Slots
  <2>8. q \in Pages
    BY <1>1, <2>6, <2>7, BlockIsOfPages
  <2> HIDE DEF q
  <2>9. (\A l \in 1 .. 3 : Index(job.at, l) = Index(q, l)) /\ q % Entries = i
    BY <1>1, <2>6, <2>7, <2>8, BlockOfPages
  <2>10. Index(q, 4) = i
    <3>1. q \in Int /\ q = 1 * q + 0 /\ 0 \in 0 .. 1 - 1
      BY <2>8, PagesType
    <3>2. q \div 1 = q
      BY <3>1, DivModUnique
    <3> QED
      BY <2>9, <3>2, SpanValues DEF Index
  <2>11. Reaches(pool, job.at, 4) /\ NodeAt(pool, job.at, 4) = t
    <3>1. 3 \in 1 .. 3 /\ 3 + 1 = 4
      OBVIOUS
    <3> QED
      BY <1>1, <1>10, <3>1, DescentGoesOn DEF t
  <2>12. Reaches(pool, q, 4) /\ NodeAt(pool, q, 4) = t
    <3>1. 4 \in 1 .. 4 /\ Alike(job.at, q, 4 - 1)
      BY <2>9 DEF Alike
    <3> QED
      BY <2>11, <3>1, SameIndexesSameTable
  <2>13. Found(pool, q) = pool[t][i]
    BY <2>10, <2>12, FoundByLevel, EntryOfNode
  <2>14. pool[t][i].kind = "none"
    BY <1>3, <2>7, <2>8, <2>13
  <2> QED
    BY <1>1, <2>2, <2>5, <2>14 DEF Shape, NoneIsBlank
<1> QED
  BY <1>1, <1>6, <1>7, <1>8, <1>9, <1>10

(* The steps that leave the job and the pages as they are. *)
LEMMA DescentWalks ==
  ASSUME IInv, IInv', [Next]_vars, WInv, cr3 = "boot", ~ (SetEntry /\ Here # NewEntry),
         UNCHANGED <<cr3, pc, why, walk, job, boot>>, pc # "start"
  PROVE  WInv'
<1>1. at' = at /\ range' = range /\ job' = job /\ pc' = pc /\ cr3' = cr3 /\ why' = why /\ boot' = boot
  BY DEF walk
<1>2. Front' = Front /\ Front \in Nat
  BY <1>1, FrontType DEF Front, Open
<1>3. NothingInvented'
  BY NothingInventedStays DEF WInv
<1>4. Ahead'
  BY <1>1, <1>2, AheadStays DEF WInv
<1>5. Behind'
  BY <1>1, <1>2, BehindStays DEF WInv
<1>6. RangeOfLeaves' /\ JobOfLeaves'
  BY <1>1 DEF WInv, RangeOfLeaves, JobOfLeaves, RunOfLeaves, Open, Covers
<1>7. Phases'
  BY <1>1 DEF WInv, Phases
<1> QED
  BY <1>3, <1>4, <1>5, <1>6, <1>7 DEF WInv

LEMMA ReturnWalks ==
  ASSUME IInv, IInv', [Next]_vars, WInv, cr3 = "boot", MapReturns
  PROVE  WInv'
<1>1. /\ at' = at /\ range' = range /\ pc = "map" /\ pc' = "walk" /\ job.left = 0
      /\ cr3' = cr3 /\ why' = why /\ boot' = boot
  BY GivenStays DEF MapReturns, Mapped, walk
<1>2. Front' = Front /\ Front \in Nat
  BY <1>1, FrontType DEF Front, Open
<1>0. ~ SetEntry
  BY <1>1 DEF SetEntry, Mapping
<1>3. NothingInvented'
  BY <1>0, NothingInventedStays DEF WInv
<1>4. Ahead'
  BY <1>0, <1>1, <1>2, AheadStays DEF WInv
<1>5. Behind'
  BY <1>1, <1>2, BehindStays DEF WInv
<1>6. RangeOfLeaves' /\ JobOfLeaves'
  BY <1>1 DEF WInv, RangeOfLeaves, JobOfLeaves, RunOfLeaves, Open, Covers
<1>7. Phases'
  BY <1>1 DEF WInv, Phases
<1> QED
  BY <1>3, <1>4, <1>5, <1>6, <1>7 DEF WInv

(***************************************************************************)
(* The entry that is set stands for the leaf at the job's page.            *)
(***************************************************************************)
LEMMA LeafOfJob ==
  ASSUME IInv, WInv, cr3 = "boot", Mapping
  PROVE  /\ ~Open /\ at \in Nat /\ at <= PageCount /\ job.at \in Nat /\ job.frame \in Nat
         /\ job.pages \in Nat /\ job.pages > 0 /\ job.left \in Nat
         /\ job.at + job.left * job.pages = at
         /\ RunOfLeaves(job.at, job.frame, job.pages, job.flags)
         /\ \E leaf \in boot :
              /\ leaf.at = job.at /\ leaf.pages = job.pages /\ leaf.frame = job.frame
              /\ Kept(leaf.flags) = job.flags /\ job.flags \ {"accessed"} = job.flags
              /\ job.at + job.pages <= at
<1>1. /\ ~Open /\ job.at + job.left * job.pages = at
      /\ RunOfLeaves(job.at, job.frame, job.pages, job.flags) /\ job.left > 0
  BY DEF WInv, JobOfLeaves, Mapping
<1>2. /\ at \in Nat /\ at <= PageCount /\ job.at \in Nat /\ job.frame \in Nat
      /\ job.pages \in Nat /\ job.pages > 0 /\ job.left \in Nat
  <2>1. /\ at \in 0 .. PageCount
        /\ job \in [at : Pages, frame : Nat, flags : SUBSET Flags, pages : {1, Entries}, left : Nat]
    BY DEF IInv, TypeOK
  <2>2. job.at \in Pages /\ job.pages \in {1, Entries} /\ job.frame \in Nat /\ job.left \in Nat
    BY <2>1
  <2> QED
    BY <2>1, <2>2, PagesType, PageNumbers, EntriesType
<1>3. job.at + job.pages <= at
  <2>1. 1 * job.pages = job.pages /\ 1 <= job.left
    BY <1>1, <1>2
  <2>2. job.pages * 1 <= job.pages * job.left
    BY <1>2, <2>1, TimesMonotonic
  <2>3. job.pages * 1 = job.pages /\ job.pages * job.left = job.left * job.pages
    BY <1>2
  <2> DEFINE n == job.left * job.pages
  <2>4. n \in Nat /\ job.pages <= n /\ job.at + n = at
    BY <1>1, <1>2, <2>2, <2>3, Product
  <2> HIDE DEF n
  <2> QED
    BY <1>2, <2>4
<1>4. job.at \in job.at .. at - 1
  BY <1>2, <1>3
<1>5. PICK leaf \in boot :
        /\ Covers(leaf, job.at) /\ job.at <= leaf.at
        /\ leaf.pages = job.pages /\ Kept(leaf.flags) = job.flags
        /\ leaf.frame = job.frame + (leaf.at - job.at)
  BY <1>1, <1>4 DEF RunOfLeaves
<1>6. leaf.at \in Nat
  BY LeafNumbers DEF IInv, TypeOK
<1>7. leaf.at = job.at
  BY <1>2, <1>5, <1>6 DEF Covers
<1>8. job.flags \ {"accessed"} = job.flags
  BY <1>5 DEF Kept
<1> QED
  BY <1>1, <1>2, <1>3, <1>5, <1>7, <1>8

LEMMA SetWalks ==
  ASSUME IInv, IInv', [Next]_vars, WInv, cr3 = "boot", SetEntry
  PROVE  WInv'
<1>1. /\ Mapping /\ AtLeaf /\ pc = "map" /\ job.left > 0 /\ pc' = pc /\ cr3' = cr3 /\ why' = why
      /\ at' = at /\ range' = range /\ boot' = boot /\ boot \in BootTables
      /\ job \in [at : Pages, frame : Nat, flags : SUBSET Flags, pages : {1, Entries}, left : Nat]
      /\ job' = [job EXCEPT !.left = @ - 1, !.frame = @ + job.pages, !.at = (@ + job.pages) % PageCount]
  BY GivenStays DEF SetEntry, NextPage, Mapping, walk, IInv, TypeOK
<1>2. Here # NewEntry
  BY <1>1, MapsToNothing, BlankType DEF NewEntry, Leaf
<1>3. /\ ~Open /\ at \in Nat /\ at <= PageCount /\ job.at \in Nat /\ job.frame \in Nat
      /\ job.pages \in Nat /\ job.pages > 0 /\ job.left \in Nat
      /\ job.at + job.left * job.pages = at
      /\ RunOfLeaves(job.at, job.frame, job.pages, job.flags)
  BY <1>1, LeafOfJob
<1>4. PICK leaf \in boot :
        /\ leaf.at = job.at /\ leaf.pages = job.pages /\ leaf.frame = job.frame
        /\ Kept(leaf.flags) = job.flags /\ job.flags \ {"accessed"} = job.flags
        /\ job.at + job.pages <= at
  BY <1>1, LeafOfJob
<1>5. ASSUME NEW q \in Pages, q \in job.at .. job.at + job.pages - 1
      PROVE  Translate(q)' = <<leaf.frame + (q - leaf.at), Kept(leaf.flags)>>
  <2>1. Translate(q)' = <<job.frame + (q - job.at), job.flags \ {"accessed"}>>
    BY <1>2, <1>5, SetEntryTranslates
  <2> QED
    BY <1>4, <2>1
<1>16. ASSUME NEW q \in Pages, q \notin job.at .. job.at + job.pages - 1
       PROVE  Translate(q)' = Translate(q) /\ Found(pool', q) = Found(pool, q)
  BY <1>2, <1>16, SetEntryTranslates
<1>6. /\ job'.left = job.left - 1 /\ job'.frame = job.frame + job.pages /\ job'.pages = job.pages
      /\ job'.flags = job.flags /\ job'.at = (job.at + job.pages) % PageCount
  BY <1>1
<1>7. job.at + job.pages + (job.left - 1) * job.pages = at /\ (job.left = 1 => job.at + job.pages = at)
  <2> DEFINE k == job.left - 1
  <2>1. k \in Nat /\ job.left = k + 1
    BY <1>1, <1>3
  <2>2. (k + 1) * job.pages = k * job.pages + job.pages /\ k * job.pages \in Nat /\ 0 * job.pages = 0
    BY <1>3, <2>1, Product
  <2>3. job.at + (k + 1) * job.pages = at
    BY <1>3, <2>1
  <2> HIDE DEF k
  <2>4. job.at + job.pages + k * job.pages = at
    BY <1>3, <2>2, <2>3
  <2>5. ASSUME k = 0 PROVE job.at + job.pages = at
    <3>1. k * job.pages = 0
      BY <2>2, <2>5
    <3> QED
      BY <1>3, <2>4, <3>1
  <2> QED
    BY <1>3, <2>1, <2>4, <2>5 DEF k
<1>8. job.left > 1 => job'.at = job.at + job.pages
  <2> SUFFICES ASSUME job.left > 1 PROVE (job.at + job.pages) % PageCount = job.at + job.pages
    BY <1>6
  <2>1. job.left - 1 \in Nat /\ 1 <= job.left - 1
    BY <1>3
  <2>2. job.pages * 1 <= job.pages * (job.left - 1)
    BY <1>3, <2>1, TimesMonotonic
  <2>3. job.pages <= (job.left - 1) * job.pages
    BY <1>3, <2>1, <2>2
  <2>4. (job.left - 1) * job.pages \in Nat
    BY <1>3, <2>1, Product
  <2>5. job.at + job.pages < at
    BY <1>3, <1>7, <2>3, <2>4
  <2>6. job.at + job.pages = PageCount * 0 + job.at + job.pages /\ job.at + job.pages \in 0 .. PageCount - 1
    BY <1>3, <2>5, PageNumbers
  <2> QED
    BY <2>6, DivModUnique, PageNumbers
<1>9. Front = job.at /\ Front' = job.at + job.pages
  BY <1>1, <1>3, <1>6, <1>7, <1>8 DEF Front, Open
<1>10. NothingInvented'
  <2> SUFFICES ASSUME NEW p \in Pages, Translate(p)' # <<>>
               PROVE  \E l \in boot : /\ Covers(l, p)
                                      /\ Translate(p)' = <<l.frame + (p - l.at), Kept(l.flags)>>
    BY <1>1 DEF NothingInvented, Covers
  <2>1. CASE p \in job.at .. job.at + job.pages - 1
    <3>1. Covers(leaf, p)
      BY <1>3, <1>4, <2>1 DEF Covers
    <3> QED
      BY <1>5, <2>1, <3>1
  <2>2. CASE p \notin job.at .. job.at + job.pages - 1
    BY <1>1, <1>16, <2>2 DEF WInv, NothingInvented
  <2> QED
    BY <2>1, <2>2
<1>11. Ahead'
  <2> SUFFICES ASSUME NEW q \in Pages, q >= job.at + job.pages PROVE Found(pool', q).kind = "none"
    BY <1>9 DEF Ahead
  <2>1. q \notin job.at .. job.at + job.pages - 1 /\ q >= job.at
    BY <1>3, PagesType
  <2> QED
    BY <1>1, <1>16, <1>9, <2>1 DEF WInv, Ahead
<1>12. Behind'
  <2> SUFFICES ASSUME NEW l \in boot, InKeptMemory(l), l.at < job.at + job.pages,
                      NEW p \in l.at .. (l.at + l.pages - 1)
               PROVE  Translate(p)' = <<l.frame + (p - l.at), Kept(l.flags)>>
    <3>1. memmap' = memmap
      BY GivenStays
    <3> QED
      BY <1>1, <1>9, <3>1 DEF Behind, InKeptMemory
  <2>1. l.at \in Nat
    BY <1>1, LeafNumbers
  <2>2. CASE l.at < job.at
    BY <1>1, <1>9, <2>2, SettledStays DEF WInv
  <2>3. CASE l.at >= job.at
    <3>1. Covers(leaf, l.at) /\ Covers(l, l.at)
      BY <1>1, <1>3, <1>4, <2>1, <2>3, LeafCoversItsStart DEF Covers
    <3>2. l = leaf
      BY <1>1, <2>1, <3>1, LeavesApart
    <3>3. p \in Pages
      BY <1>1, LeafCoversItsStart DEF Covers
    <3>4. p \in job.at .. job.at + job.pages - 1
      BY <1>3, <1>4, <3>2
    <3> QED
      BY <1>5, <3>2, <3>3, <3>4
  <2> QED
    BY <1>3, <2>1, <2>2, <2>3
<1>13. RangeOfLeaves'
  BY <1>1, <1>3 DEF RangeOfLeaves, Open
<1>14. JobOfLeaves'
  <2> SUFFICES ASSUME job.left - 1 > 0
               PROVE  /\ job.at + job.pages + (job.left - 1) * job.pages = at
                      /\ \A q \in job.at + job.pages .. at - 1 : \E l \in boot :
                           /\ Covers(l, q) /\ job.at + job.pages <= l.at /\ l.at + l.pages <= at
                           /\ l.pages = job.pages /\ Kept(l.flags) = job.flags
                           /\ l.frame = job.frame + job.pages + (l.at - (job.at + job.pages))
    <3>1. ~Open'
      BY <1>1, <1>3 DEF Open
    <3>2. job.left - 1 > 0 => job'.at = job.at + job.pages
      BY <1>3, <1>8
    <3> QED
      BY <1>1, <1>6, <3>1, <3>2 DEF JobOfLeaves, RunOfLeaves, Covers
  <2> SUFFICES ASSUME NEW q \in job.at + job.pages .. at - 1
               PROVE  \E l \in boot :
                        /\ Covers(l, q) /\ job.at + job.pages <= l.at /\ l.at + l.pages <= at
                        /\ l.pages = job.pages /\ Kept(l.flags) = job.flags
                        /\ l.frame = job.frame + job.pages + (l.at - (job.at + job.pages))
    BY <1>7
  <2>1. q \in job.at .. at - 1
    BY <1>3
  <2>2. PICK l \in boot :
          /\ Covers(l, q) /\ job.at <= l.at /\ l.at + l.pages <= at
          /\ l.pages = job.pages /\ Kept(l.flags) = job.flags
          /\ l.frame = job.frame + (l.at - job.at)
    BY <1>3, <2>1 DEF RunOfLeaves
  <2>3. l.at \in Nat
    BY <1>1, LeafNumbers
  <2>4. job.at + job.pages <= l.at
    <3> SUFFICES ASSUME l.at < job.at + job.pages PROVE FALSE
      BY <1>3, <2>3
    <3>1. Covers(leaf, l.at) /\ Covers(l, l.at)
      BY <1>1, <1>3, <1>4, <2>2, <2>3, LeafCoversItsStart DEF Covers
    <3>2. l = leaf
      BY <1>1, <2>3, <3>1, LeavesApart
    <3> QED
      BY <1>3, <1>4, <2>2, <3>2 DEF Covers
  <2>5. l.frame = job.frame + job.pages + (l.at - (job.at + job.pages))
    BY <1>3, <2>2, <2>3
  <2> QED
    BY <2>2, <2>4, <2>5
<1>15. Phases'
  BY <1>1 DEF WInv, Phases
<1> QED
  BY <1>10, <1>11, <1>12, <1>13, <1>14, <1>15 DEF WInv

LEMMA InitStepWalks ==
  ASSUME IInv, IInv', [Next]_vars, WInv, InitStep
  PROVE  WInv'
BY RefusesWalks, StartWalks, OpenWalks, ExtendWalks, HugeLeafWalks, SkipWalks, MapRangeWalks,
   DropRangeWalks, LoadWalks DEF InitStep

LEMMA MapStepWalks ==
  ASSUME IInv, IInv', [Next]_vars, WInv, cr3 = "boot", MapStep
  PROVE  WInv'
<1>1. CASE Descend
  <2>1. pc = "map" /\ ~AtLeaf /\ UNCHANGED <<cr3, pc, why, walk, job, boot>>
    BY <1>1 DEF Descend, Mapping, given
  <2> QED
    BY <2>1, DescentWalks DEF SetEntry
<1>2. CASE AddTable
  <2>1. pc = "map" /\ ~AtLeaf /\ UNCHANGED <<cr3, pc, why, walk, job, boot>>
    BY <1>2 DEF AddTable, Mapping, given
  <2> QED
    BY <2>1, DescentWalks DEF SetEntry
<1>3. CASE OutOfPool
  <2>1. ~AtLeaf /\ pc' = "panic" /\ why' = "pool" /\ UNCHANGED <<cr3, walk>>
    BY <1>3 DEF OutOfPool, Panic
  <2> QED
    BY <2>1, PanicWalks DEF SetEntry
<1>4. CASE HugeInTheWay
  BY <1>4, MapsToNothing DEF HugeInTheWay
<1>5. CASE SetEntry
  BY <1>5, SetWalks
<1>6. CASE EntryExists
  BY <1>6, MapsToNothing DEF EntryExists, Conflict
<1>7. CASE MapReturns
  BY <1>7, ReturnWalks
<1> QED
  BY <1>1, <1>2, <1>3, <1>4, <1>5, <1>6, <1>7 DEF MapStep

LEMMA NextWalks ==
  ASSUME IInv, IInv', [Next]_vars, WInv
  PROVE  WInv'
<1>1. CASE cr3 = "kernel"
  BY <1>1, KernelKeeps
<1>2. CASE cr3 = "boot" /\ InitStep
  BY <1>2, InitStepWalks
<1>3. CASE cr3 = "boot" /\ MapStep
  BY <1>3, MapStepWalks
<1>4. CASE cr3 = "boot" /\ \E r \in Requests : MapPartial(r)
  BY <1>4 DEF MapPartial, WInv, Phases
<1>5. CASE cr3 = "boot" /\ \E t \in 0 .. (used - 1), i \in 0 .. (Entries - 1) : Access(t, i)
  BY <1>5 DEF Access
<1>6. CASE cr3 = "boot" /\ UNCHANGED vars
  <2>1. /\ at' = at /\ range' = range /\ job' = job /\ pc' = pc /\ cr3' = cr3 /\ why' = why
        /\ boot' = boot /\ memmap' = memmap /\ pool' = pool
    BY <1>6 DEF vars, walk, given, tables
  <2>2. Front' = Front /\ \A p : Translate(p)' = Translate(p)
    BY <2>1 DEF Front, Open, Translate, EntryOf, Index
  <2>3. RangeOfLeaves' /\ JobOfLeaves'
    BY <2>1 DEF WInv, RangeOfLeaves, JobOfLeaves, RunOfLeaves, Open, Covers
  <2>4. Ahead'
    BY <2>1, <2>2 DEF WInv, Ahead
  <2>5. Behind'
    BY <2>1, <2>2, BehindStays, FrontType DEF WInv
  <2>6. NothingInvented'
    BY <2>1, <2>2 DEF WInv, NothingInvented, Covers
  <2>7. Phases'
    BY <2>1 DEF WInv, Phases, Open
  <2> QED
    BY <2>3, <2>4, <2>5, <2>6, <2>7 DEF WInv
<1>7. cr3 \in {"boot", "kernel"}
  BY DEF IInv, TypeOK
<1> QED
  BY <1>1, <1>2, <1>3, <1>4, <1>5, <1>6, <1>7 DEF Next

LEMMA WalkIsFaithful ==
  ASSUME IInv, WInv
  PROVE  InitIsFaithful
<1>1. KernelStaysMapped
  <2> SUFFICES ASSUME cr3 = "kernel" PROVE KernelStaysMapped
    BY DEF KernelStaysMapped
  <2>1. at = PageCount
    BY DEF WInv, Phases
  <2>2. Open => range.at + range.count * range.pages = PageCount
    BY <2>1 DEF WInv, RangeOfLeaves
  <2>3. ASSUME NEW leaf \in boot, InKeptMemory(leaf), Open => leaf.at < range.at,
               NEW p \in leaf.at .. (leaf.at + leaf.pages - 1)
        PROVE  Translate(p) = <<leaf.frame + (p - leaf.at), Kept(leaf.flags)>>
    <3>1. leaf.at < PageCount
      <4>1. /\ leaf.at \in Nat /\ leaf.pages \in Nat /\ leaf.pages > 0 /\ PageCount \in Nat
            /\ leaf.at + leaf.pages <= PageCount
        BY LeafNumbers, PageNumbers DEF IInv, TypeOK
      <4> QED
        BY <4>1
    <3>2. leaf.at < Front
      BY <2>1, <2>3, <3>1 DEF Front
    <3> QED
      BY <2>3, <3>2 DEF WInv, Behind
  <2> QED
    BY <2>2, <2>3 DEF KernelStaysMapped
<1>2. InitNeverConflicts
  BY DEF WInv, Phases, IInv, Aligned, InitNeverConflicts
<1> QED
  BY <1>1, <1>2 DEF WInv, InitIsFaithful

(* Init hands the kernel's memory on as the boot loader had it mapped: all  *)
(* of it by the time cr3 is loaded, nothing the boot loader had not mapped, *)
(* and never into an entry or an alignment that mapMemory asserts against.  *)
THEOREM InitFaithful == Spec => []InitIsFaithful
<1>1. Init => IInv /\ WInv
  BY InitKeeps, InitWalks
<1>2. IInv /\ WInv /\ [Next]_vars => (IInv /\ WInv)'
  BY NextKeeps, NextWalks
<1>3. IInv /\ WInv => InitIsFaithful
  BY WalkIsFaithful
<1> QED
  BY <1>1, <1>2, <1>3, PTL DEF Spec

(***************************************************************************)
(* The areas mapped after init                                             *)
(***************************************************************************)

(* How many pages of the area mapMemory has behind it. *)
Done == job.frame - wanted.address \div PageBytes

(* What is behind is mapped; what is ahead is counted, or a huge page is in *)
(* the way, and stays there.                                                *)
Serves ==
  pc = "map" /\ cr3 = "kernel" =>
    /\ wanted \in Requests /\ Done \in Nat /\ job.pages = 1 /\ job.flags = wanted.flags
    /\ job.at = AskedPage(Done)
    /\ \A i \in 0 .. Done - 1, q \in Pages : q = AskedPage(i) => Translate(q) = Asked(i)
    /\ Done + job.left = PartialPages(wanted) \/ Found(pool, job.at).kind = "huge"

LEMMA LastIsCounted ==
  ASSUME NEW r \in Requests
  PROVE  ((r.address % PageBytes) + r.size - 1) \div PageBytes < PartialPages(r)
<1> DEFINE s == r.size
           o == r.address % PageBytes
           whole == s \div PageBytes
           rest == s % PageBytes
           rounded == s + PageBytes - rest
           last == o + s - 1
<1>1. PageBytes \in Int /\ PageBytes > 0 /\ s \in Nat /\ r.address \in Nat
  BY PagingAssumption
<1>2. /\ whole \in Nat /\ rest \in 0 .. PageBytes - 1 /\ s = PageBytes * whole + rest
      /\ o \in 0 .. PageBytes - 1
  <2>1. s \in Int /\ s >= 0 /\ r.address \in Int
    BY <1>1
  <2>2. r.address % PageBytes \in 0 .. PageBytes - 1
    BY <1>1, <2>1, DivMod
  <2>3. /\ s \div PageBytes \in Int /\ s % PageBytes \in 0 .. PageBytes - 1
        /\ s = PageBytes * (s \div PageBytes) + (s % PageBytes)
        /\ s \div PageBytes \in Nat
    BY <1>1, <2>1, DivMod
  <2> QED
    BY <2>2, <2>3
<1>3. PartialPages(r) = (IF o + s > rounded THEN rounded + PageBytes ELSE rounded) \div PageBytes
  BY DEF PartialPages
<1> HIDE DEF s, o, whole, rest
<1>4. /\ PageBytes * (whole + 1) = PageBytes * whole + PageBytes
      /\ PageBytes * (whole + 2) = PageBytes * whole + PageBytes + PageBytes
      /\ PageBytes * whole \in Int
  BY <1>1, <1>2
<1>5. rounded = PageBytes * (whole + 1) + 0 /\ rounded + PageBytes = PageBytes * (whole + 2) + 0
      /\ 0 \in 0 .. PageBytes - 1 /\ whole + 1 \in Int /\ whole + 2 \in Int
      /\ rounded \in Int /\ rounded + PageBytes \in Int
  BY <1>1, <1>2, <1>4
<1>6. rounded \div PageBytes = whole + 1 /\ (rounded + PageBytes) \div PageBytes = whole + 2
  BY <1>1, <1>5, DivModUnique
<1>7. /\ last \in Int /\ last \div PageBytes \in Int /\ last % PageBytes \in 0 .. PageBytes - 1
      /\ last = PageBytes * (last \div PageBytes) + (last % PageBytes)
  BY <1>1, <1>2, DivMod
<1> DEFINE q == last \div PageBytes
           d == last % PageBytes
<1> HIDE DEF q, d
<1>8. CASE o + s > rounded
  <2>1. last < PageBytes * (whole + 2)
    BY <1>1, <1>2, <1>4, <1>5
  <2>2. q < whole + 2
    BY <1>1, <1>5, <1>7, <2>1, DigitBound DEF q, d
  <2> QED
    BY <1>3, <1>6, <1>8, <2>2 DEF q, s, o
<1>9. CASE ~ (o + s > rounded)
  <2>1. last < PageBytes * (whole + 1)
    BY <1>1, <1>2, <1>5, <1>9
  <2>2. q < whole + 1
    BY <1>1, <1>5, <1>7, <2>1, DigitBound DEF q, d
  <2> QED
    BY <1>3, <1>6, <1>9, <2>2 DEF q, s, o
<1> QED
  BY <1>8, <1>9

LEMMA ModOfSum ==
  ASSUME NEW x \in Nat, NEW n \in Nat, n > 0
  PROVE  ((x % n) + 1) % n = (x + 1) % n
<1> DEFINE k == x \div n
           r == x % n
           m == (r + 1) \div n
           t == (r + 1) % n
<1>1. k \in Int /\ r \in 0 .. n - 1 /\ x = n * k + r
  BY DivMod
<1> HIDE DEF k, r
<1>2. m \in Int /\ t \in 0 .. n - 1 /\ r + 1 = n * m + t
  BY <1>1, DivMod
<1> HIDE DEF m, t
<1>3. n * (k + m) = n * k + n * m
  BY <1>1, <1>2
<1>4. n * k \in Int /\ n * m \in Int
  BY <1>1, <1>2
<1>5. x + 1 = n * (k + m) + t
  BY <1>1, <1>2, <1>3, <1>4
<1>6. (x + 1) % n = t
  BY <1>1, <1>2, <1>5, DivModUnique
<1> QED
  BY <1>6 DEF t, r

LEMMA AskedPages ==
  ASSUME wanted \in Requests, NEW i \in Nat
  PROVE  /\ AskedPage(i) \in Pages
         /\ (AskedPage(i) + 1) % PageCount = AskedPage(i + 1)
         /\ wanted.address \div PageBytes \in Nat
<1>1. wanted.address \div PageBytes \in Nat /\ Hhdm \in Nat
  BY RequestCounts, PagingAssumption, PagesType
<1> DEFINE x == Hhdm + wanted.address \div PageBytes + i
<1>2. x \in Nat /\ x + 1 = Hhdm + wanted.address \div PageBytes + (i + 1)
  BY <1>1
<1>3. AskedPage(i) = x % PageCount /\ AskedPage(i + 1) = (x + 1) % PageCount
  BY <1>2 DEF AskedPage
<1> HIDE DEF x
<1> QED
  BY <1>1, <1>2, <1>3, PageNumbers, ModOfSum

LEMMA EntriesLast ==
  ASSUME IInv, [Next]_vars, NEW p \in Pages
  PROVE  Found(pool, p).kind = "huge" => Found(pool', p).kind = "huge"
BY FoundLasts DEF Unmarked

LEMMA CallServes ==
  ASSUME NEW r \in Requests, MapPartial(r)
  PROVE  Serves'
<1>1. /\ wanted' = r
      /\ job' = [at |-> (Hhdm + r.address \div PageBytes) % PageCount,
                 frame |-> r.address \div PageBytes, flags |-> r.flags,
                 pages |-> 1, left |-> PartialPages(r)]
  BY DEF MapPartial
<1>2. /\ PartialPages(r) \in Nat /\ r.address \div PageBytes \in Nat /\ Hhdm \in Nat
  BY RequestCounts, PagingAssumption, PagesType
<1>3. Done' = 0
  BY <1>1, <1>2 DEF Done
<1>4. AskedPage(0)' = job'.at
  BY <1>1, <1>2 DEF AskedPage
<1>5. Done' + job'.left = PartialPages(wanted')
  BY <1>1, <1>2, <1>3
<1>6. /\ wanted' \in Requests /\ Done' \in Nat /\ job'.pages = 1 /\ job'.flags = wanted'.flags
      /\ job'.at = AskedPage(Done)'
  BY <1>1, <1>3, <1>4 DEF AskedPage
<1>7. \A i \in 0 .. Done' - 1 : FALSE
  BY <1>3
<1> QED
  BY <1>5, <1>6, <1>7 DEF Serves

(* The steps that leave the job as it is, or count a turn at a huge page. *)
LEMMA TurnServes ==
  ASSUME IInv, IInv', [Next]_vars, Serves, pc = "map", cr3 = "kernel", wanted' = wanted,
         job'.at = job.at, job'.frame = job.frame, job'.pages = job.pages, job'.flags = job.flags,
         job'.left = job.left \/ Found(pool, job.at).kind = "huge"
  PROVE  Serves'
<1>1. /\ wanted \in Requests /\ Done \in Nat /\ job.pages = 1 /\ job.flags = wanted.flags
      /\ job.at = AskedPage(Done)
      /\ \A i \in 0 .. Done - 1, q \in Pages : q = AskedPage(i) => Translate(q) = Asked(i)
      /\ Done + job.left = PartialPages(wanted) \/ Found(pool, job.at).kind = "huge"
  BY DEF Serves
<1>2. Done' = Done
  BY DEF Done
<1>3. job'.at = AskedPage(Done)'
  BY <1>1, <1>2 DEF AskedPage
<1>4. ASSUME NEW i \in 0 .. Done - 1, NEW q \in Pages, q = AskedPage(i)'
      PROVE  (Translate(q) = Asked(i))'
  <2>1. AskedPage(i)' = AskedPage(i) /\ Asked(i)' = Asked(i) /\ Asked(i) # <<>>
    BY DEF AskedPage, Asked
  <2>2. Translate(q) = Asked(i)
    BY <1>1, <1>4, <2>1
  <2> QED
    BY <2>1, <2>2, TranslationLasts
<1>5. Done + job.left = PartialPages(wanted) /\ job'.left = job.left
        => (Done + job.left = PartialPages(wanted))'
  BY <1>2
<1>6. Found(pool, job.at).kind = "huge" => Found(pool', job'.at).kind = "huge"
  BY <1>1, AskedPages, EntriesLast
<1> QED
  BY <1>1, <1>2, <1>3, <1>4, <1>5, <1>6 DEF Serves

LEMMA SetServes ==
  ASSUME IInv, IInv', [Next]_vars, Serves, cr3 = "kernel", SetEntry
  PROVE  Serves'
<1>1. /\ pc = "map" /\ AtLeaf /\ job.left > 0 /\ ~Conflict /\ wanted' = wanted
      /\ job' = [job EXCEPT !.left = @ - 1, !.frame = @ + job.pages, !.at = (@ + job.pages) % PageCount]
      /\ job \in [at : Pages, frame : Nat, flags : SUBSET Flags, pages : {1, Entries}, left : Nat]
  BY DEF SetEntry, NextPage, Mapping, IInv, TypeOK
<1>2. /\ wanted \in Requests /\ Done \in Nat /\ job.pages = 1 /\ job.flags = wanted.flags
      /\ job.at = AskedPage(Done)
      /\ \A i \in 0 .. Done - 1, q \in Pages : q = AskedPage(i) => Translate(q) = Asked(i)
      /\ Done + job.left = PartialPages(wanted) \/ Found(pool, job.at).kind = "huge"
  BY <1>1 DEF Serves
<1>3. /\ level = 4 /\ Reaches(pool, job.at, 4) /\ Here = EntryAt(pool, job.at, 4)
      /\ Shape(pool, used) /\ Shape(pool', used') /\ job.at \in Pages /\ Here.kind \in {"none", "page"}
      /\ NewEntry.kind = "page" /\ NewEntry.to = job.frame /\ NewEntry.flags = job.flags
  <2>1. level = 4 /\ NewEntry.kind = "page"
    BY <1>1, <1>2, EntriesType DEF AtLeaf, NewEntry, Leaf
  <2> QED
    BY <1>1, <2>1, MapNow DEF KindsOf, NewEntry, Leaf, IInv, PoolInShape
<1>4. Found(pool, job.at) = Here
  BY <1>3, FoundByLevel
<1>5. /\ job'.left = job.left - 1 /\ job'.frame = job.frame + 1 /\ job'.pages = 1
      /\ job'.flags = job.flags /\ job'.at = (job.at + 1) % PageCount
      /\ job.frame \in Nat /\ job.left \in Nat
  BY <1>1, <1>2
<1>6. wanted.address \div PageBytes \in Nat /\ AskedPage(Done) \in Pages
  BY <1>2, AskedPages
<1>7. Done' = Done + 1 /\ job.frame = wanted.address \div PageBytes + Done
  BY <1>1, <1>5, <1>6 DEF Done
<1>8. job'.at = AskedPage(Done)'
  <2>1. job'.at = AskedPage(Done + 1)
    BY <1>2, <1>5, AskedPages
  <2>2. AskedPage(Done)' = AskedPage(Done + 1)
    BY <1>1, <1>7 DEF AskedPage
  <2> QED
    BY <2>1, <2>2
<1>9. ASSUME NEW q \in Pages, q = job.at PROVE Translate(q)' = <<job.frame, wanted.flags>>
  <2>1. job.flags \ {"accessed"} = job.flags
    BY <1>2, PagingAssumption
  <2>2. CASE Here = NewEntry
    <3>1. Translate(q) = <<job.frame + 0, job.flags \ {"accessed"}>>
      BY <1>3, <1>4, <1>9, <2>2, TranslateFound DEF Translation
    <3>2. Translate(q) = <<job.frame, wanted.flags>>
      BY <1>2, <1>5, <2>1, <3>1
    <3> QED
      BY <3>2, TranslationLasts
  <2>3. CASE Here # NewEntry
    <3>1. q \in job.at .. job.at + job.pages - 1
      BY <1>2, <1>3, <1>9, PagesType
    <3>2. Translate(q)' = <<job.frame + (q - job.at), job.flags \ {"accessed"}>>
      BY <2>3, <3>1, SetEntryTranslates
    <3>3. job.frame + (q - job.at) = job.frame
      BY <1>3, <1>5, <1>9, PagesType
    <3> QED
      BY <1>2, <2>1, <3>2, <3>3
  <2> QED
    BY <2>2, <2>3
<1>10. ASSUME NEW i \in 0 .. Done, NEW q \in Pages, q = AskedPage(i)'
       PROVE  (Translate(q) = Asked(i))'
  <2>1. AskedPage(i)' = AskedPage(i) /\ Asked(i)' = Asked(i) /\ Asked(i) # <<>>
    BY <1>1 DEF AskedPage, Asked
  <2>2. CASE i = Done
    BY <1>2, <1>7, <1>9, <1>10, <2>1, <2>2 DEF Asked
  <2>3. CASE i # Done
    <3>1. Translate(q) = Asked(i)
      BY <1>2, <1>10, <2>1, <2>3
    <3> QED
      BY <2>1, <3>1, TranslationLasts
  <2> QED
    BY <2>2, <2>3
<1>11. Done' + job'.left = PartialPages(wanted')
  <2>1. Done + job.left = PartialPages(wanted)
    BY <1>2, <1>3, <1>4
  <2> QED
    BY <1>1, <1>2, <1>5, <1>7, <2>1
<1>12. /\ wanted' \in Requests /\ Done' \in Nat /\ job'.pages = 1 /\ job'.flags = wanted'.flags
       /\ Done' - 1 = Done
  BY <1>1, <1>2, <1>5, <1>7
<1> QED
  BY <1>8, <1>10, <1>11, <1>12 DEF Serves

LEMMA MapStepServes ==
  ASSUME IInv, IInv', [Next]_vars, Serves, cr3 = "kernel", MapStep
  PROVE  Serves'
<1>1. CASE Descend
  BY <1>1, TurnServes DEF Descend, Mapping
<1>2. CASE AddTable
  BY <1>2, TurnServes DEF AddTable, Mapping
<1>3. CASE OutOfPool
  BY <1>3 DEF OutOfPool, Panic, Serves
<1>4. CASE HugeInTheWay
  <2>1. /\ pc = "map" /\ ~AtLeaf /\ Here.kind = "huge" /\ wanted' = wanted
        /\ job' = [job EXCEPT !.left = @ - 1]
        /\ job \in [at : Pages, frame : Nat, flags : SUBSET Flags, pages : {1, Entries}, left : Nat]
    BY <1>4 DEF HugeInTheWay, Mapping, IInv, TypeOK
  <2>2. /\ job'.at = job.at /\ job'.frame = job.frame /\ job'.pages = job.pages
        /\ job'.flags = job.flags
    BY <2>1
  <2>3. Found(pool, job.at).kind = "huge"
    <3>1. /\ level \in 1 .. 4 /\ Reaches(pool, job.at, level) /\ Here = EntryAt(pool, job.at, level)
          /\ Here.kind \in KindsOf(level)
      BY <2>1, MapNow
    <3>2. level = 3
      BY <2>1, <3>1 DEF KindsOf
    <3> QED
      BY <2>1, <3>1, <3>2, FoundByLevel
  <2> QED
    BY <2>1, <2>2, <2>3, TurnServes
<1>5. CASE SetEntry
  BY <1>5, SetServes
<1>6. CASE EntryExists
  BY <1>6 DEF EntryExists, Panic, Serves
<1>7. CASE MapReturns
  BY <1>7 DEF MapReturns, Serves
<1> QED
  BY <1>1, <1>2, <1>3, <1>4, <1>5, <1>6, <1>7 DEF MapStep

LEMMA NextServes ==
  ASSUME IInv, IInv', [Next]_vars, Phases, Serves
  PROVE  Serves'
<1>1. CASE cr3 # "kernel"
  BY <1>1, GivenStays DEF LoadCr3, Serves
<1>2. CASE cr3 = "kernel" /\ InitStep
  BY <1>2 DEF InitStep, InitRefuses, StartWalk, OpenRange, ExtendRange, HugeLeaf, SkipMissing,
     MapRange, DropRange, LoadCr3, RangeEnds, Phases
<1>3. CASE cr3 = "kernel" /\ MapStep
  BY <1>3, MapStepServes
<1>4. CASE \E r \in Requests : MapPartial(r)
  BY <1>4, CallServes
<1>5. CASE cr3 = "kernel" /\ \E t \in 0 .. (used - 1), i \in 0 .. (Entries - 1) : Access(t, i)
  <2>1. pc' = pc /\ job' = job /\ wanted' = wanted
    BY <1>5 DEF Access
  <2>2. CASE pc = "map"
    BY <1>5, <2>1, <2>2, TurnServes
  <2>3. CASE pc # "map"
    BY <2>1, <2>3 DEF Serves
  <2> QED
    BY <2>2, <2>3
<1>6. CASE cr3 = "kernel" /\ UNCHANGED vars
  <2>1. pc' = pc /\ job' = job /\ wanted' = wanted
    BY <1>6 DEF vars
  <2>2. CASE pc = "map"
    BY <1>6, <2>1, <2>2, TurnServes
  <2>3. CASE pc # "map"
    BY <2>1, <2>3 DEF Serves
  <2> QED
    BY <2>2, <2>3
<1> QED
  BY <1>1, <1>2, <1>3, <1>4, <1>5, <1>6 DEF Next

LEMMA ServedIsMapped ==
  ASSUME IInv, Serves
  PROVE  MappedUpToHuge
<1> SUFFICES ASSUME Mapped, cr3 = "kernel", NEW i \in 0 .. LastAsked
             PROVE  \/ Translate(AskedPage(i)) = Asked(i)
                    \/ \E j \in 0 .. i : EntryOf(AskedPage(j)).kind = "huge"
  BY DEF MappedUpToHuge
<1>1. /\ wanted \in Requests /\ Done \in Nat /\ job.at = AskedPage(Done) /\ job.left = 0
      /\ \A n \in 0 .. Done - 1, q \in Pages : q = AskedPage(n) => Translate(q) = Asked(n)
      /\ Done + job.left = PartialPages(wanted) \/ Found(pool, job.at).kind = "huge"
  BY DEF Mapped, Serves
<1>2. i \in Nat /\ i < PartialPages(wanted) /\ PartialPages(wanted) \in Nat
  <2>1. LastAsked < PartialPages(wanted) /\ PartialPages(wanted) \in Nat
    BY <1>1, LastIsCounted, RequestCounts DEF LastAsked
  <2>2. LastAsked \in Int
    <3>1. PageBytes \in Int /\ PageBytes > 0 /\ wanted.address \in Int /\ wanted.size \in Nat
      BY <1>1, PagingAssumption
    <3>2. wanted.address % PageBytes \in 0 .. PageBytes - 1
      BY <3>1, DivMod
    <3>3. (wanted.address % PageBytes) + wanted.size - 1 \in Int
      BY <3>1, <3>2
    <3> QED
      BY <3>1, <3>3, DivMod DEF LastAsked
  <2> QED
    BY <2>1, <2>2
<1>3. AskedPage(i) \in Pages
  BY <1>1, <1>2, AskedPages
<1>4. CASE i < Done
  BY <1>1, <1>2, <1>3, <1>4
<1>5. CASE i >= Done
  <2>1. Found(pool, job.at).kind = "huge"
    BY <1>1, <1>2, <1>5
  <2>2. EntryOf(AskedPage(Done)).kind = "huge"
    BY <1>1, <2>1, AskedPages, EntryIsFound DEF IInv, PoolInShape
  <2>3. Done \in 0 .. i
    BY <1>1, <1>2, <1>5
  <2> QED
    BY <2>2, <2>3
<1> QED
  BY <1>1, <1>2, <1>4, <1>5

(* When mapPartial returns, every byte of the area translates as asked, or  *)
(* mapMemory met a huge page where a table should be: then every page       *)
(* before that one does.                                                    *)
THEOREM AreaMapped == Spec => []MappedUpToHuge
<1>1. Init => IInv /\ WInv /\ Serves
  BY InitKeeps, InitWalks DEF Init, Serves
<1>2. IInv /\ WInv /\ Serves /\ [Next]_vars => (IInv /\ WInv /\ Serves)'
  BY NextKeeps, NextWalks, NextServes DEF WInv
<1>3. IInv /\ Serves => MappedUpToHuge
  BY ServedIsMapped
<1> QED
  BY <1>1, <1>2, <1>3, PTL DEF Spec
=============================================================================
