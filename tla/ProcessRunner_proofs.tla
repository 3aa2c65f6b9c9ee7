------------------------- MODULE ProcessRunner_proofs -------------------------
(***************************************************************************)
(* What run() collects of a compiler's output, proved for every compiler,  *)
(* every pipe and every timing: its types, which lines can be lost, which  *)
(* warning a note is kept with, and how often the file counts a warning.   *)
(***************************************************************************)
EXTENDS ProcessRunner, FiniteSetTheorems, WellFoundedInduction, SequenceTheorems, TLAPS

(***************************************************************************)
(* The collector                                                           *)
(***************************************************************************)

(* While a warning may go on there is one. *)
Continues(c) == c.inWarning => Len(c.recs) > 0

LEMMA NewCollectorType == NewCollector \in Collector /\ Continues(NewCollector)
<1>1. <<>> \in Seq(Record)
  OBVIOUS
<1> QED
  BY <1>1 DEF NewCollector, Collector, Continues

(* A line that continues the current warning is added to it and changes none *)
(* of its other fields; any other line ends it.                              *)
LEMMA ContinueOrEndEffect ==
  ASSUME NEW c \in Collector, Continues(c), NEW line \in Texts,
         NEW d, d = ContinueOrEnd(c, line)
  PROVE  /\ d \in Collector
         /\ Len(d.recs) = Len(c.recs)
         /\ \A i \in 1 .. Len(c.recs) : d.recs[i].text = c.recs[i].text /\ d.recs[i].of = c.recs[i].of
         /\ d.inWarning = (c.inWarning /\ line \in Indented)
         /\ d.last = IF c.inWarning /\ line \notin Indented /\ ~IsNote(c, Len(c.recs))
                     THEN Len(c.recs) ELSE c.last
<1>1. /\ c.recs \in Seq(Record) /\ c.inWarning \in BOOLEAN /\ c.last \in Nat /\ Len(c.recs) \in Nat
      /\ c = [recs |-> c.recs, inWarning |-> c.inWarning, last |-> c.last]
  BY LenProperties DEF Collector
<1>2. CASE ~c.inWarning
  <2>1. d = c
    BY <1>2 DEF ContinueOrEnd
  <2> QED
    BY <1>1, <1>2, <2>1
<1>3. CASE c.inWarning /\ line \in Indented
  <2> DEFINE k == Len(c.recs)
             r == [c.recs[k] EXCEPT !.extra = Append(@, line)]
             recs == [c.recs EXCEPT ![k] = r]
  <2>1. k \in 1 .. Len(c.recs) /\ c.recs[k] \in Record
    BY <1>1, <1>3, ElementOfSeq DEF Continues
  <2>2. r \in Record /\ r.text = c.recs[k].text /\ r.of = c.recs[k].of
    <3>1. Append(c.recs[k].extra, line) \in Seq(Texts)
      BY <2>1, AppendProperties DEF Record
    <3> QED
      BY <2>1, <3>1 DEF Record
  <2>3. d = [c EXCEPT !.recs = recs]
    BY <1>3 DEF ContinueOrEnd, Current
  <2>4. recs \in Seq(Record) /\ Len(recs) = Len(c.recs)
        /\ \A i \in 1 .. Len(c.recs) : recs[i] = IF i = k THEN r ELSE c.recs[i]
    BY <1>1, <2>1, <2>2, ExceptSeq
  <2> HIDE DEF r, recs
  <2>5. d.recs = recs /\ d.inWarning = c.inWarning /\ d.last = c.last
    BY <1>1, <2>3
  <2>6. d \in Collector
    BY <1>1, <2>3, <2>4 DEF Collector
  <2> QED
    BY <1>1, <1>3, <2>1, <2>2, <2>4, <2>5, <2>6
<1>4. CASE c.inWarning /\ line \notin Indented
  <2>1. d = [c EXCEPT !.inWarning = FALSE, !.last = IF IsNote(c, Len(c.recs)) THEN c.last ELSE Len(c.recs)]
    BY <1>4 DEF ContinueOrEnd, Current
  <2>2. d.recs = c.recs /\ d.inWarning = FALSE
        /\ d.last = IF IsNote(c, Len(c.recs)) THEN c.last ELSE Len(c.recs)
    BY <1>1, <2>1
  <2>3. d \in Collector
    BY <1>1, <2>1 DEF Collector
  <2> QED
    BY <1>4, <2>2, <2>3
<1> QED
  BY <1>1, <1>2, <1>3, <1>4

(* A line of the pattern is a new record, and the others stay.               *)
LEMMA StartEffect ==
  ASSUME NEW c \in Collector, NEW line \in Texts, NEW d, d = Start(c, line)
  PROVE  /\ d \in Collector /\ d.last = c.last
         /\ line \notin Matching => d.recs = c.recs /\ d.inWarning = c.inWarning
         /\ line \in Matching =>
              /\ Len(d.recs) = Len(c.recs) + 1 /\ d.inWarning
              /\ d.recs[Len(c.recs) + 1].text = line
              /\ d.recs[Len(c.recs) + 1].of = IF line \in Notes THEN c.last ELSE 0
              /\ \A i \in 1 .. Len(c.recs) : d.recs[i] = c.recs[i]
<1>1. /\ c.recs \in Seq(Record) /\ c.inWarning \in BOOLEAN /\ c.last \in Nat /\ Len(c.recs) \in Nat
      /\ c = [recs |-> c.recs, inWarning |-> c.inWarning, last |-> c.last]
  BY LenProperties DEF Collector
<1>2. CASE line \notin Matching
  BY <1>1, <1>2 DEF Start
<1>3. CASE line \in Matching
  <2> DEFINE r == [text |-> line, extra |-> <<>>, of |-> IF line \in Notes THEN c.last ELSE 0]
  <2>1. r \in Record /\ r.text = line /\ r.of = IF line \in Notes THEN c.last ELSE 0
    <3>1. <<>> \in Seq(Texts)
      OBVIOUS
    <3> QED
      BY <1>1, <1>3, <3>1 DEF Record
  <2>2. d = [c EXCEPT !.recs = Append(c.recs, r), !.inWarning = TRUE]
    BY <1>3 DEF Start
  <2> HIDE DEF r
  <2>3. /\ Append(c.recs, r) \in Seq(Record) /\ Len(Append(c.recs, r)) = Len(c.recs) + 1
        /\ \A i \in 1 .. Len(c.recs) : Append(c.recs, r)[i] = c.recs[i]
        /\ Append(c.recs, r)[Len(c.recs) + 1] = r
    BY <1>1, <2>1, AppendProperties
  <2>4. d.recs = Append(c.recs, r) /\ d.inWarning = TRUE /\ d.last = c.last
    BY <1>1, <2>2
  <2>5. d \in Collector
    BY <1>1, <2>2, <2>3 DEF Collector
  <2> QED
    BY <1>3, <2>1, <2>3, <2>4, <2>5
<1> QED
  BY <1>2, <1>3

(* What last is when the line has continued or ended the current warning. *)
LastAfter(c, line) ==
  IF c.inWarning /\ line \notin Indented /\ ~IsNote(c, Len(c.recs)) THEN Len(c.recs) ELSE c.last

LEMMA CollectEffect ==
  ASSUME NEW c \in Collector, Continues(c), NEW line \in Texts,
         NEW d, d = Collect(c, line)
  PROVE  /\ d \in Collector /\ Continues(d)
         /\ d.last = LastAfter(c, line)
         /\ \A i \in 1 .. Len(c.recs) : d.recs[i].text = c.recs[i].text /\ d.recs[i].of = c.recs[i].of
         /\ line \notin Matching =>
              Len(d.recs) = Len(c.recs) /\ d.inWarning = (c.inWarning /\ line \in Indented)
         /\ line \in Matching =>
              /\ Len(d.recs) = Len(c.recs) + 1 /\ d.inWarning
              /\ d.recs[Len(c.recs) + 1].text = line
              /\ d.recs[Len(c.recs) + 1].of = IF line \in Notes THEN LastAfter(c, line) ELSE 0
<1> DEFINE b == ContinueOrEnd(c, line)
<1>1. /\ b \in Collector
      /\ Len(b.recs) = Len(c.recs)
      /\ \A i \in 1 .. Len(c.recs) : b.recs[i].text = c.recs[i].text /\ b.recs[i].of = c.recs[i].of
      /\ b.inWarning = (c.inWarning /\ line \in Indented)
      /\ b.last = LastAfter(c, line)
  BY ContinueOrEndEffect DEF LastAfter
<1>2. d = Start(b, line)
  BY DEF Collect
<1> HIDE DEF b
<1>3. /\ d \in Collector /\ d.last = b.last
      /\ line \notin Matching => d.recs = b.recs /\ d.inWarning = b.inWarning
      /\ line \in Matching =>
           /\ Len(d.recs) = Len(b.recs) + 1 /\ d.inWarning
           /\ d.recs[Len(b.recs) + 1].text = line
           /\ d.recs[Len(b.recs) + 1].of = IF line \in Notes THEN b.last ELSE 0
           /\ \A i \in 1 .. Len(b.recs) : d.recs[i] = b.recs[i]
  <2>1. b \in Collector
    BY <1>1
  <2>2. \A e : e = Start(b, line) =>
          /\ e \in Collector /\ e.last = b.last
          /\ line \notin Matching => e.recs = b.recs /\ e.inWarning = b.inWarning
          /\ line \in Matching =>
               /\ Len(e.recs) = Len(b.recs) + 1 /\ e.inWarning
               /\ e.recs[Len(b.recs) + 1].text = line
               /\ e.recs[Len(b.recs) + 1].of = IF line \in Notes THEN b.last ELSE 0
               /\ \A i \in 1 .. Len(b.recs) : e.recs[i] = b.recs[i]
    BY <2>1, StartEffect
  <2> QED
    BY <1>2, <2>2
<1>4. Len(c.recs) \in Nat
  BY LenProperties DEF Collector
<1>5. CASE line \notin Matching
  BY <1>1, <1>3, <1>5 DEF Continues
<1>6. CASE line \in Matching
  <2>1. \A i \in 1 .. Len(c.recs) : d.recs[i] = b.recs[i]
    BY <1>1, <1>3, <1>6
  <2>2. \A i \in 1 .. Len(c.recs) : d.recs[i].text = c.recs[i].text /\ d.recs[i].of = c.recs[i].of
    BY <1>1, <2>1
  <2>3. /\ Len(d.recs) = Len(c.recs) + 1 /\ d.inWarning
        /\ d.recs[Len(c.recs) + 1].text = line
        /\ d.recs[Len(c.recs) + 1].of = IF line \in Notes THEN LastAfter(c, line) ELSE 0
    BY <1>1, <1>3, <1>6
  <2>4. Continues(d)
    BY <1>4, <2>3 DEF Continues
  <2> QED
    BY <1>1, <1>3, <1>6, <2>2, <2>3, <2>4
<1> QED
  BY <1>5, <1>6

(***************************************************************************)
(* What the collector keeps of the first n parts of an output              *)
(***************************************************************************)
Matches(out, n) == {k \in 1 .. n : out[k] \in Matching}
Count(out, n) == Cardinality(Matches(out, n))

NoWarning(out, n) == \A k \in Matches(out, n) : out[k] \in Notes

LastWarning(out, i, n) ==
  /\ i \in Matches(out, n) /\ out[i] \notin Notes
  /\ \A k \in Matches(out, n) : i < k => out[k] \in Notes

(* EndsBefore, for an output. *)
EndsWithin(out, i, j) ==
  \E k \in i + 1 .. j : /\ out[k] \in Lines \ Indented
                       /\ \A m \in i + 1 .. k - 1 : out[m] \notin Matching

(* Every warning and note has its record, in the order of the output. *)
Recorded(out, n, c) ==
  /\ Len(c.recs) = Count(out, n)
  /\ \A j \in Matches(out, n) : c.recs[Count(out, j)].text = out[j]

(* A note is kept with the warning before it, once that has ended. *)
NotesKept(out, n, c) ==
  \A j \in Matches(out, n) :
    out[j] \in Notes =>
      /\ NoWarning(out, j - 1) => c.recs[Count(out, j)].of = 0
      /\ \A i : LastWarning(out, i, j - 1) /\ EndsWithin(out, i, j) =>
               c.recs[Count(out, j)].of = Count(out, i)

(* So last is that warning, or will be when it ends. *)
LastKept(out, n, c) ==
  /\ NoWarning(out, n) => c.last = 0
  /\ \A i : LastWarning(out, i, n) =>
       /\ EndsWithin(out, i, n) => c.last = Count(out, i)
       /\ (\A k \in Matches(out, n) : k <= i) => c.inWarning \/ c.last = Count(out, i)

Kept(out, n, c) == Recorded(out, n, c) /\ NotesKept(out, n, c) /\ LastKept(out, n, c)

(* A set of natural numbers that is not empty has a least element: of the     *)
(* intervals from 0 to its elements, one is smallest.                         *)
LEMMA LeastNatural ==
  ASSUME NEW T \in SUBSET Nat, T # {}
  PROVE  \E i \in T : \A k \in T : i <= k
<1> DEFINE Below == {0 .. i : i \in T}
<1>1. Below \subseteq FiniteSubsetsOf(Nat)
  <2>1. ASSUME NEW i \in T PROVE 0 .. i \in SUBSET Nat /\ IsFiniteSet(0 .. i)
    <3>1. 0 \in Int /\ i \in Int
      OBVIOUS
    <3>2. IsFiniteSet(0 .. i)
      BY <3>1, FS_Interval
    <3> QED
      BY <3>2
  <2> QED
    BY <2>1 DEF FiniteSubsetsOf
<1>2. PICK D \in Below : \A E \in Below : <<E, D>> \notin StrictSubsetOrdering(Nat)
  <2>1. Below # {}
    OBVIOUS
  <2> HIDE DEF Below
  <2> QED
    BY <1>1, <2>1, FS_StrictSubsetOrderingWellFounded, WFMin
<1>3. PICK i \in T : D = 0 .. i
  OBVIOUS
<1>4. ASSUME NEW k \in T, k < i PROVE FALSE
  <2>1. 0 .. k \in SUBSET Nat /\ 0 .. i \in SUBSET Nat
    BY <1>4
  <2>2. 0 .. k \subseteq 0 .. i /\ i \in 0 .. i /\ i \notin 0 .. k
    BY <1>4
  <2>3. <<0 .. k, 0 .. i>> \in StrictSubsetOrdering(Nat)
    BY <2>1, <2>2 DEF StrictSubsetOrdering
  <2> QED
    BY <1>2, <1>3, <2>3
<1> QED
  BY <1>4

(* The matches of a beginning of an output, and their number. *)
LEMMA MatchesFinite ==
  ASSUME NEW out, NEW n \in Nat
  PROVE  IsFiniteSet(Matches(out, n)) /\ Count(out, n) \in Nat /\ Matches(out, n) \subseteq 1 .. n
<1>1. IsFiniteSet(1 .. n)
  BY FS_Interval
<1>2. Matches(out, n) \subseteq 1 .. n
  BY DEF Matches
<1>3. IsFiniteSet(Matches(out, n))
  BY <1>1, <1>2, FS_Subset
<1> QED
  BY <1>2, <1>3, FS_CardinalityType DEF Count

LEMMA CountOfMatch ==
  ASSUME NEW out, NEW n \in Nat, NEW i \in Matches(out, n)
  PROVE  /\ i \in 1 .. n /\ out[i] \in Matching
         /\ Matches(out, i) \subseteq Matches(out, n) /\ i \in Matches(out, i)
         /\ Count(out, i) \in 1 .. Count(out, n)
<1>1. i \in 1 .. n /\ out[i] \in Matching /\ i \in Nat
  BY DEF Matches
<1>2. Matches(out, i) \subseteq Matches(out, n) /\ i \in Matches(out, i)
  BY <1>1 DEF Matches
<1>3. Count(out, i) \in Nat /\ Count(out, n) \in Nat /\ Count(out, i) <= Count(out, n)
  BY <1>1, <1>2, MatchesFinite, FS_Subset DEF Count
<1>4. Count(out, i) # 0
  BY <1>1, <1>2, MatchesFinite, FS_EmptySet DEF Count
<1> QED
  BY <1>1, <1>2, <1>3, <1>4

(* A set of places of a text has a last one: what is behind it is least. *)
LEMMA LastPlace ==
  ASSUME NEW n \in Nat, NEW P \in SUBSET (1 .. n), P # {}
  PROVE  \E g \in P : \A k \in P : k <= g
<1> DEFINE T == {n - k : k \in P}
<1>1. T \in SUBSET Nat /\ T # {}
  <2>1. \A k \in P : n - k \in Nat
    OBVIOUS
  <2> QED
    BY <2>1
<1> HIDE DEF T
<1>2. PICK x \in T : \A y \in T : x <= y
  BY <1>1, LeastNatural
<1>3. PICK g \in P : x = n - g
  BY DEF T
<1>4. ASSUME NEW k \in P PROVE k <= g
  <2>1. n - k \in T
    BY DEF T
  <2> QED
    BY <1>2, <1>3, <2>1
<1> QED
  BY <1>4

(* The last match, which all of them are counted up to. *)
LEMMA CountUpToLast ==
  ASSUME NEW out, NEW n \in Nat, NEW g \in Matches(out, n), \A k \in Matches(out, n) : k <= g
  PROVE  Count(out, g) = Count(out, n)
<1>1. Matches(out, n) \subseteq Matches(out, g)
  <2> SUFFICES ASSUME NEW k \in Matches(out, n) PROVE k \in Matches(out, g)
    OBVIOUS
  <2>1. k \in 1 .. n /\ k <= g /\ g \in 1 .. n /\ out[k] \in Matching
    BY CountOfMatch
  <2> QED
    BY <2>1 DEF Matches
<1>2. Matches(out, g) = Matches(out, n)
  BY <1>1, CountOfMatch
<1> QED
  BY <1>2 DEF Count

(* Texts that do not match add nothing, one that does adds one. *)
LEMMA MatchesStay ==
  ASSUME NEW out, NEW t \in Nat, NEW n \in Nat, t <= n, \A k \in t + 1 .. n : out[k] \notin Matching
  PROVE  Matches(out, n) = Matches(out, t)
BY DEF Matches

LEMMA MatchesGrow ==
  ASSUME NEW out, NEW t \in Nat, NEW e \in Nat, t < e,
         \A k \in t + 1 .. e - 1 : out[k] \notin Matching, out[e] \in Matching
  PROVE  Matches(out, e) = Matches(out, t) \cup {e} /\ Count(out, e) = Count(out, t) + 1
<1>1. Matches(out, e) = Matches(out, t) \cup {e}
  <2>1. e \in Matches(out, e)
    BY DEF Matches
  <2>2. ASSUME NEW k \in Matches(out, e), k # e PROVE k \in Matches(out, t)
    <3>1. k \in 1 .. e /\ out[k] \in Matching
      BY DEF Matches
    <3>2. k \notin t + 1 .. e - 1
      BY <3>1
    <3>3. k \in 1 .. t
      BY <2>2, <3>1, <3>2
    <3> QED
      BY <3>1, <3>3 DEF Matches
  <2>3. Matches(out, t) \subseteq Matches(out, e)
    BY DEF Matches
  <2> QED
    BY <2>1, <2>2, <2>3
<1>2. IsFiniteSet(Matches(out, t)) /\ e \notin Matches(out, t)
  BY MatchesFinite
<1> QED
  BY <1>1, <1>2, FS_AddElement DEF Count

(* What is kept is a matter of the text it was taken from. *)
LEMMA KeptOfSameText ==
  ASSUME NEW out, NEW new, NEW t \in Nat, NEW c,
         \A k \in 1 .. t : new[k] = out[k], Kept(out, t, c)
  PROVE  Kept(new, t, c)
<1>1. \A n \in 0 .. t : Matches(new, n) = Matches(out, n) /\ Count(new, n) = Count(out, n)
  <2> SUFFICES ASSUME NEW n \in 0 .. t PROVE Matches(new, n) = Matches(out, n)
    BY DEF Count
  <2>1. \A k \in 1 .. n : new[k] = out[k]
    OBVIOUS
  <2> QED
    BY <2>1 DEF Matches
<1>2. \A j \in Matches(out, t) : j \in 0 .. t /\ j - 1 \in 0 .. t /\ new[j] = out[j]
  BY DEF Matches
<1>3. \A n \in 0 .. t : NoWarning(new, n) <=> NoWarning(out, n)
  <2> SUFFICES ASSUME NEW n \in 0 .. t PROVE NoWarning(new, n) <=> NoWarning(out, n)
    OBVIOUS
  <2>1. \A k \in Matches(out, n) : new[k] = out[k]
    BY DEF Matches
  <2> QED
    BY <1>1, <2>1 DEF NoWarning
<1>4. \A n \in 0 .. t : \A i : LastWarning(new, i, n) <=> LastWarning(out, i, n)
  <2> SUFFICES ASSUME NEW n \in 0 .. t, NEW i PROVE LastWarning(new, i, n) <=> LastWarning(out, i, n)
    OBVIOUS
  <2>1. \A k \in Matches(out, n) : new[k] = out[k]
    BY DEF Matches
  <2> QED
    BY <1>1, <2>1 DEF LastWarning
<1>5. \A n \in 0 .. t : \A i \in 1 .. t : EndsWithin(new, i, n) <=> EndsWithin(out, i, n)
  <2> SUFFICES ASSUME NEW n \in 0 .. t, NEW i \in 1 .. t
               PROVE  EndsWithin(new, i, n) <=> EndsWithin(out, i, n)
    OBVIOUS
  <2>1. \A k \in i + 1 .. n : new[k] = out[k] /\ \A m \in i + 1 .. k - 1 : new[m] = out[m]
    OBVIOUS
  <2> QED
    BY <2>1 DEF EndsWithin
<1>6. Recorded(new, t, c)
  <2>1. Recorded(out, t, c) /\ t \in 0 .. t
    BY DEF Kept
  <2> QED
    BY <1>1, <1>2, <2>1 DEF Recorded
<1>7. NotesKept(new, t, c)
  <2> SUFFICES ASSUME NEW j \in Matches(new, t), new[j] \in Notes
               PROVE  /\ NoWarning(new, j - 1) => c.recs[Count(new, j)].of = 0
                      /\ \A i : LastWarning(new, i, j - 1) /\ EndsWithin(new, i, j) =>
                              c.recs[Count(new, j)].of = Count(new, i)
    BY DEF NotesKept
  <2>1. j \in Matches(out, t) /\ out[j] \in Notes /\ j \in 0 .. t /\ j - 1 \in 0 .. t
    BY <1>1, <1>2
  <2>2. /\ NoWarning(out, j - 1) => c.recs[Count(out, j)].of = 0
        /\ \A i : LastWarning(out, i, j - 1) /\ EndsWithin(out, i, j) =>
                c.recs[Count(out, j)].of = Count(out, i)
    BY <2>1 DEF Kept, NotesKept
  <2>3. \A i : LastWarning(out, i, j - 1) => i \in 1 .. t
    BY <2>1 DEF LastWarning, Matches
  <2>4. Count(new, j) = Count(out, j) /\ \A i \in 1 .. t : Count(new, i) = Count(out, i)
    BY <1>1, <2>1
  <2> QED
    BY <1>3, <1>4, <1>5, <2>1, <2>2, <2>3, <2>4
<1>8. LastKept(new, t, c)
  <2>1. LastKept(out, t, c) /\ t \in 0 .. t
    BY DEF Kept
  <2>2. \A i : LastWarning(out, i, t) => i \in 1 .. t /\ i \in 0 .. t
    BY DEF LastWarning, Matches
  <2> QED
    BY <1>1, <1>3, <1>4, <1>5, <2>1, <2>2 DEF LastKept
<1> QED
  BY <1>6, <1>7, <1>8 DEF Kept
(***************************************************************************)
(* A line that collect gets: the parts behind t up to e, the last of which *)
(* may be without its newline                                              *)
(***************************************************************************)
LineUpTo(out, t, e, line) ==
  /\ t \in Nat /\ e \in Nat /\ t < e /\ line \in Texts
  /\ \A k \in t + 1 .. e - 1 : out[k] \notin Lines
  /\ IF out[e] \in Lines THEN line = out[e] ELSE line = Beginning

LEMMA LineUpToFacts ==
  ASSUME NEW out, NEW t, NEW e, NEW line, LineUpTo(out, t, e, line)
  PROVE  /\ t \in Nat /\ e \in Nat /\ t < e /\ line \in Texts
         /\ \A k \in t + 1 .. e - 1 : out[k] \notin Lines /\ out[k] \notin Matching
         /\ line \in Matching <=> out[e] \in Matching
         /\ out[e] \in Lines => line = out[e]
         /\ Matches(out, e - 1) = Matches(out, t)
         /\ line \notin Matching =>
              Matches(out, e) = Matches(out, t) /\ Count(out, e) = Count(out, t)
         /\ line \in Matching =>
              Matches(out, e) = Matches(out, t) \cup {e} /\ Count(out, e) = Count(out, t) + 1
<1>1. t \in Nat /\ e \in Nat /\ t < e /\ line \in Texts
      /\ (\A k \in t + 1 .. e - 1 : out[k] \notin Lines) /\ (out[e] \in Lines => line = out[e])
  BY DEF LineUpTo
<1>2. Matching \subseteq Lines /\ Beginning \notin Lines
  BY WarningAssumption
<1>3. line \in Matching <=> out[e] \in Matching
  BY <1>2 DEF LineUpTo
<1>4. \A k \in t + 1 .. e - 1 : out[k] \notin Lines /\ out[k] \notin Matching
  BY <1>1, <1>2
<1>5. Matches(out, e - 1) = Matches(out, t)
  BY <1>1, <1>4, MatchesStay
<1>6. ASSUME line \notin Matching
      PROVE  Matches(out, e) = Matches(out, t) /\ Count(out, e) = Count(out, t)
  <2>1. \A k \in t + 1 .. e : out[k] \notin Matching
    <3>1. ASSUME NEW k \in t + 1 .. e PROVE k = e \/ k \in t + 1 .. e - 1
      BY <1>1
    <3> QED
      BY <1>3, <1>4, <1>6, <3>1
  <2>2. Matches(out, e) = Matches(out, t)
    BY <1>1, <2>1, MatchesStay
  <2> QED
    BY <2>2 DEF Count
<1>7. ASSUME line \in Matching
      PROVE  Matches(out, e) = Matches(out, t) \cup {e} /\ Count(out, e) = Count(out, t) + 1
  BY <1>1, <1>3, <1>4, <1>7, MatchesGrow
<1> QED
  BY <1>1, <1>3, <1>4, <1>5, <1>6, <1>7

(* The current warning or note is the last match. *)
LEMMA CurrentIsLastMatch ==
  ASSUME NEW out, NEW t \in Nat, NEW c \in Collector, Continues(c), Recorded(out, t, c), c.inWarning
  PROVE  \E g \in Matches(out, t) :
           /\ \A k \in Matches(out, t) : k <= g
           /\ Len(c.recs) = Count(out, g)
           /\ IsNote(c, Len(c.recs)) <=> out[g] \in Notes
<1>1. Len(c.recs) > 0 /\ Len(c.recs) = Count(out, t)
  BY DEF Continues, Recorded
<1>2. Matches(out, t) # {}
  <2>1. Cardinality({}) = 0
    BY FS_EmptySet
  <2>2. Matches(out, t) = {} => Count(out, t) = 0
    BY <2>1, Zenon DEF Count
  <2> QED
    BY <1>1, <2>2
<1>3. PICK g \in Matches(out, t) : \A k \in Matches(out, t) : k <= g
  BY <1>2, LastPlace, MatchesFinite
<1>4. Count(out, g) = Count(out, t)
  BY <1>3, CountUpToLast
<1>5. c.recs[Count(out, g)].text = out[g]
  BY DEF Recorded
<1> QED
  BY <1>1, <1>3, <1>4, <1>5 DEF IsNote

(* What LastAfter is, which a note in this line is added to.                  *)
LEMMA LastAfterLine ==
  ASSUME NEW out, NEW t, NEW e, NEW line, LineUpTo(out, t, e, line),
         NEW c \in Collector, Continues(c), Kept(out, t, c)
  PROVE  /\ NoWarning(out, t) => LastAfter(c, line) = 0
         /\ \A i : LastWarning(out, i, t) /\ EndsWithin(out, i, e) => LastAfter(c, line) = Count(out, i)
         /\ \A i : LastWarning(out, i, t) /\ (\A k \in Matches(out, t) : k <= i) =>
                (c.inWarning /\ line \in Indented) \/ LastAfter(c, line) = Count(out, i)
<1> DEFINE Ending == c.inWarning /\ line \notin Indented /\ ~IsNote(c, Len(c.recs))
<1>1. /\ t \in Nat /\ e \in Nat /\ t < e
      /\ \A k \in t + 1 .. e - 1 : out[k] \notin Lines
      /\ out[e] \in Lines => line = out[e]
  BY LineUpToFacts
<1>2. Recorded(out, t, c) /\ LastKept(out, t, c)
  BY DEF Kept
<1>3. LastAfter(c, line) = IF Ending THEN Len(c.recs) ELSE c.last
  BY DEF LastAfter
<1>4. ASSUME Ending
      PROVE  \E g \in Matches(out, t) : /\ \A k \in Matches(out, t) : k <= g
                                        /\ Len(c.recs) = Count(out, g) /\ out[g] \notin Notes
  BY <1>1, <1>2, <1>4, CurrentIsLastMatch
<1> HIDE DEF Ending
<1>5. \A i : LastWarning(out, i, t) => i \in Matches(out, t) /\ out[i] \notin Notes
  BY DEF LastWarning
<1>6. Matches(out, t) \subseteq 1 .. t
  BY <1>1, MatchesFinite
<1>7. ASSUME NoWarning(out, t) PROVE LastAfter(c, line) = 0
  <2>1. ~Ending
    BY <1>4, <1>7 DEF NoWarning
  <2> QED
    BY <1>2, <1>3, <1>7, <2>1 DEF LastKept
<1>8. ASSUME NEW i, LastWarning(out, i, t), Ending PROVE LastAfter(c, line) = Count(out, i)
  <2>1. PICK g \in Matches(out, t) : /\ \A k \in Matches(out, t) : k <= g
                                     /\ Len(c.recs) = Count(out, g) /\ out[g] \notin Notes
    BY <1>4, <1>8
  <2>2. i \in Matches(out, t) /\ ~(i < g)
    BY <1>8, <2>1 DEF LastWarning
  <2>3. i = g
    BY <1>6, <2>1, <2>2
  <2> QED
    BY <1>3, <1>8, <2>1, <2>3
<1>9. ASSUME NEW i, LastWarning(out, i, t), \A k \in Matches(out, t) : k <= i,
             ~(c.inWarning /\ line \in Indented)
      PROVE  LastAfter(c, line) = Count(out, i)
  <2>1. CASE ~c.inWarning
    <3>1. ~Ending
      BY <2>1 DEF Ending
    <3> QED
      BY <1>2, <1>3, <1>9, <2>1, <3>1 DEF LastKept
  <2>2. CASE c.inWarning
    <3>1. PICK g \in Matches(out, t) : /\ \A k \in Matches(out, t) : k <= g
                                       /\ IsNote(c, Len(c.recs)) <=> out[g] \in Notes
      BY <1>1, <1>2, <2>2, CurrentIsLastMatch
    <3>2. g = i
      BY <1>5, <1>6, <1>9, <3>1
    <3>3. Ending
      BY <1>5, <1>9, <2>2, <3>1, <3>2 DEF Ending
    <3> QED
      BY <1>8, <1>9, <3>3
  <2> QED
    BY <2>1, <2>2
<1>10. ASSUME NEW i, LastWarning(out, i, t), EndsWithin(out, i, e)
       PROVE  LastAfter(c, line) = Count(out, i)
  <2>1. CASE Ending
    BY <1>8, <1>10, <2>1
  <2>2. CASE ~Ending /\ EndsWithin(out, i, t)
    BY <1>2, <1>3, <1>10, <2>2 DEF LastKept
  <2>3. CASE ~EndsWithin(out, i, t)
    <3>1. i \in 1 .. t /\ i \in Matches(out, t)
      BY <1>5, <1>6, <1>10
    <3>2. PICK k \in i + 1 .. e : /\ out[k] \in Lines \ Indented
                                 /\ \A m \in i + 1 .. k - 1 : out[m] \notin Matching
      BY <1>10 DEF EndsWithin
    <3>3. k \notin i + 1 .. t
      BY <2>3, <3>2 DEF EndsWithin
    <3>4. k = e
      BY <1>1, <3>1, <3>2, <3>3
    <3>5. line \notin Indented
      BY <1>1, <3>2, <3>4
    <3>6. \A m \in Matches(out, t) : m <= i
      <4> SUFFICES ASSUME NEW m \in Matches(out, t), i < m PROVE FALSE
        BY <1>6, <3>1
      <4>1. m \in i + 1 .. k - 1 /\ out[m] \in Matching
        BY <1>1, <1>6, <3>1, <3>4 DEF Matches
      <4> QED
        BY <3>2, <4>1
    <3> QED
      BY <1>9, <1>10, <3>5, <3>6
  <2> QED
    BY <2>1, <2>2, <2>3
<1> QED
  BY <1>7, <1>9, <1>10

LEMMA KeptByCollect ==
  ASSUME NEW out, NEW t, NEW e, NEW line, LineUpTo(out, t, e, line),
         NEW c \in Collector, Continues(c), Kept(out, t, c), NEW d, d = Collect(c, line)
  PROVE  Kept(out, e, d)
<1> DEFINE L == LastAfter(c, line)
<1>1. /\ t \in Nat /\ e \in Nat /\ t < e /\ line \in Texts
      /\ line \in Matching <=> out[e] \in Matching
      /\ out[e] \in Lines => line = out[e]
      /\ Matches(out, e - 1) = Matches(out, t)
      /\ line \notin Matching => Matches(out, e) = Matches(out, t) /\ Count(out, e) = Count(out, t)
      /\ line \in Matching => Matches(out, e) = Matches(out, t) \cup {e} /\ Count(out, e) = Count(out, t) + 1
  BY LineUpToFacts
<1>2. /\ NoWarning(out, t) => L = 0
      /\ \A i : LastWarning(out, i, t) /\ EndsWithin(out, i, e) => L = Count(out, i)
      /\ \A i : LastWarning(out, i, t) /\ (\A k \in Matches(out, t) : k <= i) =>
             (c.inWarning /\ line \in Indented) \/ L = Count(out, i)
  BY LastAfterLine
<1>3. /\ d.last = L
      /\ \A i \in 1 .. Len(c.recs) : d.recs[i].text = c.recs[i].text /\ d.recs[i].of = c.recs[i].of
      /\ line \notin Matching => Len(d.recs) = Len(c.recs) /\ d.inWarning = (c.inWarning /\ line \in Indented)
      /\ line \in Matching =>
           /\ Len(d.recs) = Len(c.recs) + 1 /\ d.inWarning
           /\ d.recs[Len(c.recs) + 1].text = line
           /\ d.recs[Len(c.recs) + 1].of = IF line \in Notes THEN L ELSE 0
  <2>1. \A x : x = Collect(c, line) =>
          /\ x.last = L
          /\ \A i \in 1 .. Len(c.recs) : x.recs[i].text = c.recs[i].text /\ x.recs[i].of = c.recs[i].of
          /\ line \notin Matching => Len(x.recs) = Len(c.recs) /\ x.inWarning = (c.inWarning /\ line \in Indented)
          /\ line \in Matching =>
               /\ Len(x.recs) = Len(c.recs) + 1 /\ x.inWarning
               /\ x.recs[Len(c.recs) + 1].text = line
               /\ x.recs[Len(c.recs) + 1].of = IF line \in Notes THEN L ELSE 0
    BY <1>1, CollectEffect
  <2> QED
    BY <2>1
<1> HIDE DEF L
<1>4. Len(c.recs) = Count(out, t) /\ Count(out, t) \in Nat
  BY <1>1, MatchesFinite DEF Kept, Recorded
<1>5. \A j \in Matches(out, t) :
        /\ j \in 1 .. t /\ Count(out, j) \in 1 .. Count(out, t)
        /\ d.recs[Count(out, j)].text = out[j]
        /\ d.recs[Count(out, j)].of = c.recs[Count(out, j)].of
  <2> SUFFICES ASSUME NEW j \in Matches(out, t)
               PROVE  /\ j \in 1 .. t /\ Count(out, j) \in 1 .. Count(out, t)
                      /\ d.recs[Count(out, j)].text = out[j]
                      /\ d.recs[Count(out, j)].of = c.recs[Count(out, j)].of
    OBVIOUS
  <2>1. j \in 1 .. t /\ Count(out, j) \in 1 .. Count(out, t)
    BY <1>1, CountOfMatch
  <2>2. c.recs[Count(out, j)].text = out[j]
    BY DEF Kept, Recorded
  <2> QED
    BY <1>3, <1>4, <2>1, <2>2
<1>6. \A j \in Matches(out, t) : out[j] \in Notes =>
        /\ NoWarning(out, j - 1) => d.recs[Count(out, j)].of = 0
        /\ \A i : LastWarning(out, i, j - 1) /\ EndsWithin(out, i, j) =>
                d.recs[Count(out, j)].of = Count(out, i)
  BY <1>5 DEF Kept, NotesKept
<1>7. CASE line \notin Matching
  <2>1. Matches(out, e) = Matches(out, t) /\ Count(out, e) = Count(out, t)
        /\ Len(d.recs) = Len(c.recs) /\ d.inWarning = (c.inWarning /\ line \in Indented)
    BY <1>1, <1>3, <1>7
  <2>2. Recorded(out, e, d)
    BY <1>4, <1>5, <2>1 DEF Recorded
  <2>3. NotesKept(out, e, d)
    BY <1>6, <2>1 DEF NotesKept
  <2>4. LastKept(out, e, d)
    <3>1. (NoWarning(out, e) <=> NoWarning(out, t)) /\ \A i : LastWarning(out, i, e) <=> LastWarning(out, i, t)
      BY <2>1 DEF NoWarning, LastWarning
    <3> QED
      BY <1>2, <1>3, <2>1, <3>1 DEF LastKept
  <2> QED
    BY <2>2, <2>3, <2>4 DEF Kept
<1>8. CASE line \in Matching
  <2>1. Matches(out, e) = Matches(out, t) \cup {e} /\ Count(out, e) = Count(out, t) + 1
    BY <1>1, <1>8
  <2>2. /\ Len(d.recs) = Count(out, e) /\ d.inWarning
        /\ d.recs[Count(out, e)].text = line
        /\ d.recs[Count(out, e)].of = IF line \in Notes THEN L ELSE 0
    BY <1>3, <1>4, <1>8, <2>1
  <2>3. out[e] = line
    BY <1>1, <1>8, WarningAssumption
  <2>4. Recorded(out, e, d)
    BY <1>5, <2>1, <2>2, <2>3 DEF Recorded
  <2>5. (NoWarning(out, e - 1) <=> NoWarning(out, t))
        /\ \A i : LastWarning(out, i, e - 1) <=> LastWarning(out, i, t)
    BY <1>1 DEF NoWarning, LastWarning
  <2>6. NotesKept(out, e, d)
    <3>1. out[e] \in Notes =>
            /\ NoWarning(out, e - 1) => d.recs[Count(out, e)].of = 0
            /\ \A i : LastWarning(out, i, e - 1) /\ EndsWithin(out, i, e) =>
                    d.recs[Count(out, e)].of = Count(out, i)
      BY <1>2, <2>2, <2>3, <2>5
    <3> QED
      BY <1>6, <2>1, <3>1 DEF NotesKept
  <2>7. NoWarning(out, e) => d.last = 0
    <3>1. NoWarning(out, e) => NoWarning(out, t)
      BY <2>1 DEF NoWarning
    <3> QED
      BY <1>2, <1>3, <3>1
  <2>8. ASSUME NEW i, LastWarning(out, i, e), EndsWithin(out, i, e) PROVE d.last = Count(out, i)
    <3>1. i # e
      BY <1>1, <2>8 DEF EndsWithin
    <3>2. LastWarning(out, i, t)
      BY <2>1, <2>8, <3>1 DEF LastWarning
    <3> QED
      BY <1>2, <1>3, <2>8, <3>2
  <2>9. LastKept(out, e, d)
    BY <2>2, <2>7, <2>8 DEF LastKept
  <2> QED
    BY <2>4, <2>6, <2>9 DEF Kept
<1> QED
  BY <1>7, <1>8

(***************************************************************************)
(* The inductive invariant                                                 *)
(***************************************************************************)

(* A pipe the compiler waits for room in is open, and one that has ended has  *)
(* closed both.                                                               *)
ClosedIsSilent ==
  /\ writing # Nothing => writing[1] \notin closed
  /\ exited => closed = Fds

(* A turn of run() is about the pipes select reported, and never about none.  *)
TurnIsOfReady ==
  /\ pc \in Fds => pc \in ready
  /\ pc # "select" => ready # {}

(* A pipe run() has come to in this turn without a line is at its end.        *)
Passed(fd) == pc = "poll" \/ Ended \/ (pc = "stderr" /\ fd = "stdout")
PassedWithoutLine ==
  \A fd \in ready \ got : Passed(fd) => fd \in closed /\ taken[fd] = Len(output[fd])

(* run() ends only after the compiler, and after a turn without a line.       *)
EndedWithoutLine == Ended => exited /\ got = {}

CollectorsContinue == \A fd \in Fds : Continues(collectors[fd])

IInv ==
  /\ TypeOK /\ CollectorsContinue
  /\ ClosedIsSilent /\ TurnIsOfReady /\ PassedWithoutLine /\ EndedWithoutLine

(***************************************************************************)
(* The proof                                                               *)
(***************************************************************************)

LEMMA InitInv == Init => IInv
<1> SUFFICES ASSUME Init PROVE IInv
  OBVIOUS
<1>1. <<>> \in Seq(Texts) /\ Len(<<>>) = 0
  OBVIOUS
<1>2. TypeOK
  <2>1. output \in [Fds -> Seq(Texts)] /\ fetched \in [Fds -> Nat] /\ taken \in [Fds -> Nat]
        /\ collectors \in [Fds -> Collector]
    BY <1>1, NewCollectorType DEF Init
  <2>2. \A fd \in Fds : taken[fd] <= fetched[fd] /\ fetched[fd] <= Len(output[fd])
    BY <1>1 DEF Init
  <2>3. closed \subseteq Fds /\ exited \in BOOLEAN /\ writing = Nothing
        /\ pc = "select" /\ ready \subseteq Fds /\ got \subseteq ready /\ file.build = "earlier"
    BY DEF Init
  <2> QED
    BY <2>1, <2>2, <2>3 DEF TypeOK
<1>3. CollectorsContinue
  BY NewCollectorType DEF Init, CollectorsContinue
<1>4. ClosedIsSilent /\ TurnIsOfReady /\ PassedWithoutLine /\ EndedWithoutLine
  BY DEF Init, ClosedIsSilent, TurnIsOfReady, PassedWithoutLine, EndedWithoutLine, Passed, Ended, Fds
<1> QED
  BY <1>2, <1>3, <1>4 DEF IInv

(* What the type invariant says of one pipe. *)
LEMMA PipeTypes ==
  ASSUME TypeOK, NEW fd \in Fds
  PROVE  /\ output[fd] \in Seq(Texts) /\ Len(output[fd]) \in Nat
         /\ fetched[fd] \in Nat /\ taken[fd] \in Nat
         /\ taken[fd] <= fetched[fd] /\ fetched[fd] <= Len(output[fd])
         /\ InPipe(fd) \in Nat /\ collectors[fd] \in Collector
<1>1. output[fd] \in Seq(Texts) /\ fetched[fd] \in Nat /\ taken[fd] \in Nat
      /\ taken[fd] <= fetched[fd] /\ fetched[fd] <= Len(output[fd]) /\ collectors[fd] \in Collector
  BY DEF TypeOK
<1>2. Len(output[fd]) \in Nat
  BY <1>1, LenProperties
<1> QED
  BY <1>1, <1>2 DEF InPipe

(* A step of the compiler adds at most one part to one open pipe. *)
CompilerStep ==
  /\ UNCHANGED runner
  /\ \/ output' = output
     \/ \E fd \in Fds \ closed, part \in Texts : output' = [output EXCEPT ![fd] = Append(@, part)]
  /\ closed \subseteq closed' /\ closed' \subseteq Fds
  /\ exited => exited'
  /\ exited' \in BOOLEAN /\ writing' \in (Fds \X Texts) \cup {Nothing}
  /\ ClosedIsSilent'

LEMMA CompilerSteps == ASSUME IInv, Compiler PROVE CompilerStep
<1>1. closed \subseteq Fds /\ exited \in BOOLEAN /\ writing \in (Fds \X Texts) \cup {Nothing} /\ ClosedIsSilent
  BY DEF IInv, TypeOK
<1>2. ASSUME NEW fd \in Fds, NEW part \in Texts, Write(fd, part)
      PROVE  CompilerStep
  BY <1>1, <1>2 DEF Write, CompilerStep, ClosedIsSilent
<1>3. ASSUME NEW fd \in Fds, NEW part \in Texts, WaitForRoom(fd, part)
      PROVE  CompilerStep
  <2>1. fd \notin closed /\ writing' = <<fd, part>> /\ UNCHANGED <<output, closed, exited, runner>>
    BY <1>3 DEF WaitForRoom
  <2>2. writing'[1] = fd /\ writing' \in Fds \X Texts
    BY <2>1
  <2> QED
    BY <1>1, <2>1, <2>2 DEF CompilerStep, ClosedIsSilent
<1>4. CASE WriteNow
  <2>1. /\ writing # Nothing /\ writing' = Nothing
        /\ output' = [output EXCEPT ![writing[1]] = Append(@, writing[2])]
        /\ UNCHANGED <<closed, exited, runner>>
    BY <1>4 DEF WriteNow
  <2>2. writing[1] \in Fds \ closed /\ writing[2] \in Texts
    BY <1>1, <2>1 DEF ClosedIsSilent
  <2> QED
    BY <1>1, <2>1, <2>2 DEF CompilerStep, ClosedIsSilent
<1>5. ASSUME NEW fd \in Fds, Close(fd) PROVE CompilerStep
  BY <1>1, <1>5 DEF Close, CompilerStep, ClosedIsSilent
<1>6. CASE Exit
  BY <1>1, <1>6 DEF Exit, CompilerStep, ClosedIsSilent
<1> QED
  BY <1>2, <1>3, <1>4, <1>5, <1>6 DEF Compiler

(* What is in the output stays as it is. *)
LEMMA OutputGrows ==
  ASSUME TypeOK, CompilerStep
  PROVE  /\ output' \in [Fds -> Seq(Texts)]
         /\ \A fd \in Fds : Len(output[fd]) <= Len(output'[fd])
         /\ \A fd \in Fds : /\ fd \in closed => output'[fd] = output[fd]
                           /\ \A i \in 1 .. Len(output[fd]) : output'[fd][i] = output[fd][i]
<1>1. output \in [Fds -> Seq(Texts)]
  BY DEF TypeOK
<1>2. CASE output' = output
  <2>1. \A fd \in Fds : Len(output[fd]) \in Nat
    BY PipeTypes
  <2> QED
    BY <1>1, <1>2, <2>1
<1>3. ASSUME NEW g \in Fds \ closed, NEW part \in Texts, output' = [output EXCEPT ![g] = Append(@, part)]
      PROVE  /\ output' \in [Fds -> Seq(Texts)]
             /\ \A fd \in Fds : /\ Len(output[fd]) <= Len(output'[fd])
                               /\ fd \in closed => output'[fd] = output[fd]
                               /\ \A i \in 1 .. Len(output[fd]) : output'[fd][i] = output[fd][i]
  <2>1. /\ Append(output[g], part) \in Seq(Texts)
        /\ Len(Append(output[g], part)) = Len(output[g]) + 1
        /\ \A i \in 1 .. Len(output[g]) : Append(output[g], part)[i] = output[g][i]
    BY PipeTypes, AppendProperties
  <2>2. \A fd \in Fds : output'[fd] = IF fd = g THEN Append(output[g], part) ELSE output[fd]
    BY <1>1, <1>3
  <2>3. output' \in [Fds -> Seq(Texts)]
    BY <1>1, <1>3, <2>1
  <2>4. \A fd \in Fds : Len(output[fd]) \in Nat
    BY PipeTypes
  <2> QED
    BY <2>1, <2>2, <2>3, <2>4
<1> QED
  BY <1>2, <1>3 DEF CompilerStep

LEMMA CompilerInv == ASSUME IInv, Compiler PROVE IInv'
<1>1. CompilerStep /\ TypeOK
  BY CompilerSteps DEF IInv
<1>2. UNCHANGED <<fetched, taken, pc, ready, got, collectors, file>>
  BY <1>1 DEF CompilerStep, runner
<1>3. TypeOK'
  <2>1. \A fd \in Fds : taken'[fd] <= fetched'[fd] /\ fetched'[fd] <= Len(output'[fd])
    <3> SUFFICES ASSUME NEW fd \in Fds PROVE taken'[fd] <= fetched'[fd] /\ fetched'[fd] <= Len(output'[fd])
      OBVIOUS
    <3>1. Len(output[fd]) <= Len(output'[fd]) /\ output'[fd] \in Seq(Texts)
      <4>1. \A g \in Fds : Len(output[g]) <= Len(output'[g])
        BY <1>1, OutputGrows
      <4>2. output' \in [Fds -> Seq(Texts)]
        BY <1>1, OutputGrows
      <4>3. Len(output[fd]) <= Len(output'[fd])
        BY <4>1
      <4>4. output'[fd] \in Seq(Texts)
        BY <4>2
      <4> QED
        BY <4>3, <4>4
    <3>3. Len(output'[fd]) \in Nat
      BY <3>1, LenProperties
    <3>2. taken[fd] \in Nat /\ fetched[fd] \in Nat /\ Len(output[fd]) \in Nat
          /\ taken[fd] <= fetched[fd] /\ fetched[fd] <= Len(output[fd])
      BY <1>1, PipeTypes
    <3> QED
      BY <1>2, <3>1, <3>2, <3>3
  <2>2. output' \in [Fds -> Seq(Texts)] /\ closed' \subseteq Fds
        /\ exited' \in BOOLEAN /\ writing' \in (Fds \X Texts) \cup {Nothing}
    BY <1>1, OutputGrows DEF CompilerStep
  <2> QED
    BY <1>1, <1>2, <2>1, <2>2, Zenon DEF TypeOK
<1>4. PassedWithoutLine'
  <2> SUFFICES ASSUME NEW fd \in ready \ got, Passed(fd)
               PROVE  fd \in closed' /\ taken[fd] = Len(output'[fd])
    BY <1>2, Zenon DEF PassedWithoutLine, Passed, Ended
  <2>1. fd \in closed /\ taken[fd] = Len(output[fd]) /\ fd \in Fds
    BY DEF IInv, PassedWithoutLine, TypeOK
  <2> QED
    BY <1>1, <2>1, OutputGrows DEF CompilerStep
<1>5. (CollectorsContinue /\ TurnIsOfReady)'
  BY <1>2 DEF IInv, CollectorsContinue, TurnIsOfReady
<1>6. EndedWithoutLine' /\ ClosedIsSilent'
  BY <1>1, <1>2 DEF IInv, CompilerStep, EndedWithoutLine, Ended
<1> QED
  BY <1>3, <1>4, <1>5, <1>6 DEF IInv

(* A step of run() that reads nothing of what the compiler wrote.             *)
LEMMA SelectInv == ASSUME IInv, Select PROVE IInv'
<1>1. UNCHANGED <<output, closed, exited, writing, fetched, taken, collectors, file>>
  BY DEF Select, compiler
<1>2. ready' \subseteq Fds /\ ready' # {} /\ got' = {}
      /\ pc' = (IF "stdout" \in ready' THEN "stdout" ELSE "stderr")
  BY DEF Select
<1>3. pc' \in ready' /\ pc' \in Fds
  BY <1>2 DEF Fds
<1>4. TypeOK'
  <2>1. pc' \in Fds \cup {"select", "poll", "report", "done", "failed"} /\ got' \subseteq ready'
    BY <1>2, <1>3
  <2> QED
    BY <1>1, <1>2, <2>1, Zenon DEF IInv, TypeOK
<1>5. TurnIsOfReady'
  BY <1>2, <1>3 DEF TurnIsOfReady
<1>6. PassedWithoutLine' /\ EndedWithoutLine'
  BY <1>2, <1>3 DEF PassedWithoutLine, EndedWithoutLine, Passed, Ended, Fds
<1>7. (ClosedIsSilent /\ CollectorsContinue)'
  BY <1>1 DEF IInv, ClosedIsSilent, CollectorsContinue
<1> QED
  BY <1>4, <1>5, <1>6, <1>7 DEF IInv

LEMMA FetchInv == ASSUME IInv, NEW fd \in Fds, Fetch(fd) PROVE IInv'
<1>1. UNCHANGED <<output, closed, exited, writing, taken, pc, ready, got, collectors, file>>
  BY DEF Fetch, compiler
<1> DEFINE n == IF InPipe(fd) < ChunkSize THEN InPipe(fd) ELSE ChunkSize
<1>2. fetched' = [fetched EXCEPT ![fd] = @ + n]
  BY DEF Fetch
<1>3. n \in Nat /\ n <= InPipe(fd)
  BY RunnerAssumption, PipeTypes DEF IInv
<1> HIDE DEF n
<1>4. fetched \in [Fds -> Nat]
  BY DEF IInv, TypeOK
<1>5. fetched' \in [Fds -> Nat] /\ \A g \in Fds : fetched'[g] = IF g = fd THEN fetched[fd] + n ELSE fetched[g]
  BY <1>2, <1>3, <1>4
<1>6. \A g \in Fds : taken'[g] <= fetched'[g] /\ fetched'[g] <= Len(output'[g])
  <2> SUFFICES ASSUME NEW g \in Fds
               PROVE  taken[g] <= fetched'[g] /\ fetched'[g] <= Len(output[g])
    BY <1>1
  <2>1. /\ taken[g] \in Nat /\ fetched[g] \in Nat /\ Len(output[g]) \in Nat
        /\ taken[g] <= fetched[g] /\ fetched[g] <= Len(output[g]) /\ InPipe(g) = Len(output[g]) - fetched[g]
    BY PipeTypes DEF IInv, InPipe
  <2> QED
    BY <1>3, <1>5, <2>1
<1>7. TypeOK'
  BY <1>1, <1>5, <1>6, Zenon DEF IInv, TypeOK
<1>8. (ClosedIsSilent /\ CollectorsContinue /\ TurnIsOfReady /\ EndedWithoutLine)'
  BY <1>1 DEF IInv, ClosedIsSilent, CollectorsContinue, TurnIsOfReady, EndedWithoutLine, Ended
<1>9. PassedWithoutLine'
  BY <1>1, Zenon DEF IInv, PassedWithoutLine, Passed, Ended
<1> QED
  BY <1>7, <1>8, <1>9 DEF IInv

(* When run() goes on behind a pipe it goes to one that is ready, or to poll; *)
(* what it has passed by then is that pipe and what it had passed before.     *)
LEMMA AfterPipe ==
  ASSUME IInv, NEW fd \in Fds, pc = fd, pc' = After(fd), ready' = ready
  PROVE  /\ pc' \in Fds \cup {"poll"} /\ TurnIsOfReady' /\ ~Ended'
         /\ \A g \in ready : Passed(g)' => g = fd \/ Passed(g)
<1>1. ready \subseteq Fds /\ ready # {}
  BY DEF IInv, TypeOK, TurnIsOfReady, Fds
<1>2. pc' = (IF fd = "stdout" /\ "stderr" \in ready THEN "stderr" ELSE "poll")
  BY DEF After
<1>3. fd = "stdout" \/ fd = "stderr"
  BY DEF Fds
<1>4. TurnIsOfReady' /\ ~Ended' /\ pc' \in Fds \cup {"poll"}
  BY <1>1, <1>2, <1>3 DEF TurnIsOfReady, Ended, Fds
<1>5. ASSUME NEW g \in ready, Passed(g)' PROVE g = fd \/ Passed(g)
  <2>1. g = "stdout" \/ g = "stderr"
    BY <1>1 DEF Fds
  <2>2. CASE fd = "stdout"
    BY <1>2, <1>5, <2>1, <2>2 DEF Passed, Ended
  <2>3. CASE fd = "stderr"
    BY <2>1, <2>3 DEF Passed
  <2> QED
    BY <1>3, <2>2, <2>3
<1> QED
  BY <1>4, <1>5

(* A line is taken, and collect gets it. *)
LEMMA TakeUpToInv ==
  ASSUME IInv, NEW fd \in Fds, pc = fd, NEW end \in Nat, NEW line \in Texts,
         taken[fd] < end, end <= fetched[fd], TakeUpTo(fd, end, line)
  PROVE  IInv'
<1>1. UNCHANGED <<output, closed, exited, writing, fetched, ready, file>>
  BY DEF TakeUpTo, compiler
<1>2. /\ taken' = [taken EXCEPT ![fd] = end]
      /\ collectors' = [collectors EXCEPT ![fd] = Collect(collectors[fd], line)]
      /\ got' = got \cup {fd} /\ pc' = After(fd)
  BY DEF TakeUpTo
<1>3. Collect(collectors[fd], line) \in Collector /\ Continues(Collect(collectors[fd], line))
  BY PipeTypes, CollectEffect DEF IInv, CollectorsContinue
<1>4. /\ pc' \in Fds \cup {"poll"} /\ TurnIsOfReady' /\ ~Ended'
      /\ \A g \in ready : Passed(g)' => g = fd \/ Passed(g)
  BY <1>1, <1>2, AfterPipe
<1>5. taken \in [Fds -> Nat] /\ collectors \in [Fds -> Collector] /\ got \subseteq ready /\ ready \subseteq Fds
  BY DEF IInv, TypeOK
<1>6. TypeOK'
  <2>1. taken' \in [Fds -> Nat] /\ \A g \in Fds : taken'[g] = IF g = fd THEN end ELSE taken[g]
    BY <1>2, <1>5
  <2>2. collectors' \in [Fds -> Collector]
    BY <1>2, <1>3, <1>5
  <2>3. got' \subseteq ready'
    BY <1>1, <1>2, <1>5 DEF IInv, TurnIsOfReady
  <2>4. \A g \in Fds : taken'[g] <= fetched'[g] /\ fetched'[g] <= Len(output'[g])
    BY <1>1, <2>1 DEF IInv, TypeOK
  <2>5. pc' \in Fds \cup {"select", "poll", "report", "done", "failed"}
    BY <1>4
  <2> QED
    BY <1>1, <2>1, <2>2, <2>3, <2>4, <2>5, Zenon DEF IInv, TypeOK
<1>7. CollectorsContinue'
  BY <1>2, <1>3, <1>5 DEF IInv, CollectorsContinue
<1>8. PassedWithoutLine'
  <2> SUFFICES ASSUME NEW g \in ready' \ got', Passed(g)'
               PROVE  g \in closed' /\ taken'[g] = Len(output'[g])
    BY DEF PassedWithoutLine
  <2>1. g \in ready \ got /\ g # fd /\ g \in Fds
    BY <1>1, <1>2, <1>5
  <2>2. Passed(g)
    BY <1>4, <2>1
  <2>3. g \in closed /\ taken[g] = Len(output[g])
    BY <2>1, <2>2 DEF IInv, PassedWithoutLine
  <2>4. taken'[g] = taken[g]
    BY <1>2, <1>5, <2>1
  <2> QED
    BY <1>1, <2>3, <2>4
<1>9. EndedWithoutLine' /\ ClosedIsSilent'
  BY <1>1, <1>4 DEF IInv, EndedWithoutLine, ClosedIsSilent
<1> QED
  BY <1>4, <1>6, <1>7, <1>8, <1>9 DEF IInv

LEMMA ReadNothingInv == ASSUME IInv, NEW fd \in Fds, ReadNothing(fd) PROVE IInv'
<1>1. UNCHANGED <<output, closed, exited, writing, fetched, taken, ready, got, collectors, file>>
  BY DEF ReadNothing, compiler
<1>2. pc = fd /\ pc' = After(fd)
  BY DEF ReadNothing
<1>3. fd \in closed /\ taken[fd] = Len(output[fd])
  BY PipeTypes DEF ReadNothing, AtEnd, InPipe, IInv
<1>4. /\ pc' \in Fds \cup {"poll"} /\ TurnIsOfReady' /\ ~Ended'
      /\ \A g \in ready : Passed(g)' => g = fd \/ Passed(g)
  BY <1>1, <1>2, AfterPipe
<1>5. TypeOK'
  <2>1. pc' \in Fds \cup {"select", "poll", "report", "done", "failed"}
    BY <1>4
  <2> QED
    BY <1>1, <2>1, Zenon DEF IInv, TypeOK
<1>6. PassedWithoutLine'
  BY <1>1, <1>3, <1>4 DEF IInv, PassedWithoutLine
<1>7. (ClosedIsSilent /\ CollectorsContinue /\ EndedWithoutLine)'
  BY <1>1, <1>4 DEF IInv, ClosedIsSilent, CollectorsContinue, EndedWithoutLine
<1> QED
  BY <1>4, <1>5, <1>6, <1>7 DEF IInv

(* The steps behind the pipes. *)
LEMMA PollInv == ASSUME IInv, Poll \/ Report \/ ReportFails PROVE IInv'
<1>1. UNCHANGED <<output, closed, exited, writing, fetched, taken, ready, got, collectors>>
  BY DEF Poll, Report, ReportFails, compiler
<1>2. \/ pc = "poll" /\ pc' = "report" /\ exited /\ got = {}
      \/ pc = "poll" /\ pc' = "select"
      \/ pc = "report" /\ pc' \in {"done", "failed"}
  BY DEF Poll, Over, Report, ReportFails
<1>3. file'.build \in {"earlier", "this"}
  BY DEF Poll, Report, ReportFails, IInv, TypeOK
<1>4. TypeOK'
  <2>1. pc' \in Fds \cup {"select", "poll", "report", "done", "failed"}
    BY <1>2
  <2> QED
    BY <1>1, <1>3, <2>1, Zenon DEF IInv, TypeOK
<1>5. TurnIsOfReady' /\ EndedWithoutLine'
  BY <1>1, <1>2 DEF IInv, TurnIsOfReady, EndedWithoutLine, Ended, Fds
<1>6. PassedWithoutLine'
  <2>1. \A g : Passed(g)' => Passed(g)
    BY <1>2 DEF Passed, Ended
  <2> QED
    BY <1>1, <2>1 DEF IInv, PassedWithoutLine
<1>7. (ClosedIsSilent /\ CollectorsContinue)'
  BY <1>1 DEF IInv, ClosedIsSilent, CollectorsContinue
<1> QED
  BY <1>4, <1>5, <1>6, <1>7 DEF IInv

LEMMA ReadInv == ASSUME IInv, NEW fd \in Fds, ReadLine(fd) \/ ReadRest(fd) PROVE IInv'
<1>1. /\ output[fd] \in Seq(Texts) /\ Len(output[fd]) \in Nat
      /\ fetched[fd] \in Nat /\ taken[fd] \in Nat /\ fetched[fd] <= Len(output[fd])
  BY PipeTypes DEF IInv
<1>2. CASE ReadLine(fd)
  <2>1. PICK end \in LineEnds(fd) : TakeUpTo(fd, end, output[fd][end])
    BY <1>2 DEF ReadLine
  <2>2. end \in Nat /\ taken[fd] < end /\ end <= fetched[fd] /\ end \in 1 .. Len(output[fd])
    BY <1>1, <2>1 DEF LineEnds
  <2>3. output[fd][end] \in Texts
    BY <1>1, <2>2, ElementOfSeq
  <2>4. pc = fd
    BY <1>2 DEF ReadLine
  <2> QED
    BY <2>1, <2>2, <2>3, <2>4, TakeUpToInv
<1>3. CASE ReadRest(fd)
  <2>1. pc = fd /\ taken[fd] < fetched[fd] /\ TakeUpTo(fd, fetched[fd], Beginning)
    BY <1>3 DEF ReadRest
  <2>2. Beginning \in Texts
    BY DEF Texts
  <2> QED
    BY <1>1, <2>1, <2>2, TakeUpToInv
<1> QED
  BY <1>2, <1>3

LEMMA NextInv == IInv /\ [Next]_vars => IInv'
<1> SUFFICES ASSUME IInv, [Next]_vars PROVE IInv'
  OBVIOUS
<1>1. CASE Compiler
  BY <1>1, CompilerInv
<1>2. CASE Run
  BY <1>2, SelectInv, FetchInv, ReadInv, ReadNothingInv, PollInv DEF Run
<1>3. CASE UNCHANGED vars
  <2>1. UNCHANGED <<output, closed, exited, writing, fetched, taken, pc, ready, got, collectors, file>>
    BY <1>3 DEF vars
  <2>2. TypeOK'
    BY <2>1, Zenon DEF IInv, TypeOK
  <2>3. (CollectorsContinue /\ ClosedIsSilent /\ TurnIsOfReady)'
    BY <2>1 DEF IInv, CollectorsContinue, ClosedIsSilent, TurnIsOfReady
  <2>4. (PassedWithoutLine /\ EndedWithoutLine)'
    BY <2>1, Zenon DEF IInv, PassedWithoutLine, EndedWithoutLine, Passed, Ended
  <2> QED
    BY <2>2, <2>3, <2>4 DEF IInv
<1> QED
  BY <1>1, <1>2, <1>3 DEF Next

THEOREM Invariant == Spec => []IInv
BY InitInv, NextInv, PTL DEF Spec

(* The types of run(), of the pipes and of the two collectors: no more is     *)
(* taken than was fetched, nor fetched than was written, and lines are of     *)
(* pipes select reported.                                                     *)
THEOREM TypeCorrect == Spec => []TypeOK
<1>1. IInv => TypeOK
  BY DEF IInv
<1> QED
  BY <1>1, Invariant, PTL

(* When run() ends the compiler has ended, and lines are lost only of a pipe  *)
(* the last select did not report, while it did report the other.             *)
THEOREM OnlyBehindTheOther == Spec => []LostOnlyBehindTheOther
<1>1. IInv => LostOnlyBehindTheOther
  <2> SUFFICES ASSUME IInv, Ended PROVE LostOnlyBehindTheOther
    BY DEF LostOnlyBehindTheOther
  <2>1. exited /\ got = {} /\ ready # {} /\ ready \subseteq Fds
    BY DEF IInv, EndedWithoutLine, TurnIsOfReady, TypeOK, Ended
  <2>2. \A fd \in ready : taken[fd] = Len(output[fd])
    BY <2>1 DEF IInv, PassedWithoutLine, Passed
  <2>3. ASSUME NEW fd \in Fds, taken[fd] < Len(output[fd]) PROVE ready = Fds \ {fd}
    <3>1. fd \notin ready
      BY <2>2, <2>3, PipeTypes DEF IInv
    <3> QED
      BY <2>1, <3>1 DEF Fds
  <2> QED
    BY <2>1, <2>2, <2>3 DEF LostOnlyBehindTheOther
<1> QED
  BY <1>1, Invariant, PTL

(***************************************************************************)
(* Folds: what has a least bad subset needs no induction                   *)
(***************************************************************************)
(* Of the finite sets that are bad there is one all of whose proper subsets *)
(* are not: what induction over finite sets comes down to.                  *)
LEMMA LeastSubset ==
  ASSUME NEW S, NEW Bad, Bad \subseteq FiniteSubsetsOf(S), Bad # {}
  PROVE  \E Z \in Bad : \A U \in SUBSET Z : U # Z => U \notin Bad
<1>1. PICK Z \in Bad : \A U \in Bad : <<U, Z>> \notin StrictSubsetOrdering(S)
  BY FS_StrictSubsetOrderingWellFounded, WFMin
<1>2. ASSUME NEW U \in SUBSET Z, U # Z, U \in Bad PROVE FALSE
  <2>1. <<U, Z>> \in StrictSubsetOrdering(S)
    BY <1>2 DEF StrictSubsetOrdering, FiniteSubsetsOf
  <2> QED
    BY <1>1, <1>2, <2>1
<1> QED
  BY <1>2

(* g says for every subset of S what folding step over it, in the order of c, *)
(* gives.                                                                     *)
Folds(g, S, c, step, base) ==
  \A Z \in SUBSET S : g[Z] = IF Z = {} THEN base ELSE step[<<c[Z], g[Z \ {c[Z]}]>>]

(* No two functions fold alike and differ. *)
LEMMA FoldsAgree ==
  ASSUME NEW S, NEW R, NEW c, NEW step, NEW base, NEW g, NEW h,
         \A Z \in SUBSET S : Z # {} => c[Z] \in Z,
         Folds(g, S, c, step, base), Folds(h, R, c, step, base),
         NEW Z, Z \subseteq S, Z \subseteq R, IsFiniteSet(Z)
  PROVE  g[Z] = h[Z]
<1> DEFINE Bad == {U \in SUBSET Z : g[U] # h[U]}
<1> SUFFICES ASSUME Bad # {} PROVE FALSE
  OBVIOUS
<1>1. Bad \subseteq FiniteSubsetsOf(S)
  <2>1. ASSUME NEW U \in Bad PROVE IsFiniteSet(U) /\ U \in SUBSET S
    BY FS_Subset
  <2> QED
    BY <2>1 DEF FiniteSubsetsOf
<1>2. PICK U \in Bad : \A W \in SUBSET U : W # U => W \notin Bad
  <2> HIDE DEF Bad
  <2> QED
    BY <1>1, LeastSubset
<1>3. U \in SUBSET S /\ U \in SUBSET R /\ U \in SUBSET Z /\ g[U] # h[U]
  OBVIOUS
<1>4. CASE U = {}
  BY <1>3, <1>4 DEF Folds
<1>5. CASE U # {}
  <2>1. c[U] \in U
    BY <1>3, <1>5
  <2>2. g[U \ {c[U]}] = h[U \ {c[U]}]
    BY <1>2, <1>3, <2>1
  <2>3. g[U] = step[<<c[U], g[U \ {c[U]}]>>] /\ h[U] = step[<<c[U], h[U \ {c[U]}]>>]
    BY <1>3, <1>5 DEF Folds
  <2> QED
    BY <1>3, <2>2, <2>3
<1> QED
  BY <1>4, <1>5

(* Over a finite set there is a fold. *)
LEMMA FoldExists ==
  ASSUME NEW S, IsFiniteSet(S), NEW V, NEW c, NEW step, NEW base \in V,
         \A Z \in SUBSET S : Z # {} => c[Z] \in Z,
         \A x \in S, v \in V : step[<<x, v>>] \in V
  PROVE  \E g \in [SUBSET S -> V] : Folds(g, S, c, step, base)
<1> DEFINE Has(Z) == \E g \in [SUBSET Z -> V] : Folds(g, Z, c, step, base)
           Bad == {Z \in SUBSET S : ~Has(Z)}
<1> SUFFICES ASSUME Bad # {} PROVE FALSE
  OBVIOUS
<1>1. Bad \subseteq FiniteSubsetsOf(S)
  <2>1. ASSUME NEW U \in Bad PROVE IsFiniteSet(U) /\ U \in SUBSET S
    BY FS_Subset
  <2> QED
    BY <2>1 DEF FiniteSubsetsOf
<1>2. PICK Z \in Bad : \A U \in SUBSET Z : U # Z => U \notin Bad
  <2> HIDE DEF Bad
  <2> QED
    BY <1>1, LeastSubset
<1>3. Z \in SUBSET S /\ ~Has(Z) /\ \A U \in SUBSET Z : U # Z => Has(U)
  BY <1>2
<1> DEFINE h(U) == CHOOSE g \in [SUBSET U -> V] : Folds(g, U, c, step, base)
           g == [U \in SUBSET Z |-> IF U = {} THEN base ELSE step[<<c[U], h(U \ {c[U]})[U \ {c[U]}]>>]]
<1>4. ASSUME NEW U \in SUBSET Z, U # Z PROVE h(U) \in [SUBSET U -> V] /\ Folds(h(U), U, c, step, base)
  BY <1>3, <1>4
<1> HIDE DEF h
<1>5. ASSUME NEW U \in SUBSET Z, U # {}
      PROVE  /\ c[U] \in U /\ U \ {c[U]} \in SUBSET Z /\ U \ {c[U]} # Z
             /\ h(U \ {c[U]})[U \ {c[U]}] \in V
  <2>1. c[U] \in U
    BY <1>3, <1>5
  <2> DEFINE W == U \ {c[U]}
  <2>2. W \in SUBSET Z /\ W # Z /\ W \in SUBSET W
    BY <2>1
  <2> HIDE DEF W
  <2>3. h(W)[W] \in V
    <3>1. h(W) \in [SUBSET W -> V]
      BY <1>4, <2>2
    <3> QED
      BY <2>2, <3>1
  <2> QED
    BY <2>1, <2>2, <2>3 DEF W
<1>6. g \in [SUBSET Z -> V]
  <2>1. ASSUME NEW U \in SUBSET Z
        PROVE  (IF U = {} THEN base ELSE step[<<c[U], h(U \ {c[U]})[U \ {c[U]}]>>]) \in V
    <3>1. CASE U = {}
      BY <3>1
    <3>2. CASE U # {}
      <4>1. c[U] \in S /\ h(U \ {c[U]})[U \ {c[U]}] \in V
        BY <1>3, <1>5, <3>2
      <4> QED
        BY <3>2, <4>1
    <3> QED
      BY <3>1, <3>2
  <2> QED
    BY <2>1
<1>7. ASSUME NEW U \in SUBSET Z, U # {} PROVE g[U \ {c[U]}] = h(U \ {c[U]})[U \ {c[U]}]
  <2> DEFINE W == U \ {c[U]}
  <2>1. W \in SUBSET Z /\ W # Z
    BY <1>5, <1>7
  <2> HIDE DEF W
  <2>2. Folds(h(W), W, c, step, base)
    BY <1>4, <2>1
  <2>3. CASE W = {}
    <3>1. h(W)[W] = base
      BY <2>2, <2>3 DEF Folds
    <3> QED
      BY <2>1, <2>3, <3>1 DEF W
  <2>4. CASE W # {}
    <3> DEFINE X == W \ {c[W]}
    <3>1. c[W] \in W /\ X \in SUBSET W /\ X \in SUBSET Z /\ X # Z /\ IsFiniteSet(X)
      <4>1. c[W] \in W /\ X \in SUBSET Z /\ X # Z
        BY <1>5, <2>1, <2>4
      <4>2. X \in SUBSET S
        BY <1>3, <4>1
      <4>3. IsFiniteSet(X)
        BY <4>2, FS_Subset
      <4> QED
        BY <4>1, <4>3
    <3>2. h(W)[W] = step[<<c[W], h(W)[X]>>]
      BY <2>2, <2>4 DEF Folds
    <3>3. g[W] = step[<<c[W], h(X)[X]>>]
      BY <2>1, <2>4
    <3> HIDE DEF X
    <3>4. Folds(h(X), X, c, step, base)
      BY <1>4, <3>1
    <3>5. \A Y \in SUBSET X : Y # {} => c[Y] \in Y
      BY <1>3, <3>1
    <3>6. h(X)[X] = h(W)[X]
      BY <2>2, <3>1, <3>4, <3>5, FoldsAgree
    <3> QED
      BY <3>2, <3>3, <3>6 DEF W
  <2> QED
    BY <2>3, <2>4
<1>8. Folds(g, Z, c, step, base)
  <2>1. ASSUME NEW U \in SUBSET Z
        PROVE  g[U] = IF U = {} THEN base ELSE step[<<c[U], g[U \ {c[U]}]>>]
    <3>1. g[U] = IF U = {} THEN base ELSE step[<<c[U], h(U \ {c[U]})[U \ {c[U]}]>>]
      OBVIOUS
    <3> HIDE DEF g
    <3> QED
      BY <1>7, <3>1
  <2> HIDE DEF g
  <2> QED
    BY <2>1 DEF Folds
<1> HIDE DEF g
<1> QED
  BY <1>3, <1>6, <1>8

(***************************************************************************)
(* The lists merge makes                                                   *)
(***************************************************************************)
ListOfWarnings == Seq([text : Matching, count : Nat])

EntriesOf(list, t) == {i \in 1 .. Len(list) : list[i].text = t}

(* The equal warning that gets the count. *)
LEMMA FirstEqual ==
  ASSUME NEW n \in Nat, NEW S \in SUBSET (1 .. n), S # {}
  PROVE  (CHOOSE i \in S : \A k \in S : i <= k) \in S
<1>1. S \in SUBSET Nat
  OBVIOUS
<1>2. \E i \in S : \A k \in S : i <= k
  BY <1>1, LeastNatural
<1> QED
  BY <1>2

(* A note in another warning changes nothing, a warning that is not in the *)
(* list is put behind it, one that is counts one more.                     *)
OneMerged(list, r, d) ==
  /\ r.of # 0 => d = list
  /\ r.of = 0 /\ EntriesOf(list, r.text) = {} =>
       /\ Len(d) = Len(list) + 1
       /\ \A i \in 1 .. Len(list) : d[i] = list[i]
       /\ d[Len(list) + 1].text = r.text /\ d[Len(list) + 1].count = 1
  /\ r.of = 0 /\ EntriesOf(list, r.text) # {} =>
       \E i \in EntriesOf(list, r.text) :
         /\ Len(d) = Len(list)
         /\ \A k \in 1 .. Len(list) : d[k].text = list[k].text
         /\ \A k \in 1 .. Len(list) : k # i => d[k] = list[k]
         /\ d[i].count = list[i].count + 1

(* A turn of merge's loop does that. *)
LEMMA MergeOneEffect ==
  ASSUME NEW list \in ListOfWarnings, NEW r \in Record, NEW d, d = MergeOne(list, r)
  PROVE  d \in ListOfWarnings /\ OneMerged(list, r, d)
<1> DEFINE Entry == [text : Matching, count : Nat]
           equal == EntriesOf(list, r.text)
<1>1. /\ list \in Seq(Entry) /\ Len(list) \in Nat /\ DOMAIN list = 1 .. Len(list)
      /\ r.text \in Matching /\ r.of \in Nat
      /\ equal = {i \in DOMAIN list : list[i].text = r.text}
      /\ equal \in SUBSET (1 .. Len(list))
      /\ ListOfWarnings = Seq(Entry)
  BY LenProperties DEF ListOfWarnings, Record, EntriesOf
<1>2. CASE r.of # 0
  BY <1>2 DEF MergeOne, OneMerged
<1>3. CASE r.of = 0 /\ equal = {}
  <2> DEFINE e == [text |-> r.text, count |-> 1]
  <2>1. e \in Entry /\ e.text = r.text /\ e.count = 1
    BY <1>1
  <2>2. d = Append(list, e)
    BY <1>1, <1>3 DEF MergeOne
  <2> HIDE DEF e, Entry
  <2>3. /\ Append(list, e) \in Seq(Entry) /\ Len(Append(list, e)) = Len(list) + 1
        /\ \A i \in 1 .. Len(list) : Append(list, e)[i] = list[i]
        /\ Append(list, e)[Len(list) + 1] = e
    BY <1>1, <2>1, AppendProperties
  <2> QED
    BY <1>1, <1>3, <2>1, <2>2, <2>3 DEF OneMerged
<1>4. CASE r.of = 0 /\ equal # {}
  <2> DEFINE first == CHOOSE i \in equal : \A k \in equal : i <= k
             e == [list[first] EXCEPT !.count = @ + 1]
  <2>1. first \in equal
    <3> HIDE DEF equal
    <3> QED
      BY <1>1, <1>4, FirstEqual
  <2>2. d = [list EXCEPT ![first].count = @ + 1]
    BY <1>1, <1>4 DEF MergeOne
  <2>3. d = [list EXCEPT ![first] = e]
    BY <2>2
  <2> HIDE DEF first
  <2>4. first \in 1 .. Len(list) /\ list[first] \in Entry
    <3>1. first \in 1 .. Len(list)
      BY <2>1 DEF EntriesOf
    <3> HIDE DEF Entry
    <3> QED
      BY <1>1, <3>1, ElementOfSeq
  <2>5. e \in Entry /\ e.text = list[first].text /\ e.count = list[first].count + 1
    BY <2>4
  <2> HIDE DEF e, Entry
  <2>6. d \in Seq(Entry) /\ Len(d) = Len(list)
        /\ \A i \in 1 .. Len(list) : d[i] = IF i = first THEN e ELSE list[i]
    BY <1>1, <2>3, <2>4, <2>5, ExceptSeq
  <2> QED
    BY <1>1, <1>4, <2>1, <2>4, <2>5, <2>6 DEF OneMerged
<1> QED
  BY <1>2, <1>3, <1>4

(* One turn of merge's loop makes a list. *)
LEMMA MergeOneType ==
  ASSUME NEW list \in ListOfWarnings, NEW r \in Record
  PROVE  MergeOne(list, r) \in ListOfWarnings
<1> DEFINE d == MergeOne(list, r)
<1>1. d = MergeOne(list, r)
  OBVIOUS
<1> HIDE DEF d
<1>2. d \in ListOfWarnings
  BY <1>1, MergeOneEffect
<1> QED
  BY <1>1, <1>2

(* Max is the last of some places. *)
LEMMA MaxIsLast ==
  ASSUME NEW n \in Nat, NEW S \in SUBSET (1 .. n), S # {}
  PROVE  Max(S) \in S /\ \A i \in S : i <= Max(S)
<1>1. PICK g \in S : \A k \in S : k <= g
  BY LastPlace
<1>2. \E x \in S : \A y \in S : x >= y
  BY <1>1
<1>3. Max(S) \in S /\ \A y \in S : Max(S) >= y
  BY <1>2 DEF Max
<1> QED
  BY <1>3

(* The order in which merge goes through the records, and its turns. *)
LastOf(n) == [S \in SUBSET (1 .. n) |-> Max(S)]
Merging(recs) == [p \in (1 .. Len(recs)) \X ListOfWarnings |-> MergeOne(p[2], recs[p[1]])]

(* merge is its turns one after the other. *)
LEMMA MergeFolds ==
  ASSUME NEW recs \in Seq(Record), NEW base \in ListOfWarnings
  PROVE  \E g \in [SUBSET (1 .. Len(recs)) -> ListOfWarnings] :
           /\ Folds(g, 1 .. Len(recs), LastOf(Len(recs)), Merging(recs), base)
           /\ FoldLeft(MergeOne, base, recs) = g[1 .. Len(recs)]
<1> DEFINE n == Len(recs)
           S == 1 .. n
           any(R) == Max(R)
           typ(l, i) == MergeOne(l, recs[i])
           Types(h) == h = [R \in SUBSET S |-> IF R = {} THEN base ELSE typ(h[R \ {any(R)}], any(R))]
           c == LastOf(n)
           step == Merging(recs)
<1>1. FoldLeft(MergeOne, base, recs) = (CHOOSE h : Types(h))[S]
  <2>1. DOMAIN recs = S
    OBVIOUS
  <2> QED
    BY <2>1 DEF FoldLeft, MapThenFoldSet
<1>2. IsFiniteSet(S) /\ n \in Nat
  <2>1. n \in Nat
    OBVIOUS
  <2> QED
    BY <2>1, FS_Interval
<1>3. \A R \in SUBSET S : R # {} => any(R) \in R /\ c[R] = any(R)
  BY <1>2, MaxIsLast DEF LastOf
<1>4. \A i \in S, l \in ListOfWarnings : step[<<i, l>>] = typ(l, i) /\ step[<<i, l>>] \in ListOfWarnings
  <2> TAKE i \in S, l \in ListOfWarnings
  <2>1. recs[i] \in Record
    OBVIOUS
  <2>2. typ(l, i) \in ListOfWarnings
    BY <2>1, MergeOneType
  <2>3. step[<<i, l>>] = typ(l, i)
    BY DEF Merging
  <2> QED
    BY <2>2, <2>3
<1> HIDE DEF any, typ, c, step, S
<1>5. PICK g \in [SUBSET S -> ListOfWarnings] : Folds(g, S, c, step, base)
  <2>1. \A R \in SUBSET S : R # {} => c[R] \in R
    BY <1>3
  <2>2. \A i \in S, l \in ListOfWarnings : step[<<i, l>>] \in ListOfWarnings
    BY <1>4
  <2> QED
    BY <1>2, <2>1, <2>2, FoldExists
<1>6. ASSUME NEW h \in [SUBSET S -> ListOfWarnings], NEW R \in SUBSET S, R # {}
      PROVE  typ(h[R \ {any(R)}], any(R)) = step[<<c[R], h[R \ {c[R]}]>>]
  <2>1. c[R] = any(R) /\ any(R) \in S /\ h[R \ {any(R)}] \in ListOfWarnings
    BY <1>3, <1>6
  <2> QED
    BY <1>4, <2>1
<1>7. Types(g)
  <2>1. \A R \in SUBSET S : g[R] = IF R = {} THEN base ELSE typ(g[R \ {any(R)}], any(R))
    BY <1>5, <1>6 DEF Folds
  <2> QED
    BY <2>1
<1> DEFINE h == CHOOSE h : Types(h)
<1>8. Types(h)
  <2> HIDE DEF Types
  <2> QED
    BY <1>7
<1> HIDE DEF h
<1>9. h = g
  <2>1. h = [R \in SUBSET S |-> h[R]]
        /\ \A R \in SUBSET S : h[R] = IF R = {} THEN base ELSE typ(h[R \ {any(R)}], any(R))
    BY <1>8
  <2> DEFINE Bad == {R \in SUBSET S : h[R] # g[R]}
  <2>2. Bad \subseteq FiniteSubsetsOf(S)
    <3>1. \A R \in Bad : IsFiniteSet(R) /\ R \in SUBSET S
      BY <1>2, FS_Subset
    <3> QED
      BY <3>1 DEF FiniteSubsetsOf
  <2>3. ASSUME Bad # {} PROVE FALSE
    <3>1. PICK R \in Bad : \A U \in SUBSET R : U # R => U \notin Bad
      <4> HIDE DEF Bad
      <4> QED
        BY <2>2, <2>3, LeastSubset
    <3>2. R \in SUBSET S /\ h[R] # g[R] /\ \A U \in SUBSET R : U # R => h[U] = g[U]
      BY <3>1
    <3>3. g[R] = IF R = {} THEN base ELSE typ(g[R \ {any(R)}], any(R))
      BY <1>7, <3>2
    <3>4. h[R] = IF R = {} THEN base ELSE typ(h[R \ {any(R)}], any(R))
      BY <2>1, <3>2
    <3>5. R # {} => any(R) \in R
      BY <1>3, <3>2
    <3>6. R # {} => h[R \ {any(R)}] = g[R \ {any(R)}]
      BY <3>2, <3>5
    <3> QED
      BY <3>2, <3>3, <3>4, <3>6
  <2> QED
    BY <1>5, <2>1, <2>3
<1>10. FoldLeft(MergeOne, base, recs) = g[S]
  BY <1>1, <1>9 DEF h
<1> QED
  BY <1>5, <1>10 DEF S, c, step

(* Each text is in the list once, with the number f says, and not when that *)
(* is 0.                                                                    *)
Counted(list, f) ==
  \A t \in Matching :
    IF f[t] = 0 THEN EntriesOf(list, t) = {}
    ELSE \E i \in EntriesOf(list, t) : EntriesOf(list, t) = {i} /\ list[i].count = f[t]

(* A turn of merge's loop counts its warning. *)
LEMMA CountedByOne ==
  ASSUME NEW list \in ListOfWarnings, NEW r \in Record, NEW f \in [Matching -> Nat],
         Counted(list, f), NEW d, d = MergeOne(list, r),
         NEW h \in [Matching -> Nat],
         \A t \in Matching : h[t] = IF r.of = 0 /\ r.text = t THEN f[t] + 1 ELSE f[t]
  PROVE  Counted(d, h)
<1>1. r.text \in Matching /\ Len(list) \in Nat /\ r.of \in Nat
  BY LenProperties DEF ListOfWarnings, Record
<1>2. /\ d \in ListOfWarnings
      /\ r.of # 0 => d = list
      /\ r.of = 0 /\ EntriesOf(list, r.text) = {} =>
           /\ Len(d) = Len(list) + 1
           /\ \A i \in 1 .. Len(list) : d[i] = list[i]
           /\ d[Len(list) + 1].text = r.text /\ d[Len(list) + 1].count = 1
      /\ r.of = 0 /\ EntriesOf(list, r.text) # {} =>
           \E i \in EntriesOf(list, r.text) :
             /\ Len(d) = Len(list)
             /\ \A k \in 1 .. Len(list) : d[k].text = list[k].text
             /\ \A k \in 1 .. Len(list) : k # i => d[k] = list[k]
             /\ d[i].count = list[i].count + 1
  <2>1. d \in ListOfWarnings /\ OneMerged(list, r, d)
    BY MergeOneEffect
  <2> QED
    BY <2>1, Zenon DEF OneMerged
<1> SUFFICES ASSUME NEW t \in Matching
             PROVE  IF h[t] = 0 THEN EntriesOf(d, t) = {}
                    ELSE \E i \in EntriesOf(d, t) : EntriesOf(d, t) = {i} /\ d[i].count = h[t]
  BY DEF Counted
<1>3. IF f[t] = 0 THEN EntriesOf(list, t) = {}
      ELSE \E i \in EntriesOf(list, t) : EntriesOf(list, t) = {i} /\ list[i].count = f[t]
  BY DEF Counted
<1>4. f[t] \in Nat
  OBVIOUS
<1>5. CASE r.of # 0
  <2>1. d = list /\ h[t] = f[t]
    BY <1>2, <1>5
  <2> QED
    BY <1>3, <2>1
<1>6. CASE r.of = 0 /\ EntriesOf(list, r.text) = {}
  <2> DEFINE n == Len(list)
  <2>1. /\ Len(d) = n + 1 /\ \A i \in 1 .. n : d[i] = list[i]
        /\ d[n + 1].text = r.text /\ d[n + 1].count = 1 /\ n \in Nat
    BY <1>1, <1>2, <1>6
  <2>2. EntriesOf(d, t) = EntriesOf(list, t) \cup (IF t = r.text THEN {n + 1} ELSE {})
    <3>1. EntriesOf(d, t) = {i \in 1 .. (n + 1) : d[i].text = t}
      BY <2>1 DEF EntriesOf
    <3>2. EntriesOf(list, t) = {i \in 1 .. n : list[i].text = t}
      BY DEF EntriesOf
    <3> HIDE DEF n
    <3> QED
      BY <2>1, <3>1, <3>2
  <2>3. CASE t = r.text
    <3>1. EntriesOf(list, t) = {}
      BY <1>6, <2>3
    <3>2. f[t] = 0
      BY <1>3, <3>1
    <3>3. h[t] = 1 /\ EntriesOf(d, t) = {n + 1}
      BY <1>6, <2>2, <2>3, <3>1, <3>2
    <3> HIDE DEF n
    <3> QED
      BY <2>1, <3>3
  <2>4. CASE t # r.text
    <3>1. EntriesOf(d, t) = EntriesOf(list, t) /\ h[t] = f[t]
      BY <2>2, <2>4
    <3>2. \A i \in EntriesOf(list, t) : d[i] = list[i]
      BY <2>1 DEF EntriesOf
    <3> QED
      BY <1>3, <3>1, <3>2
  <2> QED
    BY <2>3, <2>4
<1>7. CASE r.of = 0 /\ EntriesOf(list, r.text) # {}
  <2>1. PICK i \in EntriesOf(list, r.text) :
          /\ Len(d) = Len(list)
          /\ \A k \in 1 .. Len(list) : d[k].text = list[k].text
          /\ \A k \in 1 .. Len(list) : k # i => d[k] = list[k]
          /\ d[i].count = list[i].count + 1
    BY <1>2, <1>7
  <2>2. EntriesOf(d, t) = EntriesOf(list, t)
    BY <2>1 DEF EntriesOf
  <2>3. CASE t = r.text
    <3>1. f[t] # 0 /\ EntriesOf(list, t) = {i} /\ list[i].count = f[t]
      BY <1>3, <1>7, <2>1, <2>3
    <3>2. h[t] = f[t] + 1
      BY <1>7, <2>3
    <3>3. h[t] # 0 /\ d[i].count = h[t] /\ EntriesOf(d, t) = {i}
      BY <1>4, <2>1, <2>2, <3>1, <3>2
    <3> QED
      BY <3>3
  <2>4. CASE t # r.text
    <3>1. h[t] = f[t]
      BY <2>4
    <3>2. \A k \in EntriesOf(list, t) : k \in 1 .. Len(list) /\ k # i
      BY <2>1, <2>4 DEF EntriesOf
    <3>3. \A k \in EntriesOf(list, t) : d[k] = list[k]
      BY <2>1, <3>2
    <3> QED
      BY <1>3, <2>2, <3>1, <3>3
  <2> QED
    BY <2>3, <2>4
<1> QED
  BY <1>5, <1>6, <1>7

(* The warnings of a text among the first n records. *)
WarningsOf(recs, n, t) == {k \in 1 .. n : recs[k].text = t /\ recs[k].of = 0}

(* There are finitely many, and one more where the next record is one. *)
LEMMA WarningsGrow ==
  ASSUME NEW recs, NEW t, NEW n \in Nat
  PROVE  /\ Cardinality(WarningsOf(recs, n, t)) \in Nat
         /\ Cardinality(WarningsOf(recs, 0, t)) = 0
         /\ Cardinality(WarningsOf(recs, n + 1, t)) =
              IF recs[n + 1].of = 0 /\ recs[n + 1].text = t
                THEN Cardinality(WarningsOf(recs, n, t)) + 1 ELSE Cardinality(WarningsOf(recs, n, t))
<1> DEFINE W == WarningsOf(recs, n, t)
<1>1. IsFiniteSet(W)
  <2>1. IsFiniteSet(1 .. n)
    BY FS_Interval
  <2>2. W \subseteq 1 .. n
    BY DEF WarningsOf
  <2> QED
    BY <2>1, <2>2, FS_Subset
<1>2. Cardinality(W) \in Nat
  BY <1>1, FS_CardinalityType
<1>3. Cardinality(WarningsOf(recs, 0, t)) = 0
  <2>1. WarningsOf(recs, 0, t) = {}
    BY DEF WarningsOf
  <2> QED
    BY <2>1, FS_EmptySet
<1>4. CASE recs[n + 1].of = 0 /\ recs[n + 1].text = t
  <2>1. WarningsOf(recs, n + 1, t) = W \cup {n + 1} /\ n + 1 \notin W
    BY <1>4 DEF WarningsOf
  <2> HIDE DEF W
  <2>2. Cardinality(W \cup {n + 1}) = Cardinality(W) + 1
    BY <1>1, <2>1, FS_AddElement
  <2> QED
    BY <1>2, <1>3, <1>4, <2>1, <2>2 DEF W
<1>5. CASE ~(recs[n + 1].of = 0 /\ recs[n + 1].text = t)
  <2>1. WarningsOf(recs, n + 1, t) = W
    BY <1>5 DEF WarningsOf
  <2> QED
    BY <1>2, <1>3, <1>5, <2>1
<1> QED
  BY <1>4, <1>5

(* merge counts every warning of the other collector. *)
LEMMA MergeCounts ==
  ASSUME NEW list \in ListOfWarnings, NEW f \in [Matching -> Nat], Counted(list, f),
         NEW recs \in Seq(Record), NEW d, d = FoldLeft(MergeOne, list, recs)
  PROVE  /\ d \in ListOfWarnings
         /\ Counted(d, [t \in Matching |-> f[t] + Cardinality(WarningsOf(recs, Len(recs), t))])
<1> DEFINE n == Len(recs)
           S == 1 .. n
           F(i) == [t \in Matching |-> f[t] + Cardinality(WarningsOf(recs, i, t))]
<1>1. PICK g \in [SUBSET S -> ListOfWarnings] :
        Folds(g, S, LastOf(n), Merging(recs), list) /\ d = g[S]
  BY MergeFolds
<1>2. n \in Nat
  BY LenProperties
<1>3. \A i \in 0 .. n : F(i) \in [Matching -> Nat]
  <2> TAKE i \in 0 .. n
  <2>1. \A t \in Matching : f[t] + Cardinality(WarningsOf(recs, i, t)) \in Nat
    <3> TAKE t \in Matching
    <3>1. Cardinality(WarningsOf(recs, i, t)) \in Nat /\ f[t] \in Nat
      BY WarningsGrow
    <3> QED
      BY <3>1
  <2> QED
    BY <2>1
<1>4. Counted(g[{}], F(0))
  <2>1. g[{}] = list
    BY <1>1 DEF Folds
  <2>2. \A t \in Matching : F(0)[t] = f[t]
    BY WarningsGrow
  <2> HIDE DEF F
  <2> QED
    BY <2>1, <2>2 DEF Counted
<1>5. ASSUME NEW i \in 0 .. n, i < n, Counted(g[1 .. i], F(i))
      PROVE  Counted(g[1 .. (i + 1)], F(i + 1))
  <2> DEFINE U == 1 .. (i + 1)
             m == i + 1
  <2>1. U \in SUBSET S /\ U # {} /\ U \in SUBSET (1 .. n) /\ m \in U /\ \A k \in U : k <= m
    <3>1. i \in Nat /\ i < n /\ n \in Nat
      BY <1>2, <1>5
    <3> HIDE DEF n
    <3>2. m \in 1 .. n /\ m \in U /\ \A k \in U : k <= m /\ k \in 1 .. n
      BY <3>1
    <3> QED
      BY <3>2
  <2>2. Max(U) = m
    <3>1. Max(U) \in U /\ \A k \in U : k <= Max(U)
      BY <1>2, <2>1, MaxIsLast
    <3> DEFINE x == Max(U)
    <3>2. x \in 1 .. m /\ m <= x
      BY <2>1, <3>1
    <3> HIDE DEF x
    <3>3. x = m
      BY <3>2
    <3> QED
      BY <3>3 DEF x
  <2>3. LastOf(n)[U] = m
    BY <2>1, <2>2 DEF LastOf
  <2>4. U \ {m} = 1 .. i /\ 1 .. i \in SUBSET S
    BY <1>2, <1>5
  <2>5. g[U] = Merging(recs)[<<m, g[1 .. i]>>]
    <3> HIDE DEF U, m, S
    <3>1. g[U] = Merging(recs)[<<LastOf(n)[U], g[U \ {LastOf(n)[U]}]>>]
      BY <1>1, <2>1 DEF Folds
    <3> QED
      BY <2>3, <2>4, <3>1
  <2>6. g[1 .. i] \in ListOfWarnings /\ m \in 1 .. Len(recs)
    BY <2>1, <2>4
  <2>7. recs[m] \in Record
    BY <2>6, ElementOfSeq
  <2>8. g[U] = MergeOne(g[1 .. i], recs[m])
    <3> HIDE DEF U, m
    <3> QED
      BY <2>5, <2>6 DEF Merging
  <2>9. F(i) \in [Matching -> Nat] /\ F(m) \in [Matching -> Nat]
    <3>1. i \in 0 .. n /\ m \in 0 .. n
      BY <2>6
    <3> HIDE DEF F
    <3> QED
      BY <1>3, <3>1
  <2>10. \A t \in Matching : F(m)[t] = IF recs[m].of = 0 /\ recs[m].text = t THEN F(i)[t] + 1 ELSE F(i)[t]
    <3> TAKE t \in Matching
    <3> DEFINE x == Cardinality(WarningsOf(recs, i, t))
               y == Cardinality(WarningsOf(recs, m, t))
    <3>1. x \in Nat /\ y = (IF recs[m].of = 0 /\ recs[m].text = t THEN x + 1 ELSE x) /\ f[t] \in Nat
      <4>1. i \in Nat
        OBVIOUS
      <4> QED
        BY <4>1, WarningsGrow
    <3>2. F(i)[t] = f[t] + x /\ F(m)[t] = f[t] + y
      OBVIOUS
    <3> HIDE DEF F, x, y
    <3> QED
      BY <3>1, <3>2
  <2>11. Counted(g[U], F(m))
    <3> DEFINE before == g[1 .. i]
               after == g[U]
               r == recs[m]
               had == F(i)
               has == F(m)
    <3>1. before \in ListOfWarnings /\ r \in Record /\ after = MergeOne(before, r)
      BY <2>6, <2>7, <2>8
    <3>2. had \in [Matching -> Nat] /\ has \in [Matching -> Nat] /\ Counted(before, had)
      BY <1>5, <2>9
    <3>3. \A t \in Matching : has[t] = IF r.of = 0 /\ r.text = t THEN had[t] + 1 ELSE had[t]
      BY <2>10
    <3> HIDE DEF before, after, r, had, has
    <3>4. Counted(after, has)
      BY <3>1, <3>2, <3>3, CountedByOne
    <3> QED
      BY <3>4 DEF after, has
  <2> HIDE DEF F, U, m
  <2> QED
    BY <2>11 DEF U, m
<1> DEFINE Bad == {i \in 0 .. n : ~Counted(g[1 .. i], F(i))}
<1>6. ASSUME Bad # {} PROVE FALSE
  <2>1. Bad \in SUBSET Nat
    OBVIOUS
  <2>2. PICK i \in Bad : \A k \in Bad : i <= k
    <3> HIDE DEF Bad
    <3> QED
      BY <1>6, <2>1, LeastNatural
  <2>3. i \in 0 .. n /\ ~Counted(g[1 .. i], F(i))
    BY <2>2
  <2>4. i # 0
    <3>1. 1 .. 0 = {}
      OBVIOUS
    <3> HIDE DEF F
    <3> QED
      BY <1>4, <2>3, <3>1
  <2>5. i - 1 \in 0 .. n /\ i - 1 < n /\ (i - 1) + 1 = i /\ ~(i <= i - 1)
    BY <1>2, <2>3, <2>4
  <2>6. i - 1 \notin Bad
    <3> HIDE DEF Bad
    <3> QED
      BY <2>2, <2>5
  <2>7. Counted(g[1 .. (i - 1)], F(i - 1))
    BY <2>5, <2>6
  <2>8. Counted(g[1 .. ((i - 1) + 1)], F((i - 1) + 1))
    <3> HIDE DEF F
    <3> QED
      BY <1>5, <2>5, <2>7
  <2> HIDE DEF F
  <2> QED
    BY <2>3, <2>5, <2>8
<1>7. Counted(g[S], F(n))
  <2>1. n \in 0 .. n
    BY <1>2
  <2> HIDE DEF F
  <2> QED
    BY <1>6, <2>1
<1>8. g[S] \in ListOfWarnings
  BY <1>1
<1> QED
  BY <1>1, <1>7, <1>8

(***************************************************************************)
(* Both collectors have every warning as often as it was in their output   *)
(***************************************************************************)
Placed(out, n, t) == {i \in 1 .. n : out[i] = t}
Times(out, n, t) == Cardinality(Placed(out, n, t))

Tallied(out, n, c) ==
  /\ \A t \in Matching \ Notes :
       Cardinality(WarningsOf(c.recs, Len(c.recs), t)) = Times(out, n, t)
  /\ Len(c.recs) > 0 => c.recs[1].of = 0
  /\ Len(c.recs) = 0 => c.last = 0

(* The parts behind n up to e hold a line of the pattern once, if it is the   *)
(* line they are.                                                             *)
LEMMA TimesGrow ==
  ASSUME NEW out, NEW n, NEW e, NEW line, LineUpTo(out, n, e, line), NEW t \in Matching
  PROVE  Times(out, e, t) = IF line = t THEN Times(out, n, t) + 1 ELSE Times(out, n, t)
<1> DEFINE P == Placed(out, n, t)
<1>1. /\ n \in Nat /\ e \in Nat /\ n < e
      /\ \A k \in n + 1 .. e - 1 : out[k] \notin Matching
      /\ out[e] \in Lines => line = out[e]
  BY LineUpToFacts
<1>2. t \in Lines /\ t # Beginning
  BY WarningAssumption
<1>3. line = t <=> out[e] = t
  BY <1>2 DEF LineUpTo
<1>4. ASSUME NEW k \in Placed(out, e, t), k # e PROVE k \in P
  <2>1. k \in 1 .. e /\ out[k] \in Matching
    BY DEF Placed
  <2>2. k \notin n + 1 .. e - 1
    BY <1>1, <2>1
  <2>3. k \in 1 .. n
    BY <1>1, <1>4, <2>1, <2>2
  <2> QED
    BY <1>4, <2>3 DEF Placed
<1>5. P \subseteq Placed(out, e, t) /\ e \notin P /\ (e \in Placed(out, e, t) <=> out[e] = t)
  BY <1>1 DEF Placed
<1>6. IsFiniteSet(P)
  <2>1. IsFiniteSet(1 .. n)
    BY <1>1, FS_Interval
  <2>2. P \subseteq 1 .. n
    BY DEF Placed
  <2> QED
    BY <2>1, <2>2, FS_Subset
<1> HIDE DEF P
<1>7. CASE line = t
  <2>1. Placed(out, e, t) = P \cup {e}
    BY <1>3, <1>4, <1>5, <1>7
  <2>2. Cardinality(P \cup {e}) = Cardinality(P) + 1
    BY <1>5, <1>6, FS_AddElement
  <2> QED
    BY <1>7, <2>1, <2>2 DEF Times, P
<1>8. CASE line # t
  <2>1. Placed(out, e, t) = P
    BY <1>3, <1>4, <1>5, <1>8
  <2> QED
    BY <1>8, <2>1 DEF Times, P
<1> QED
  BY <1>7, <1>8

(* A line more is collected and counted. *)
LEMMA TalliedByCollect ==
  ASSUME NEW out, NEW n, NEW e, NEW line, LineUpTo(out, n, e, line),
         NEW c \in Collector, Continues(c), Tallied(out, n, c)
  PROVE  Tallied(out, e, Collect(c, line))
<1> DEFINE d == Collect(c, line)
           k == Len(c.recs)
<1>1. line \in Texts
  BY DEF LineUpTo
<1>2. /\ d.last = LastAfter(c, line)
      /\ \A i \in 1 .. k : d.recs[i].text = c.recs[i].text /\ d.recs[i].of = c.recs[i].of
      /\ line \notin Matching => Len(d.recs) = k
      /\ line \in Matching =>
           /\ Len(d.recs) = k + 1
           /\ d.recs[k + 1].text = line
           /\ d.recs[k + 1].of = IF line \in Notes THEN LastAfter(c, line) ELSE 0
  BY <1>1, CollectEffect
<1>3. k \in Nat
  BY LenProperties DEF Collector
<1>4. k = 0 => LastAfter(c, line) = 0 /\ c.last = 0
  BY <1>3 DEF LastAfter, Continues, Tallied
<1> HIDE DEF d, k
<1>5. Len(d.recs) > 0 => d.recs[1].of = 0
  <2>1. CASE k > 0
    <3>1. c.recs[1].of = 0 /\ 1 \in 1 .. k
      BY <1>3, <2>1 DEF Tallied, k
    <3> QED
      BY <1>2, <3>1
  <2>2. CASE k = 0
    <3>1. CASE line \in Matching
      BY <1>2, <1>4, <2>2, <3>1
    <3>2. CASE line \notin Matching
      BY <1>2, <2>2, <3>2
    <3> QED
      BY <3>1, <3>2
  <2> QED
    BY <1>3, <2>1, <2>2
<1>6. Len(d.recs) = 0 => d.last = 0
  <2>1. Len(d.recs) = 0 => k = 0
    BY <1>2, <1>3
  <2> QED
    BY <1>2, <1>4, <2>1
<1>7. ASSUME NEW t \in Matching \ Notes
      PROVE  Cardinality(WarningsOf(d.recs, Len(d.recs), t)) = Times(out, e, t)
  <2>1. WarningsOf(d.recs, k, t) = WarningsOf(c.recs, k, t)
    BY <1>2 DEF WarningsOf
  <2>2. Cardinality(WarningsOf(c.recs, k, t)) = Times(out, n, t)
    BY DEF Tallied, k
  <2>3. Times(out, e, t) = IF line = t THEN Times(out, n, t) + 1 ELSE Times(out, n, t)
    BY TimesGrow
  <2>4. CASE line \notin Matching
    <3>1. Len(d.recs) = k /\ line # t
      BY <1>2, <2>4
    <3> QED
      BY <2>1, <2>2, <2>3, <3>1
  <2>5. CASE line \in Matching
    <3>1. /\ Len(d.recs) = k + 1 /\ d.recs[k + 1].text = line
          /\ d.recs[k + 1].of = IF line \in Notes THEN LastAfter(c, line) ELSE 0
      BY <1>2, <2>5
    <3>2. Cardinality(WarningsOf(d.recs, k + 1, t)) =
            IF d.recs[k + 1].of = 0 /\ d.recs[k + 1].text = t
              THEN Cardinality(WarningsOf(d.recs, k, t)) + 1 ELSE Cardinality(WarningsOf(d.recs, k, t))
      BY <1>3, WarningsGrow
    <3>3. d.recs[k + 1].of = 0 /\ d.recs[k + 1].text = t <=> line = t
      BY <3>1
    <3> QED
      BY <2>1, <2>2, <2>3, <3>1, <3>2, <3>3
  <2> QED
    BY <2>4, <2>5
<1>8. Tallied(out, e, d)
  BY <1>5, <1>6, <1>7 DEF Tallied
<1> QED
  BY <1>8 DEF d

(* It is a matter of the text they were taken from. *)
LEMMA TalliedOfSameText ==
  ASSUME NEW out, NEW new, NEW n \in Nat, NEW c,
         \A k \in 1 .. n : new[k] = out[k], Tallied(out, n, c)
  PROVE  Tallied(new, n, c)
<1>1. ASSUME NEW t PROVE Times(new, n, t) = Times(out, n, t)
  <2>1. Placed(new, n, t) = Placed(out, n, t)
    BY DEF Placed
  <2> QED
    BY <2>1 DEF Times
<1> QED
  BY <1>1 DEF Tallied

(***************************************************************************)
(* Both collectors keep and count what was taken of their outputs          *)
(***************************************************************************)
AllKept ==
  \A fd \in Fds : /\ Kept(output[fd], taken[fd], collectors[fd])
                  /\ Tallied(output[fd], taken[fd], collectors[fd])

LEMMA NothingKept == Init => AllKept
<1> SUFFICES ASSUME Init, NEW fd \in Fds
             PROVE  Kept(output[fd], taken[fd], collectors[fd]) /\ Tallied(output[fd], taken[fd], collectors[fd])
  BY DEF AllKept
<1>1. taken[fd] = 0 /\ collectors[fd] = NewCollector
  BY DEF Init
<1>2. Matches(output[fd], 0) = {}
  BY DEF Matches
<1>3. Count(output[fd], 0) = 0
  BY <1>2, FS_EmptySet DEF Count
<1>4. Len(NewCollector.recs) = 0 /\ NewCollector.last = 0
  BY DEF NewCollector
<1>5. Kept(output[fd], taken[fd], collectors[fd])
  BY <1>1, <1>2, <1>3, <1>4 DEF Kept, Recorded, NotesKept, LastKept, LastWarning
<1>6. ASSUME NEW t
      PROVE  Cardinality(WarningsOf(NewCollector.recs, 0, t)) = 0 /\ Times(output[fd], 0, t) = 0
  <2>1. WarningsOf(NewCollector.recs, 0, t) = {} /\ Placed(output[fd], 0, t) = {}
    BY DEF WarningsOf, Placed
  <2> QED
    BY <2>1, FS_EmptySet DEF Times
<1>7. Tallied(output[fd], taken[fd], collectors[fd])
  BY <1>1, <1>4, <1>6 DEF Tallied
<1> QED
  BY <1>5, <1>7

LEMMA KeptByCompiler == ASSUME IInv, AllKept, Compiler PROVE AllKept'
<1> SUFFICES ASSUME NEW fd \in Fds
             PROVE  /\ Kept(output'[fd], taken'[fd], collectors'[fd])
                    /\ Tallied(output'[fd], taken'[fd], collectors'[fd])
  BY DEF AllKept
<1>1. CompilerStep /\ TypeOK
  BY CompilerSteps DEF IInv
<1>2. taken' = taken /\ collectors' = collectors
  BY <1>1 DEF CompilerStep, runner
<1>3. \A i \in 1 .. Len(output[fd]) : output'[fd][i] = output[fd][i]
  <2>1. \A g \in Fds : \A i \in 1 .. Len(output[g]) : output'[g][i] = output[g][i]
    BY <1>1, OutputGrows
  <2> QED
    BY <2>1
<1>4. taken[fd] \in Nat /\ taken[fd] <= Len(output[fd]) /\ Len(output[fd]) \in Nat
  BY <1>1, PipeTypes
<1>5. \A i \in 1 .. taken[fd] : output'[fd][i] = output[fd][i]
  BY <1>3, <1>4
<1>6. Kept(output[fd], taken[fd], collectors[fd]) /\ Tallied(output[fd], taken[fd], collectors[fd])
  BY DEF AllKept
<1>7. Kept(output'[fd], taken[fd], collectors[fd])
  BY <1>4, <1>5, <1>6, KeptOfSameText
<1>8. Tallied(output'[fd], taken[fd], collectors[fd])
  BY <1>4, <1>5, <1>6, TalliedOfSameText
<1> QED
  BY <1>2, <1>7, <1>8

LEMMA KeptByTake ==
  ASSUME IInv, AllKept, NEW fd \in Fds, NEW end, NEW line, TakeUpTo(fd, end, line),
         LineUpTo(output[fd], taken[fd], end, line)
  PROVE  AllKept'
<1>1. output' = output /\ taken' = [taken EXCEPT ![fd] = end]
      /\ collectors' = [collectors EXCEPT ![fd] = Collect(collectors[fd], line)]
  BY DEF TakeUpTo, compiler
<1>2. taken \in [Fds -> Nat] /\ collectors \in [Fds -> Collector] /\ Continues(collectors[fd])
  BY DEF IInv, TypeOK, CollectorsContinue
<1>3. Kept(output[fd], end, Collect(collectors[fd], line)) /\ Tallied(output[fd], end, Collect(collectors[fd], line))
  BY <1>2, KeptByCollect, TalliedByCollect DEF AllKept
<1>4. ASSUME NEW g \in Fds
      PROVE  Kept(output'[g], taken'[g], collectors'[g]) /\ Tallied(output'[g], taken'[g], collectors'[g])
  <2>1. CASE g = fd
    <3>1. output'[g] = output[fd] /\ taken'[g] = end /\ collectors'[g] = Collect(collectors[fd], line)
      BY <1>1, <1>2, <2>1
    <3> QED
      BY <1>3, <3>1, Zenon
  <2>2. CASE g # fd
    <3>1. output'[g] = output[g] /\ taken'[g] = taken[g] /\ collectors'[g] = collectors[g]
      BY <1>1, <1>2, <2>2
    <3>2. Kept(output[g], taken[g], collectors[g]) /\ Tallied(output[g], taken[g], collectors[g])
      BY DEF AllKept
    <3> QED
      BY <3>1, <3>2, Zenon
  <2> QED
    BY <2>1, <2>2
<1> QED
  BY <1>4 DEF AllKept

LEMMA KeptByRead ==
  ASSUME IInv, AllKept, NEW fd \in Fds, ReadLine(fd) \/ ReadRest(fd)
  PROVE  AllKept'
<1>1. /\ output[fd] \in Seq(Texts) /\ Len(output[fd]) \in Nat
      /\ fetched[fd] \in Nat /\ taken[fd] \in Nat /\ fetched[fd] <= Len(output[fd])
  BY PipeTypes DEF IInv
<1>2. CASE ReadLine(fd)
  <2>1. PICK end \in LineEnds(fd) : /\ \A i \in LineEnds(fd) : end <= i
                                    /\ TakeUpTo(fd, end, output[fd][end])
    BY <1>2 DEF ReadLine
  <2>2. end \in taken[fd] + 1 .. fetched[fd] /\ output[fd][end] \in Lines
    BY <2>1 DEF LineEnds
  <2>3. \A k \in taken[fd] + 1 .. end - 1 : output[fd][k] \notin Lines
    <3> SUFFICES ASSUME NEW k \in taken[fd] + 1 .. end - 1, output[fd][k] \in Lines PROVE FALSE
      OBVIOUS
    <3>1. k \in taken[fd] + 1 .. fetched[fd] /\ k < end
      BY <1>1, <2>2
    <3>2. k \in LineEnds(fd)
      BY <3>1 DEF LineEnds
    <3> QED
      BY <1>1, <2>1, <2>2, <3>1, <3>2
  <2>4. LineUpTo(output[fd], taken[fd], end, output[fd][end])
    BY <1>1, <2>2, <2>3 DEF LineUpTo, Texts
  <2> QED
    BY <2>1, <2>4, KeptByTake
<1>3. CASE ReadRest(fd)
  <2>1. LineEnds(fd) = {} /\ taken[fd] < fetched[fd] /\ TakeUpTo(fd, fetched[fd], Beginning)
    BY <1>3 DEF ReadRest
  <2>2. \A k \in taken[fd] + 1 .. fetched[fd] : output[fd][k] \notin Lines
    BY <2>1 DEF LineEnds
  <2>3. LineUpTo(output[fd], taken[fd], fetched[fd], Beginning)
    BY <1>1, <2>1, <2>2 DEF LineUpTo, Texts
  <2> QED
    BY <2>1, <2>3, KeptByTake
<1> QED
  BY <1>2, <1>3

LEMMA NextKept == IInv /\ AllKept /\ [Next]_vars => AllKept'
<1> SUFFICES ASSUME IInv, AllKept, [Next]_vars PROVE AllKept'
  OBVIOUS
<1>1. CASE Compiler
  BY <1>1, KeptByCompiler
<1>2. ASSUME NEW fd \in Fds, ReadLine(fd) \/ ReadRest(fd) PROVE AllKept'
  BY <1>2, KeptByRead
<1>3. CASE UNCHANGED <<output, taken, collectors>>
  BY <1>3 DEF AllKept
<1>4. ASSUME NEW fd \in Fds, Fetch(fd) \/ ReadNothing(fd) PROVE AllKept'
  BY <1>3, <1>4 DEF Fetch, ReadNothing, compiler
<1>5. CASE Select \/ Poll \/ Report \/ ReportFails
  BY <1>3, <1>5 DEF Select, Poll, Report, ReportFails, compiler
<1>6. CASE UNCHANGED vars
  BY <1>3, <1>6 DEF vars
<1> QED
  BY <1>1, <1>2, <1>4, <1>5, <1>6 DEF Next, Run

(* A collector that keeps its part of the output has every note with the      *)
(* warning before it.                                                         *)
LEMMA KeptMeansNotesFollow == IInv /\ AllKept => NotesFollowTheirWarning
<1> SUFFICES ASSUME IInv, AllKept, NEW fd \in Fds, NEW j \in MatchesTaken(fd), output[fd][j] \in Notes
             PROVE  LET before == {i \in MatchesTaken(fd) : i < j /\ output[fd][i] \notin Notes}
                        of == collectors[fd].recs[RecordOf(fd, j)].of
                    IN  IF before = {} THEN of = 0
                        ELSE LET i == CHOOSE i \in before : \A k \in before : k <= i
                             IN  EndsBefore(fd, i, j) => of = RecordOf(fd, i)
  BY DEF NotesFollowTheirWarning
<1> DEFINE out == output[fd]
           t == taken[fd]
           c == collectors[fd]
           before == {i \in MatchesTaken(fd) : i < j /\ output[fd][i] \notin Notes}
<1>1. t \in Nat /\ Kept(out, t, c)
  BY PipeTypes DEF IInv, AllKept
<1>2. MatchesTaken(fd) = Matches(out, t) /\ LinesTaken(fd) \subseteq 1 .. t
  BY WarningAssumption DEF MatchesTaken, LinesTaken, Matches
<1>3. \A i \in Matches(out, t) : RecordOf(fd, i) = Count(out, i)
  <2> SUFFICES ASSUME NEW i \in Matches(out, t)
               PROVE  {k \in MatchesTaken(fd) : k <= i} = Matches(out, i)
    BY DEF RecordOf, Count
  <2> QED
    BY <1>1, <1>2 DEF Matches
<1>4. j \in 1 .. t /\ j \in Matches(out, t) /\ j - 1 \in Nat /\ RecordOf(fd, j) = Count(out, j)
  BY <1>1, <1>2, <1>3 DEF Matches
<1>5. /\ NoWarning(out, j - 1) => c.recs[Count(out, j)].of = 0
      /\ \A i : LastWarning(out, i, j - 1) /\ EndsWithin(out, i, j) => c.recs[Count(out, j)].of = Count(out, i)
  BY <1>1, <1>4 DEF Kept, NotesKept
<1>6. before = {i \in Matches(out, j - 1) : out[i] \notin Notes}
  BY <1>1, <1>2, <1>4 DEF Matches
<1>7. \A i \in Matches(out, t) : EndsBefore(fd, i, j) => EndsWithin(out, i, j)
  BY <1>1, <1>2, <1>4 DEF EndsBefore, EndsWithin, LinesTaken, Matches
<1>8. CASE before = {}
  <2>1. NoWarning(out, j - 1)
    BY <1>6, <1>8 DEF NoWarning
  <2> QED
    BY <1>4, <1>5, <1>8, <2>1
<1>9. CASE before # {}
  <2> DEFINE i == CHOOSE i \in before : \A k \in before : k <= i
  <2>1. \E g \in before : \A k \in before : k <= g
    <3>1. before \in SUBSET (1 .. j - 1)
      BY <1>4, <1>6, MatchesFinite
    <3> QED
      BY <1>4, <1>9, <3>1, LastPlace
  <2>2. i \in before /\ \A k \in before : k <= i
    BY <2>1
  <2> HIDE DEF i
  <2>3. LastWarning(out, i, j - 1)
    <3>1. \A k \in Matches(out, j - 1) : i < k => out[k] \in Notes
      BY <1>4, <1>6, <2>2 DEF Matches
    <3> QED
      BY <1>6, <2>2, <3>1 DEF LastWarning
  <2>4. i \in Matches(out, t)
    BY <1>2, <2>2
  <2>5. EndsBefore(fd, i, j) => collectors[fd].recs[RecordOf(fd, j)].of = RecordOf(fd, i)
    BY <1>3, <1>4, <1>5, <1>7, <2>3, <2>4
  <2> QED
    BY <1>9, <2>5 DEF i
<1> QED
  BY <1>8, <1>9

(* A note stays with the warning it follows in its stream, whatever the other *)
(* stream and the timing of the two are.                                      *)
THEOREM NotesFollow == Spec => []NotesFollowTheirWarning
<1>1. Spec => [](IInv /\ AllKept)
  BY InitInv, NextInv, NothingKept, NextKept, PTL DEF Spec
<1> QED
  BY <1>1, KeptMeansNotesFollow, PTL

(***************************************************************************)
(* The file                                                                *)
(***************************************************************************)
FileIsMerged ==
  file = IF pc = "done" /\ Merged # <<>> THEN [build |-> "this", warnings |-> Merged]
         ELSE [build |-> "earlier", warnings |-> <<>>]

(* Only Report writes the file, and nothing is collected behind it. *)
LEMMA NextFile == IInv /\ FileIsMerged /\ [Next]_vars => FileIsMerged'
<1> SUFFICES ASSUME IInv, FileIsMerged, [Next]_vars PROVE FileIsMerged'
  OBVIOUS
<1>1. CASE UNCHANGED <<pc, collectors, file>>
  BY <1>1 DEF FileIsMerged, Merged
<1>2. CASE pc # "done" /\ pc' # "done" /\ file' = file
  BY <1>2 DEF FileIsMerged
<1>3. CASE Report
  BY <1>3 DEF Report, compiler, FileIsMerged, Merged
<1>4. CASE Compiler
  <2>1. CompilerStep
    BY <1>4, CompilerSteps
  <2> QED
    BY <1>1, <2>1 DEF CompilerStep, runner
<1>5. ASSUME NEW fd \in Fds, Fetch(fd) \/ ReadLine(fd) \/ ReadRest(fd) \/ ReadNothing(fd)
      PROVE  FileIsMerged'
  <2>1. pc = fd /\ fd # "done" /\ file' = file
    BY <1>5 DEF Fetch, ReadLine, ReadRest, ReadNothing, TakeUpTo, Fds
  <2>2. pc' \in {fd, After(fd)}
    BY <1>5 DEF Fetch, ReadLine, ReadRest, ReadNothing, TakeUpTo
  <2>3. pc' # "done"
    BY <2>1, <2>2 DEF After
  <2> QED
    BY <1>2, <2>1, <2>3
<1>6. CASE Select \/ Poll \/ ReportFails
  BY <1>2, <1>6 DEF Select, Poll, ReportFails
<1>7. CASE UNCHANGED vars
  BY <1>1, <1>7 DEF vars
<1> QED
  BY <1>3, <1>4, <1>5, <1>6, <1>7 DEF Next, Run

(* What merge makes of both collectors. *)
LEMMA MergedCounts ==
  ASSUME TypeOK, NEW f,
         f = [t \in Matching |->
                Cardinality(WarningsOf(collectors["stdout"].recs, Len(collectors["stdout"].recs), t))
                + Cardinality(WarningsOf(collectors["stderr"].recs, Len(collectors["stderr"].recs), t))]
  PROVE  Merged \in ListOfWarnings /\ Counted(Merged, f)
<1> DEFINE a == collectors["stdout"].recs
           b == collectors["stderr"].recs
           x(t) == Cardinality(WarningsOf(a, Len(a), t))
           y(t) == Cardinality(WarningsOf(b, Len(b), t))
           zero == [t \in Matching |-> 0]
           e == [t \in Matching |-> zero[t] + x(t)]
           list == Merge(<<>>, collectors["stdout"])
<1>1. a \in Seq(Record) /\ b \in Seq(Record) /\ Len(a) \in Nat /\ Len(b) \in Nat
  BY LenProperties DEF TypeOK, Fds, Collector
<1>2. \A t \in Matching : x(t) \in Nat /\ y(t) \in Nat
  BY <1>1, WarningsGrow
<1>3. <<>> \in ListOfWarnings /\ zero \in [Matching -> Nat] /\ Counted(<<>>, zero)
  BY DEF ListOfWarnings, Counted, EntriesOf
<1>4. list = FoldLeft(MergeOne, <<>>, a) /\ Merged = FoldLeft(MergeOne, list, b)
  BY DEF Merge, Merged
<1>5. e \in [Matching -> Nat]
  <2> HIDE DEF x
  <2>1. \A t \in Matching : zero[t] + x(t) \in Nat
    BY <1>2
  <2> QED
    BY <2>1
<1> HIDE DEF list
<1>6. list \in ListOfWarnings /\ Counted(list, e)
  <2> HIDE DEF zero, a
  <2> QED
    BY <1>1, <1>3, <1>4, MergeCounts DEF e, x
<1> HIDE DEF e
<1>7. Merged \in ListOfWarnings /\ Counted(Merged, [t \in Matching |-> e[t] + y(t)])
  <2> HIDE DEF b
  <2> QED
    BY <1>1, <1>4, <1>5, <1>6, MergeCounts DEF y
<1>8. f = [t \in Matching |-> e[t] + y(t)]
  <2>1. f = [t \in Matching |-> x(t) + y(t)]
    OBVIOUS
  <2> HIDE DEF x, y
  <2>2. \A t \in Matching : e[t] = x(t)
    BY <1>2 DEF e
  <2> QED
    BY <2>1, <2>2
<1> QED
  BY <1>7, <1>8

(* A collector without warnings has no records. *)
LEMMA NothingCollected ==
  ASSUME NEW out, NEW n \in Nat, NEW c \in Collector, Kept(out, n, c), Tallied(out, n, c),
         \A t \in Matching : Cardinality(WarningsOf(c.recs, Len(c.recs), t)) = 0
  PROVE  \A t \in Matching : Times(out, n, t) = 0
<1>1. c.recs \in Seq(Record) /\ Len(c.recs) \in Nat
  BY LenProperties DEF Collector
<1>2. ASSUME Len(c.recs) # 0 PROVE FALSE
  <2> DEFINE t == c.recs[1].text
             W == WarningsOf(c.recs, Len(c.recs), t)
  <2>1. 1 \in 1 .. Len(c.recs)
    BY <1>1, <1>2
  <2>2. c.recs[1] \in Record
    BY <1>1, <2>1, ElementOfSeq
  <2>3. t \in Matching
    BY <2>2 DEF Record
  <2>4. 1 \in W
    BY <1>1, <1>2, <2>1 DEF WarningsOf, Tallied
  <2>5. IsFiniteSet(W)
    <3>1. IsFiniteSet(1 .. Len(c.recs))
      BY <1>1, FS_Interval
    <3>2. W \subseteq 1 .. Len(c.recs)
      BY DEF WarningsOf
    <3> QED
      BY <3>1, <3>2, FS_Subset
  <2>6. Cardinality(W) = 0
    BY <2>3
  <2> HIDE DEF W
  <2> QED
    BY <2>4, <2>5, <2>6, FS_EmptySet
<1>3. Count(out, n) = 0
  BY <1>2 DEF Kept, Recorded
<1>4. Matches(out, n) = {}
  BY <1>3, MatchesFinite, FS_EmptySet DEF Count
<1>5. ASSUME NEW t \in Matching PROVE Times(out, n, t) = 0
  <2>1. Placed(out, n, t) = {}
    BY <1>4 DEF Placed, Matches
  <2> QED
    BY <2>1, FS_EmptySet DEF Times
<1> QED
  BY <1>5

(* So the file is right when run() is done. *)
LEMMA FileCounts == IInv /\ AllKept /\ FileIsMerged => CountsAddUp
<1> DEFINE TimesIn(fd, t) == Cardinality({i \in LinesTaken(fd) : output[fd][i] = t})
           Total(t) == TimesIn("stdout", t) + TimesIn("stderr", t)
           Entries(t) == {i \in DOMAIN file.warnings : file.warnings[i].text = t}
<1> SUFFICES ASSUME IInv, AllKept, FileIsMerged, pc = "done"
             PROVE  IF file.build = "this"
                    THEN \A t \in Matching \ Notes :
                           IF Total(t) = 0 THEN Entries(t) = {}
                           ELSE \E i \in Entries(t) : Entries(t) = {i} /\ file.warnings[i].count = Total(t)
                    ELSE \A t \in Matching : Total(t) = 0
  BY DEF CountsAddUp
<1> DEFINE W(fd, t) == Cardinality(WarningsOf(collectors[fd].recs, Len(collectors[fd].recs), t))
           f == [t \in Matching |-> W("stdout", t) + W("stderr", t)]
<1>1. ASSUME NEW fd \in Fds, NEW t \in Matching PROVE TimesIn(fd, t) = Times(output[fd], taken[fd], t)
  <2>1. t \in Lines
    BY WarningAssumption
  <2>2. {i \in LinesTaken(fd) : output[fd][i] = t} = Placed(output[fd], taken[fd], t)
    BY <2>1 DEF LinesTaken, Placed
  <2> QED
    BY <2>2 DEF Times
<1>2. "stdout" \in Fds /\ "stderr" \in Fds
  BY DEF Fds
<1>3. Merged \in ListOfWarnings /\ Counted(Merged, f)
  BY MergedCounts DEF IInv
<1>4. ASSUME NEW fd \in Fds
      PROVE  /\ Kept(output[fd], taken[fd], collectors[fd]) /\ Tallied(output[fd], taken[fd], collectors[fd])
             /\ collectors[fd] \in Collector /\ taken[fd] \in Nat
  BY PipeTypes DEF AllKept, IInv
<1>5. ASSUME NEW fd \in Fds, NEW t PROVE W(fd, t) \in Nat
  <2>1. Len(collectors[fd].recs) \in Nat
    BY <1>4, LenProperties DEF Collector
  <2> QED
    BY <2>1, WarningsGrow
<1>6. ASSUME NEW t \in Matching \ Notes PROVE f[t] = Total(t)
  <2>1. \A fd \in Fds : W(fd, t) = TimesIn(fd, t)
    BY <1>1, <1>4 DEF Tallied
  <2>2. f[t] = W("stdout", t) + W("stderr", t)
    OBVIOUS
  <2> HIDE DEF f, W, TimesIn
  <2> QED
    BY <1>2, <2>1, <2>2
<1>7. CASE file.build = "this"
  <2>1. file.warnings = Merged
    BY <1>7 DEF FileIsMerged
  <2>2. DOMAIN Merged = 1 .. Len(Merged)
    BY <1>3 DEF ListOfWarnings
  <2>3. \A t : Entries(t) = EntriesOf(Merged, t)
    BY <2>1, <2>2 DEF EntriesOf
  <2> HIDE DEF f, Total, Entries
  <2>4. ASSUME NEW t \in Matching \ Notes
        PROVE  IF Total(t) = 0 THEN Entries(t) = {}
               ELSE \E i \in Entries(t) : Entries(t) = {i} /\ file.warnings[i].count = Total(t)
    <3>1. f[t] = Total(t) /\ t \in Matching
      BY <1>6
    <3>2. IF f[t] = 0 THEN EntriesOf(Merged, t) = {}
          ELSE \E i \in EntriesOf(Merged, t) : EntriesOf(Merged, t) = {i} /\ Merged[i].count = f[t]
      BY <1>3, <3>1 DEF Counted
    <3> QED
      BY <2>1, <2>3, <3>1, <3>2
  <2> QED
    BY <1>7, <2>4
<1>8. CASE file.build # "this"
  <2>1. Merged = <<>>
    BY <1>8 DEF FileIsMerged
  <2>2. ASSUME NEW t \in Matching PROVE f[t] = 0
    <3>1. EntriesOf(Merged, t) = {}
      BY <2>1 DEF EntriesOf
    <3> HIDE DEF f
    <3> QED
      BY <1>3, <3>1 DEF Counted
  <2>3. ASSUME NEW fd \in Fds, NEW t \in Matching PROVE W(fd, t) = 0
    <3>1. W("stdout", t) + W("stderr", t) = 0
      BY <2>2
    <3>2. W("stdout", t) \in Nat /\ W("stderr", t) \in Nat
      BY <1>2, <1>5
    <3>3. fd \in {"stdout", "stderr"}
      BY DEF Fds
    <3> HIDE DEF W
    <3>4. W("stdout", t) = 0 /\ W("stderr", t) = 0
      BY <3>1, <3>2
    <3> QED
      BY <3>3, <3>4
  <2>4. ASSUME NEW fd \in Fds, NEW t \in Matching PROVE TimesIn(fd, t) = 0
    <3>1. \A u \in Matching : Cardinality(WarningsOf(collectors[fd].recs, Len(collectors[fd].recs), u)) = 0
      BY <2>3
    <3>2. Times(output[fd], taken[fd], t) = 0
      BY <1>4, <3>1, NothingCollected
    <3> QED
      BY <1>1, <3>2
  <2>5. \A t \in Matching : Total(t) = 0
    <3> HIDE DEF TimesIn
    <3> QED
      BY <1>2, <2>4
  <2> QED
    BY <1>8, <2>5
<1> QED
  BY <1>7, <1>8

(* The file of this build has each warning once, counted as often as it was  *)
(* in what run() read of the two streams, and an earlier file stays only if  *)
(* there was none: for every compiler, every pipe and every timing.          *)
THEOREM WarningsAreCounted == Spec => []CountsAddUp
<1>1. Init => FileIsMerged
  BY DEF Init, FileIsMerged
<1>2. Spec => [](IInv /\ AllKept /\ FileIsMerged)
  BY <1>1, InitInv, NextInv, NothingKept, NextKept, NextFile, PTL DEF Spec
<1> QED
  BY <1>2, FileCounts, PTL
=============================================================================
