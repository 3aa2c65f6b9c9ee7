----------------------------- MODULE Stdio_proofs -----------------------------
(***************************************************************************)
(* What kvsnprintf and ksnprintf leave in a buffer, proved for formats and *)
(* buffers of every length.                                                *)
(***************************************************************************)
EXTENDS Stdio, FiniteSetTheorems, TLAPS

(* Every character in front of the last offset of the buffer is stored     *)
(* when it is printed, and nothing is stored that was not printed.         *)
Filled ==
  /\ \A k \in stored : k < j
  /\ \A k \in Nat : k < j /\ k < size - 1 => k \in stored

(* A piece of a text has what the pieces before it have left of the buffer. *)
Chained ==
  caller = "ksnprintf" /\ pc # "idle" => base <= room /\ size = room - base

(* A call that has returned has put its zero behind what fits. *)
Ended ==
  Done => /\ end = Smaller(j, size - 1)
          /\ \A k \in stored : k < j /\ k # end
          /\ \A k \in Nat : k < end => k \in stored

IInv ==
  /\ TypeOK /\ Chained /\ Ended
  /\ pc = "format" => Filled

(* Directive i of a format begins inside a buffer of n bytes, if it has to. *)
StartsInside(f, i, n) ==
  /\ f[i].kind = "field" /\ f[i].len > 0 => StartOf(f)[i] < n
  /\ f[i].kind = "percent" => n > 0

(* j is where the next directive begins, *)
Printed == j = StartOf(fmt)[at] /\ (Done => at = Len(fmt) + 1)

(* the directives printed so far have stored outside if one of them had to *)
(* begin inside and did not, and only then a frame is lost,                *)
Escaped ==
  /\ Inside(stored) <=> \A i \in 1 .. (at - 1) : StartsInside(fmt, i, size)
  /\ pc = "smashed" => ~Inside(stored)

(* panicf formats its message, and its second buffer has room for all of it, *)
Measured ==
  caller = "panicf" =>
    /\ message \in Messages /\ fmt = message /\ passes \in 1 .. 2
    /\ passes = 1 => size = 2
    /\ passes = 2 => size = TextLen(message) + 1

(* and what is printed afterwards goes through kprintf's buffer. *)
Reported ==
  /\ passes <= 2
  /\ caller \in {"report", "dumpStack"} => size = PrintRoom
  /\ caller = "report" => \E place \in Places : fmt = ReportText(place, TextLen(message))
  /\ caller = "dumpStack" => fmt = FrameText

Told == Printed /\ Escaped /\ Measured /\ Reported

(***************************************************************************)
(* Where the text begins and ends                                          *)
(***************************************************************************)
(* Of natural numbers there is a least one. *)
LEMMA LeastNatural ==
  ASSUME NEW T \in SUBSET Nat, T # {}
  PROVE  \E i \in T : \A k \in T : i <= k
<1> DEFINE Below == {0 .. i : i \in T}
<1>1. Below \subseteq FiniteSubsetsOf(Nat)
  <2>1. ASSUME NEW i \in T PROVE 0 .. i \in SUBSET Nat /\ IsFiniteSet(0 .. i)
    <3>1. 0 \in Int /\ i \in Int
      OBVIOUS
    <3>2. IsFiniteSet(0 .. i)
      BY <3>1, FS_Interval
    <3> QED
      BY <3>2
  <2> QED
    BY <2>1 DEF FiniteSubsetsOf
<1>2. PICK D \in Below : \A E \in Below : <<E, D>> \notin StrictSubsetOrdering(Nat)
  <2>1. Below # {}
    OBVIOUS
  <2> HIDE DEF Below
  <2> QED
    BY <1>1, <2>1, FS_StrictSubsetOrderingWellFounded, WFMin
<1>3. PICK i \in T : D = 0 .. i
  OBVIOUS
<1>4. ASSUME NEW k \in T, k < i PROVE FALSE
  <2>1. 0 .. k \in SUBSET Nat /\ 0 .. i \in SUBSET Nat
    BY <1>4
  <2>2. 0 .. k \subseteq 0 .. i /\ i \in 0 .. i /\ i \notin 0 .. k
    BY <1>4
  <2>3. <<0 .. k, 0 .. i>> \in StrictSubsetOrdering(Nat)
    BY <2>1, <2>2 DEF StrictSubsetOrdering
  <2> QED
    BY <1>2, <1>3, <2>3
<1> QED
  BY <1>4

(* Every directive begins where the one before it ends, and none behind the *)
(* end of the text: the recursive function that says so exists.             *)
LEMMA StartsFollow ==
  ASSUME NEW f \in Seq(Directives)
  PROVE  /\ TextLen(f) \in Nat
         /\ StartOf(f)[1] = 0
         /\ \A i \in 1 .. Len(f) : /\ StartOf(f)[i] \in Nat
                                   /\ StartOf(f)[i + 1] = StartOf(f)[i] + f[i].len
                                   /\ StartOf(f)[i + 1] <= TextLen(f)
<1> DEFINE N == Len(f) + 1
           len == [i \in 1 .. Len(f) |-> f[i].len]
           Starts(h, m) == h = [i \in 1 .. m |-> IF i = 1 THEN 0 ELSE h[i - 1] + f[i - 1].len]
           Follows(h, m) == /\ h = [i \in 1 .. m |-> h[i]] /\ h[1] = 0
                            /\ \A i \in 1 .. (m - 1) : h[i + 1] = h[i] + len[i]
           Has(m) == \E h \in [1 .. m -> Nat] : Follows(h, m)
<1>1. N \in Nat /\ N >= 1 /\ N - 1 = Len(f) /\ len \in [1 .. (N - 1) -> Nat]
  <2>1. \A i \in 1 .. Len(f) : f[i] \in Directives
    OBVIOUS
  <2> QED
    BY <2>1 DEF Directives
<1>2. ASSUME NEW m \in 1 .. N, NEW h PROVE Starts(h, m) <=> Follows(h, m)
  <2>1. ASSUME NEW i \in 1 .. m, i # 1 PROVE i - 1 \in 1 .. (m - 1) /\ f[i - 1].len = len[i - 1]
    BY <1>1, <2>1
  <2>2. ASSUME Starts(h, m) PROVE Follows(h, m)
    <3>1. \A i \in 1 .. m : h[i] = IF i = 1 THEN 0 ELSE h[i - 1] + len[i - 1]
      BY <2>1, <2>2
    <3>2. h = [i \in 1 .. m |-> h[i]]
      BY <2>2, <3>1
    <3> HIDE DEF len
    <3>3. ASSUME NEW i \in 1 .. (m - 1) PROVE h[i + 1] = h[i] + len[i]
      <4>1. i + 1 \in 1 .. m /\ i + 1 # 1 /\ (i + 1) - 1 = i
        OBVIOUS
      <4> QED
        BY <3>1, <4>1
    <3>4. h[1] = 0
      BY <3>1
    <3> QED
      BY <3>2, <3>3, <3>4
  <2>3. ASSUME Follows(h, m) PROVE Starts(h, m)
    <3>1. ASSUME NEW i \in 1 .. m PROVE h[i] = IF i = 1 THEN 0 ELSE h[i - 1] + len[i - 1]
      <4>1. CASE i # 1
        <5> HIDE DEF len
        <5>1. i - 1 \in 1 .. (m - 1) /\ (i - 1) + 1 = i
          BY <4>1
        <5> QED
          BY <2>3, <5>1
      <4> QED
        BY <2>3, <4>1
    <3>2. \A i \in 1 .. m : h[i] = IF i = 1 THEN 0 ELSE h[i - 1] + f[i - 1].len
      BY <2>1, <3>1
    <3> QED
      BY <2>3, <3>2
  <2> QED
    BY <2>2, <2>3
<1>3. StartOf(f) = CHOOSE h : Starts(h, N)
  BY DEF StartOf
<1> HIDE DEF N, len, Starts
<1>4. Has(N)
  <2> DEFINE Bad == {m \in 1 .. N : ~Has(m)}
  <2> SUFFICES ASSUME Bad # {} PROVE FALSE
    <3>1. N \in 1 .. N
      BY <1>1
    <3> HIDE DEF Has
    <3> QED
      BY <3>1
  <2>1. PICK m \in Bad : \A k \in Bad : m <= k
    <3>1. Bad \in SUBSET Nat
      BY <1>1
    <3> HIDE DEF Bad
    <3> QED
      BY <3>1, LeastNatural
  <2>2. m \in 1 .. N /\ ~Has(m) /\ m \in Nat
    BY <1>1
  <2>3. CASE m = 1
    <3> DEFINE h == [i \in 1 .. m |-> 0]
    <3>1. h \in [1 .. m -> Nat] /\ Follows(h, m)
      BY <2>3
    <3> QED
      BY <2>2, <3>1
  <2>4. CASE m # 1
    <3>1. m - 1 \in 1 .. N /\ m - 1 \in 1 .. (N - 1) /\ m - 1 < m
      BY <1>1, <2>2, <2>4
    <3>2. Has(m - 1)
      BY <2>1, <2>2, <3>1
    <3>3. PICK g \in [1 .. (m - 1) -> Nat] : Follows(g, m - 1)
      BY <3>2
    <3> DEFINE h == [i \in 1 .. m |-> IF i = m THEN g[m - 1] + len[m - 1] ELSE g[i]]
    <3>4. g[m - 1] + len[m - 1] \in Nat
      <4>1. g[m - 1] \in Nat
        <5>1. m - 1 \in 1 .. (m - 1)
          BY <2>2, <3>1
        <5> QED
          BY <5>1
      <4>2. len[m - 1] \in Nat
        BY <1>1, <3>1
      <4> QED
        BY <4>1, <4>2
    <3>5. h \in [1 .. m -> Nat]
      BY <2>2, <3>4
    <3>6. h[1] = 0 /\ h = [i \in 1 .. m |-> h[i]]
      BY <2>2, <2>4, <3>3
    <3>7. ASSUME NEW i \in 1 .. (m - 1) PROVE h[i + 1] = h[i] + len[i]
      <4>1. CASE i = m - 1
        BY <2>2, <4>1
      <4>2. CASE i # m - 1
        <5>1. i \in 1 .. ((m - 1) - 1) /\ i + 1 \in 1 .. m /\ i + 1 # m /\ i # m /\ i \in 1 .. m
          BY <2>2, <4>2
        <5>2. g[i + 1] = g[i] + len[i]
          BY <3>3, <5>1
        <5> QED
          BY <5>1, <5>2
      <4> QED
        BY <4>1, <4>2
    <3> HIDE DEF h
    <3> QED
      BY <2>2, <3>5, <3>6, <3>7
  <2> QED
    BY <2>3, <2>4
<1> DEFINE start == StartOf(f)
<1>5. Follows(start, N)
  <2>0. N \in 1 .. N
    BY <1>1
  <2>1. \E h : Starts(h, N)
    <3>1. PICK h : Follows(h, N)
      BY <1>4
    <3> HIDE DEF Follows
    <3> QED
      BY <1>2, <2>0, <3>1
  <2>2. Starts(start, N)
    BY <1>3, <2>1
  <2> HIDE DEF Follows
  <2> QED
    BY <1>2, <2>0, <2>2
<1> HIDE DEF start
<1>6. \A i \in 1 .. N : start[i] \in Nat
  <2> DEFINE Bad == {i \in 1 .. N : start[i] \notin Nat}
  <2> SUFFICES ASSUME Bad # {} PROVE FALSE
    OBVIOUS
  <2>1. PICK i \in Bad : \A k \in Bad : i <= k
    <3>1. Bad \in SUBSET Nat
      BY <1>1
    <3> HIDE DEF Bad
    <3> QED
      BY <3>1, LeastNatural
  <2>2. i \in 1 .. N /\ i # 1 /\ start[i] \notin Nat
    BY <1>1, <1>5
  <2>3. i - 1 \in 1 .. (N - 1) /\ i - 1 \in 1 .. N /\ i - 1 < i /\ (i - 1) + 1 = i
    BY <1>1, <2>2
  <2>4. start[i - 1] \in Nat
    BY <2>1, <2>2, <2>3
  <2>5. start[i] = start[i - 1] + len[i - 1] /\ len[i - 1] \in Nat
    BY <1>1, <1>5, <2>3
  <2> QED
    BY <2>2, <2>4, <2>5
<1>7. \A k \in 1 .. N : \A i \in 1 .. k : start[i] <= start[k]
  <2> DEFINE Bad == {k \in 1 .. N : ~ \A i \in 1 .. k : start[i] <= start[k]}
  <2> SUFFICES ASSUME Bad # {} PROVE FALSE
    OBVIOUS
  <2>1. PICK k \in Bad : \A m \in Bad : k <= m
    <3>1. Bad \in SUBSET Nat
      BY <1>1
    <3> HIDE DEF Bad
    <3> QED
      BY <3>1, LeastNatural
  <2>2. k \in 1 .. N /\ \E i \in 1 .. k : ~(start[i] <= start[k])
    OBVIOUS
  <2>3. PICK i \in 1 .. k : ~(start[i] <= start[k])
    BY <2>2
  <2>4. i # k /\ i \in 1 .. (k - 1) /\ k - 1 \in 1 .. N /\ k - 1 < k /\ k - 1 \in 1 .. (N - 1) /\ (k - 1) + 1 = k
    BY <1>1, <1>6, <2>2, <2>3
  <2>5. start[i] <= start[k - 1]
    BY <2>1, <2>2, <2>4
  <2>6. start[k] = start[k - 1] + len[k - 1] /\ len[k - 1] \in Nat
    BY <1>1, <1>5, <2>4
  <2>7. start[k] \in Nat /\ start[k - 1] \in Nat /\ start[i] \in Nat
    BY <1>1, <1>6, <2>2, <2>4
  <2> QED
    BY <2>3, <2>5, <2>6, <2>7
<1>8. TextLen(f) = start[N]
  BY DEF TextLen, start, N
<1>9. ASSUME NEW i \in 1 .. Len(f)
      PROVE  start[i] \in Nat /\ start[i + 1] = start[i] + f[i].len /\ start[i + 1] <= TextLen(f)
  <2>1. i \in 1 .. N /\ i + 1 \in 1 .. N /\ i \in 1 .. (N - 1) /\ N \in 1 .. N
    BY <1>1
  <2>2. len[i] = f[i].len
    BY DEF len
  <2>3. start[i] \in Nat
    BY <1>6, <2>1
  <2>4. start[i + 1] = start[i] + f[i].len
    BY <1>5, <2>1, <2>2
  <2>5. start[i + 1] <= start[N]
    BY <1>7, <2>1
  <2> QED
    BY <1>8, <2>3, <2>4, <2>5
<1>10. start[1] = 0 /\ TextLen(f) \in Nat
  BY <1>1, <1>5, <1>6, <1>8
<1> QED
  BY <1>9, <1>10 DEF start

(* What kprintf is given by panicf: six directives, and all of them begin   *)
(* inside its buffer.                                                       *)
LEMMA ReportIsText ==
  ASSUME NEW p \in Places, NEW n \in Nat
  PROVE  /\ ReportText(p, n) \in Seq(Directives) /\ Len(ReportText(p, n)) = 6
         /\ \A i \in DOMAIN ReportText(p, n) :
              /\ ReportText(p, n)[i].kind \in {"field", "literal"}
              /\ ReportText(p, n)[i].kind = "field" => StartOf(ReportText(p, n))[i] < PrintRoom
<1> DEFINE f == ReportText(p, n)
<1>1. p.file \in Nat /\ p.line \in Nat /\ p.file + p.line + 3 < PrintRoom /\ PrintRoom \in Nat
  BY StdioAssumption
<1>2. ASSUME NEW k \in {"field", "literal"}, NEW m \in Nat
      PROVE  Piece(k, m) \in Directives /\ Piece(k, m).kind = k /\ Piece(k, m).len = m
  BY DEF Piece, Directives, Kinds
<1>3. f = <<Piece("field", p.file), Piece("literal", 1), Piece("field", p.line),
            Piece("literal", 2), Piece("field", n), Piece("literal", 1)>>
  BY DEF ReportText
<1>4. /\ Piece("field", p.file) \in Directives /\ Piece("literal", 1) \in Directives
      /\ Piece("field", p.line) \in Directives /\ Piece("literal", 2) \in Directives
      /\ Piece("field", n) \in Directives
  BY <1>1, <1>2
<1>5. f \in Seq(Directives) /\ Len(f) = 6 /\ DOMAIN f = 1 .. 6
  BY <1>3, <1>4
<1>6. /\ f[1] = Piece("field", p.file) /\ f[2] = Piece("literal", 1)
      /\ f[3] = Piece("field", p.line) /\ f[4] = Piece("literal", 2)
      /\ f[5] = Piece("field", n) /\ f[6] = Piece("literal", 1)
  BY <1>3
<1>7. /\ f[1].len = p.file /\ f[2].len = 1 /\ f[3].len = p.line /\ f[4].len = 2
      /\ f[1].kind = "field" /\ f[2].kind = "literal" /\ f[3].kind = "field"
      /\ f[4].kind = "literal" /\ f[5].kind = "field" /\ f[6].kind = "literal"
  BY <1>1, <1>2, <1>6
<1> DEFINE start == StartOf(f)
<1> HIDE DEF f
<1>8. /\ start[1] = 0
      /\ \A i \in 1 .. Len(f) : start[i] \in Nat /\ start[i + 1] = start[i] + f[i].len
  BY <1>5, StartsFollow
<1> HIDE DEF start
<1>9. /\ start[2] = start[1] + p.file /\ start[3] = start[2] + 1
      /\ start[4] = start[3] + p.line /\ start[5] = start[4] + 2
  <2>1. 1 \in 1 .. Len(f) /\ 2 \in 1 .. Len(f) /\ 3 \in 1 .. Len(f) /\ 4 \in 1 .. Len(f)
    BY <1>5
  <2>2. /\ start[1 + 1] = start[1] + f[1].len /\ start[2 + 1] = start[2] + f[2].len
        /\ start[3 + 1] = start[3] + f[3].len /\ start[4 + 1] = start[4] + f[4].len
    BY <1>8, <2>1
  <2>3. 1 + 1 = 2 /\ 2 + 1 = 3 /\ 3 + 1 = 4 /\ 4 + 1 = 5
    OBVIOUS
  <2> QED
    BY <1>7, <2>2, <2>3
<1> DEFINE s2 == start[2]
           s3 == start[3]
           s4 == start[4]
           s5 == start[5]
<1>10. s2 = 0 + p.file /\ s3 = s2 + 1 /\ s4 = s3 + p.line /\ s5 = s4 + 2
  BY <1>8, <1>9
<1> HIDE DEF s2, s3, s4, s5
<1>11. s3 < PrintRoom /\ s5 < PrintRoom /\ 0 < PrintRoom
  BY <1>1, <1>10
<1>12. start[1] < PrintRoom /\ start[3] < PrintRoom /\ start[5] < PrintRoom
  BY <1>8, <1>11 DEF s3, s5
<1>13. \A i \in 1 .. 6 : i \in {1, 3, 5} \/ f[i].kind = "literal"
  <2>1. \A i \in 1 .. 6 : i = 1 \/ i = 2 \/ i = 3 \/ i = 4 \/ i = 5 \/ i = 6
    OBVIOUS
  <2> QED
    BY <1>7, <2>1
<1>14. \A i \in DOMAIN f : /\ f[i].kind \in {"field", "literal"}
                           /\ f[i].kind = "field" => start[i] < PrintRoom
  BY <1>5, <1>7, <1>12, <1>13
<1> QED
  BY <1>5, <1>14 DEF f, start

(***************************************************************************)
(* What a call stores                                                      *)
(***************************************************************************)
(* The formats in use are sequences of directives. *)
LEMMA FormatsAreTexts ==
  ASSUME NEW f \in Texts
  PROVE  /\ f \in Seq(Directives)
         /\ \A i \in DOMAIN f : f[i].kind \in {"percent", "char"} => f[i].len = 1
<1>1. CASE f = <<>>
  <2>1. <<>> \in Seq(Directives) /\ DOMAIN <<>> = {}
    OBVIOUS
  <2> QED BY <1>1, <2>1
<1>2. CASE f \in Formats \cup Messages
  BY <1>2, StdioAssumption
<1>3. ASSUME NEW k \in {"field", "literal"}, NEW n \in Nat PROVE Piece(k, n) \in Directives
  BY DEF Piece, Directives, Kinds
<1>4. CASE f = FrameText
  <2>1. FrameText = <<Piece("field", 18), Piece("literal", 1)>>
    BY DEF FrameText
  <2>2. Piece("field", 18) \in Directives /\ Piece("literal", 1) \in Directives
    BY <1>3
  <2>3. FrameText \in Seq(Directives)
    BY <2>1, <2>2
  <2>4. \A i \in DOMAIN FrameText : FrameText[i].kind \notin {"percent", "char"}
    BY <2>1 DEF Piece
  <2> QED BY <1>4, <2>3, <2>4
<1>5. CASE f \in {ReportText(p, TextLen(g)) : p \in Places, g \in Messages}
  <2>1. PICK p \in Places, g \in Messages : f = ReportText(p, TextLen(g))
    BY <1>5
  <2>2. p.file \in Nat /\ p.line \in Nat
    BY StdioAssumption
  <2>3. g \in Seq(Directives)
    BY StdioAssumption
  <2>4. TextLen(g) \in Nat
    BY <2>3, StartsFollow
  <2>5. f \in Seq(Directives) /\ \A i \in DOMAIN f : f[i].kind \notin {"percent", "char"}
    BY <2>1, <2>2, <2>4, ReportIsText
  <2> QED BY <2>5
<1> QED BY <1>1, <1>2, <1>4, <1>5 DEF Texts

(* A directive stores only characters it prints, and all those in front of *)
(* the buffer's last offset (the conversions of stdio.cpp:23-122).         *)
LEMMA StoresWhatFits ==
  ASSUME NEW d \in Directives, d.kind \in {"percent", "char"} => d.len = 1,
         size \in Nat, j \in Nat
  PROVE  /\ Stores(d) \subseteq j .. (j + d.len - 1)
         /\ \A k \in j .. (j + d.len - 1) : k < size - 1 => k \in Stores(d)
<1>1. d.len \in Nat /\ d.kind \in Kinds
  BY DEF Directives
<1>2. CASE d.kind = "literal"
  <2>1. Stores(d) = LiteralStores(d.len)
    BY <1>2 DEF Stores
  <2> QED BY <1>1, <2>1 DEF LiteralStores
<1>3. CASE d.kind = "percent"
  <2>1. Stores(d) = PercentStores /\ d.len = 1
    BY <1>3 DEF Stores
  <2>2. MinusOne(size) \in {size - 1, SizeLimit - 1} /\ (size # 0 => MinusOne(size) = size - 1)
    BY DEF MinusOne
  <2> QED BY <2>1, <2>2 DEF PercentStores
<1>4. CASE d.kind = "char"
  <2>1. Stores(d) = CharStores /\ d.len = 1
    BY <1>4 DEF Stores
  <2> QED BY <2>1 DEF CharStores, Rem
<1>5. CASE d.kind \notin {"literal", "percent", "char"}
  <2>1. Stores(d) = FieldStores(d.len)
    BY <1>5 DEF Stores
  <2>2. j < size => MinusOne(Rem) = size - j - 1
    BY DEF MinusOne, Rem
  <2> QED BY <1>1, <2>1, <2>2 DEF FieldStores
<1> QED BY <1>2, <1>3, <1>4, <1>5

(* A format is no longer than the address space. *)
LEMMA TextsAreShort ==
  ASSUME NEW f \in Texts
  PROVE  f \in Seq(Directives) /\ TextLen(f) \in Nat /\ TextLen(f) < SizeLimit - 1
  BY FormatsAreTexts, StartsFollow, StdioAssumption

(* A directive stores outside the buffer if it has to begin inside and does *)
(* not.                                                                     *)
LEMMA StoresOutside ==
  ASSUME IInv, Directive, j = StartOf(fmt)[at]
  PROVE  Stores(fmt[at]) \subseteq 0 .. (size - 1) <=> StartsInside(fmt, at, size)
<1> DEFINE d == fmt[at]
<1>1. /\ size \in Nat /\ j \in Nat /\ at \in 1 .. Len(fmt) /\ d \in Directives
      /\ d.kind \in {"percent", "char"} => d.len = 1
      /\ d.kind # "unsupported"
  BY FormatsAreTexts DEF Directive, IInv, TypeOK
<1>2. d.len \in Nat /\ d.kind \in {"literal", "percent", "char", "field"}
  BY <1>1 DEF Directives, Kinds
<1>3. j < SizeLimit - 1 /\ SizeLimit \in Nat /\ SizeLimit > 2
  <2>1. fmt \in Seq(Directives) /\ TextLen(fmt) \in Nat /\ TextLen(fmt) < SizeLimit - 1
    BY TextsAreShort DEF IInv, TypeOK
  <2>2. StartOf(fmt)[at + 1] = j + d.len /\ StartOf(fmt)[at + 1] <= TextLen(fmt)
    BY <1>1, <2>1, StartsFollow
  <2> QED
    BY <1>1, <1>2, <2>1, <2>2, StdioAssumption
<1>4. StartsInside(fmt, at, size) <=> /\ d.kind = "field" /\ d.len > 0 => j < size
                                      /\ d.kind = "percent" => size > 0
  BY DEF StartsInside
<1> HIDE DEF d
<1>5. CASE d.kind = "literal"
  <2>1. Stores(d) = {k \in j .. (j + d.len - 1) : k < size - 1}
    BY <1>5 DEF Stores, LiteralStores
  <2>2. Stores(d) \subseteq 0 .. (size - 1)
    BY <1>1, <1>2, <2>1
  <2> QED
    BY <1>4, <1>5, <2>2 DEF d
<1>6. CASE d.kind = "percent"
  <2>1. Stores(d) = IF j < MinusOne(size) THEN {j} ELSE {}
    BY <1>6 DEF Stores, PercentStores
  <2>2. MinusOne(size) = IF size = 0 THEN SizeLimit - 1 ELSE size - 1
    BY DEF MinusOne
  <2>3. Stores(d) \subseteq 0 .. (size - 1) <=> size > 0
    BY <1>1, <1>3, <2>1, <2>2
  <2> QED
    BY <1>4, <1>6, <2>3 DEF d
<1>7. CASE d.kind = "char"
  <2>1. Stores(d) = IF Rem > 0 THEN {j} ELSE {}
    BY <1>7 DEF Stores, CharStores
  <2>2. Stores(d) \subseteq 0 .. (size - 1)
    BY <1>1, <2>1 DEF Rem
  <2> QED
    BY <1>4, <1>7, <2>2 DEF d
<1>8. CASE d.kind = "field"
  <2>1. Stores(d) = {k \in j .. (j + d.len - 1) : k - j < MinusOne(Rem)}
    BY <1>8 DEF Stores, FieldStores
  <2>2. MinusOne(Rem) = IF j >= size THEN SizeLimit - 1 ELSE size - j - 1
    BY <1>1 DEF MinusOne, Rem
  <2>3. CASE j < size
    <3>1. MinusOne(Rem) = size - j - 1
      BY <1>1, <2>2, <2>3
    <3>2. \A k \in j .. (j + d.len - 1) : k - j < size - j - 1 => k \in 0 .. (size - 1)
      BY <1>1, <1>2, <2>3
    <3>3. Stores(d) \subseteq 0 .. (size - 1)
      BY <2>1, <3>1, <3>2
    <3> QED
      BY <1>4, <2>3, <1>8, <3>3 DEF d
  <2>4. CASE j >= size /\ d.len > 0
    <3>1. j \in Stores(d)
      BY <1>1, <1>2, <1>3, <2>1, <2>2, <2>4
    <3>2. j \notin 0 .. (size - 1)
      BY <1>1, <2>4
    <3>3. ~(j < size)
      BY <1>1, <2>4
    <3> QED
      BY <1>4, <1>8, <2>4, <3>1, <3>2, <3>3 DEF d
  <2>5. CASE d.len = 0
    <3>1. Stores(d) = {}
      BY <1>1, <2>1, <2>5
    <3>2. StartsInside(fmt, at, size)
      BY <1>4, <1>8, <2>5
    <3> QED
      BY <3>1, <3>2 DEF d
  <2> QED
    BY <1>1, <1>2, <2>3, <2>4, <2>5
<1> QED
  BY <1>2, <1>5, <1>6, <1>7, <1>8 DEF d

(* The offsets of the text that fits, stated with a set. *)
LEMMA EndedHoldsPrefix == TypeOK /\ Ended => HoldsPrefix
<1> SUFFICES ASSUME TypeOK, Ended, Done PROVE
      /\ end = Smaller(j, size - 1)
      /\ stored \cap 0 .. (size - 1) = 0 .. (end - 1)
  BY DEF HoldsPrefix
<1>1. end = Smaller(j, size - 1) /\ end <= j /\ end <= size - 1
      /\ (end = j \/ end = size - 1) /\ end \in Nat \cup {-1} /\ size \in Nat /\ j \in Nat
  BY DEF Ended, Smaller, TypeOK
<1>2. stored \cap 0 .. (size - 1) \subseteq 0 .. (end - 1)
  BY <1>1 DEF Ended
<1>3. 0 .. (end - 1) \subseteq stored \cap 0 .. (size - 1)
  BY <1>1 DEF Ended
<1> QED BY <1>1, <1>2, <1>3

(***************************************************************************)
(* The invariant                                                           *)
(***************************************************************************)
(* When panicf's call of the formatter has returned, j is the length of the *)
(* message: the buffer holds all of it, or it was the first.                *)
LEMMA MessageMeasured ==
  ASSUME IInv, Told, pc = "returned", caller = "panicf"
  PROVE  /\ message \in Messages /\ message \in Texts /\ fmt = message
         /\ j = TextLen(message)
         /\ TooLong => passes = 1
         /\ ~TooLong => end = TextLen(message)
<1>1. message \in Messages /\ fmt = message /\ passes \in 1 .. 2
      /\ (passes = 2 => size = TextLen(message) + 1)
  BY DEF Told, Measured
<1>2. message \in Texts
  BY <1>1 DEF Texts
<1>3. j = TextLen(message)
  BY <1>1 DEF Told, Printed, Done, TextLen
<1>4. j \in Nat /\ size \in Nat /\ end = Smaller(j, size - 1)
  BY DEF IInv, TypeOK, Ended, Done
<1>5. TooLong => passes = 1
  <2>1. passes = 2 => ~(j > size - 1)
    BY <1>1, <1>3, <1>4
  <2> QED
    BY <1>1, <2>1 DEF TooLong
<1>6. ~TooLong => end = TextLen(message)
  BY <1>3, <1>4 DEF TooLong, Smaller
<1> QED
  BY <1>1, <1>2, <1>3, <1>5, <1>6

(* A call of kvsnprintf begins with nothing printed and nothing stored. *)
LEMMA StartFills ==
  ASSUME NEW f \in Texts, NEW n \in Nat, StartFormat(f, n)
  PROVE  /\ pc' = "format" /\ Filled' /\ Ended' /\ Printed' /\ Escaped'
         /\ fmt' = f /\ size' = n
         /\ at' \in 1 .. (Len(fmt') + 1) /\ j' \in Nat
         /\ stored' \subseteq Nat /\ end' \in Nat \cup {-1}
<1>1. f \in Seq(Directives) /\ StartOf(f)[1] = 0
  BY FormatsAreTexts, StartsFollow
<1>2. Len(f) \in Nat
  BY <1>1
<1>3. pc' = "format" /\ fmt' = f /\ size' = n /\ at' = 1 /\ j' = 0 /\ stored' = {} /\ end' = 0
  BY DEF StartFormat
<1>4. Filled' /\ Ended'
  BY <1>3 DEF Filled, Ended, Done
<1>5. 1 .. (at' - 1) = {}
  BY <1>3
<1>6. Printed' /\ Escaped'
  BY <1>1, <1>3, <1>5 DEF Printed, Escaped, Done, Inside
<1> QED
  BY <1>2, <1>3, <1>4, <1>6

(* So a step that calls it keeps the invariant, if its caller is in order. *)
LEMMA StartIInv ==
  ASSUME NEW f \in Texts, NEW n \in Nat, StartFormat(f, n),
         caller' \in {"ksnprintf", "kprintf", "panicf", "report", "dumpStack"},
         room' \in Nat, base' \in Nat,
         caller' = "ksnprintf" => base' <= room' /\ n = room' - base',
         message' \in Messages \cup {<<>>}, passes' \in Nat, frames' \in 0 .. MaxFrames
  PROVE  IInv'
<1>1. /\ pc' = "format" /\ Filled' /\ Ended' /\ fmt' = f /\ size' = n
      /\ at' \in 1 .. (Len(fmt') + 1) /\ j' \in Nat
      /\ stored' \subseteq Nat /\ end' \in Nat \cup {-1}
  BY StartFills
<1>2. TypeOK'
  BY <1>1 DEF TypeOK
<1>3. Chained'
  BY <1>1 DEF Chained
<1> QED
  BY <1>1, <1>2, <1>3 DEF IInv

(* Every report, and every frame, is one of the texts. *)
LEMMA ReportsAreTexts ==
  /\ \A f \in Messages, place \in Places : ReportText(place, TextLen(f)) \in Texts
  /\ FrameText \in Texts /\ <<>> \in Texts /\ Formats \subseteq Texts /\ Messages \subseteq Texts
  BY DEF Texts

LEMMA InitIInv == Init => IInv
<1> SUFFICES ASSUME Init PROVE IInv
  OBVIOUS
<1>1. Len(fmt) = 0 /\ fmt = <<>> /\ fmt \in Texts
  BY ReportsAreTexts DEF Init
<1>2. 0 \in 0 .. MaxFrames
  BY StdioAssumption
<1>3. TypeOK
  BY <1>1, <1>2 DEF Init, TypeOK
<1> QED BY <1>3 DEF Init, IInv, Chained, Ended, Filled, Done

LEMMA StepIInv == ASSUME IInv, Told, [Next]_vars PROVE IInv'
<1>t. /\ size \in Nat /\ j \in Nat /\ stored \subseteq Nat /\ end \in Nat \cup {-1}
      /\ room \in Nat /\ base \in Nat /\ passes \in Nat /\ frames \in 0 .. MaxFrames
      /\ message \in Messages \cup {<<>>} /\ fmt \in Texts
      /\ caller \in {"ksnprintf", "kprintf", "panicf", "report", "dumpStack"}
  BY DEF IInv, TypeOK
<1>n. PrintRoom \in Nat /\ MaxFrames \in Nat /\ 0 \in 0 .. MaxFrames
  BY StdioAssumption
<1>1. CASE Directive
  <2> USE DEF IInv
  <2> DEFINE d == fmt[at]
  <2>1. d \in Directives /\ (d.kind \in {"percent", "char"} => d.len = 1) /\ at \in DOMAIN fmt
    BY <1>1, <1>t, FormatsAreTexts DEF Directive, TypeOK
  <2>2. /\ Stores(d) \subseteq j .. (j + d.len - 1)
        /\ \A k \in j .. (j + d.len - 1) : k < size - 1 => k \in Stores(d)
    BY <2>1, <1>t, StoresWhatFits
  <2>3. d.len \in Nat
    BY <2>1 DEF Directives
  <2>4. /\ stored' = stored \cup Stores(d) /\ j' = j + d.len /\ at' = at + 1
        /\ UNCHANGED <<caller, room, base, fmt, size, end, message, passes, frames>>
        /\ pc = "format" /\ pc' \in {"format", "smashed"}
    BY <1>1 DEF Directive, chain, text, dying
  <2>5. Filled
    BY <2>4
  <2>6. Filled'
    BY <2>2, <2>3, <2>4, <2>5, <1>t DEF Filled
  <2>7. TypeOK'
    <3>1. at' \in 1 .. (Len(fmt') + 1)
      <4>1. Len(fmt) \in Nat
        BY <1>t, FormatsAreTexts
      <4>2. at \in 1 .. Len(fmt)
        BY <1>t, <2>1, FormatsAreTexts
      <4> QED
        BY <2>4, <4>1, <4>2
    <3>2. stored' \subseteq Nat /\ j' \in Nat
      <4> HIDE DEF d
      <4>1. j .. (j + d.len - 1) \subseteq Nat /\ j + d.len \in Nat
        BY <2>3, <1>t
      <4> QED BY <2>2, <2>4, <4>1, <1>t
    <3> QED BY <1>t, <2>4, <3>1, <3>2 DEF TypeOK
  <2>8. Chained'
    BY <2>4 DEF Chained
  <2> QED BY <2>4, <2>6, <2>7, <2>8 DEF Ended, Done
<1>2. ASSUME NEW f \in Messages, Measure(f) PROVE IInv'
  <2>1. f \in Texts
    BY ReportsAreTexts
  <2> QED BY <1>2, <1>n, <2>1, StartIInv DEF Measure
<1>3. CASE Terminate
  <2> USE DEF IInv
  <2>1. /\ pc = "format" /\ end' = Terminator /\ stored' = stored \ {end'} /\ pc' = "returned"
        /\ UNCHANGED <<caller, room, base, fmt, size, at, j, message, passes, frames>>
    BY <1>3 DEF Terminate, chain, text, dying
  <2>2. Filled
    BY <2>1
  <2>3. end' = Smaller(j, size - 1) /\ end' \in Nat \cup {-1}
    BY <2>1, <1>t DEF Terminator, Smaller
  <2>4. Ended'
    <3>1. \A k \in stored' : k < j' /\ k # end'
      BY <2>1, <2>2 DEF Filled
    <3>2. \A k \in Nat : k < end' => k \in stored'
      BY <2>1, <2>2, <2>3, <1>t DEF Filled, Smaller
    <3> QED BY <2>1, <2>3, <3>1, <3>2 DEF Ended
  <2>5. TypeOK'
    BY <2>1, <2>3, <1>t DEF TypeOK
  <2>6. Chained'
    BY <2>1 DEF Chained
  <2> QED BY <2>1, <2>4, <2>5, <2>6
<1>4. CASE Retry
  <2>1. /\ StartFormat(message, j + 1) /\ passes' = passes + 1 /\ caller = "panicf" /\ pc = "returned"
        /\ UNCHANGED <<caller, room, base, message, frames>>
    BY <1>4 DEF Retry, Needed, chain
  <2>2. message \in Texts
    BY <2>1, MessageMeasured
  <2>3. j + 1 \in Nat /\ passes + 1 \in Nat
    BY <1>t
  <2> QED BY <1>t, <2>1, <2>2, <2>3, StartIInv
<1>5. CASE ReportMessage
  <2>1. PICK place \in Places : StartFormat(ReportText(place, end), PrintRoom)
    BY <1>5 DEF ReportMessage, Report
  <2>2. caller' = "report" /\ UNCHANGED <<room, base, message, passes, frames>>
    BY <1>5 DEF ReportMessage, Report, chain, dying
  <2>3. ReportText(place, end) \in Texts
    BY <1>5, MessageMeasured, ReportsAreTexts DEF ReportMessage
  <2> QED BY <1>t, <1>n, <2>1, <2>2, <2>3, StartIInv
<1>6. CASE DumpFrame
  <2>1. /\ StartFormat(FrameText, PrintRoom) /\ caller' = "dumpStack" /\ frames' = frames + 1
        /\ frames < MaxFrames /\ UNCHANGED <<room, base, message, passes>>
    BY <1>6 DEF DumpFrame, chain
  <2>2. frames + 1 \in 0 .. MaxFrames
    BY <1>t, <1>n, <2>1
  <2> QED BY <1>t, <1>n, <2>1, <2>2, ReportsAreTexts, StartIInv
<1>7. ASSUME pc' \in {"dump", "asserted", "halted"}, Done,
             UNCHANGED <<caller, chain, text, at, j, stored, end, dying>>
      PROVE  IInv'
  <2>1. UNCHANGED <<caller, room, base, fmt, size, at, j, stored, end, message, passes, frames>>
    BY <1>7 DEF chain, text, dying
  <2>2. Done'
    BY <1>7 DEF Done
  <2>3. TypeOK'
    BY <1>7, <2>1 DEF IInv, TypeOK
  <2>4. Ended'
    BY <1>7, <2>1, <2>2 DEF IInv, Ended
  <2>5. Chained'
    BY <1>7, <2>1 DEF IInv, Chained, Done
  <2> QED BY <1>7, <2>3, <2>4, <2>5 DEF IInv
<1>8. ASSUME Leave PROVE IInv'
  <2>1. Len(fmt') = 0 /\ fmt' \in Texts
    BY <1>8, ReportsAreTexts DEF Leave
  <2>2. TypeOK'
    BY <1>8, <1>t, <2>1 DEF Leave, TypeOK, dying
  <2> QED BY <1>8, <2>2 DEF Leave, IInv, Chained, Ended, Done
<1>9. ASSUME NEW f \in Formats, NEW r \in Rooms, First(f, r) PROVE IInv'
  <2>1. r \in Nat /\ 0 <= r /\ r = r - 0
    BY StdioAssumption
  <2>2. StartFormat(f, r) /\ caller' = "ksnprintf" /\ room' = r /\ base' = 0 /\ UNCHANGED <<message, passes, frames>>
    BY <1>9 DEF First, dying
  <2> QED BY <1>t, <2>1, <2>2, ReportsAreTexts, StartIInv
<1>10. ASSUME NEW f \in Formats, Further(f) \/ Separate(f) PROVE IInv'
  <2>1. /\ StartFormat(f, room - base') /\ base' \in {base + Result, base + Result + 1}
        /\ caller = "ksnprintf" /\ pc = "returned" /\ size > 0
        /\ UNCHANGED <<caller, room, message, passes, frames>>
    BY <1>10 DEF Further, Separate, dying
  <2>2. base <= room /\ size = room - base
    BY <2>1 DEF IInv, Chained
  <2>3. Result \in Nat /\ Result <= size - 1
    BY <1>t, <2>1 DEF Result
  <2>4. base' \in Nat /\ base' <= room /\ room - base' \in Nat
    <3>1. CASE base' = base + Result
      BY <2>2, <2>3, <3>1, <1>t
    <3>2. CASE base' = base + Result + 1
      BY <2>2, <2>3, <3>2, <1>t
    <3> QED BY <2>1, <3>1, <3>2
  <2> QED BY <1>t, <2>1, <2>4, ReportsAreTexts, StartIInv
<1>11. ASSUME NEW f \in Formats, Kprintf(f) PROVE IInv'
  <2>1. /\ StartFormat(f, PrintRoom) /\ caller' = "kprintf" /\ room' = 0 /\ base' = 0
        /\ UNCHANGED <<message, passes, frames>>
    BY <1>11 DEF Kprintf, dying
  <2> QED BY <1>t, <1>n, <2>1, ReportsAreTexts, StartIInv
<1>12. ASSUME NEW f \in PanicFormats, Panic(f) PROVE IInv'
  <2>1. PICK place \in Places : StartFormat(ReportText(place, TextLen(f)), PrintRoom)
    BY <1>12 DEF Panic, Report
  <2>2. /\ caller' = "report" /\ message' = f /\ passes' = 0 /\ frames' = 0 /\ room' = 0 /\ base' = 0
        /\ f \in Messages
    BY <1>12 DEF Panic, Report, Messages
  <2>3. ReportText(place, TextLen(f)) \in Texts
    BY <2>2, ReportsAreTexts
  <2> QED BY <1>n, <2>1, <2>2, <2>3, StartIInv
<1>13. CASE UNCHANGED vars
  <2>1. /\ UNCHANGED <<pc, caller, room, base, fmt, size, at, j, stored, end>>
        /\ UNCHANGED <<message, passes, frames>>
    BY <1>13 DEF vars, chain, text, dying
  <2> QED BY <2>1 DEF IInv, TypeOK, Chained, Ended, Filled, Done
<1>14. CASE Unsupported
  BY <1>14, <1>2 DEF Unsupported, Messages
<1>15. CASE AppendText
  <2>1. Done
    BY <1>15 DEF AppendText, Printing, Done
  <2> QED BY <1>15, <1>7, <1>8, <2>1 DEF AppendText
<1>16. CASE AppendAsserts \/ Halt
  <2>1. Done
    BY <1>16 DEF AppendAsserts, Halt, Printing, Done
  <2> QED BY <1>16, <1>7, <2>1 DEF AppendAsserts, Halt
<1>17. ASSUME NEW f \in PanicFormats, Panicf(f) PROVE IInv'
  BY <1>17, <1>2 DEF Panicf, Messages
<1>18. CASE ChainDone
  BY <1>18, <1>8 DEF ChainDone
<1> QED
  BY <1>1, <1>3, <1>4, <1>5, <1>6, <1>9, <1>10, <1>11, <1>12, <1>13, <1>14, <1>15, <1>16,
     <1>17, <1>18 DEF Next, Step, Call

LEMMA StepTold == ASSUME IInv, Told, [Next]_vars PROVE Told'
<1>t. /\ size \in Nat /\ j \in Nat /\ stored \subseteq Nat /\ at \in 1 .. (Len(fmt) + 1)
      /\ fmt \in Texts /\ fmt \in Seq(Directives) /\ TextLen(fmt) \in Nat
  BY TextsAreShort DEF IInv, TypeOK
<1>n. PrintRoom \in Nat
  BY StdioAssumption
<1>s. ASSUME NEW f \in Texts, NEW n \in Nat, StartFormat(f, n)
      PROVE  Printed' /\ Escaped' /\ fmt' = f /\ size' = n
  BY <1>s, StartFills
<1>p. passes <= 2
  BY DEF Told, Reported
<1>1. CASE Directive
  <2>1. /\ at' = at + 1 /\ j' = j + fmt[at].len /\ stored' = stored \cup Stores(fmt[at])
        /\ UNCHANGED <<fmt, size, caller, message, passes>>
        /\ pc = "format" /\ at \in 1 .. Len(fmt)
        /\ (pc' = "format" \/ (pc' = "smashed" /\ ~Inside(Stores(fmt[at]))))
    BY <1>1, <1>t DEF Directive, chain, text, dying
  <2>2. Printed'
    <3>1. StartOf(fmt)[at + 1] = StartOf(fmt)[at] + fmt[at].len
      BY <1>t, <2>1, StartsFollow
    <3> QED
      BY <2>1, <3>1 DEF Told, Printed, Done
  <2>3. Escaped'
    <3>1. Stores(fmt[at]) \subseteq 0 .. (size - 1) <=> StartsInside(fmt, at, size)
      BY <1>1, StoresOutside DEF Told, Printed
    <3>2. stored \subseteq 0 .. (size - 1) <=> \A i \in 1 .. (at - 1) : StartsInside(fmt, i, size)
      BY DEF Told, Escaped, Inside
    <3>3. 1 .. (at' - 1) = (1 .. (at - 1)) \cup {at}
      BY <1>t, <2>1
    <3>4. stored' \subseteq 0 .. (size - 1) <=> \A i \in 1 .. (at' - 1) : StartsInside(fmt, i, size)
      BY <2>1, <3>1, <3>2, <3>3
    <3>5. pc' = "smashed" => ~(stored' \subseteq 0 .. (size - 1))
      BY <2>1 DEF Inside
    <3> QED
      BY <2>1, <3>4, <3>5 DEF Escaped, Inside
  <2> QED
    BY <2>1, <2>2, <2>3 DEF Told, Measured, Reported
<1>2. ASSUME NEW f \in Messages, Measure(f) PROVE Told'
  <2>1. StartFormat(f, 2) /\ caller' = "panicf" /\ message' = f /\ passes' = 1
    BY <1>2 DEF Measure
  <2>2. Printed' /\ Escaped' /\ fmt' = f /\ size' = 2
    BY <1>s, <2>1, ReportsAreTexts
  <2> QED
    BY <2>1, <2>2 DEF Told, Measured, Reported
<1>3. CASE Terminate
  <2>1. /\ end' = Terminator /\ stored' = stored \ {end'} /\ at > Len(fmt) /\ pc' = "returned"
        /\ UNCHANGED <<fmt, size, caller, message, passes, at, j>>
    BY <1>3 DEF Terminate, chain, text, dying
  <2>2. Printed'
    BY <1>t, <2>1 DEF Told, Printed
  <2>3. end' \in 0 .. (size - 1) \/ end' \notin stored
    BY <1>t, <2>1 DEF Terminator
  <2>4. stored' \subseteq 0 .. (size - 1) <=> stored \subseteq 0 .. (size - 1)
    BY <2>1, <2>3
  <2>5. Escaped'
    BY <2>1, <2>4 DEF Told, Escaped, Inside
  <2> QED
    BY <2>1, <2>2, <2>5 DEF Told, Measured, Reported
<1>4. CASE Retry
  <2>1. /\ StartFormat(message, j + 1) /\ passes' = passes + 1 /\ caller = "panicf" /\ pc = "returned"
        /\ TooLong /\ caller' = caller /\ message' = message
    BY <1>4 DEF Retry, Needed
  <2>2. message \in Messages /\ message \in Texts /\ j = TextLen(message) /\ passes = 1
    BY <2>1, MessageMeasured
  <2>3. Printed' /\ Escaped' /\ fmt' = message /\ size' = j + 1
    BY <1>s, <1>t, <2>1, <2>2
  <2> QED
    BY <2>1, <2>2, <2>3 DEF Told, Measured, Reported
<1>5. ASSUME NEW place \in Places, message' \in Messages, passes' <= 2, caller' = "report",
             StartFormat(ReportText(place, TextLen(message')), PrintRoom)
      PROVE  Told'
  <2>1. ReportText(place, TextLen(message')) \in Texts
    BY <1>5, ReportsAreTexts
  <2>2. Printed' /\ Escaped' /\ fmt' = ReportText(place, TextLen(message')) /\ size' = PrintRoom
    BY <1>s, <1>n, <1>5, <2>1
  <2> QED
    BY <1>5, <2>2 DEF Told, Measured, Reported
<1>6. CASE DumpFrame
  <2>1. StartFormat(FrameText, PrintRoom) /\ caller' = "dumpStack" /\ passes' = passes
    BY <1>6 DEF DumpFrame
  <2>2. Printed' /\ Escaped' /\ fmt' = FrameText /\ size' = PrintRoom
    BY <1>s, <1>n, <2>1, ReportsAreTexts
  <2> QED
    BY <1>p, <2>1, <2>2 DEF Told, Measured, Reported
<1>7. ASSUME pc' \in {"dump", "asserted", "halted"}, Done,
             UNCHANGED <<caller, chain, text, at, j, stored, end, dying>>
      PROVE  Told'
  <2>1. UNCHANGED <<caller, fmt, size, at, j, stored, message, passes>>
    BY <1>7 DEF text, dying
  <2>2. Printed'
    BY <1>7, <2>1 DEF Told, Printed
  <2>3. Escaped'
    BY <1>7, <2>1 DEF Told, Escaped, Inside
  <2> QED
    BY <2>1, <2>2, <2>3 DEF Told, Measured, Reported
<1>8. ASSUME Leave PROVE Told'
  <2>1. /\ fmt' = <<>> /\ at' = 1 /\ j' = 0 /\ stored' = {} /\ pc' = "idle" /\ caller' = "ksnprintf"
        /\ passes' = passes
    BY <1>8 DEF Leave, dying
  <2>2. StartOf(<<>>)[1] = 0
    BY FormatsAreTexts, ReportsAreTexts, StartsFollow
  <2>3. 1 .. (at' - 1) = {}
    BY <2>1
  <2> QED
    BY <1>p, <2>1, <2>2, <2>3 DEF Told, Printed, Escaped, Measured, Reported, Done, Inside
<1>9. ASSUME NEW f \in Formats, NEW n \in Nat, StartFormat(f, n),
             caller' \in {"ksnprintf", "kprintf"}, passes' = passes
      PROVE  Told'
  <2>1. Printed' /\ Escaped'
    BY <1>9, <1>s, ReportsAreTexts
  <2> QED
    BY <1>9, <1>p, <2>1 DEF Told, Measured, Reported
<1>10. ASSUME NEW f \in Formats, NEW r \in Rooms, First(f, r) PROVE Told'
  <2>1. StartFormat(f, r) /\ caller' = "ksnprintf" /\ passes' = passes /\ r \in Nat
    BY <1>10, StdioAssumption DEF First, dying
  <2> QED
    BY <1>9, <2>1
<1>11. ASSUME NEW f \in Formats, Further(f) \/ Separate(f) PROVE Told'
  <2>1. StartFormat(f, room - base') /\ caller' = "ksnprintf" /\ passes' = passes
    BY <1>11 DEF Further, Separate, dying
  <2>2. room - base' \in Nat
    <3>1. IInv'
      BY <1>11, StepIInv DEF Next, Call
    <3>2. size' \in Nat /\ size' = room - base'
      BY <2>1, <3>1 DEF IInv, TypeOK, StartFormat
    <3> QED
      BY <3>2
  <2> QED
    BY <1>9, <2>1, <2>2
<1>12. ASSUME NEW f \in Formats, Kprintf(f) PROVE Told'
  <2>1. StartFormat(f, PrintRoom) /\ caller' = "kprintf" /\ passes' = passes
    BY <1>12 DEF Kprintf, dying
  <2> QED
    BY <1>9, <1>n, <2>1
<1>13. CASE UNCHANGED vars
  <2>1. UNCHANGED <<pc, caller, fmt, size, at, j, stored, message, passes>>
    BY <1>13 DEF vars, text, dying
  <2> QED
    BY <2>1 DEF Told, Printed, Escaped, Measured, Reported, Done, Inside
<1>14. CASE Unsupported
  BY <1>14, <1>2 DEF Unsupported, Messages
<1>15. CASE AppendText
  <2>1. Done
    BY <1>15 DEF AppendText, Printing, Done
  <2> QED BY <1>15, <1>7, <1>8, <2>1 DEF AppendText
<1>16. CASE AppendAsserts \/ Halt
  <2>1. Done
    BY <1>16 DEF AppendAsserts, Halt, Printing, Done
  <2> QED BY <1>16, <1>7, <2>1 DEF AppendAsserts, Halt
<1>17. ASSUME NEW f \in PanicFormats, Panicf(f) PROVE Told'
  BY <1>17, <1>2 DEF Panicf, Messages
<1>18. CASE ChainDone
  BY <1>18, <1>8 DEF ChainDone
<1>19. CASE ReportMessage
  <2>1. PICK place \in Places : StartFormat(ReportText(place, end), PrintRoom)
    BY <1>19 DEF ReportMessage, Report
  <2>2. /\ caller' = "report" /\ message' = message /\ passes' = passes
        /\ pc = "returned" /\ caller = "panicf" /\ ~TooLong
    BY <1>19 DEF ReportMessage, Report, dying
  <2>3. message \in Messages /\ end = TextLen(message)
    BY <2>2, MessageMeasured
  <2> QED
    BY <1>5, <1>p, <2>1, <2>2, <2>3
<1>20. ASSUME NEW f \in PanicFormats, Panic(f) PROVE Told'
  <2>1. PICK place \in Places : StartFormat(ReportText(place, TextLen(f)), PrintRoom)
    BY <1>20 DEF Panic, Report
  <2>2. caller' = "report" /\ message' = f /\ passes' = 0 /\ f \in Messages
    BY <1>20 DEF Panic, Report, Messages
  <2> QED
    BY <1>5, <2>1, <2>2
<1> QED
  BY <1>1, <1>3, <1>4, <1>6, <1>10, <1>11, <1>12, <1>13, <1>14, <1>15, <1>16,
     <1>17, <1>18, <1>19, <1>20 DEF Next, Step, Call

(* Nothing has been printed at first. *)
LEMMA InitTold == Init => Told
<1> SUFFICES ASSUME Init PROVE Told
  OBVIOUS
<1>1. /\ fmt = <<>> /\ at = 1 /\ j = 0 /\ stored = {} /\ pc = "idle" /\ caller = "ksnprintf"
      /\ passes = 0
  BY DEF Init
<1>2. StartOf(<<>>)[1] = 0
  BY FormatsAreTexts, ReportsAreTexts, StartsFollow
<1>3. 1 .. (at - 1) = {}
  BY <1>1
<1> QED
  BY <1>1, <1>2, <1>3 DEF Told, Printed, Escaped, Measured, Reported, Done, Inside

(* The invariant holds in every reachable state. *)
THEOREM Invariance == Spec => [](IInv /\ Told)
<1>1. Init => IInv /\ Told
  BY InitIInv, InitTold
<1>2. (IInv /\ Told) /\ [Next]_vars => (IInv /\ Told)'
  BY StepIInv, StepTold
<1> QED
  BY <1>1, <1>2, PTL DEF Spec

(***************************************************************************)
(* Theorems                                                                *)
(***************************************************************************)
(* No size, offset or position of the formatter leaves its type. *)
THEOREM FormatTypes == Spec => []TypeOK
<1>1. IInv => TypeOK
  BY DEF IInv
<1> QED BY <1>1, Invariance, PTL

(* Whatever kvsnprintf prints, the buffer ends up with the beginning of    *)
(* the text and a zero behind it, for every format and every size.         *)
THEOREM BufferHoldsPrefix == Spec => []HoldsPrefix
<1>1. IInv => HoldsPrefix
  BY EndedHoldsPrefix DEF IInv
<1> QED BY <1>1, Invariance, PTL

(* ksnprintf's result is the offset of the zero, so that pieces appended   *)
(* one after the other, separated by blanks or not, never have more of the *)
(* buffer than is left, and the text of each goes on where the last ends.  *)
THEOREM PiecesStayInside == Spec => []PiecesChain
<1>1. IInv => PiecesChain
  <2> SUFFICES ASSUME IInv, caller = "ksnprintf", pc # "idle"
               PROVE  /\ base <= room /\ size = room - base
                      /\ pc = "returned" => Result = end
    BY DEF PiecesChain
  <2>1. base <= room /\ size = room - base
    BY DEF IInv, Chained
  <2>2. pc = "returned" => Result = end
    BY DEF IInv, Ended, Done, Result, Smaller, TypeOK
  <2> QED BY <2>1, <2>2
<1> QED BY <1>1, Invariance, PTL

(* What escapes is stated of single directives in the invariant. *)
LEMMA FieldsAreDirectives ==
  ASSUME NEW f, NEW n
  PROVE  FieldsStartInside(f, n) <=> \A i \in DOMAIN f : StartsInside(f, i, n)
  BY DEF FieldsStartInside, StartsInside

(* When a frame is lost, a directive behind the end was printed. *)
LEMMA LateWhenSmashed ==
  ASSUME IInv, Told, pc = "smashed" PROVE ~FieldsStartInside(fmt, size)
<1>1. fmt \in Seq(Directives) /\ at \in 1 .. (Len(fmt) + 1)
  BY TextsAreShort DEF IInv, TypeOK
<1>2. PICK i \in 1 .. (at - 1) : ~StartsInside(fmt, i, size)
  BY DEF Told, Escaped
<1>3. i \in DOMAIN fmt
  BY <1>1
<1> QED
  BY <1>2, <1>3, FieldsAreDirectives

(* The formatter stores outside its buffer if and only if a number, string or *)
(* pointer that prints anything begins behind the buffer's end, or "%%" is    *)
(* printed to an empty buffer, whatever the format and the size.              *)
THEOREM OnlyLateFieldsStoreOutside == Spec => []OnlyLateFieldsEscape
<1>1. IInv /\ Told => OnlyLateFieldsEscape
  <2> SUFFICES ASSUME IInv, Told PROVE OnlyLateFieldsEscape
    OBVIOUS
  <2>1. ASSUME Done PROVE Inside(stored) <=> FieldsStartInside(fmt, size)
    <3>1. fmt \in Seq(Directives) /\ at = Len(fmt) + 1
      BY <2>1, TextsAreShort DEF IInv, TypeOK, Told, Printed
    <3>2. 1 .. (at - 1) = DOMAIN fmt
      BY <3>1
    <3>3. Inside(stored) <=> \A i \in DOMAIN fmt : StartsInside(fmt, i, size)
      BY <3>2 DEF Told, Escaped
    <3> QED
      BY <3>3, FieldsAreDirectives
  <2> QED
    BY <2>1, LateWhenSmashed DEF OnlyLateFieldsEscape
<1> QED
  BY <1>1, Invariance, PTL

(* However long a message and however deep its format, panicf formats it at  *)
(* most twice, then hands the whole of it to kprintf, and of the report what *)
(* fits in kprintf's buffer is what the console gets: if the first pass has  *)
(* left panicf's frame intact.                                               *)
THEOREM PanicReportsItsMessage == Spec => []WholeMessageReported
<1>1. IInv /\ Told => WholeMessageReported
  <2> SUFFICES ASSUME IInv, Told PROVE WholeMessageReported
    OBVIOUS
  <2>1. /\ passes <= 2
        /\ caller = "report" => size = PrintRoom
        /\ caller = "report" => \E place \in Places : fmt = ReportText(place, TextLen(message))
    BY DEF Told, Reported
  <2>2. ASSUME caller = "report", Done
        PROVE  stored \cap 0 .. (PrintRoom - 1) = 0 .. (Smaller(TextLen(fmt), PrintRoom - 1) - 1)
    <3>1. j = TextLen(fmt)
      BY <2>2 DEF Told, Printed, TextLen
    <3>2. HoldsPrefix
      BY EndedHoldsPrefix DEF IInv
    <3> QED
      BY <2>1, <2>2, <3>1, <3>2 DEF HoldsPrefix
  <2> QED
    BY <2>1, <2>2 DEF WholeMessageReported
<1> QED
  BY <1>1, Invariance, PTL

(* In a buffer longer than the text every directive begins inside. *)
LEMMA LongBufferHoldsAll ==
  ASSUME NEW f \in Texts PROVE FieldsStartInside(f, TextLen(f) + 1)
<1>1. f \in Seq(Directives) /\ TextLen(f) \in Nat
  BY TextsAreShort
<1>2. ASSUME NEW i \in DOMAIN f PROVE StartsInside(f, i, TextLen(f) + 1)
  <2>0. i \in 1 .. Len(f) /\ f[i] \in Directives
    BY <1>1
  <2>1. i \in 1 .. Len(f) /\ f[i].len \in Nat
    BY <2>0 DEF Directives
  <2>2. /\ StartOf(f)[i] \in Nat /\ StartOf(f)[i + 1] = StartOf(f)[i] + f[i].len
        /\ StartOf(f)[i + 1] <= TextLen(f)
    BY <1>1, <2>1, StartsFollow
  <2>3. StartOf(f)[i] < TextLen(f) + 1 /\ TextLen(f) + 1 > 0
    BY <1>1, <2>1, <2>2
  <2> QED
    BY <2>3 DEF StartsInside
<1> QED
  BY <1>2, FieldsAreDirectives

(* A frame fits any buffer, as far as that matters. *)
LEMMA FrameStartsInside == FieldsStartInside(FrameText, PrintRoom)
<1>1. FrameText \in Seq(Directives) /\ PrintRoom > 0
  BY FormatsAreTexts, ReportsAreTexts, StdioAssumption
<1>2. StartOf(FrameText)[1] = 0
  BY <1>1, StartsFollow
<1>3. /\ DOMAIN FrameText = 1 .. 2 /\ FrameText[2].kind = "literal" /\ FrameText[1].kind = "field"
  BY DEF FrameText, Piece
<1>4. ASSUME NEW i \in 1 .. 2 PROVE StartsInside(FrameText, i, PrintRoom)
  BY <1>1, <1>2, <1>3 DEF StartsInside
<1> QED
  BY <1>3, <1>4, FieldsAreDirectives

(* In a panic the formatter stores outside a buffer only in the pass that    *)
(* measures the message: neither the second pass, nor the report, nor a line *)
(* of the stack can overrun, whatever the message.                           *)
THEOREM OnlyMeasuringOverruns == Spec => []OnlyMeasuringSmashes
<1>1. IInv /\ Told => OnlyMeasuringSmashes
  <2> SUFFICES ASSUME IInv, Told, Panicking, pc = "smashed"
               PROVE  passes = 1 /\ ~FieldsStartInside(message, 2)
    BY DEF OnlyMeasuringSmashes
  <2>1. ~FieldsStartInside(fmt, size)
    BY LateWhenSmashed
  <2>2. CASE caller = "panicf"
    <3>1. /\ message \in Texts /\ fmt = message /\ passes \in 1 .. 2
          /\ passes = 1 => size = 2
          /\ passes = 2 => size = TextLen(message) + 1
      BY <2>2, ReportsAreTexts DEF Told, Measured
    <3>2. passes # 2
      BY <2>1, <3>1, LongBufferHoldsAll
    <3> QED
      BY <2>1, <3>1, <3>2
  <2>3. CASE caller = "report"
    <3>1. PICK place \in Places : fmt = ReportText(place, TextLen(message)) /\ size = PrintRoom
      BY <2>3 DEF Told, Reported
    <3>2. TextLen(message) \in Nat
      <4>1. message \in Texts
        BY ReportsAreTexts DEF IInv, TypeOK
      <4> QED
        BY <4>1, TextsAreShort
    <3>3. \A i \in DOMAIN fmt : StartsInside(fmt, i, size)
      BY <3>1, <3>2, ReportIsText DEF StartsInside
    <3> QED
      BY <2>1, <3>3, FieldsAreDirectives
  <2>4. CASE caller = "dumpStack"
    BY <2>1, <2>4, FrameStartsInside DEF Told, Reported
  <2> QED
    BY <2>2, <2>3, <2>4 DEF Panicking
<1> QED
  BY <1>1, Invariance, PTL
=============================================================================
