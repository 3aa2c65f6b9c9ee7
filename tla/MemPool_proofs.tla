--------------------------- MODULE MemPool_proofs ---------------------------
(***************************************************************************)
(* What the kernel heap guarantees for every page size, every width of     *)
(* size_t, every arena and every sequence of calls.                        *)
(***************************************************************************)
EXTENDS MemPool, FiniteSetTheorems, SequenceTheorems, TLAPS

-----------------------------------------------------------------------------
(* The list operations of addFreeBlock and removeFreeBlock.                *)

(* The members of a list are what its places hold. *)
LEMMA Members ==
  ASSUME NEW S, NEW s \in Seq(S)
  PROVE  \A x : x \in ToSet(s) <=> \E i \in 1 .. Len(s) : s[i] = x
  BY DEF ToSet

(* Unlinking moves every later block up by one place. *)
LEMMA RemoveAtPlaces ==
  ASSUME NEW S, NEW s \in Seq(S), NEW i \in 1 .. Len(s), NEW r, r = RemoveAt(s, i)
  PROVE  /\ r \in Seq(S) /\ Len(r) = Len(s) - 1
         /\ \A j \in 1 .. Len(r) : /\ j < i => r[j] = s[j]
                                   /\ j >= i => r[j] = s[j + 1]
PROOF
<1> DEFINE front == SubSeq(s, 1, i - 1)
           back  == SubSeq(s, i + 1, Len(s))
<1>1. /\ front \in Seq(S) /\ Len(front) = i - 1
      /\ \A j \in 1 .. (i - 1) : front[j] = s[j]
  BY SubSeqProperties
<1>2. /\ back \in Seq(S) /\ Len(back) = Len(s) - i
      /\ \A j \in 1 .. (Len(s) - i) : back[j] = s[i + j]
  BY SubSeqProperties
<1>3. r = front \o back
  BY DEF RemoveAt
<1> HIDE DEF front, back
<1>4. /\ r \in Seq(S) /\ Len(r) = Len(front) + Len(back)
      /\ \A j \in 1 .. Len(front) + Len(back) :
           r[j] = IF j <= Len(front) THEN front[j] ELSE back[j - Len(front)]
  <2>1. front \in Seq(S) /\ back \in Seq(S)
    BY <1>1, <1>2
  <2>2. /\ front \o back \in Seq(S) /\ Len(front \o back) = Len(front) + Len(back)
        /\ \A j \in 1 .. Len(front) + Len(back) :
             (front \o back)[j] = IF j <= Len(front) THEN front[j] ELSE back[j - Len(front)]
    BY ONLY <2>1, ConcatProperties, ZenonT(60)
  <2> QED BY ONLY <2>2, <1>3, Zenon
<1>5. ASSUME NEW j \in 1 .. Len(r)
      PROVE  (j < i => r[j] = s[j]) /\ (j >= i => r[j] = s[j + 1])
  <2>1. CASE j < i
    BY <2>1, <1>1, <1>2, <1>4
  <2>2. CASE j >= i
    <3>1. PICK k : k = j - (i - 1)
      OBVIOUS
    <3>2. r[j] = back[k] /\ k \in 1 .. (Len(s) - i) /\ i + k = j + 1
      BY <2>2, <3>1, <1>1, <1>2, <1>4
    <3>3. back[k] = s[i + k]
      BY <3>2, <1>2
    <3> QED BY <3>2, <3>3, <2>2
  <2> QED BY <2>1, <2>2
<1> QED BY <1>1, <1>2, <1>4, <1>5

(* Linking a block in at a place moves every later block down by one. *)
LEMMA InsertAtPlaces ==
  ASSUME NEW S, NEW s \in Seq(S), NEW e \in S, NEW i \in Nat, 1 <= i, i <= Len(s) + 1,
         NEW r, r = InsertAt(s, i, e)
  PROVE  /\ r \in Seq(S) /\ Len(r) = Len(s) + 1
         /\ \A j \in 1 .. Len(r) : /\ j < i => r[j] = s[j]
                                   /\ j = i => r[j] = e
                                   /\ j > i => r[j] = s[j - 1]
PROOF
<1> DEFINE front == SubSeq(s, 1, i - 1)
           back  == SubSeq(s, i, Len(s))
           head  == front \o <<e>>
<1>1. /\ front \in Seq(S) /\ Len(front) = i - 1
      /\ \A j \in 1 .. (i - 1) : front[j] = s[j]
  BY SubSeqProperties
<1>2. /\ back \in Seq(S) /\ Len(back) = Len(s) - i + 1
      /\ \A j \in 1 .. (Len(s) - i + 1) : back[j] = s[i + j - 1]
  BY SubSeqProperties
<1>3. r = head \o back
  BY DEF InsertAt
<1> HIDE DEF front, back
<1>4. /\ head \in Seq(S) /\ Len(head) = i
      /\ \A j \in 1 .. i : /\ j < i => head[j] = s[j]
                           /\ j = i => head[j] = e
  BY <1>1, ConcatProperties, <<e>> \in Seq(S)
<1> HIDE DEF head
<1>5. /\ r \in Seq(S) /\ Len(r) = Len(head) + Len(back)
      /\ \A j \in 1 .. Len(head) + Len(back) :
           r[j] = IF j <= Len(head) THEN head[j] ELSE back[j - Len(head)]
  <2>1. head \in Seq(S) /\ back \in Seq(S)
    BY <1>2, <1>4
  <2>2. /\ head \o back \in Seq(S) /\ Len(head \o back) = Len(head) + Len(back)
        /\ \A j \in 1 .. Len(head) + Len(back) :
             (head \o back)[j] = IF j <= Len(head) THEN head[j] ELSE back[j - Len(head)]
    BY ONLY <2>1, ConcatProperties, ZenonT(60)
  <2> QED BY ONLY <2>2, <1>3, Zenon
<1>6. ASSUME NEW j \in 1 .. Len(r)
      PROVE  /\ j < i => r[j] = s[j]
             /\ j = i => r[j] = e
             /\ j > i => r[j] = s[j - 1]
  <2>1. CASE j <= i
    BY <2>1, <1>2, <1>4, <1>5
  <2>2. CASE j > i
    <3>1. PICK k : k = j - i
      OBVIOUS
    <3>2. /\ k \in 1 .. (Len(s) - i + 1) /\ i + k - 1 = j - 1
          /\ j \in 1 .. Len(head) + Len(back) /\ ~(j <= Len(head)) /\ j - Len(head) = k
      BY <2>2, <3>1, <1>2, <1>4, <1>5
    <3>3. r[j] = back[k]
      BY ONLY <3>2, <1>5
    <3>4. back[k] = s[j - 1]
      BY ONLY <3>2, <1>2
    <3>5. r[j] = s[j - 1]
      BY ONLY <3>3, <3>4
    <3> QED BY <3>5, <2>2
  <2> QED BY <2>1, <2>2
<1> QED BY <1>2, <1>4, <1>5, <1>6

(* Unlinking takes one block off the list and leaves the rest. *)
LEMMA RemoveAtMembers ==
  ASSUME NEW S, NEW s \in Seq(S), NEW i \in 1 .. Len(s), IsInjective(s),
         NEW r, r = RemoveAt(s, i)
  PROVE  ToSet(r) = ToSet(s) \ {s[i]} /\ IsInjective(r)
PROOF
<1>1. /\ r \in Seq(S) /\ Len(r) = Len(s) - 1
      /\ \A j \in 1 .. Len(r) : /\ j < i => r[j] = s[j]
                                /\ j >= i => r[j] = s[j + 1]
  BY RemoveAtPlaces
<1>2. \A a, b \in 1 .. Len(s) : s[a] = s[b] => a = b
  BY DEF IsInjective
<1>3. ASSUME NEW x \in ToSet(r) PROVE x \in ToSet(s) /\ x # s[i]
  <2>1. PICK j \in 1 .. Len(r) : r[j] = x
    BY <1>1, Members
  <2>2. CASE j < i
    <3>1. j \in 1 .. Len(s) /\ s[j] = x /\ j # i
      BY <2>1, <2>2, <1>1
    <3> QED BY <3>1, <1>2, Members
  <2>3. CASE j >= i
    <3>1. j + 1 \in 1 .. Len(s) /\ s[j + 1] = x /\ j + 1 # i
      BY <2>1, <2>3, <1>1
    <3> QED BY <3>1, <1>2, Members
  <2> QED BY <2>2, <2>3, <2>1
<1>4. ASSUME NEW a \in 1 .. Len(s), a # i PROVE \E b \in 1 .. Len(r) : r[b] = s[a]
  <2>1. CASE a < i
    BY <2>1, <1>1
  <2>2. CASE a > i
    <3>1. a - 1 \in 1 .. Len(r) /\ r[a - 1] = s[a]
      BY <2>2, <1>1
    <3> QED BY <3>1
  <2> QED BY <2>1, <2>2, <1>4
<1>5. ASSUME NEW x \in ToSet(s), x # s[i] PROVE x \in ToSet(r)
  <2>1. PICK a \in 1 .. Len(s) : s[a] = x
    BY Members
  <2>2. PICK b \in 1 .. Len(r) : r[b] = s[a]
    BY <1>4, <1>5, <2>1
  <2> QED BY <2>1, <2>2, <1>1, Members
<1>6. ASSUME NEW a \in 1 .. Len(r), NEW b \in 1 .. Len(r), r[a] = r[b]
      PROVE  a = b
  <2>1. PICK c, d : /\ c = IF a < i THEN a ELSE a + 1
                    /\ d = IF b < i THEN b ELSE b + 1
    OBVIOUS
  <2>2. c \in 1 .. Len(s) /\ d \in 1 .. Len(s)
    BY <2>1, <1>1
  <2>3. r[a] = s[c]
    <3>1. CASE a < i
      BY <3>1, <2>1, <1>1
    <3>2. CASE ~(a < i)
      BY <3>2, <2>1, <1>1
    <3> QED BY <3>1, <3>2
  <2>4. r[b] = s[d]
    <3>1. CASE b < i
      BY <3>1, <2>1, <1>1
    <3>2. CASE ~(b < i)
      BY <3>2, <2>1, <1>1
    <3> QED BY <3>1, <3>2
  <2>5. c = d
    BY <2>2, <2>3, <2>4, <1>2, <1>6
  <2> QED BY <2>1, <2>5
<1>7. IsInjective(r)
  BY <1>1, <1>6 DEF IsInjective
<1> QED BY <1>3, <1>5, <1>7

(* Linking puts one block on the list and leaves the rest. *)
LEMMA InsertAtMembers ==
  ASSUME NEW S, NEW s \in Seq(S), NEW i \in 1 .. (Len(s) + 1), NEW e \in S,
         IsInjective(s), e \notin ToSet(s), NEW r, r = InsertAt(s, i, e)
  PROVE  ToSet(r) = ToSet(s) \cup {e} /\ IsInjective(r)
PROOF
<1>1. /\ r \in Seq(S) /\ Len(r) = Len(s) + 1
      /\ \A j \in 1 .. Len(r) : /\ j < i => r[j] = s[j]
                                /\ j = i => r[j] = e
                                /\ j > i => r[j] = s[j - 1]
  BY InsertAtPlaces
<1>2. /\ \A a, b \in 1 .. Len(s) : s[a] = s[b] => a = b
      /\ \A a \in 1 .. Len(s) : s[a] # e
  BY DEF IsInjective, ToSet
<1>3. ASSUME NEW x \in ToSet(r) PROVE x \in ToSet(s) \cup {e}
  <2>1. PICK b \in 1 .. Len(r) : r[b] = x
    BY <1>1, Members
  <2>2. CASE b < i
    BY <2>1, <2>2, <1>1, Members
  <2>3. CASE b = i
    BY <2>1, <2>3, <1>1
  <2>4. CASE b > i
    <3>1. b - 1 \in 1 .. Len(s) /\ s[b - 1] = x
      BY <2>1, <2>4, <1>1
    <3> QED BY <3>1, Members
  <2> QED BY <2>2, <2>3, <2>4
<1>4. ASSUME NEW a \in 1 .. Len(s) PROVE \E b \in 1 .. Len(r) : r[b] = s[a]
  <2>1. CASE a < i
    BY <2>1, <1>1
  <2>2. CASE a >= i
    <3>1. a + 1 \in 1 .. Len(r) /\ r[a + 1] = s[a]
      BY <2>2, <1>1
    <3> QED BY <3>1
  <2> QED BY <2>1, <2>2
<1>5. e \in ToSet(r)
  BY <1>1 DEF ToSet
<1>6. ASSUME NEW x \in ToSet(s) PROVE x \in ToSet(r)
  <2>1. PICK a \in 1 .. Len(s) : s[a] = x
    BY Members
  <2>2. PICK b \in 1 .. Len(r) : r[b] = s[a]
    BY <1>4
  <2> QED BY <2>1, <2>2, <1>1, Members
<1>7. ASSUME NEW a \in 1 .. Len(r), NEW b \in 1 .. Len(r), r[a] = r[b], a < b
      PROVE  FALSE
  <2>1. CASE b < i
    BY <2>1, <1>1, <1>2, <1>7
  <2>2. CASE b = i
    BY <2>2, <1>1, <1>2, <1>7
  <2>3. CASE a < i /\ b > i
    <3>1. r[a] = s[a] /\ r[b] = s[b - 1] /\ a \in 1 .. Len(s) /\ b - 1 \in 1 .. Len(s)
      BY <2>3, <1>1
    <3>2. a = b - 1
      BY <3>1, <1>2, <1>7
    <3> QED BY <3>2, <2>3
  <2>4. CASE a = i /\ b > i
    BY <2>4, <1>1, <1>2, <1>7
  <2>5. CASE a > i
    <3>1. r[a] = s[a - 1] /\ r[b] = s[b - 1] /\ a - 1 \in 1 .. Len(s) /\ b - 1 \in 1 .. Len(s)
      BY <2>5, <1>1, <1>7
    <3>2. a - 1 = b - 1
      BY <3>1, <1>2, <1>7
    <3> QED BY <3>2, <1>7
  <2> QED BY <2>1, <2>2, <2>3, <2>4, <2>5, <1>7
<1>8. IsInjective(r)
  BY <1>1, <1>7 DEF IsInjective
<1> QED BY <1>3, <1>5, <1>6, <1>8

-----------------------------------------------------------------------------
(* The inductive invariant.                                                *)

(* Which local variables a running call has set. *)
Control ==
  /\ pc \in {"idle", "find"} => from = "none" /\ cur = 0
  /\ pc \in {"add", "smashed"} => /\ from \in {"split", "grow", "free"} /\ cur \in Arena
                                  /\ n \in 1 .. (Len(freeBlocks) + 1) /\ addAt < n
  /\ from = "split" => block \in Arena /\ block + HeaderSize \in Arena
  /\ from # "split" => block = 0
  /\ from = "grow" => try <= 1
  /\ pc = "find" \/ from \in {"split", "grow"} => req \in Sizes

(* The blocks lie in the memory getPage handed out, and there is no memory beside them. *)
Covering ==
  /\ \A b \in Blocks : Extent(b) \subseteq handed
  /\ \A x \in handed : \E b \in Blocks : x \in Extent(b)

(* What a client holds is at least what it asked for and its data begins in memory. *)
Served == \A b \in live : asked[b] <= size[b] /\ b + HeaderSize \in Arena

(* Every block on the list has room for its link, and so has one on the way to it,
   unless it is the tail of a split. *)
LinkFits ==
  /\ \A b \in ToSet(freeBlocks) : size[b] >= LinkSize
  /\ pc \in {"add", "smashed"} /\ from # "split" => size[cur] >= LinkSize
  /\ pc = "smashed" => size[cur] < LinkSize

(* The list is in order of size. *)
Ordered ==
  \A i, j \in 1 .. Len(freeBlocks) :
    i < j => size[freeBlocks[i]] <= size[freeBlocks[j]]

(* What a scan that has merged nothing knows of the blocks it has passed. *)
Scanned ==
  pc = "add" /\ ~merged =>
    \A i \in 1 .. (n - 1) : /\ ~Touches(freeBlocks[i], cur)
                            /\ i <= addAt <=> size[freeBlocks[i]] <= size[cur]

Layout == NoOverlap /\ Covering

IInv == /\ TypeOK /\ Control /\ OneOwner /\ Layout /\ Served /\ LinkFits
        /\ Ordered /\ Scanned /\ Coalesced

-----------------------------------------------------------------------------
(* How a step may change the layout.                                       *)

(* No block moves. *)
LEMMA LayoutKept ==
  ASSUME Layout, Blocks' = Blocks, handed' = handed,
         \A b \in Blocks : Extent(b)' = Extent(b)
  PROVE  Layout'
  BY DEF Layout, NoOverlap, Covering

(* A block takes over a neighbour. *)
LEMMA LayoutMerged ==
  ASSUME Layout, handed' = handed,
         NEW low \in Blocks, NEW high \in Blocks, low # high,
         Blocks' = Blocks \ {high},
         Extent(low)' = Extent(low) \cup Extent(high),
         \A b \in Blocks' : b # low => Extent(b)' = Extent(b)
  PROVE  Layout'
  BY DEF Layout, NoOverlap, Covering

(* A block gives its tail to a new one. *)
LEMMA LayoutSplit ==
  ASSUME Layout, handed' = handed,
         NEW b \in Blocks, NEW tail, tail \notin Blocks,
         Blocks' = Blocks \cup {tail},
         Extent(b) = Extent(b)' \cup Extent(tail)', Extent(b)' \cap Extent(tail)' = {},
         \A c \in Blocks : c # b => Extent(c)' = Extent(c)
  PROVE  Layout'
  BY DEF Layout, NoOverlap, Covering

(* New memory arrives as one block. *)
LEMMA LayoutGrown ==
  ASSUME Layout, NEW base, base \notin Blocks,
         Blocks' = Blocks \cup {base},
         Extent(base)' \cap handed = {}, handed' = handed \cup Extent(base)',
         \A c \in Blocks : Extent(c)' = Extent(c)
  PROVE  Layout'
  BY DEF Layout, NoOverlap, Covering

-----------------------------------------------------------------------------
(* Consequences of the invariant that every step uses.                     *)

(* What the assumption says of zero and of the arena. *)
LEMMA ConstantFacts ==
  /\ 0 \in 0 .. (SizeLimit - 1) /\ 0 \in 0 .. (CountLimit - 1)
  /\ 0 \notin Arena /\ Arena \subseteq Nat /\ Sizes \subseteq Nat
  /\ HeaderSize \in Nat /\ LinkSize \in Nat /\ PageSize \in Nat
  /\ 0 < LinkSize /\ LinkSize <= HeaderSize /\ HeaderSize + LinkSize <= PageSize
  BY MemPoolAssumption DEF MemPoolAssumption

(* A run of addresses is the run of its first d and the run of the other e. *)
LEMMA CutRun ==
  ASSUME NEW a \in Nat, NEW d \in Nat, NEW e \in Nat
  PROVE  /\ a .. (a + d + e - 1) = (a .. (a + d - 1)) \cup ((a + d) .. (a + d + e - 1))
         /\ (a .. (a + d - 1)) \cap ((a + d) .. (a + d + e - 1)) = {}
PROOF
<1>1. ASSUME NEW x \in a .. (a + d + e - 1)
      PROVE  x \in a .. (a + d - 1) \/ x \in (a + d) .. (a + d + e - 1)
  BY <1>1
<1>2. ASSUME NEW x \in a .. (a + d - 1)
      PROVE  x \in a .. (a + d + e - 1) /\ x \notin (a + d) .. (a + d + e - 1)
  BY <1>2
<1>3. ASSUME NEW x \in (a + d) .. (a + d + e - 1) PROVE x \in a .. (a + d + e - 1)
  BY <1>3
<1> QED BY <1>1, <1>2, <1>3

(* Every block starts in the arena, has a size and contains its own address. *)
LEMMA BlockFacts ==
  ASSUME TypeOK, Control, NEW b \in Blocks
  PROVE  b \in Arena /\ b \in Nat /\ size[b] \in Nat /\ Width(b) \in Nat /\ b \in Extent(b)
PROOF
<1>1. freeBlocks \in Seq(Arena)
  BY DEF TypeOK
<1>2. ToSet(freeBlocks) \subseteq Arena
  <2> SUFFICES ASSUME NEW x \in ToSet(freeBlocks) PROVE x \in Arena
    OBVIOUS
  <2>1. PICK i \in 1 .. Len(freeBlocks) : freeBlocks[i] = x
    BY <1>1, Members
  <2> QED BY <1>1, <2>1
<1>3. Splitting \subseteq Arena
  BY DEF Splitting, Control
<1>4. InFlight \subseteq Arena
  BY <1>3 DEF InFlight, TypeOK
<1>5. b \in Arena
  BY <1>2, <1>4 DEF Blocks, TypeOK
<1>6. b \in Nat /\ size[b] \in Nat /\ req \in Nat
  BY <1>5, MemPoolAssumption DEF MemPoolAssumption, TypeOK
<1>7. Width(b) \in Nat
  BY <1>6 DEF Width
<1> QED BY <1>5, <1>6, <1>7, MemPoolAssumption DEF MemPoolAssumption, Extent

(* The state before the first call. *)
LEMMA InitInv == ASSUME Init PROVE IInv
PROOF
<1>1. ToSet(freeBlocks) = {} /\ InFlight = {} /\ Blocks = {}
  BY DEF Init, ToSet, InFlight, Splitting, Blocks
<1>2. TypeOK
  <2>1. size \in [Arena -> Nat] /\ asked \in [Arena -> Nat] /\ freeBlocks \in Seq(Arena)
    BY DEF Init
  <2>2. /\ sizeInUse \in Int /\ sizeFree \in Int
        /\ allocCount \in 0 .. (CountLimit - 1) /\ freeCount \in 0 .. (CountLimit - 1)
    BY ConstantFacts DEF Init
  <2>3. /\ req \in 0 .. (SizeLimit - 1) /\ try \in 0 .. 2 /\ n \in Nat /\ addAt \in Nat
        /\ block \in Arena \cup {0} /\ cur \in Arena \cup {0}
    BY ConstantFacts DEF Init
  <2> QED BY <2>1, <2>2, <2>3 DEF Init, TypeOK
<1>3. Control /\ Served /\ Ordered /\ Scanned
  BY DEF Init, Control, Served, Ordered, Scanned
<1>4. OneOwner
  BY <1>1 DEF Init, OneOwner, IsInjective
<1>5. Layout
  BY <1>1 DEF Init, Layout, NoOverlap, Covering
<1>6. LinkFits /\ Coalesced
  BY <1>1 DEF Init, LinkFits, Coalesced
<1> QED BY <1>2, <1>3, <1>4, <1>5, <1>6 DEF IInv

-----------------------------------------------------------------------------
(* The steps that leave the list and the headers alone.                    *)

(* A step that changes neither list, headers, memory nor the blocks keeps the layout. *)
LEMMA LayoutSame ==
  ASSUME Layout, Blocks' = Blocks, UNCHANGED <<size, handed>>,
         \A b \in Blocks : Width(b)' = Width(b)
  PROVE  Layout'
  BY LayoutKept DEF Extent

(* kalloc is called. *)
LEMMA AllocCallInv == ASSUME IInv, NEW s \in Sizes, AllocCall(s) PROVE IInv'
PROOF
<1> USE DEF IInv
<1>1. Blocks' = Blocks /\ InFlight' = InFlight /\ Splitting' = Splitting
  BY DEF AllocCall, Blocks, InFlight, Splitting, Control, mem, held, scan
<1>2. TypeOK'
  BY MemPoolAssumption DEF MemPoolAssumption, AllocCall, TypeOK, mem, stats, held, scan
<1>3. Control'
  BY DEF AllocCall, Control, mem, scan
<1>4. OneOwner'
  BY <1>1 DEF AllocCall, OneOwner, mem, held, scan
<1>5. Layout'
  <2>1. \A b \in Blocks : Width(b)' = Width(b)
    BY <1>1 DEF AllocCall, Width, Splitting, Control, mem
  <2> QED BY <1>1, <2>1, LayoutSame DEF AllocCall, mem
<1>6. Served' /\ LinkFits' /\ Ordered' /\ Scanned' /\ Coalesced'
  BY DEF AllocCall, Served, LinkFits, Ordered, Scanned, Coalesced, End, mem, held, scan
<1> QED BY <1>2, <1>3, <1>4, <1>5, <1>6

(* alloc gives up. *)
LEMMA AllocFailsInv == ASSUME IInv, AllocFails PROVE IInv'
PROOF
<1> USE DEF IInv
<1>1. Blocks' = Blocks /\ InFlight' = InFlight /\ Splitting' = Splitting
  BY DEF AllocFails, Return, Blocks, InFlight, Splitting, Control, mem, held
<1>2. TypeOK'
  <2>1. /\ freeBlocks' \in Seq(Arena) /\ size' \in [Arena -> Nat] /\ handed' \subseteq Arena
        /\ live' \subseteq Arena /\ dropped' \subseteq Arena /\ asked' \in [Arena -> Nat]
    BY DEF AllocFails, TypeOK, mem, held
  <2>2. /\ sizeInUse' \in Int /\ sizeFree' \in Int
        /\ allocCount' \in 0 .. (CountLimit - 1) /\ freeCount' \in 0 .. (CountLimit - 1)
    BY DEF AllocFails, TypeOK, stats
  <2>3. /\ req' \in 0 .. (SizeLimit - 1) /\ try' \in 0 .. 2 /\ n' \in Nat /\ addAt' \in Nat
        /\ block' \in Arena \cup {0} /\ cur' \in Arena \cup {0}
    BY ConstantFacts DEF AllocFails, Return
  <2> QED BY <2>1, <2>2, <2>3 DEF AllocFails, Return, TypeOK
<1>3. Control'
  BY DEF AllocFails, Return, Control, mem
<1>4. OneOwner'
  BY <1>1 DEF AllocFails, Return, OneOwner, mem, held
<1>5. Layout'
  <2>1. \A b \in Blocks : Width(b)' = Width(b)
    BY <1>1 DEF AllocFails, Return, Width, Splitting, Control, mem
  <2> QED BY <1>1, <2>1, LayoutSame DEF AllocFails, mem
<1>6. Served' /\ LinkFits' /\ Ordered' /\ Scanned' /\ Coalesced'
  BY DEF AllocFails, Return, Served, LinkFits, Ordered, Scanned, Coalesced, End, mem, held
<1> QED BY <1>2, <1>3, <1>4, <1>5, <1>6

(* free drops a small block: it stays where it is and belongs to nobody. *)
LEMMA FreeIgnoredInv == ASSUME IInv, NEW b \in live, FreeIgnored(b) PROVE IInv'
PROOF
<1> USE DEF IInv
<1>1. Blocks' = Blocks /\ InFlight' = InFlight /\ Splitting' = Splitting
  BY DEF FreeIgnored, Blocks, InFlight, Splitting, mem, call, scan
<1>2. TypeOK'
  BY DEF FreeIgnored, TypeOK, mem, stats, call, scan
<1>3. Control'
  BY DEF FreeIgnored, Control, mem, call, scan
<1>4. OneOwner'
  BY <1>1 DEF FreeIgnored, OneOwner, mem, call, scan
<1>5. Layout'
  <2>1. \A c \in Blocks : Width(c)' = Width(c)
    BY <1>1 DEF FreeIgnored, Width, mem, call
  <2> QED BY <1>1, <2>1, LayoutSame DEF FreeIgnored, mem
<1>6. Served'
  BY DEF FreeIgnored, Served, TypeOK, mem
<1>7. LinkFits' /\ Ordered' /\ Scanned' /\ Coalesced'
  BY DEF FreeIgnored, LinkFits, Ordered, Scanned, Coalesced, Touches, End, mem, call, scan
<1> QED BY <1>2, <1>3, <1>4, <1>5, <1>6, <1>7

(* free takes a block back into its hands. *)
LEMMA FreeInv == ASSUME IInv, NEW b \in live, Free(b) PROVE IInv'
PROOF
<1> USE DEF IInv
<1>1. b \in Arena /\ b # 0 /\ size[b] \in Nat
  BY MemPoolAssumption DEF MemPoolAssumption, TypeOK
<1>2. Splitting = {} /\ Splitting' = {} /\ InFlight = {} /\ InFlight' = {b}
  BY <1>1 DEF Free, AddFreeBlock, InFlight, Splitting, Control
<1>3. Blocks' = Blocks
  BY <1>2 DEF Free, Blocks, mem
<1>4. TypeOK'
  <2>1. asked' \in [Arena -> Nat] /\ live' \subseteq Arena /\ sizeInUse' \in Int
    BY <1>1 DEF Free, TypeOK
  <2>2. freeBlocks' \in Seq(Arena) /\ size' \in [Arena -> Nat] /\ handed' \subseteq Arena
    BY DEF Free, TypeOK, mem
  <2> QED BY <1>1, <2>1, <2>2 DEF Free, AddFreeBlock, TypeOK
<1>5. Control'
  <2>1. Len(freeBlocks) \in Nat
    BY DEF TypeOK
  <2> QED BY <1>1, <2>1 DEF Free, AddFreeBlock, Control, mem
<1>6. OneOwner'
  BY <1>2 DEF Free, AddFreeBlock, OneOwner, mem
<1>7. Layout'
  <2>1. \A c \in Blocks : Width(c)' = Width(c)
    BY <1>2 DEF Free, Width, mem
  <2> QED BY <1>3, <2>1, LayoutSame DEF Free, mem
<1>8. Served'
  BY DEF Free, Served, TypeOK, mem
<1>9. LinkFits'
  BY <1>1, MemPoolAssumption DEF MemPoolAssumption, Free, AddFreeBlock, LinkFits, mem
<1>10. Ordered' /\ Scanned' /\ Coalesced'
  BY DEF Free, AddFreeBlock, Ordered, Scanned, Coalesced, End, mem
<1> QED BY <1>4, <1>5, <1>6, <1>7, <1>8, <1>9, <1>10

(* Every place of the list holds a block of the arena, with its size. *)
LEMMA ListPlaces ==
  ASSUME TypeOK
  PROVE  /\ freeBlocks \in Seq(Arena) /\ Len(freeBlocks) \in Nat
         /\ DOMAIN freeBlocks = 1 .. Len(freeBlocks)
         /\ \A i \in 1 .. Len(freeBlocks) : /\ freeBlocks[i] \in Arena
                                            /\ freeBlocks[i] \in ToSet(freeBlocks)
                                            /\ size[freeBlocks[i]] \in Nat
PROOF
<1>1. freeBlocks \in Seq(Arena) /\ size \in [Arena -> Nat]
  BY DEF TypeOK
<1>2. Len(freeBlocks) \in Nat /\ DOMAIN freeBlocks = 1 .. Len(freeBlocks)
  BY ONLY <1>1
<1>3. ASSUME NEW i \in 1 .. Len(freeBlocks)
      PROVE  /\ freeBlocks[i] \in Arena /\ freeBlocks[i] \in ToSet(freeBlocks)
             /\ size[freeBlocks[i]] \in Nat
  <2>1. freeBlocks[i] \in Arena
    BY ONLY <1>1, <1>3
  <2>2. freeBlocks[i] \in ToSet(freeBlocks)
    BY ONLY <1>1, <1>3, Members
  <2> QED BY ONLY <1>1, <2>1, <2>2
<1> QED BY ONLY <1>1, <1>2, <1>3

(* The scan passes a block. *)
LEMMA PassInv == ASSUME IInv, Pass PROVE IInv'
PROOF
<1> USE DEF IInv
<1>1. Blocks' = Blocks /\ InFlight' = InFlight /\ Splitting' = Splitting
  BY DEF Pass, Blocks, InFlight, Splitting, mem, held, call
<1>2. /\ Len(freeBlocks) \in Nat /\ n \in 1 .. Len(freeBlocks) /\ addAt \in Nat /\ addAt < n
      /\ freeBlocks' = freeBlocks /\ size' = size /\ cur' = cur /\ n' = n + 1
  BY DEF Pass, Scanning, TypeOK, Control, mem
<1>3. TypeOK'
  <2>1. n' \in Nat /\ addAt' \in Nat
    BY <1>2 DEF Pass
  <2> QED BY <2>1 DEF Pass, TypeOK, mem, stats, held, call
<1>4. Control'
  BY <1>2 DEF Pass, Control, call
<1>5. OneOwner'
  BY <1>1 DEF Pass, OneOwner, mem, held, call
<1>6. Layout'
  <2>1. \A c \in Blocks : Width(c)' = Width(c)
    BY <1>1 DEF Pass, Width, mem, call
  <2> QED BY <1>1, <2>1, LayoutSame DEF Pass, mem
<1>7. Served' /\ LinkFits' /\ Ordered' /\ Coalesced'
  BY <1>2 DEF Pass, Served, LinkFits, Ordered, Coalesced, End, mem, held, call
<1>8. Scanned'
  <2> SUFFICES ASSUME ~merged, NEW i \in 1 .. n
               PROVE  /\ ~Touches(freeBlocks[i], cur)
                      /\ i <= addAt' <=> size[freeBlocks[i]] <= size[cur]
    BY <1>2 DEF Pass, Scanned, Touches, End
  <2>1. \A j \in 1 .. Len(freeBlocks) : freeBlocks[j] \in Arena /\ size[freeBlocks[j]] \in Nat
    BY ListPlaces
  <2>2. size[cur] \in Nat /\ pc = "add"
    BY DEF Pass, Scanning, Control, TypeOK
  <2>3. ~Touches(freeBlocks[i], cur)
    <3>1. CASE i = n
      BY <3>1 DEF Pass
    <3>2. CASE i # n
      <4>1. i \in 1 .. (n - 1)
        BY <1>2, <3>2
      <4>2. \A j \in 1 .. (n - 1) : ~Touches(freeBlocks[j], cur)
        BY <2>2, Zenon DEF Scanned
      <4> QED BY <4>1, <4>2
    <3> QED BY <3>1, <3>2
  <2>4. CASE size[cur] >= size[freeBlocks[n]]
    <3>1. addAt' = n
      BY <2>4 DEF Pass
    <3>2. size[freeBlocks[i]] <= size[freeBlocks[n]]
      BY <1>2, <2>1 DEF Ordered
    <3>3. size[freeBlocks[i]] \in Nat /\ size[freeBlocks[n]] \in Nat
      BY <1>2, <2>1
    <3> QED BY <3>1, <3>2, <3>3, <2>2, <2>3, <2>4
  <2>5. CASE size[cur] < size[freeBlocks[n]]
    <3>1. addAt' = addAt
      BY <2>5, <2>1, <2>2, <1>2 DEF Pass
    <3>2. CASE i = n
      BY <3>1, <3>2, <2>5, <2>1, <2>2, <2>3, <1>2
    <3>3. CASE i # n
      BY <3>1, <3>3, <2>2, <2>3, <1>2 DEF Scanned
    <3> QED BY <3>2, <3>3
  <2> QED BY <2>1, <2>2, <2>4, <2>5, <1>2
<1> QED BY <1>3, <1>4, <1>5, <1>6, <1>7, <1>8

(* The scan starts again. *)
LEMMA RescanInv == ASSUME IInv, Rescan PROVE IInv'
PROOF
<1> USE DEF IInv
<1>1. Blocks' = Blocks /\ InFlight' = InFlight /\ Splitting' = Splitting
  BY DEF Rescan, Blocks, InFlight, Splitting, mem, held, call
<1>2. TypeOK'
  BY DEF Rescan, TypeOK, mem, stats, held, call
<1>3. Control'
  <2>1. Len(freeBlocks) \in Nat
    BY DEF TypeOK
  <2> QED BY <2>1 DEF Rescan, Control, mem, call
<1>4. OneOwner'
  BY <1>1 DEF Rescan, OneOwner, mem, held, call
<1>5. Layout'
  <2>1. \A c \in Blocks : Width(c)' = Width(c)
    BY <1>1 DEF Rescan, Width, mem, call
  <2> QED BY <1>1, <2>1, LayoutSame DEF Rescan, mem
<1>6. Served' /\ LinkFits' /\ Ordered' /\ Scanned' /\ Coalesced'
  BY DEF Rescan, Served, LinkFits, Ordered, Scanned, Coalesced, End, mem, held, call
<1> QED BY <1>2, <1>3, <1>4, <1>5, <1>6

(* The link does not fit; from then on nothing is defined and nothing is modelled. *)
LEMMA LinkOverrunInv == ASSUME IInv, LinkOverrun PROVE IInv'
PROOF
<1> USE DEF IInv
<1>1. Blocks' = Blocks /\ InFlight' = InFlight /\ Splitting' = Splitting
  BY DEF LinkOverrun, Blocks, InFlight, Splitting, mem, held, call, scan
<1>2. TypeOK'
  BY DEF LinkOverrun, TypeOK, mem, stats, held, call, scan
<1>3. Control'
  BY DEF LinkOverrun, AtInsert, Control, mem, call, scan
<1>4. OneOwner'
  BY <1>1 DEF LinkOverrun, OneOwner, mem, held, call, scan
<1>5. Layout'
  <2>1. \A c \in Blocks : Width(c)' = Width(c)
    BY <1>1 DEF LinkOverrun, Width, mem, call
  <2> QED BY <1>1, <2>1, LayoutSame DEF LinkOverrun, mem
<1>6. Served' /\ LinkFits' /\ Ordered' /\ Scanned' /\ Coalesced'
  BY DEF LinkOverrun, AtInsert, Served, LinkFits, Ordered, Scanned, Coalesced, End, mem, held,
         call, scan
<1> QED BY <1>2, <1>3, <1>4, <1>5, <1>6

-----------------------------------------------------------------------------
(* The steps that unlink a block.                                          *)

(* The list after a block was unlinked: its members, their order, its length. *)
LEMMA Unlinked ==
  ASSUME IInv, NEW i \in 1 .. Len(freeBlocks), freeBlocks' = RemoveAt(freeBlocks, i)
  PROVE  /\ freeBlocks' \in Seq(Arena) /\ Len(freeBlocks') = Len(freeBlocks) - 1
         /\ ToSet(freeBlocks') = ToSet(freeBlocks) \ {freeBlocks[i]}
         /\ freeBlocks[i] \in ToSet(freeBlocks)
         /\ IsInjective(freeBlocks')
         /\ \A j \in 1 .. Len(freeBlocks') : /\ j < i => freeBlocks'[j] = freeBlocks[j]
                                             /\ j >= i => freeBlocks'[j] = freeBlocks[j + 1]
PROOF
<1>1. freeBlocks \in Seq(Arena) /\ IsInjective(freeBlocks)
  BY DEF IInv, TypeOK, OneOwner
<1>2. freeBlocks[i] \in ToSet(freeBlocks)
  BY <1>1, Members
<1>3. /\ freeBlocks' \in Seq(Arena) /\ Len(freeBlocks') = Len(freeBlocks) - 1
      /\ \A j \in 1 .. Len(freeBlocks') : /\ j < i => freeBlocks'[j] = freeBlocks[j]
                                          /\ j >= i => freeBlocks'[j] = freeBlocks[j + 1]
  BY <1>1, RemoveAtPlaces
<1>4. ToSet(freeBlocks') = ToSet(freeBlocks) \ {freeBlocks[i]} /\ IsInjective(freeBlocks')
  BY <1>1, RemoveAtMembers
<1> QED BY <1>2, <1>3, <1>4

(* Unlinking keeps the order of the blocks that stay, whose sizes do not change. *)
LEMMA OrderKept ==
  ASSUME IInv, NEW i \in 1 .. Len(freeBlocks), freeBlocks' = RemoveAt(freeBlocks, i),
         \A b \in ToSet(freeBlocks') : size'[b] = size[b]
  PROVE  Ordered'
PROOF
<1>1. /\ freeBlocks' \in Seq(Arena) /\ Len(freeBlocks') = Len(freeBlocks) - 1
      /\ \A j \in 1 .. Len(freeBlocks') : /\ j < i => freeBlocks'[j] = freeBlocks[j]
                                          /\ j >= i => freeBlocks'[j] = freeBlocks[j + 1]
  BY Unlinked
<1>2. Len(freeBlocks) \in Nat
  BY DEF IInv, TypeOK
<1> SUFFICES ASSUME NEW a \in 1 .. Len(freeBlocks'), NEW b \in 1 .. Len(freeBlocks'), a < b
             PROVE  size'[freeBlocks'[a]] <= size'[freeBlocks'[b]]
  BY DEF Ordered
<1>3. freeBlocks'[a] \in ToSet(freeBlocks') /\ freeBlocks'[b] \in ToSet(freeBlocks')
  BY <1>1, Members
<1>4. PICK c \in 1 .. Len(freeBlocks) :
        freeBlocks'[a] = freeBlocks[c] /\ c = IF a < i THEN a ELSE a + 1
  BY <1>1, <1>2
<1>5. PICK d \in 1 .. Len(freeBlocks) :
        freeBlocks'[b] = freeBlocks[d] /\ d = IF b < i THEN b ELSE b + 1
  BY <1>1, <1>2
<1>6. c < d
  BY <1>4, <1>5
<1>7. size[freeBlocks[c]] <= size[freeBlocks[d]]
  BY <1>6 DEF IInv, Ordered
<1> QED BY <1>3, <1>4, <1>5, <1>7

(* Unlinking cannot make two blocks neighbours. *)
LEMMA CoalescedKept ==
  ASSUME IInv, ToSet(freeBlocks') \subseteq ToSet(freeBlocks),
         \A b \in ToSet(freeBlocks') : size'[b] = size[b]
  PROVE  Coalesced'
  BY DEF IInv, Coalesced, End

(* A block of the list lies in the arena, and nobody else has it. *)
LEMMA ListBlock ==
  ASSUME IInv, NEW b \in ToSet(freeBlocks)
  PROVE  /\ b \in Blocks /\ b \in Arena /\ b \in Nat /\ size[b] \in Nat /\ b # 0
         /\ Width(b) = size[b] /\ LinkSize <= size[b]
         /\ b \notin live /\ b \notin dropped /\ b \notin InFlight /\ b \notin Splitting
         /\ Extent(b) \subseteq Arena
PROOF
<1>1. b \in Blocks
  BY DEF Blocks
<1>2. b \in Arena /\ b \in Nat /\ size[b] \in Nat
  BY <1>1, BlockFacts DEF IInv
<1>3. b \notin live /\ b \notin dropped /\ b \notin InFlight
  BY DEF IInv, OneOwner
<1>4. b \notin Splitting
  BY <1>3 DEF InFlight
<1>5. Extent(b) \subseteq Arena
  BY <1>1 DEF IInv, Layout, Covering, TypeOK
<1> QED BY <1>1, <1>2, <1>3, <1>4, <1>5, ConstantFacts DEF Width, IInv, LinkFits

(* alloc hands out a whole block. *)
LEMMA TakeWholeInv ==
  ASSUME IInv, NEW i \in DOMAIN freeBlocks, TakeWhole(i) PROVE IInv'
PROOF
<1>0. PICK b : b = freeBlocks[i]
  OBVIOUS
<1>1. i \in 1 .. Len(freeBlocks)
  BY ListPlaces DEF IInv
<1>2. freeBlocks' = RemoveAt(freeBlocks, i) /\ size' = size /\ handed' = handed
  BY DEF TakeWhole
<1>3. /\ freeBlocks' \in Seq(Arena) /\ Len(freeBlocks') = Len(freeBlocks) - 1
      /\ ToSet(freeBlocks') = ToSet(freeBlocks) \ {b} /\ b \in ToSet(freeBlocks)
      /\ IsInjective(freeBlocks')
  BY <1>0, <1>1, <1>2, Unlinked
<1>4. /\ b \in Arena /\ b \in Nat /\ size[b] \in Nat /\ LinkSize <= size[b] /\ b \in Blocks
      /\ b \notin live /\ b \notin dropped /\ Width(b) = size[b] /\ Extent(b) \subseteq Arena
  BY <1>3, ListBlock
<1>5. /\ live' = live \cup {b} /\ asked' = [asked EXCEPT ![b] = req] /\ dropped' = dropped
      /\ size[b] >= req /\ pc = "find"
  BY <1>0 DEF TakeWhole, Grant, FirstFit
<1>6. Splitting = {} /\ Splitting' = {} /\ InFlight = {} /\ InFlight' = {}
  BY <1>5 DEF TakeWhole, Return, InFlight, Splitting, IInv, Control
<1>7. Blocks' = Blocks
  BY <1>3, <1>5, <1>6 DEF Blocks
<1>8. req \in Nat
  BY MemPoolAssumption DEF MemPoolAssumption, IInv, TypeOK
<1>9. TypeOK'
  <2>1. asked' \in [Arena -> Nat] /\ live' \subseteq Arena /\ dropped' \subseteq Arena
    BY <1>4, <1>5, <1>8 DEF IInv, TypeOK
  <2>2. sizeInUse' \in Int /\ sizeFree' \in Int
    <3>1. sizeInUse' = sizeInUse + size[b] /\ sizeFree' = sizeFree - size[b]
      BY <1>0 DEF TakeWhole
    <3>2. sizeInUse \in Int /\ sizeFree \in Int
      BY DEF IInv, TypeOK
    <3> QED BY <1>4, <3>1, <3>2
  <2>3. allocCount' \in 0 .. (CountLimit - 1) /\ freeCount' \in 0 .. (CountLimit - 1)
    BY MemPoolAssumption DEF MemPoolAssumption, TakeWhole, AllocCount, IInv, TypeOK
  <2>4. /\ req' \in 0 .. (SizeLimit - 1) /\ try' \in 0 .. 2 /\ n' \in Nat /\ addAt' \in Nat
        /\ block' \in Arena \cup {0} /\ cur' \in Arena \cup {0}
    BY ConstantFacts DEF TakeWhole, Return
  <2>5. size' \in [Arena -> Nat] /\ handed' \subseteq Arena
    BY <1>2 DEF IInv, TypeOK
  <2> QED BY <1>3, <2>1, <2>2, <2>3, <2>4, <2>5 DEF TakeWhole, Return, TypeOK
<1>10. Control'
  BY DEF TakeWhole, Return, Control
<1>11. OneOwner'
  BY <1>3, <1>4, <1>5, <1>6 DEF TakeWhole, Return, OneOwner, IInv
<1>12. Layout'
  <2>1. \A c \in Blocks : Width(c)' = Width(c)
    BY <1>2, <1>6 DEF Width
  <2> QED BY <1>2, <1>7, <2>1, LayoutSame DEF IInv
<1>13. Served'
  <2>1. b + HeaderSize \in Arena
    BY <1>4, ConstantFacts DEF Extent
  <2> SUFFICES ASSUME NEW c \in live'
               PROVE  asked'[c] <= size[c] /\ c + HeaderSize \in Arena
    BY <1>2 DEF Served
  <2>2. CASE c = b
    BY <1>4, <1>5, <1>8, <2>1, <2>2 DEF IInv, TypeOK
  <2>3. CASE c # b
    BY <1>5, <2>3 DEF IInv, TypeOK, Served
  <2> QED BY <2>2, <2>3
<1>14. LinkFits'
  BY <1>2, <1>3 DEF TakeWhole, Return, LinkFits, IInv
<1>15. Ordered' /\ Scanned' /\ Coalesced'
  <2>1. Ordered'
    BY <1>1, <1>2, OrderKept
  <2>2. Coalesced'
    BY <1>2, <1>3, CoalescedKept
  <2>3. Scanned'
    BY DEF TakeWhole, Return, Scanned
  <2> QED BY <2>1, <2>2, <2>3
<1> QED BY <1>9, <1>10, <1>11, <1>12, <1>13, <1>14, <1>15 DEF IInv

(* alloc takes a block and puts its tail in the hands of addFreeBlock. *)
LEMMA TakeAndSplitInv ==
  ASSUME IInv, NEW i \in DOMAIN freeBlocks, TakeAndSplit(i) PROVE IInv'
PROOF
<1>0. PICK b, next, rest : /\ b = freeBlocks[i]
                           /\ next = b + HeaderSize + req
                           /\ rest = size[b] - req - HeaderSize
  OBVIOUS
<1>1. i \in 1 .. Len(freeBlocks)
  BY ListPlaces DEF IInv
<1>2. freeBlocks' = RemoveAt(freeBlocks, i) /\ handed' = handed
  BY DEF TakeAndSplit
<1>3. /\ freeBlocks' \in Seq(Arena) /\ Len(freeBlocks') \in Nat
      /\ ToSet(freeBlocks') = ToSet(freeBlocks) \ {b} /\ b \in ToSet(freeBlocks)
      /\ IsInjective(freeBlocks')
  BY <1>0, <1>1, <1>2, Unlinked
<1>4. /\ b \in Arena /\ b \in Nat /\ size[b] \in Nat /\ LinkSize <= size[b] /\ b \in Blocks
      /\ b \notin live /\ b \notin dropped /\ Width(b) = size[b] /\ Extent(b) \subseteq Arena
      /\ b # 0
  BY <1>3, ListBlock
<1>5. /\ size' = [size EXCEPT ![next] = rest] /\ size[b] > req + HeaderSize
      /\ sizeInUse' = sizeInUse + size[b] - (rest + HeaderSize)
      /\ sizeFree' = sizeFree - size[b]
      /\ block' = b /\ cur' = next /\ from' = "split" /\ pc' = "add" /\ n' = 1 /\ addAt' = 0
      /\ live' = live /\ dropped' = dropped /\ asked' = asked /\ req' = req /\ try' = try
      /\ merged' = FALSE /\ pc = "find"
  BY <1>0 DEF TakeAndSplit, Splits, Rest, AddFreeBlock, held
<1>6. req \in Nat
  BY MemPoolAssumption DEF MemPoolAssumption, IInv, TypeOK
<1>7. /\ next \in Nat /\ next # b /\ rest \in Nat /\ next \in Extent(b) /\ next \in Arena
      /\ b + HeaderSize \in Arena
  BY <1>0, <1>4, <1>5, <1>6, ConstantFacts DEF Extent
<1>8. next \notin Blocks
  <2> SUFFICES ASSUME next \in Blocks PROVE FALSE
    OBVIOUS
  <2>1. next \in Extent(next)
    BY BlockFacts DEF IInv
  <2> QED BY <1>4, <1>7, <2>1 DEF IInv, Layout, NoOverlap
<1>9. next \in Arena /\ next # 0
  BY <1>7, ConstantFacts
<1>10. /\ Splitting = {} /\ Splitting' = {b} /\ InFlight = {} /\ InFlight' = {next, b}
  BY <1>5, <1>9 DEF InFlight, Splitting, IInv, Control
<1>11. Blocks' = Blocks \cup {next}
  BY <1>3, <1>5, <1>10 DEF Blocks
<1>12. \A c \in Blocks : c # next /\ size'[c] = size[c]
  BY <1>5, <1>8, BlockFacts DEF IInv, TypeOK
<1>13. TypeOK'
  <2>1. size' \in [Arena -> Nat]
    BY <1>5, <1>7 DEF IInv, TypeOK
  <2>2. sizeInUse' \in Int /\ sizeFree' \in Int
    <3>1. sizeInUse \in Int /\ sizeFree \in Int
      BY DEF IInv, TypeOK
    <3> QED BY <3>1, <1>4, <1>5, <1>7, ConstantFacts
  <2>3. /\ allocCount' \in 0 .. (CountLimit - 1) /\ freeCount' \in 0 .. (CountLimit - 1)
        /\ handed' \subseteq Arena
    BY DEF TakeAndSplit, IInv, TypeOK
  <2>4. /\ live' \subseteq Arena /\ dropped' \subseteq Arena /\ asked' \in [Arena -> Nat]
        /\ req' \in 0 .. (SizeLimit - 1) /\ try' \in 0 .. 2
    BY <1>5 DEF IInv, TypeOK
  <2>5. n' \in Nat /\ addAt' \in Nat /\ block' \in Arena \cup {0} /\ cur' \in Arena \cup {0}
    BY <1>4, <1>5, <1>9
  <2>6. /\ pc' \in {"idle", "find", "add", "smashed"} /\ from' \in {"none", "split", "grow", "free"}
    BY <1>5
  <2>7. merged' \in BOOLEAN
    BY <1>5
  <2> QED BY <1>3, <2>1, <2>2, <2>3, <2>4, <2>5, <2>6, <2>7 DEF TypeOK
<1>14. Control'
  BY <1>3, <1>4, <1>5, <1>7, <1>9 DEF Control, IInv
<1>15. OneOwner'
  <2>1. \A c \in ToSet(freeBlocks') : c \in Blocks /\ c # b /\ c \notin live \cup dropped
    BY <1>3, ListBlock
  <2>2. live \subseteq Blocks /\ dropped \subseteq Blocks /\ live \cap dropped = {}
    BY DEF Blocks, IInv, OneOwner
  <2> QED BY <1>3, <1>4, <1>5, <1>7, <1>8, <1>10, <2>1, <2>2 DEF OneOwner
<1>16. Layout'
  <2>1. Width(b)' = req
    BY <1>5, <1>10 DEF Width
  <2>2. Width(next)' = rest
    BY <1>5, <1>7, <1>9, <1>10 DEF Width, IInv, TypeOK
  <2>3. Extent(b)' = b .. (b + HeaderSize + req - 1)
    BY <2>1 DEF Extent
  <2>4. Extent(next)' = next .. (next + HeaderSize + rest - 1)
    BY <2>2 DEF Extent
  <2>5. Extent(b) = b .. (b + HeaderSize + size[b] - 1)
    BY <1>4 DEF Extent
  <2>6. Extent(b) = Extent(b)' \cup Extent(next)' /\ Extent(b)' \cap Extent(next)' = {}
    <3>1. HeaderSize + req \in Nat /\ HeaderSize + rest \in Nat
      BY <1>6, <1>7, ConstantFacts
    <3>2. /\ Extent(b)' = b .. (b + (HeaderSize + req) - 1)
          /\ Extent(next)' =
               (b + (HeaderSize + req)) .. (b + (HeaderSize + req) + (HeaderSize + rest) - 1)
          /\ Extent(b) = b .. (b + (HeaderSize + req) + (HeaderSize + rest) - 1)
      <4>1. /\ next = b + (HeaderSize + req)
            /\ b + HeaderSize + req - 1 = b + (HeaderSize + req) - 1
            /\ next + HeaderSize + rest - 1
                 = b + (HeaderSize + req) + (HeaderSize + rest) - 1
            /\ b + HeaderSize + size[b] - 1
                 = b + (HeaderSize + req) + (HeaderSize + rest) - 1
        BY <1>0, <1>4, <1>6, <1>7, ConstantFacts
      <4> QED BY <4>1, <2>3, <2>4, <2>5, Zenon
    <3> QED BY <3>1, <3>2, <1>4, CutRun
  <2>7. \A c \in Blocks : c # b => Width(c)' = Width(c)
    BY <1>10, <1>12 DEF Width
  <2>8. \A c \in Blocks : c # b => Extent(c)' = Extent(c)
    BY <2>7 DEF Extent
  <2> QED BY <1>2, <1>4, <1>8, <1>11, <2>6, <2>8, LayoutSplit DEF IInv
<1>17. Served'
  BY <1>5, <1>12 DEF Served, Blocks, IInv
<1>18. LinkFits'
  BY <1>3, <1>5, <1>12 DEF LinkFits, IInv, Blocks
<1>19. \A c \in ToSet(freeBlocks') : size'[c] = size[c]
  BY <1>3, <1>12 DEF Blocks
<1>20. Ordered'
  BY <1>1, <1>2, <1>19, OrderKept
<1>21. Coalesced'
  BY <1>3, <1>19, CoalescedKept
<1>22. Scanned'
  BY <1>5 DEF Scanned
<1> QED BY <1>13, <1>14, <1>15, <1>16, <1>17, <1>18, <1>20, <1>21, <1>22 DEF IInv

(* The scan merges a neighbour. *)
LEMMA MergeInv == ASSUME IInv, Merge PROVE IInv'
PROOF
<1>0. PICK b, low, high : /\ b = freeBlocks[n]
                          /\ low = IF End(b) = cur THEN b ELSE cur
                          /\ high = IF End(b) = cur THEN cur ELSE b
  OBVIOUS
<1>1. n \in 1 .. Len(freeBlocks) /\ pc = "add" /\ Len(freeBlocks) \in Nat
  BY DEF Merge, Scanning, IInv, Control, TypeOK
<1>2. /\ freeBlocks' = RemoveAt(freeBlocks, n) /\ handed' = handed
      /\ size' = [size EXCEPT ![low] = size[low] + size[high] + HeaderSize, ![high] = 0]
      /\ sizeFree' = sizeFree - size[b] /\ cur' = low /\ merged' = TRUE
      /\ sizeInUse' = sizeInUse /\ allocCount' = allocCount /\ freeCount' = freeCount
      /\ live' = live /\ asked' = asked /\ dropped' = dropped /\ pc' = pc
      /\ from' = from /\ req' = req /\ try' = try /\ block' = block /\ n' = n /\ addAt' = addAt
      /\ End(b) = cur \/ End(cur) = b
  BY <1>0 DEF Merge, held, call, Touches
<1>3. /\ freeBlocks' \in Seq(Arena) /\ Len(freeBlocks') = Len(freeBlocks) - 1
      /\ ToSet(freeBlocks') = ToSet(freeBlocks) \ {b} /\ b \in ToSet(freeBlocks)
      /\ IsInjective(freeBlocks')
  BY <1>0, <1>1, <1>2, Unlinked
<1>4. /\ b \in Arena /\ b \in Nat /\ size[b] \in Nat /\ b \in Blocks /\ b # 0
      /\ b \notin live /\ b \notin dropped /\ b \notin InFlight /\ b \notin Splitting
      /\ Width(b) = size[b]
  BY <1>3, ListBlock
<1>5. /\ cur \in Arena /\ cur # 0 /\ cur \in InFlight /\ InFlight = {cur} \cup Splitting
      /\ cur \in Blocks
  BY <1>1, ConstantFacts DEF IInv, Control, InFlight, Blocks
<1>6. /\ cur \in Nat /\ size[cur] \in Nat /\ cur \notin Splitting /\ Width(cur) = size[cur]
      /\ cur \notin live /\ cur \notin dropped /\ cur \notin ToSet(freeBlocks) /\ b # cur
  BY <1>3, <1>4, <1>5, BlockFacts DEF IInv, OneOwner, Splitting, Width
<1>7. /\ low \in Blocks /\ high \in Blocks /\ low # high
      /\ low \in Nat /\ low # 0 /\ size[low] \in Nat /\ size[high] \in Nat
      /\ low \in Arena /\ high \in Arena
      /\ low \notin live \cup dropped \cup Splitting /\ high \notin live \cup dropped \cup Splitting
      /\ Width(low) = size[low] /\ Width(high) = size[high]
      /\ high = low + HeaderSize + size[low]
      /\ {low, high} = {b, cur}
  BY <1>0, <1>2, <1>4, <1>5, <1>6 DEF End
<1>8. /\ size' \in [Arena -> Nat]
      /\ size'[low] = size[low] + size[high] + HeaderSize
      /\ \A c \in Arena : c # low /\ c # high => size'[c] = size[c]
  <2>1. size \in [Arena -> Nat]
    BY DEF IInv, TypeOK
  <2>2. size[low] + size[high] + HeaderSize \in Nat
    BY <1>7, ConstantFacts
  <2> QED BY <2>1, <2>2, <1>2, <1>7
<1>9. Splitting' = Splitting /\ InFlight' = {low} \cup Splitting
  BY <1>2, <1>7 DEF Splitting, InFlight
<1>10. Blocks' = Blocks \ {high}
  <2>1. /\ Blocks' = (ToSet(freeBlocks) \ {b}) \cup live \cup dropped \cup {low} \cup Splitting
        /\ Blocks = ToSet(freeBlocks) \cup live \cup dropped \cup InFlight
    BY <1>2, <1>3, <1>9 DEF Blocks
  <2> QED BY <2>1, <1>3, <1>5, <1>6, <1>7
<1>11. \A c \in Blocks' : c # low => c \in Arena /\ size'[c] = size[c] /\ Width(c)' = Width(c)
  <2> SUFFICES ASSUME NEW c \in Blocks', c # low
               PROVE  c \in Arena /\ size'[c] = size[c] /\ Width(c)' = Width(c)
    OBVIOUS
  <2>1. c \in Arena /\ size'[c] = size[c]
    BY <1>8, <1>10, BlockFacts DEF IInv
  <2> QED BY <2>1, <1>2, <1>9 DEF Width
<1>12. TypeOK'
  <2>1. sizeFree' \in Int /\ sizeInUse' \in Int
    BY <1>2, <1>4 DEF IInv, TypeOK
  <2>2. merged' \in BOOLEAN
    BY <1>2
  <2> QED BY <1>2, <1>3, <1>7, <1>8, <2>1, <2>2 DEF IInv, TypeOK
<1>13. Control'
  BY <1>1, <1>2, <1>3, <1>7 DEF IInv, Control
<1>14. OneOwner'
  <2>1. IsInjective(freeBlocks')
    BY <1>3
  <2>2. \A c \in ToSet(freeBlocks') : c \notin live' \cup dropped' \cup InFlight'
    BY <1>2, <1>3, <1>5, <1>6, <1>7, <1>9 DEF IInv, OneOwner
  <2>3. InFlight' \cap (live' \cup dropped') = {} /\ live' \cap dropped' = {}
    BY <1>2, <1>5, <1>7, <1>9 DEF IInv, OneOwner
  <2>4. from' = "split" => block' # cur'
    BY <1>2, <1>7 DEF Splitting
  <2> QED BY <2>1, <2>2, <2>3, <2>4 DEF OneOwner
<1>15. Layout'
  <2>1. Width(low)' = size[low] + size[high] + HeaderSize
    BY <1>7, <1>8, <1>9 DEF Width
  <2>2. Extent(low)' = low .. (low + HeaderSize + (size[low] + size[high] + HeaderSize) - 1)
    BY <2>1 DEF Extent
  <2>3. /\ Extent(low) = low .. (low + HeaderSize + size[low] - 1)
        /\ Extent(high) = high .. (high + HeaderSize + size[high] - 1)
    BY <1>7 DEF Extent
  <2>4. Extent(low)' = Extent(low) \cup Extent(high)
    <3>1. HeaderSize + size[low] \in Nat /\ HeaderSize + size[high] \in Nat
      BY <1>7, ConstantFacts
    <3>2. /\ Extent(low) = low .. (low + (HeaderSize + size[low]) - 1)
          /\ Extent(high) = (low + (HeaderSize + size[low]))
               .. (low + (HeaderSize + size[low]) + (HeaderSize + size[high]) - 1)
          /\ Extent(low)' =
               low .. (low + (HeaderSize + size[low]) + (HeaderSize + size[high]) - 1)
      <4>1. /\ high = low + (HeaderSize + size[low])
            /\ low + HeaderSize + size[low] - 1 = low + (HeaderSize + size[low]) - 1
            /\ high + HeaderSize + size[high] - 1
                 = low + (HeaderSize + size[low]) + (HeaderSize + size[high]) - 1
            /\ low + HeaderSize + (size[low] + size[high] + HeaderSize) - 1
                 = low + (HeaderSize + size[low]) + (HeaderSize + size[high]) - 1
        BY <1>7, ConstantFacts
      <4> QED BY <4>1, <2>2, <2>3, Zenon
    <3>3. PICK d, e : d = HeaderSize + size[low] /\ e = HeaderSize + size[high]
      OBVIOUS
    <3>4. /\ Extent(low) = low .. (low + d - 1)
          /\ Extent(high) = (low + d) .. (low + d + e - 1)
          /\ Extent(low)' = low .. (low + d + e - 1)
      BY ONLY <3>2, <3>3, Zenon
    <3>5. low \in Nat /\ d \in Nat /\ e \in Nat
      BY <3>1, <3>3, <1>7, ConstantFacts
    <3>6. low .. (low + d + e - 1) = (low .. (low + d - 1)) \cup ((low + d) .. (low + d + e - 1))
      BY ONLY <3>5, CutRun, Zenon
    <3> QED BY ONLY <3>4, <3>6
  <2>5. \A c \in Blocks' : c # low => Extent(c)' = Extent(c)
    BY <1>11 DEF Extent
  <2> QED BY <1>2, <1>7, <1>10, <2>4, <2>5, LayoutMerged DEF IInv
<1>16. Served'
  <2>1. \A c \in live : c \in Blocks' /\ c # low
    BY <1>7, <1>10 DEF Blocks
  <2> QED BY <1>2, <1>11, <2>1 DEF IInv, Served
<1>17. \A c \in ToSet(freeBlocks') : c # low /\ c \in Blocks' /\ size'[c] = size[c]
  <2>1. \A c \in ToSet(freeBlocks') : c # low /\ c \in Blocks'
    BY <1>3, <1>6, <1>7 DEF Blocks
  <2> QED BY <2>1, <1>11
<1>18. LinkFits'
  <2>1. size'[low] >= LinkSize
    BY <1>7, <1>8, ConstantFacts
  <2> QED BY <1>1, <1>2, <1>3, <1>17, <2>1 DEF IInv, LinkFits
<1>19. Ordered'
  BY <1>1, <1>2, <1>17, OrderKept
<1>20. Coalesced'
  BY <1>3, <1>17, CoalescedKept
<1>21. Scanned'
  BY <1>2 DEF Scanned
<1> QED BY <1>12, <1>13, <1>14, <1>15, <1>16, <1>18, <1>19, <1>20, <1>21 DEF IInv

-----------------------------------------------------------------------------
(* Growing the pool.                                                       *)

(* Rounding down and adding one exceeds the number that was rounded. *)
LEMMA RoundedUp ==
  ASSUME NEW x \in Nat, NEW p \in Nat \ {0}
  PROVE  /\ x \div p \in Nat
         /\ (x \div p + 1) * p \in Nat
         /\ (x \div p + 1) * p >= p
         /\ (x \div p + 1) * p > x
PROOF
<1>1. x \div p \in Nat /\ x < (x \div p + 1) * p
  OBVIOUS
<1>2. PICK q \in Nat : q = x \div p
  BY <1>1
<1>3. (q + 1) * p = q * p + p /\ q * p \in Nat
  OBVIOUS
<1> QED BY <1>1, <1>2, <1>3

(* The pages alloc asks for hold a header and at least a link; if the size did not *)
(* wrap around together with the header they hold it, too.                         *)
LEMMA PagesFacts ==
  ASSUME TypeOK
  PROVE  /\ Pages * PageSize \in Nat /\ Pages * PageSize >= HeaderSize + LinkSize
         /\ req + HeaderSize < SizeLimit => Pages * PageSize > req + HeaderSize
PROOF
<1>1. req \in Nat /\ HeaderSize \in Nat /\ SizeLimit \in Nat \ {0} /\ PageSize \in Nat \ {0}
      /\ LinkSize \in Nat
  BY MemPoolAssumption DEF MemPoolAssumption, TypeOK
<1>2. PICK x \in Nat : x = (req + HeaderSize) % SizeLimit
  BY <1>1
<1>3. req + HeaderSize < SizeLimit => x = req + HeaderSize
  BY <1>1, <1>2
<1>4. /\ (x \div PageSize + 1) * PageSize \in Nat
      /\ (x \div PageSize + 1) * PageSize >= PageSize
      /\ (x \div PageSize + 1) * PageSize > x
  BY <1>1, RoundedUp
<1>5. Pages = x \div PageSize + 1
  BY <1>2 DEF Pages
<1>6. PageSize >= HeaderSize + LinkSize
  BY ConstantFacts
<1> QED BY <1>1, <1>3, <1>4, <1>5, <1>6

(* alloc puts new pages in the hands of addFreeBlock. *)
LEMMA GrowInv == ASSUME IInv, NEW base \in PageAddrs, Grow(base) PROVE IInv'
PROOF
<1>0. PICK len : len = Pages * PageSize
  OBVIOUS
<1>1. /\ pc = "find" /\ try <= 1 /\ freeBlocks' = freeBlocks
      /\ base .. (base + len - 1) \subseteq Arena \ handed
      /\ handed' = handed \cup (base .. (base + len - 1))
      /\ size' = [size EXCEPT ![base] = len - HeaderSize]
      /\ pc' = "add" /\ from' = "grow" /\ cur' = base /\ n' = 1 /\ addAt' = 0 /\ merged' = FALSE
      /\ live' = live /\ asked' = asked /\ dropped' = dropped
      /\ req' = req /\ try' = try /\ block' = block
      /\ sizeInUse' = sizeInUse /\ sizeFree' = sizeFree
      /\ allocCount' = allocCount /\ freeCount' = freeCount
  BY <1>0 DEF Grow, AddFreeBlock, PageRun, stats, held
<1>2. /\ len \in Nat /\ len >= HeaderSize + LinkSize
  BY <1>0, PagesFacts DEF IInv
<1>3. base \in Nat /\ base \in Arena /\ base # 0 /\ base \notin handed
  <2>1. base \in Nat /\ base \in Arena /\ base # 0
    BY MemPoolAssumption DEF MemPoolAssumption
  <2>2. base \in base .. (base + len - 1)
    BY <2>1, <1>2, ConstantFacts
  <2> QED BY <2>1, <2>2, <1>1
<1>4. Splitting = {} /\ Splitting' = {} /\ InFlight = {} /\ InFlight' = {base}
  BY <1>1, <1>3 DEF InFlight, Splitting, IInv, Control
<1>5. base \notin Blocks
  BY <1>3, BlockFacts DEF IInv, Layout, Covering
<1>6. Blocks' = Blocks \cup {base}
  BY <1>1, <1>4 DEF Blocks
<1>7. \A c \in Blocks : c # base /\ c \in Arena /\ size'[c] = size[c] /\ Width(c)' = Width(c)
  <2> SUFFICES ASSUME NEW c \in Blocks
               PROVE  c # base /\ c \in Arena /\ size'[c] = size[c] /\ Width(c)' = Width(c)
    OBVIOUS
  <2>1. c # base /\ c \in Arena
    BY <1>5, BlockFacts DEF IInv
  <2>2. size'[c] = size[c]
    BY <1>1, <2>1 DEF IInv, TypeOK
  <2> QED BY <2>1, <2>2, <1>4 DEF Width
<1>8. size'[base] = len - HeaderSize /\ len - HeaderSize \in Nat
  BY <1>1, <1>2, <1>3, ConstantFacts DEF IInv, TypeOK
<1>9. TypeOK'
  <2>1. size' \in [Arena -> Nat]
    BY <1>1, <1>8 DEF IInv, TypeOK
  <2>2. freeBlocks' \in Seq(Arena) /\ handed' \subseteq Arena
    BY <1>1 DEF IInv, TypeOK
  <2>3. merged' \in BOOLEAN
    BY <1>1
  <2> QED BY <1>1, <1>3, <2>1, <2>2, <2>3 DEF IInv, TypeOK
<1>10. Control'
  <2>1. Len(freeBlocks) \in Nat
    BY DEF IInv, TypeOK
  <2> QED BY <1>1, <1>3, <2>1 DEF IInv, Control
<1>11. OneOwner'
  <2>1. /\ base \notin ToSet(freeBlocks) /\ base \notin live /\ base \notin dropped
    BY <1>5 DEF Blocks
  <2> QED BY <1>1, <1>4, <2>1 DEF IInv, OneOwner
<1>12. Layout'
  <2>1. Width(base)' = len - HeaderSize
    BY <1>4, <1>8 DEF Width
  <2>2. Extent(base)' = base .. (base + HeaderSize + (len - HeaderSize) - 1)
    BY <2>1 DEF Extent
  <2>3. base + HeaderSize + (len - HeaderSize) - 1 = base + len - 1
    BY <1>2, <1>3, ConstantFacts
  <2>4. Extent(base)' = base .. (base + len - 1)
    BY <2>2, <2>3
  <2>5. Extent(base)' \cap handed = {} /\ handed' = handed \cup Extent(base)'
    BY <1>1, <2>4
  <2>6. \A c \in Blocks : Extent(c)' = Extent(c)
    BY <1>7 DEF Extent
  <2> QED BY <1>5, <1>6, <2>5, <2>6, LayoutGrown DEF IInv
<1>13. Served'
  BY <1>1, <1>7 DEF IInv, Served, Blocks
<1>14. LinkFits'
  <2>1. \A c \in ToSet(freeBlocks') : size'[c] = size[c]
    BY <1>1, <1>7 DEF Blocks
  <2>2. size'[base] >= LinkSize
    BY <1>2, <1>8, ConstantFacts
  <2> QED BY <1>1, <2>1, <2>2 DEF IInv, LinkFits
<1>15. Ordered'
  <2>1. \A j \in 1 .. Len(freeBlocks) : freeBlocks[j] \in Blocks
    BY Members DEF IInv, TypeOK, Blocks
  <2> QED BY <1>1, <1>7, <2>1 DEF IInv, Ordered
<1>16. Coalesced'
  BY <1>1, <1>7, CoalescedKept DEF Blocks
<1>17. Scanned'
  BY <1>1 DEF Scanned
<1> QED BY <1>9, <1>10, <1>11, <1>12, <1>13, <1>14, <1>15, <1>16, <1>17 DEF IInv

-----------------------------------------------------------------------------
(* The steps that link a block in.                                         *)

(* The list after a block was linked in. *)
LEMMA LinkedPlaces ==
  ASSUME freeBlocks \in Seq(Arena), cur \in Arena, addAt + 1 \in 1 .. (Len(freeBlocks) + 1)
  PROVE  LET r == InsertAt(freeBlocks, addAt + 1, cur) IN
         /\ r \in Seq(Arena) /\ Len(r) = Len(freeBlocks) + 1
         /\ \A j \in 1 .. Len(r) : /\ j < addAt + 1 => r[j] = freeBlocks[j]
                                   /\ j = addAt + 1 => r[j] = cur
                                   /\ j > addAt + 1 => r[j] = freeBlocks[j - 1]
PROOF
<1> DEFINE P(s, k, e, r) == /\ r \in Seq(Arena) /\ Len(r) = Len(s) + 1
                            /\ \A j \in 1 .. Len(r) : /\ j < k => r[j] = s[j]
                                                      /\ j = k => r[j] = e
                                                      /\ j > k => r[j] = s[j - 1]
<1>1. ASSUME NEW s \in Seq(Arena), NEW e \in Arena, NEW k \in 1 .. (Len(s) + 1)
      PROVE  P(s, k, e, InsertAt(s, k, e))
  BY InsertAtPlaces
<1> HIDE DEF P
<1>2. P(freeBlocks, addAt + 1, cur, InsertAt(freeBlocks, addAt + 1, cur))
  BY <1>1
<1> QED BY <1>2 DEF P

(* At the end of a scan without a merge the block is linked in at its place: *)
(* the list stays in order and without neighbours.                           *)
LEMMA Linked ==
  ASSUME IInv, AtInsert, freeBlocks' = InsertAt(freeBlocks, addAt + 1, cur),
         \A b \in ToSet(freeBlocks) \cup {cur} : size'[b] = size[b]
  PROVE  /\ freeBlocks' \in Seq(Arena) /\ ToSet(freeBlocks') = ToSet(freeBlocks) \cup {cur}
         /\ Len(freeBlocks') \in Nat /\ IsInjective(freeBlocks') /\ Ordered' /\ Coalesced'
         /\ cur \in Arena /\ cur # 0 /\ cur \in Blocks /\ size[cur] \in Nat
         /\ cur \notin live \cup dropped \cup Splitting \cup ToSet(freeBlocks)
PROOF
<1>1. /\ freeBlocks \in Seq(Arena) /\ IsInjective(freeBlocks) /\ Len(freeBlocks) \in Nat
      /\ pc = "add" /\ ~merged
  BY DEF IInv, TypeOK, OneOwner, AtInsert
<1>2. cur \in Arena /\ cur # 0 /\ n = Len(freeBlocks) + 1 /\ addAt \in 0 .. Len(freeBlocks)
  BY <1>1, ConstantFacts DEF AtInsert, IInv, Control, TypeOK
<1>3. cur \in InFlight /\ cur \in Blocks
  BY <1>2 DEF InFlight, Blocks
<1>4. /\ cur \notin live \cup dropped \cup Splitting \cup ToSet(freeBlocks)
      /\ size[cur] \in Nat /\ cur \in Nat
  BY <1>3, BlockFacts DEF IInv, OneOwner, Splitting
<1>5. addAt + 1 \in 1 .. (Len(freeBlocks) + 1)
  BY <1>1, <1>2
<1>6. /\ freeBlocks' \in Seq(Arena) /\ Len(freeBlocks') = Len(freeBlocks) + 1
      /\ \A j \in 1 .. Len(freeBlocks') :
            /\ j < addAt + 1 => freeBlocks'[j] = freeBlocks[j]
            /\ j = addAt + 1 => freeBlocks'[j] = cur
            /\ j > addAt + 1 => freeBlocks'[j] = freeBlocks[j - 1]
  BY <1>1, <1>2, <1>5, LinkedPlaces
<1>7. ToSet(freeBlocks') = ToSet(freeBlocks) \cup {cur} /\ IsInjective(freeBlocks')
  BY <1>1, <1>2, <1>4, <1>5, InsertAtMembers
<1>8. \A i \in 1 .. Len(freeBlocks) :
        /\ ~Touches(freeBlocks[i], cur)
        /\ i <= addAt <=> size[freeBlocks[i]] <= size[cur]
  BY <1>1, <1>2 DEF IInv, Scanned
<1>9. \A i \in 1 .. Len(freeBlocks) : freeBlocks[i] \in ToSet(freeBlocks) /\ size[freeBlocks[i]] \in Nat
  BY ListPlaces DEF IInv
<1>10. \A j \in 1 .. Len(freeBlocks') : size'[freeBlocks'[j]] = size[freeBlocks'[j]]
  BY <1>6, <1>7, Members
<1>11. Ordered'
  <2> SUFFICES ASSUME NEW a \in 1 .. Len(freeBlocks'), NEW b \in 1 .. Len(freeBlocks'), a < b
               PROVE  size[freeBlocks'[a]] <= size[freeBlocks'[b]]
    BY <1>10 DEF Ordered
  <2>1. CASE b < addAt + 1
    <3>1. /\ a \in 1 .. Len(freeBlocks) /\ b \in 1 .. Len(freeBlocks)
          /\ freeBlocks'[a] = freeBlocks[a] /\ freeBlocks'[b] = freeBlocks[b]
      BY <2>1, <1>1, <1>2, <1>6
    <3> QED BY <3>1 DEF IInv, Ordered
  <2>2. CASE b = addAt + 1
    <3>1. a \in 1 .. Len(freeBlocks) /\ a <= addAt /\ freeBlocks'[a] = freeBlocks[a]
      BY <2>2, <1>1, <1>2, <1>6
    <3> QED BY <3>1, <2>2, <1>6, <1>8
  <2>3. CASE a < addAt + 1 /\ b > addAt + 1
    <3>1. /\ a \in 1 .. Len(freeBlocks) /\ b - 1 \in 1 .. Len(freeBlocks) /\ a < b - 1
          /\ freeBlocks'[a] = freeBlocks[a] /\ freeBlocks'[b] = freeBlocks[b - 1]
      BY <2>3, <1>1, <1>2, <1>6
    <3> QED BY <3>1 DEF IInv, Ordered
  <2>4. CASE a = addAt + 1
    <3>1. /\ b - 1 \in 1 .. Len(freeBlocks) /\ ~(b - 1 <= addAt)
          /\ freeBlocks'[a] = cur /\ freeBlocks'[b] = freeBlocks[b - 1]
      BY <2>4, <1>1, <1>2, <1>6
    <3>2. ~(size[freeBlocks[b - 1]] <= size[cur]) /\ size[freeBlocks[b - 1]] \in Nat
      BY <3>1, <1>8, <1>9
    <3> QED BY <3>1, <3>2, <1>4
  <2>5. CASE a > addAt + 1
    <3>1. a - 1 \in 1 .. Len(freeBlocks) /\ b - 1 \in 1 .. Len(freeBlocks) /\ a - 1 < b - 1
      BY <2>5, <1>1, <1>2, <1>6
    <3>2. freeBlocks'[a] = freeBlocks[a - 1]
      BY <2>5, <1>6
    <3>3. b > addAt + 1
      BY <2>5, <1>1, <1>2, <1>6
    <3>4. freeBlocks'[b] = freeBlocks[b - 1]
      BY <3>3, <1>6
    <3> QED BY <3>1, <3>2, <3>4 DEF IInv, Ordered
  <2> QED BY <2>1, <2>2, <2>3, <2>4, <2>5, <1>1, <1>2, <1>6
<1>12. Coalesced'
  <2> SUFFICES ASSUME NEW a \in ToSet(freeBlocks) \cup {cur}, NEW b \in ToSet(freeBlocks) \cup {cur}
               PROVE  End(a) # b
    BY <1>7 DEF Coalesced, End
  <2>1. CASE a \in ToSet(freeBlocks) /\ b \in ToSet(freeBlocks)
    BY <2>1 DEF IInv, Coalesced
  <2>2. CASE a = cur /\ b = cur
    BY <2>2, <1>4, ConstantFacts DEF End
  <2>3. CASE a \in ToSet(freeBlocks) /\ b = cur
    <3>1. PICK i \in 1 .. Len(freeBlocks) : freeBlocks[i] = a
      BY <2>3, <1>1, Members
    <3> QED BY <3>1, <2>3, <1>8 DEF Touches
  <2>4. CASE a = cur /\ b \in ToSet(freeBlocks)
    <3>1. PICK i \in 1 .. Len(freeBlocks) : freeBlocks[i] = b
      BY <2>4, <1>1, Members
    <3> QED BY <3>1, <2>4, <1>8 DEF Touches
  <2> QED BY <2>1, <2>2, <2>3, <2>4
<1> QED BY <1>1, <1>2, <1>3, <1>4, <1>6, <1>7, <1>11, <1>12

(* alloc goes round its loop with the new pages on the list. *)
LEMMA GrowDoneInv == ASSUME IInv, GrowDone PROVE IInv'
PROOF
<1>1. /\ AtInsert /\ from = "grow" /\ size[cur] >= LinkSize
      /\ freeBlocks' = InsertAt(freeBlocks, addAt + 1, cur) /\ sizeFree' = sizeFree + size[cur]
      /\ pc' = "find" /\ from' = "none" /\ try' = try + 1
      /\ cur' = 0 /\ n' = 0 /\ addAt' = 0 /\ merged' = FALSE
      /\ size' = size /\ handed' = handed /\ sizeInUse' = sizeInUse
      /\ allocCount' = allocCount /\ freeCount' = freeCount
      /\ live' = live /\ asked' = asked /\ dropped' = dropped /\ req' = req /\ block' = block
  BY DEF GrowDone, Link, held
<1>2. /\ freeBlocks' \in Seq(Arena) /\ ToSet(freeBlocks') = ToSet(freeBlocks) \cup {cur}
      /\ IsInjective(freeBlocks') /\ Ordered' /\ Coalesced'
      /\ cur # 0 /\ cur \notin live \cup dropped /\ size[cur] \in Nat
  BY <1>1, Linked
<1>3. Splitting = {} /\ Splitting' = {} /\ InFlight = {cur} /\ InFlight' = {}
  BY <1>1, <1>2 DEF InFlight, Splitting
<1>4. Blocks' = Blocks
  BY <1>1, <1>2, <1>3 DEF Blocks
<1>5. TypeOK'
  <2>1. try' \in 0 .. 2
    BY <1>1 DEF IInv, TypeOK, Control
  <2>2. sizeFree' \in Int
    BY <1>1, <1>2 DEF IInv, TypeOK
  <2>3. merged' \in BOOLEAN
    BY <1>1
  <2> QED BY <1>1, <1>2, <2>1, <2>2, <2>3 DEF IInv, TypeOK
<1>6. Control'
  BY <1>1 DEF IInv, Control
<1>7. OneOwner'
  BY <1>1, <1>2, <1>3 DEF IInv, OneOwner
<1>8. Layout'
  <2>1. \A c \in Blocks : Width(c)' = Width(c)
    BY <1>1, <1>3 DEF Width
  <2> QED BY <1>1, <1>4, <2>1, LayoutSame DEF IInv
<1>9. Served' /\ LinkFits' /\ Scanned'
  BY <1>1, <1>2 DEF IInv, Served, LinkFits, Scanned
<1> QED BY <1>2, <1>5, <1>6, <1>7, <1>8, <1>9 DEF IInv

(* free has put the block on the list. *)
LEMMA FreeDoneInv == ASSUME IInv, FreeDone PROVE IInv'
PROOF
<1>1. /\ AtInsert /\ from = "free" /\ size[cur] >= LinkSize
      /\ freeBlocks' = InsertAt(freeBlocks, addAt + 1, cur) /\ sizeFree' = sizeFree + size[cur]
      /\ pc' = "idle" /\ from' = "none" /\ req' = 0 /\ try' = 0 /\ block' = 0
      /\ cur' = 0 /\ n' = 0 /\ addAt' = 0 /\ merged' = FALSE
      /\ size' = size /\ handed' = handed /\ sizeInUse' = sizeInUse
      /\ allocCount' = allocCount /\ freeCount' = (freeCount + 1) % CountLimit
      /\ live' = live /\ asked' = asked /\ dropped' = dropped
  BY DEF FreeDone, Link, Return, held
<1>2. /\ freeBlocks' \in Seq(Arena) /\ ToSet(freeBlocks') = ToSet(freeBlocks) \cup {cur}
      /\ IsInjective(freeBlocks') /\ Ordered' /\ Coalesced'
      /\ cur # 0 /\ cur \notin live \cup dropped /\ size[cur] \in Nat
  BY <1>1, Linked
<1>3. Splitting = {} /\ Splitting' = {} /\ InFlight = {cur} /\ InFlight' = {}
  BY <1>1, <1>2 DEF InFlight, Splitting
<1>4. Blocks' = Blocks
  BY <1>1, <1>2, <1>3 DEF Blocks
<1>5. TypeOK'
  <2>1. /\ req' \in 0 .. (SizeLimit - 1) /\ try' \in 0 .. 2 /\ n' \in Nat /\ addAt' \in Nat
        /\ block' \in Arena \cup {0} /\ cur' \in Arena \cup {0}
    BY <1>1, ConstantFacts
  <2>2. sizeFree' \in Int
    BY <1>1, <1>2 DEF IInv, TypeOK
  <2>3. freeCount' \in 0 .. (CountLimit - 1)
    BY <1>1, MemPoolAssumption DEF MemPoolAssumption, IInv, TypeOK
  <2>4. merged' \in BOOLEAN
    BY <1>1
  <2> QED BY <1>1, <1>2, <2>1, <2>2, <2>3, <2>4 DEF IInv, TypeOK
<1>6. Control'
  BY <1>1 DEF Control
<1>7. OneOwner'
  BY <1>1, <1>2, <1>3 DEF IInv, OneOwner
<1>8. Layout'
  <2>1. \A c \in Blocks : Width(c)' = Width(c)
    BY <1>1, <1>3 DEF Width
  <2> QED BY <1>1, <1>4, <2>1, LayoutSame DEF IInv
<1>9. Served' /\ LinkFits' /\ Scanned'
  BY <1>1, <1>2 DEF IInv, Served, LinkFits, Scanned
<1> QED BY <1>2, <1>5, <1>6, <1>7, <1>8, <1>9 DEF IInv

(* alloc has put the tail on the list and hands out the head. *)
LEMMA SplitDoneInv == ASSUME IInv, SplitDone PROVE IInv'
PROOF
<1>0. PICK b : b = block
  OBVIOUS
<1>1. /\ AtInsert /\ from = "split" /\ size[cur] >= LinkSize
      /\ freeBlocks' = InsertAt(freeBlocks, addAt + 1, cur) /\ sizeFree' = sizeFree + size[cur]
      /\ pc' = "idle" /\ from' = "none" /\ req' = 0 /\ try' = 0 /\ block' = 0
      /\ cur' = 0 /\ n' = 0 /\ addAt' = 0 /\ merged' = FALSE
      /\ size' = [size EXCEPT ![b] = req] /\ handed' = handed /\ sizeInUse' = sizeInUse
      /\ allocCount' = (allocCount + 1) % CountLimit /\ freeCount' = freeCount
      /\ live' = live \cup {b} /\ asked' = [asked EXCEPT ![b] = req] /\ dropped' = dropped
  BY <1>0 DEF SplitDone, Link, Return, AllocCount, Grant
<1>2. /\ b \in Arena /\ b + HeaderSize \in Arena /\ Splitting = {b} /\ b \in InFlight /\ b # cur
      /\ b \in Blocks
  BY <1>0, <1>1 DEF IInv, Control, OneOwner, Splitting, InFlight, Blocks
<1>3. b \notin live \cup dropped \cup ToSet(freeBlocks)
  BY <1>2 DEF IInv, OneOwner
<1>4. req \in Nat
  BY MemPoolAssumption DEF MemPoolAssumption, IInv, TypeOK
<1>5. size' \in [Arena -> Nat] /\ size'[b] = req /\ asked' \in [Arena -> Nat] /\ asked'[b] = req
      /\ \A c \in Arena : c # b => size'[c] = size[c] /\ asked'[c] = asked[c]
  BY <1>1, <1>2, <1>4 DEF IInv, TypeOK
<1>6. \A c \in Blocks : c \in Arena
  BY BlockFacts DEF IInv
<1>7. \A c \in ToSet(freeBlocks) \cup {cur} : size'[c] = size[c]
  <2>1. cur \in Arena
    BY <1>1 DEF AtInsert, IInv, Control
  <2> QED BY <2>1, <1>2, <1>3, <1>5, <1>6 DEF Blocks
<1>8. /\ freeBlocks' \in Seq(Arena) /\ ToSet(freeBlocks') = ToSet(freeBlocks) \cup {cur}
      /\ IsInjective(freeBlocks') /\ Ordered' /\ Coalesced'
      /\ cur # 0 /\ cur \notin live \cup dropped /\ size[cur] \in Nat
  BY <1>1, <1>7, Linked
<1>9. Splitting' = {} /\ InFlight = {cur, b} /\ InFlight' = {}
  BY <1>1, <1>2, <1>8 DEF InFlight, Splitting
<1>10. Blocks' = Blocks
  BY <1>1, <1>8, <1>9 DEF Blocks
<1>11. TypeOK'
  <2>1. /\ req' \in 0 .. (SizeLimit - 1) /\ try' \in 0 .. 2 /\ n' \in Nat /\ addAt' \in Nat
        /\ block' \in Arena \cup {0} /\ cur' \in Arena \cup {0}
    BY <1>1, ConstantFacts
  <2>2. sizeFree' \in Int
    BY <1>1, <1>8 DEF IInv, TypeOK
  <2>3. allocCount' \in 0 .. (CountLimit - 1)
    BY <1>1, MemPoolAssumption DEF MemPoolAssumption, IInv, TypeOK
  <2>4. live' \subseteq Arena /\ dropped' \subseteq Arena
    BY <1>1, <1>2 DEF IInv, TypeOK
  <2>5. merged' \in BOOLEAN
    BY <1>1
  <2> QED BY <1>1, <1>5, <1>8, <2>1, <2>2, <2>3, <2>4, <2>5 DEF IInv, TypeOK
<1>12. Control'
  BY <1>1 DEF Control
<1>13. OneOwner'
  <2>1. \A c \in ToSet(freeBlocks') : c \notin live' \cup dropped' \cup InFlight'
    BY <1>1, <1>2, <1>3, <1>8, <1>9 DEF IInv, OneOwner
  <2>2. live' \cap dropped' = {}
    BY <1>1, <1>3 DEF IInv, OneOwner
  <2> QED BY <2>1, <2>2, <1>1, <1>8, <1>9 DEF OneOwner
<1>14. Layout'
  <2> SUFFICES ASSUME NEW c \in Blocks PROVE Extent(c)' = Extent(c)
    BY <1>1, <1>10, LayoutKept DEF IInv
  <2>1. Width(c)' = Width(c)
    <3>1. CASE c = b
      BY <3>1, <1>2, <1>5, <1>9 DEF Width
    <3>2. CASE c # b
      BY <3>2, <1>2, <1>5, <1>6, <1>9 DEF Width
    <3> QED BY <3>1, <3>2
  <2> QED BY <2>1 DEF Extent
<1>15. Served'
  <2> SUFFICES ASSUME NEW c \in live'
               PROVE  asked'[c] <= size'[c] /\ c + HeaderSize \in Arena
    BY DEF Served
  <2>1. CASE c = b
    BY <2>1, <1>2, <1>4, <1>5
  <2>2. CASE c # b
    BY <2>2, <1>1, <1>5 DEF IInv, TypeOK, Served
  <2> QED BY <2>1, <2>2
<1>16. LinkFits'
  BY <1>1, <1>7, <1>8 DEF IInv, LinkFits
<1>17. Scanned'
  BY <1>1 DEF Scanned
<1> QED BY <1>8, <1>11, <1>12, <1>13, <1>14, <1>15, <1>16, <1>17 DEF IInv

-----------------------------------------------------------------------------
(* The invariant holds for ever.                                           *)

(* Every step of the pool or of a client keeps the invariant. *)
LEMMA NextInv == ASSUME IInv, [Next]_vars PROVE IInv'
PROOF
<1>1. CASE UNCHANGED vars
  <2>1. Blocks' = Blocks /\ InFlight' = InFlight /\ Splitting' = Splitting
    BY <1>1 DEF vars, mem, held, call, scan, Blocks, InFlight, Splitting
  <2>2. TypeOK' /\ Control' /\ OneOwner'
    BY <1>1, <2>1 DEF vars, mem, stats, held, call, scan, IInv, TypeOK, Control, OneOwner
  <2>3. Layout'
    <3>1. \A b \in Blocks : Width(b)' = Width(b)
      BY <1>1, <2>1 DEF vars, mem, call, Width
    <3> QED BY <1>1, <2>1, <3>1, LayoutSame DEF vars, mem, IInv
  <2>4. Served' /\ LinkFits' /\ Ordered' /\ Coalesced'
    BY <1>1 DEF vars, mem, held, call, scan, IInv, Served, LinkFits, Ordered, Coalesced, End
  <2>5. Scanned'
    BY <1>1 DEF vars, mem, held, call, scan, IInv, Scanned, Touches, End
  <2> QED BY <2>2, <2>3, <2>4, <2>5 DEF IInv
<1>2. ASSUME NEW s \in Sizes, AllocCall(s) PROVE IInv'
  BY <1>2, AllocCallInv
<1>3. ASSUME NEW b \in live, Free(b) PROVE IInv'
  BY <1>3, FreeInv
<1>4. ASSUME NEW b \in live, FreeIgnored(b) PROVE IInv'
  BY <1>4, FreeIgnoredInv
<1>5. ASSUME NEW i \in DOMAIN freeBlocks, TakeWhole(i) PROVE IInv'
  BY <1>5, TakeWholeInv
<1>6. ASSUME NEW i \in DOMAIN freeBlocks, TakeAndSplit(i) PROVE IInv'
  BY <1>6, TakeAndSplitInv
<1>7. ASSUME NEW base \in PageAddrs, Grow(base) PROVE IInv'
  BY <1>7, GrowInv
<1>8. CASE AllocFails
  BY <1>8, AllocFailsInv
<1>9. CASE Merge
  BY <1>9, MergeInv
<1>10. CASE Pass
  BY <1>10, PassInv
<1>11. CASE Rescan
  BY <1>11, RescanInv
<1>12. CASE SplitDone
  BY <1>12, SplitDoneInv
<1>13. CASE GrowDone
  BY <1>13, GrowDoneInv
<1>14. CASE FreeDone
  BY <1>14, FreeDoneInv
<1>15. CASE LinkOverrun
  BY <1>15, LinkOverrunInv
<1> QED
  BY <1>1, <1>2, <1>3, <1>4, <1>5, <1>6, <1>7, <1>8, <1>9, <1>10, <1>11, <1>12, <1>13, <1>14,
     <1>15 DEF Next, Call, Step

(* The inductive invariant holds in every state the pool reaches. *)
THEOREM Invariance == Spec => []IInv
PROOF
<1>1. Init => IInv
  BY InitInv
<1>2. IInv /\ [Next]_vars => IInv'
  BY NextInv
<1> QED BY <1>1, <1>2, PTL DEF Spec

(* Every variable stays in its type: no arithmetic of the pool leaves its range. *)
THEOREM TypeCorrect == Spec => []TypeOK
PROOF
<1>1. IInv => TypeOK
  BY DEF IInv
<1> QED BY <1>1, Invariance, PTL

(* Every block is in exactly one place: the list, a client, dropped, or the running call. *)
THEOREM BlocksHaveOneOwner == Spec => []OneOwner
PROOF
<1>1. IInv => OneOwner
  BY DEF IInv
<1> QED BY <1>1, Invariance, PTL

(* The blocks tile the memory handed out by getPage, in every state of every call. *)
THEOREM BlocksTile == Spec => []Tiling
PROOF
<1>1. IInv => Tiling
  <2> SUFFICES ASSUME NoOverlap, Covering PROVE Tiling
    BY DEF IInv, Layout
  <2>1. UNION {Extent(b) : b \in Blocks} = handed
    BY DEF Covering
  <2> QED BY <2>1 DEF Tiling
<1> QED BY <1>1, Invariance, PTL

(* Every byte of the pool has one block, and every block one owner. *)
THEOREM BlocksPartitionMemory == Spec => []BlocksPartition
PROOF
<1>1. OneOwner /\ Tiling => BlocksPartition
  BY DEF BlocksPartition
<1> QED BY <1>1, BlocksHaveOneOwner, BlocksTile, PTL

(* addFreeBlock never leaves two neighbours on the list. *)
THEOREM FreeListCoalesced == Spec => []Coalesced
PROOF
<1>1. IInv => Coalesced
  BY DEF IInv
<1> QED BY <1>1, Invariance, PTL

(* Only the tail of a split can be too small for its link. *)
THEOREM OverrunIsOfSplit == Spec => []OverrunOnlyFromSplit
PROOF
<1>1. IInv => OverrunOnlyFromSplit
  <2> SUFFICES ASSUME IInv, pc = "smashed", from # "split" PROVE FALSE
    BY DEF OverrunOnlyFromSplit
  <2>1. size[cur] >= LinkSize /\ size[cur] < LinkSize /\ cur \in Arena
    BY DEF IInv, LinkFits, Control
  <2>2. size[cur] \in Nat
    BY <2>1 DEF IInv, TypeOK
  <2> QED BY <2>1, <2>2, ConstantFacts
<1> QED BY <1>1, Invariance, PTL

(* First fit on the ordered list is best fit. *)
THEOREM AllocIsBestFit == Spec => BestFit
PROOF
<1> DEFINE Smallest(i) == \A j \in DOMAIN freeBlocks :
             size[freeBlocks[j]] >= req => size[freeBlocks[i]] <= size[freeBlocks[j]]
<1>1. ASSUME IInv, NEW i \in DOMAIN freeBlocks, FirstFit(i) PROVE Smallest(i)
  <2> SUFFICES ASSUME NEW j \in DOMAIN freeBlocks, size[freeBlocks[j]] >= req
               PROVE  size[freeBlocks[i]] <= size[freeBlocks[j]]
    OBVIOUS
  <2>0. freeBlocks \in Seq(Arena) /\ size \in [Arena -> Nat] /\ req \in Nat
    BY <1>1, MemPoolAssumption DEF MemPoolAssumption, IInv, TypeOK
  <2>1. i \in 1 .. Len(freeBlocks) /\ j \in 1 .. Len(freeBlocks)
    BY <2>0
  <2>2. size[freeBlocks[j]] \in Nat /\ size[freeBlocks[i]] \in Nat /\ req \in Nat
    BY <2>0, <2>1
  <2>3. ~(j < i)
    BY <1>1, <2>1, <2>2 DEF FirstFit
  <2>4. CASE i < j
    BY <1>1, <2>1, <2>4 DEF IInv, Ordered
  <2>5. CASE i = j
    BY <2>2, <2>5
  <2> QED BY <2>1, <2>3, <2>4, <2>5
<1>2. ASSUME IInv, NEW i \in DOMAIN freeBlocks, TakeWhole(i) \/ TakeAndSplit(i) PROVE Smallest(i)
  BY <1>1, <1>2 DEF TakeWhole, TakeAndSplit
<1>3. IInv => [\A i \in DOMAIN freeBlocks : TakeWhole(i) \/ TakeAndSplit(i) => Smallest(i)]_vars
  BY <1>2
<1> QED BY <1>3, Invariance, PTL DEF BestFit

-----------------------------------------------------------------------------
(* The pages asked for are enough.                                         *)

(* Without a wrap, the grown block serves the request wherever it is now. *)
GrowthInv ==
  req + HeaderSize < SizeLimit =>
    /\ from = "grow" => try = 0 /\ size[cur] >= req
    /\ pc = "find" /\ try # 0 =>
         try = 1 /\ \E i \in 1 .. Len(freeBlocks) : size[freeBlocks[i]] >= req

(* Every step keeps the grown block at hand. *)
LEMMA GrowthNext == ASSUME IInv, GrowthInv, [Next]_vars PROVE GrowthInv'
PROOF
<1> SUFFICES ASSUME req' + HeaderSize < SizeLimit
             PROVE  /\ from' = "grow" => try' = 0 /\ size'[cur'] >= req'
                    /\ pc' = "find" /\ try' # 0 => try' = 1
                         /\ \E i \in 1 .. Len(freeBlocks') : size'[freeBlocks'[i]] >= req'
  BY DEF GrowthInv
<1>0. freeBlocks \in Seq(Arena) /\ size \in [Arena -> Nat] /\ req \in Nat
  BY MemPoolAssumption DEF MemPoolAssumption, IInv, TypeOK
<1>1. CASE UNCHANGED vars
  BY <1>1 DEF vars, mem, call, scan, GrowthInv
<1>2. ASSUME NEW s \in Sizes, AllocCall(s) PROVE from' # "grow" /\ try' = 0
  BY <1>2 DEF AllocCall, IInv, Control
<1>3. ASSUME NEW b \in live, Free(b) PROVE from' # "grow" /\ pc' # "find"
  BY <1>3 DEF Free, AddFreeBlock
<1>4. ASSUME NEW b \in live, FreeIgnored(b) PROVE from' # "grow" /\ pc' # "find"
  BY <1>4 DEF FreeIgnored, call, IInv, Control
<1>5. ASSUME NEW i \in DOMAIN freeBlocks, TakeWhole(i) PROVE from' # "grow" /\ pc' # "find"
  BY <1>5 DEF TakeWhole, Return
<1>6. ASSUME NEW i \in DOMAIN freeBlocks, TakeAndSplit(i) PROVE from' # "grow" /\ pc' # "find"
  BY <1>6 DEF TakeAndSplit, AddFreeBlock
<1>7. ASSUME NEW base \in PageAddrs, Grow(base)
      PROVE  try' = 0 /\ size'[cur'] >= req' /\ pc' # "find"
  <2>1. PICK len : len = Pages * PageSize
    OBVIOUS
  <2>2. /\ pc = "find" /\ NoFit /\ req' = req /\ try' = try /\ cur' = base /\ pc' = "add"
        /\ size' = [size EXCEPT ![base] = len - HeaderSize]
    BY <1>7, <2>1 DEF Grow, AddFreeBlock
  <2>3. len \in Nat /\ len >= HeaderSize + LinkSize /\ len > req + HeaderSize
    BY <2>1, <2>2, PagesFacts DEF IInv
  <2>4. base \in Arena
    BY MemPoolAssumption DEF MemPoolAssumption
  <2>5. size'[base] >= req
    BY <1>0, <2>2, <2>3, <2>4, ConstantFacts
  <2>6. \A i \in 1 .. Len(freeBlocks) : ~(size[freeBlocks[i]] >= req)
    BY <1>0, <2>2 DEF NoFit
  <2>7. try = 0
    BY <2>2, <2>6 DEF GrowthInv
  <2> QED BY <2>2, <2>5, <2>7
<1>8. ASSUME AllocFails PROVE from' # "grow" /\ pc' # "find"
  BY <1>8 DEF AllocFails, Return
<1>9. ASSUME Merge, from = "grow" PROVE try' = 0 /\ size'[cur'] >= req' /\ pc' # "find"
  <2>1. PICK b, low, high : /\ b = freeBlocks[n]
                            /\ low = IF End(b) = cur THEN b ELSE cur
                            /\ high = IF End(b) = cur THEN cur ELSE b
    OBVIOUS
  <2>2. /\ size' = [size EXCEPT ![low] = size[low] + size[high] + HeaderSize, ![high] = 0]
        /\ cur' = low /\ pc' = "add" /\ req' = req /\ try' = try
        /\ n \in 1 .. Len(freeBlocks) /\ cur \in Arena
        /\ End(b) = cur \/ End(cur) = b
    BY <1>9, <2>1 DEF Merge, Scanning, Touches, call, IInv, Control
  <2>3. b \in Arena /\ cur \in Arena /\ b \in Nat /\ cur \in Nat
    <3>1. freeBlocks[n] \in Arena
      BY <1>0, <2>2
    <3> QED BY <3>1, <2>1, <2>2, ConstantFacts
  <2>4. low # high /\ {low, high} = {b, cur} /\ low \in Arena /\ high \in Arena
    <3>1. size[b] \in Nat /\ size[cur] \in Nat
      BY <1>0, <2>3
    <3>2. b # cur
      BY <3>1, <2>2, <2>3, ConstantFacts DEF End
    <3> QED BY <3>2, <2>1, <2>3
  <2>5. size'[low] = size[low] + size[high] + HeaderSize
    BY <1>0, <2>2, <2>4
  <2>6. size[cur] >= req /\ try = 0
    BY <1>9, <2>2 DEF GrowthInv
  <2>7. size[low] \in Nat /\ size[high] \in Nat
    BY <1>0, <2>4
  <2>8. size'[low] >= req
    <3>1. CASE low = cur
      BY <3>1, <1>0, <2>5, <2>6, <2>7, ConstantFacts
    <3>2. CASE high = cur
      BY <3>2, <1>0, <2>5, <2>6, <2>7, ConstantFacts
    <3> QED BY <2>4, <3>1, <3>2
  <2> QED BY <2>2, <2>6, <2>8
<1>10. ASSUME Merge, from # "grow" PROVE from' # "grow" /\ pc' # "find"
  BY <1>10 DEF Merge, Scanning, call
<1>11. CASE Pass
  BY <1>11 DEF Pass, Scanning, mem, call, GrowthInv
<1>12. CASE Rescan
  BY <1>12 DEF Rescan, mem, call, GrowthInv
<1>13. ASSUME SplitDone \/ FreeDone PROVE from' # "grow" /\ pc' # "find"
  BY <1>13 DEF SplitDone, FreeDone, Return
<1>14. ASSUME GrowDone
       PROVE  /\ from' # "grow" /\ try' = 1
              /\ \E i \in 1 .. Len(freeBlocks') : size'[freeBlocks'[i]] >= req'
  <2>1. /\ AtInsert /\ from = "grow" /\ from' = "none" /\ try' = try + 1 /\ req' = req
        /\ freeBlocks' = InsertAt(freeBlocks, addAt + 1, cur) /\ size' = size
    BY <1>14 DEF GrowDone, Link
  <2>2. size[cur] >= req /\ try = 0
    BY <2>1 DEF GrowthInv
  <2>3. freeBlocks' \in Seq(Arena) /\ ToSet(freeBlocks') = ToSet(freeBlocks) \cup {cur}
    BY <2>1, Linked
  <2>4. PICK i \in 1 .. Len(freeBlocks') : freeBlocks'[i] = cur
    BY <2>3, Members
  <2> QED BY <2>1, <2>2, <2>4
<1>15. CASE LinkOverrun
  BY <1>15 DEF LinkOverrun, mem, call, scan, GrowthInv
<1> QED
  BY <1>1, <1>2, <1>3, <1>4, <1>5, <1>6, <1>7, <1>8, <1>9, <1>10, <1>11, <1>12, <1>13, <1>14,
     <1>15 DEF Next, Call, Step

(* alloc misses after growing the pool only when the size wrapped around. *)
THEOREM GrowthIsEnough == Spec => []GrowthServes
PROOF
<1>1. Init => GrowthInv
  BY DEF Init, GrowthInv
<1>2. IInv /\ GrowthInv /\ [Next]_vars => GrowthInv'
  BY GrowthNext
<1>3. IInv /\ GrowthInv => GrowthServes
  <2> SUFFICES ASSUME IInv, GrowthInv, pc = "find", try = 2 \/ (try = 1 /\ NoFit)
               PROVE  req + HeaderSize >= SizeLimit
    BY DEF GrowthServes
  <2>1. req \in Nat /\ HeaderSize \in Nat /\ SizeLimit \in Nat /\ freeBlocks \in Seq(Arena)
        /\ size \in [Arena -> Nat]
    BY MemPoolAssumption DEF MemPoolAssumption, IInv, TypeOK
  <2>2. CASE req + HeaderSize < SizeLimit
    <3>1. try = 1 /\ \E i \in 1 .. Len(freeBlocks) : size[freeBlocks[i]] >= req
      BY <2>2 DEF GrowthInv
    <3>2. NoFit
      BY <3>1
    <3> QED BY <2>1, <3>1, <3>2 DEF NoFit
  <2> QED BY <2>1, <2>2
<1> QED BY <1>1, <1>2, <1>3, Invariance, PTL DEF Spec

-----------------------------------------------------------------------------
(* The pool implements the abstract heap.                                  *)

(* A step that leaves the live blocks alone is no step of the heap. *)
LEMMA ClaimsKept ==
  ASSUME UNCHANGED <<live, asked>>
  PROVE  Claims' = Claims
  BY DEF Claims

(* Granting a block is an allocation of the heap. *)
LEMMA GrantIsAlloc ==
  ASSUME IInv, IInv', NEW b, b \in live', b \notin live, NEW s \in Sizes,
         live' = live \cup {b}, asked' = [asked EXCEPT ![b] = s]
  PROVE  TheHeap!Alloc(b + HeaderSize, s) /\ b + HeaderSize \in Arena
PROOF
<1>1. b \in Arena /\ b \in Nat /\ asked'[b] = s /\ s \in Nat
      /\ \A c \in live : c \in Arena /\ c \in Nat /\ asked'[c] = asked[c]
  BY ConstantFacts DEF IInv, TypeOK
<1>2. Claims' = Claims \cup {<<b + HeaderSize, s>>}
  BY <1>1 DEF Claims
<1>3. ASSUME NEW c \in live'
      PROVE  /\ c + HeaderSize \in Arena /\ c \in Blocks'
             /\ (c + HeaderSize) .. (c + HeaderSize + asked'[c] - 1) \subseteq Extent(c)'
  <2>1. c \in Blocks' /\ c \in Nat /\ asked'[c] \in Nat /\ size'[c] \in Nat /\ asked'[c] <= size'[c]
        /\ c + HeaderSize \in Arena
    BY ConstantFacts DEF IInv, TypeOK, Served, Blocks
  <2>2. c \notin Splitting'
    BY DEF IInv, OneOwner, InFlight
  <2>3. Width(c)' = size'[c]
    BY <2>2 DEF Width
  <2>4. Extent(c)' = c .. (c + HeaderSize + size'[c] - 1)
    BY <2>3 DEF Extent
  <2> QED BY <2>1, <2>4, ConstantFacts
<1>4. Extent(b)' \subseteq Arena
  BY <1>3 DEF IInv, Layout, Covering, TypeOK
<1>5. (b + HeaderSize) .. (b + HeaderSize + s - 1) \subseteq Arena
  BY <1>1, <1>3, <1>4
<1>6. ASSUME NEW c \in Claims
      PROVE  /\ c[1] # b + HeaderSize
             /\ (c[1] .. (c[1] + c[2] - 1))
                  \cap ((b + HeaderSize) .. (b + HeaderSize + s - 1)) = {}
  <2>1. PICK d \in live : c = <<d + HeaderSize, asked[d]>>
    BY DEF Claims
  <2>2. c[1] = d + HeaderSize /\ c[2] = asked'[d] /\ d # b /\ d \in live'
    BY <1>1, <2>1
  <2>3. Extent(d)' \cap Extent(b)' = {}
    BY <2>2, <1>3 DEF IInv, Layout, NoOverlap
  <2>4. c[1] # b + HeaderSize
    BY <1>1, <2>1, <2>2, ConstantFacts
  <2> QED BY <1>1, <1>3, <2>2, <2>3, <2>4
<1> QED BY <1>2, <1>3, <1>5, <1>6 DEF TheHeap!Alloc, TheHeap!Bytes

(* Giving up a block is a release of the heap. *)
LEMMA DropIsFree ==
  ASSUME IInv, NEW b \in live, live' = live \ {b}, asked' = [asked EXCEPT ![b] = 0]
  PROVE  TheHeap!Free(<<b + HeaderSize, asked[b]>>) /\ <<b + HeaderSize, asked[b]>> \in Claims
PROOF
<1>1. \A c \in live : c \in Arena /\ c \in Nat
  BY ConstantFacts DEF IInv, TypeOK
<1>2. \A c \in live : c # b => asked'[c] = asked[c] /\ c + HeaderSize # b + HeaderSize
  BY <1>1, ConstantFacts DEF IInv, TypeOK
<1>3. Claims' = Claims \ {<<b + HeaderSize, asked[b]>>}
  BY <1>2 DEF Claims
<1> QED BY <1>3 DEF TheHeap!Free, Claims

(* Every step of the pool is a step of the heap or changes nothing a client sees. *)
LEMMA NextRefines ==
  ASSUME IInv, IInv', [Next]_vars PROVE [TheHeap!Next]_Claims
PROOF
<1>1. CASE UNCHANGED vars
  BY <1>1, ClaimsKept DEF vars, held
<1>2. ASSUME NEW s \in Sizes, AllocCall(s) PROVE Claims' = Claims
  BY <1>2, ClaimsKept DEF AllocCall, held
<1>3. ASSUME NEW b \in live, Free(b) \/ FreeIgnored(b) PROVE TheHeap!Next
  BY <1>3, DropIsFree DEF Free, FreeIgnored, TheHeap!Next
<1>4. ASSUME NEW i \in DOMAIN freeBlocks, TakeWhole(i) PROVE TheHeap!Next
  <2>1. PICK b : b = freeBlocks[i]
    OBVIOUS
  <2>2. live' = live \cup {b} /\ asked' = [asked EXCEPT ![b] = req] /\ pc = "find"
    BY <1>4, <2>1 DEF TakeWhole, Grant
  <2>3. b \in ToSet(freeBlocks)
    <3>1. freeBlocks \in Seq(Arena)
      BY DEF IInv, TypeOK
    <3> QED BY <3>1, <2>1, Members
  <2>4. b \notin live /\ req \in Sizes
    BY <2>2, <2>3, ListBlock DEF IInv, Control
  <2> QED BY <2>2, <2>4, GrantIsAlloc DEF TheHeap!Next
<1>5. ASSUME NEW i \in DOMAIN freeBlocks, TakeAndSplit(i) PROVE Claims' = Claims
  BY <1>5, ClaimsKept DEF TakeAndSplit, held
<1>6. ASSUME NEW base \in PageAddrs, Grow(base) PROVE Claims' = Claims
  BY <1>6, ClaimsKept DEF Grow, held
<1>7. CASE AllocFails \/ Merge \/ Pass \/ Rescan \/ GrowDone \/ FreeDone \/ LinkOverrun
  BY <1>7, ClaimsKept DEF AllocFails, Merge, Pass, Rescan, GrowDone, FreeDone, LinkOverrun, held
<1>8. CASE SplitDone
  <2>1. PICK b : b = block
    OBVIOUS
  <2>2. live' = live \cup {b} /\ asked' = [asked EXCEPT ![b] = req] /\ from = "split"
    BY <1>8, <2>1 DEF SplitDone, Grant
  <2>3. b \in InFlight
    BY <2>1, <2>2 DEF InFlight, Splitting
  <2>4. b \notin live /\ req \in Sizes
    BY <2>2, <2>3 DEF IInv, OneOwner, Control
  <2> QED BY <2>2, <2>4, GrantIsAlloc DEF TheHeap!Next
<1> QED BY <1>1, <1>2, <1>3, <1>4, <1>5, <1>6, <1>7, <1>8 DEF Next, Call, Step

(* The free list stays coalesced, and alloc takes the smallest block of it    *)
(* that is large enough.                                                      *)
THEOREM FreeListIsSound == Spec => FreeListServes
  BY FreeListCoalesced, AllocIsBestFit, PTL DEF FreeListServes

(* Clients see a heap: what is granted is theirs alone until they give it back. *)
THEOREM PoolImplementsHeap == Spec => ImplementsHeap
PROOF
<1>1. Init => TheHeap!Init
  BY DEF Init, TheHeap!Init, Claims
<1>2. IInv /\ IInv' /\ [Next]_vars => [TheHeap!Next]_Claims
  BY NextRefines
<1> QED BY <1>1, <1>2, Invariance, PTL DEF Spec, ImplementsHeap, TheHeap!Spec

-----------------------------------------------------------------------------
(* Induction over finite sets, and sums.                                   *)

(* Of the finite sets that are bad there is one all of whose proper subsets *)
(* are not: what induction over finite sets comes down to.                  *)
LEMMA LeastSubset ==
  ASSUME NEW S, NEW Bad, Bad \subseteq FiniteSubsetsOf(S), Bad # {}
  PROVE  \E T \in Bad : \A U \in SUBSET T : U # T => U \notin Bad
<1>1. PICK T \in Bad : \A U \in Bad : <<U, T>> \notin StrictSubsetOrdering(S)
  BY FS_StrictSubsetOrderingWellFounded, WFMin
<1>2. ASSUME NEW U \in SUBSET T, U # T, U \in Bad PROVE FALSE
  <2>1. <<U, T>> \in StrictSubsetOrdering(S)
    BY <1>2 DEF StrictSubsetOrdering, FiniteSubsetsOf
  <2> QED
    BY <1>1, <1>2, <2>1
<1> QED
  BY <1>2

(* g says for every subset of S what folding step over it, in the order of c, *)
(* gives.                                                                     *)
Folds(g, S, c, step, base) ==
  \A T \in SUBSET S : g[T] = IF T = {} THEN base ELSE step[<<c[T], g[T \ {c[T]}]>>]

(* No two functions fold alike and differ. *)
LEMMA FoldsAgree ==
  ASSUME NEW S, NEW R, NEW c, NEW step, NEW base, NEW g, NEW h,
         \A T \in SUBSET S : T # {} => c[T] \in T,
         Folds(g, S, c, step, base), Folds(h, R, c, step, base),
         NEW T, T \subseteq S, T \subseteq R, IsFiniteSet(T)
  PROVE  g[T] = h[T]
<1> DEFINE Bad == {U \in SUBSET T : g[U] # h[U]}
<1> SUFFICES ASSUME Bad # {} PROVE FALSE
  OBVIOUS
<1>1. Bad \subseteq FiniteSubsetsOf(S)
  <2>1. ASSUME NEW U \in Bad PROVE IsFiniteSet(U) /\ U \in SUBSET S
    BY FS_Subset
  <2> QED
    BY <2>1 DEF FiniteSubsetsOf
<1>2. PICK U \in Bad : \A W \in SUBSET U : W # U => W \notin Bad
  <2> HIDE DEF Bad
  <2> QED
    BY <1>1, LeastSubset
<1>3. U \in SUBSET S /\ U \in SUBSET R /\ U \in SUBSET T /\ g[U] # h[U]
  OBVIOUS
<1>4. CASE U = {}
  BY <1>3, <1>4 DEF Folds
<1>5. CASE U # {}
  <2>1. c[U] \in U
    BY <1>3, <1>5
  <2>2. g[U \ {c[U]}] = h[U \ {c[U]}]
    BY <1>2, <1>3, <2>1
  <2>3. g[U] = step[<<c[U], g[U \ {c[U]}]>>] /\ h[U] = step[<<c[U], h[U \ {c[U]}]>>]
    BY <1>3, <1>5 DEF Folds
  <2> QED
    BY <1>3, <2>2, <2>3
<1> QED
  BY <1>4, <1>5

(* Over a finite set there is a fold. *)
LEMMA FoldExists ==
  ASSUME NEW S, IsFiniteSet(S), NEW V, NEW c, NEW step, NEW base \in V,
         \A T \in SUBSET S : T # {} => c[T] \in T,
         \A x \in S, v \in V : step[<<x, v>>] \in V
  PROVE  \E g \in [SUBSET S -> V] : Folds(g, S, c, step, base)
<1> DEFINE Has(T) == \E g \in [SUBSET T -> V] : Folds(g, T, c, step, base)
           Bad == {T \in SUBSET S : ~Has(T)}
<1> SUFFICES ASSUME Bad # {} PROVE FALSE
  OBVIOUS
<1>1. Bad \subseteq FiniteSubsetsOf(S)
  <2>1. ASSUME NEW U \in Bad PROVE IsFiniteSet(U) /\ U \in SUBSET S
    BY FS_Subset
  <2> QED
    BY <2>1 DEF FiniteSubsetsOf
<1>2. PICK T \in Bad : \A U \in SUBSET T : U # T => U \notin Bad
  <2> HIDE DEF Bad
  <2> QED
    BY <1>1, LeastSubset
<1>3. T \in SUBSET S /\ ~Has(T) /\ \A U \in SUBSET T : U # T => Has(U)
  BY <1>2
<1> DEFINE h(U) == CHOOSE g \in [SUBSET U -> V] : Folds(g, U, c, step, base)
           g == [U \in SUBSET T |-> IF U = {} THEN base ELSE step[<<c[U], h(U \ {c[U]})[U \ {c[U]}]>>]]
<1>4. ASSUME NEW U \in SUBSET T, U # T PROVE h(U) \in [SUBSET U -> V] /\ Folds(h(U), U, c, step, base)
  BY <1>3, <1>4
<1> HIDE DEF h
<1>5. ASSUME NEW U \in SUBSET T, U # {}
      PROVE  /\ c[U] \in U /\ U \ {c[U]} \in SUBSET T /\ U \ {c[U]} # T
             /\ h(U \ {c[U]})[U \ {c[U]}] \in V
  <2>1. c[U] \in U
    BY <1>3, <1>5
  <2> DEFINE W == U \ {c[U]}
  <2>2. W \in SUBSET T /\ W # T /\ W \in SUBSET W
    BY <2>1
  <2> HIDE DEF W
  <2>3. h(W)[W] \in V
    <3>1. h(W) \in [SUBSET W -> V]
      BY <1>4, <2>2
    <3> QED
      BY <2>2, <3>1
  <2> QED
    BY <2>1, <2>2, <2>3 DEF W
<1>6. g \in [SUBSET T -> V]
  <2>1. ASSUME NEW U \in SUBSET T
        PROVE  (IF U = {} THEN base ELSE step[<<c[U], h(U \ {c[U]})[U \ {c[U]}]>>]) \in V
    <3>1. CASE U = {}
      BY <3>1
    <3>2. CASE U # {}
      <4>1. c[U] \in S /\ h(U \ {c[U]})[U \ {c[U]}] \in V
        BY <1>3, <1>5, <3>2
      <4> QED
        BY <3>2, <4>1
    <3> QED
      BY <3>1, <3>2
  <2> QED
    BY <2>1
<1>7. ASSUME NEW U \in SUBSET T, U # {} PROVE g[U \ {c[U]}] = h(U \ {c[U]})[U \ {c[U]}]
  <2> DEFINE W == U \ {c[U]}
  <2>1. W \in SUBSET T /\ W # T
    BY <1>5, <1>7
  <2> HIDE DEF W
  <2>2. Folds(h(W), W, c, step, base)
    BY <1>4, <2>1
  <2>3. CASE W = {}
    <3>1. h(W)[W] = base
      BY <2>2, <2>3 DEF Folds
    <3> QED
      BY <2>1, <2>3, <3>1 DEF W
  <2>4. CASE W # {}
    <3> DEFINE X == W \ {c[W]}
    <3>1. c[W] \in W /\ X \in SUBSET W /\ X \in SUBSET T /\ X # T /\ IsFiniteSet(X)
      <4>1. c[W] \in W /\ X \in SUBSET T /\ X # T
        BY <1>5, <2>1, <2>4
      <4>2. X \in SUBSET S
        BY <1>3, <4>1
      <4>3. IsFiniteSet(X)
        BY <4>2, FS_Subset
      <4> QED
        BY <4>1, <4>3
    <3>2. h(W)[W] = step[<<c[W], h(W)[X]>>]
      BY <2>2, <2>4 DEF Folds
    <3>3. g[W] = step[<<c[W], h(X)[X]>>]
      BY <2>1, <2>4
    <3> HIDE DEF X
    <3>4. Folds(h(X), X, c, step, base)
      BY <1>4, <3>1
    <3>5. \A Y \in SUBSET X : Y # {} => c[Y] \in Y
      BY <1>3, <3>1
    <3>6. h(X)[X] = h(W)[X]
      BY <2>2, <3>1, <3>4, <3>5, FoldsAgree
    <3> QED
      BY <3>2, <3>3, <3>6 DEF W
  <2> QED
    BY <2>3, <2>4
<1>8. Folds(g, T, c, step, base)
  <2>1. ASSUME NEW U \in SUBSET T
        PROVE  g[U] = IF U = {} THEN base ELSE step[<<c[U], g[U \ {c[U]}]>>]
    <3>1. g[U] = IF U = {} THEN base ELSE step[<<c[U], h(U \ {c[U]})[U \ {c[U]}]>>]
      OBVIOUS
    <3> HIDE DEF g
    <3> QED
      BY <1>7, <3>1
  <2> HIDE DEF g
  <2> QED
    BY <2>1 DEF Folds
<1> HIDE DEF g
<1> QED
  BY <1>3, <1>6, <1>8

(* A sum over a finite set is an integer; of the empty set it is zero, and of *)
(* any other one element is added to the sum of the rest.                     *)
LEMMA SumOfOne ==
  ASSUME NEW S, IsFiniteSet(S), NEW f, \A x \in S : f[x] \in Int
  PROVE  /\ SumFunctionOnSet(f, S) \in Int
         /\ S = {} => SumFunctionOnSet(f, S) = 0
         /\ S # {} => \E x \in S : SumFunctionOnSet(f, S) = f[x] + SumFunctionOnSet(f, S \ {x})
<1> DEFINE any(T) == CHOOSE x \in T : TRUE
           Sums(h, R) == h = [T \in SUBSET R |-> IF T = {} THEN 0 ELSE f[any(T)] + h[T \ {any(T)}]]
           sum(R) == CHOOSE h : Sums(h, R)
           c == [T \in SUBSET S |-> any(T)]
           step == [p \in S \X Int |-> f[p[1]] + p[2]]
<1>1. \A R : SumFunctionOnSet(f, R) = sum(R)[R]
  BY DEF SumFunctionOnSet, FoldFunctionOnSet, MapThenFoldSet
<1>2. \A T \in SUBSET S : T # {} => any(T) \in T /\ c[T] = any(T)
  OBVIOUS
<1> HIDE DEF any
<1>3. \A x \in S, v \in Int : step[<<x, v>>] = f[x] + v /\ step[<<x, v>>] \in Int
  OBVIOUS
<1>4. ASSUME NEW R \in SUBSET S
      PROVE  /\ sum(R) \in [SUBSET R -> Int]
             /\ Folds(sum(R), R, c, step, 0)
  <2>1. IsFiniteSet(R) /\ (\A T \in SUBSET R : T # {} => c[T] \in T)
        /\ \A x \in R, v \in Int : step[<<x, v>>] \in Int
    BY <1>2, <1>3, FS_Subset
  <2> HIDE DEF c, step
  <2>2. PICK g \in [SUBSET R -> Int] : Folds(g, R, c, step, 0)
    <3>1. \E g \in [SUBSET R -> Int] : Folds(g, R, c, step, 0)
      <4> DEFINE V == Int
      <4>1. 0 \in V /\ \A x \in R, v \in V : step[<<x, v>>] \in V
        BY <2>1
      <4> HIDE DEF V
      <4>2. \E g \in [SUBSET R -> V] : Folds(g, R, c, step, 0)
        BY <2>1, <4>1, FoldExists
      <4> QED
        BY <4>2 DEF V
    <3> QED
      BY <3>1
  <2>3. ASSUME NEW h \in [SUBSET R -> Int], NEW T \in SUBSET R
        PROVE  (IF T = {} THEN 0 ELSE f[any(T)] + h[T \ {any(T)}])
                 = (IF T = {} THEN 0 ELSE step[<<c[T], h[T \ {c[T]}]>>])
    <3>1. CASE T # {}
      <4>1. c[T] = any(T) /\ any(T) \in S /\ h[T \ {any(T)}] \in Int
        BY <1>2, <3>1
      <4> QED
        BY <1>3, <3>1, <4>1
    <3> QED
      BY <3>1
  <2>4. Sums(g, R)
    <3>1. \A T \in SUBSET R : g[T] = IF T = {} THEN 0 ELSE f[any(T)] + g[T \ {any(T)}]
      BY <2>2, <2>3 DEF Folds
    <3> QED
      BY <3>1
  <2>5. Sums(sum(R), R)
    <3> HIDE DEF Sums
    <3> QED
      BY <2>4
  <2> HIDE DEF sum
  <2>6. sum(R) = g
    <3> DEFINE h == sum(R)
    <3>0. DOMAIN h = SUBSET R /\ h = [T \in SUBSET R |-> h[T]]
          /\ \A T \in SUBSET R : h[T] = IF T = {} THEN 0 ELSE f[any(T)] + h[T \ {any(T)}]
      BY <2>5
    <3> HIDE DEF h
    <3> DEFINE Bad == {T \in SUBSET R : h[T] # g[T]}
    <3>1. Bad \subseteq FiniteSubsetsOf(S)
      <4>1. \A T \in Bad : IsFiniteSet(T) /\ T \in SUBSET S
        BY FS_Subset
      <4> QED
        BY <4>1 DEF FiniteSubsetsOf
    <3>2. ASSUME Bad # {} PROVE FALSE
      <4>1. PICK T \in Bad : \A U \in SUBSET T : U # T => U \notin Bad
        <5> HIDE DEF Bad
        <5> QED
          BY <3>1, <3>2, LeastSubset
      <4>2. T \in SUBSET R /\ h[T] # g[T] /\ \A U \in SUBSET T : U # T => h[U] = g[U]
        BY <4>1
      <4>3. g[T] = IF T = {} THEN 0 ELSE f[any(T)] + g[T \ {any(T)}]
        BY <2>4, <4>2
      <4>4. h[T] = IF T = {} THEN 0 ELSE f[any(T)] + h[T \ {any(T)}]
        BY <3>0, <4>2
      <4>5. T # {} => any(T) \in T
        BY <1>2, <4>2
      <4> QED
        BY <4>2, <4>3, <4>4, <4>5
    <3> QED
      BY <3>0, <3>2 DEF h
  <2> QED
    BY <2>2, <2>6
<1> HIDE DEF sum, step
<1>5. SumFunctionOnSet(f, S) \in Int
  <2>1. S \in SUBSET S /\ sum(S) \in [SUBSET S -> Int]
    BY <1>4
  <2>2. sum(S)[S] \in Int
    BY <2>1
  <2> QED
    BY <1>1, <2>2
<1>6. S = {} => SumFunctionOnSet(f, S) = 0
  BY <1>1, <1>4 DEF Folds
<1>7. ASSUME S # {} PROVE \E x \in S : SumFunctionOnSet(f, S) = f[x] + SumFunctionOnSet(f, S \ {x})
  <2> DEFINE x == any(S)
             R == S \ {x}
  <2>1. x \in S /\ c[S] = x
    BY <1>2, <1>7
  <2>2. R \in SUBSET S /\ IsFiniteSet(R)
    BY FS_Subset
  <2>3. Folds(sum(S), S, c, step, 0) /\ Folds(sum(R), R, c, step, 0) /\ sum(R)[R] \in Int
    BY <1>4, <2>2
  <2>4. sum(S)[S] = step[<<x, sum(S)[R]>>]
    <3>1. sum(S)[S] = step[<<c[S], sum(S)[S \ {c[S]}]>>]
      BY <1>7, <2>3 DEF Folds
    <3> QED
      BY <2>1, <3>1
  <2>5. \A T \in SUBSET R : T # {} => c[T] \in T
    BY <1>2, <2>2
  <2> HIDE DEF c, x, R
  <2>6. sum(R)[R] = sum(S)[R]
    BY <2>2, <2>3, <2>5, FoldsAgree
  <2>7. SumFunctionOnSet(f, S) = f[x] + SumFunctionOnSet(f, R)
    BY <1>1, <1>3, <2>1, <2>3, <2>4, <2>6
  <2> QED
    BY <2>1, <2>7 DEF R
<1> QED
  BY <1>5, <1>6, <1>7

(* It does not matter which. *)
LEMMA SumTakes ==
  ASSUME NEW S, IsFiniteSet(S), NEW f, \A x \in S : f[x] \in Int, NEW y \in S
  PROVE  SumFunctionOnSet(f, S) = f[y] + SumFunctionOnSet(f, S \ {y})
<1> DEFINE Sum(T) == SumFunctionOnSet(f, T)
           Bad == {T \in SUBSET S : ~ \A x \in T : Sum(T) = f[x] + Sum(T \ {x})}
<1>1. \A T \in SUBSET S : IsFiniteSet(T) /\ (\A x \in T : f[x] \in Int)
  BY FS_Subset
<1>2. \A T \in SUBSET S : /\ Sum(T) \in Int
                          /\ T # {} => \E x \in T : Sum(T) = f[x] + Sum(T \ {x})
  BY <1>1, SumOfOne
<1> HIDE DEF Sum
<1>3. ASSUME Bad # {} PROVE FALSE
  <2>1. Bad \subseteq FiniteSubsetsOf(S)
    <3>1. \A T \in Bad : IsFiniteSet(T) /\ T \in SUBSET S
      BY <1>1
    <3> QED
      BY <3>1 DEF FiniteSubsetsOf
  <2>2. PICK T \in Bad : \A U \in SUBSET T : U # T => U \notin Bad
    <3> HIDE DEF Bad
    <3> QED
      BY <1>3, <2>1, LeastSubset
  <2>3. PICK x \in T : Sum(T) # f[x] + Sum(T \ {x})
    OBVIOUS
  <2>4. T \in SUBSET S /\ \A U \in SUBSET T : U # T => \A z \in U : Sum(U) = f[z] + Sum(U \ {z})
    BY <2>2
  <2>5. PICK z \in T : Sum(T) = f[z] + Sum(T \ {z})
    BY <1>2, <2>4
  <2>6. x # z
    BY <2>3, <2>5
  <2> DEFINE U == T \ {z}
             W == T \ {x}
             X == T \ {x, z}
  <2>7. /\ U \in SUBSET T /\ U # T /\ x \in U /\ U \ {x} = X
        /\ W \in SUBSET T /\ W # T /\ z \in W /\ W \ {z} = X
        /\ U \in SUBSET S /\ W \in SUBSET S /\ X \in SUBSET S
    BY <2>4, <2>6
  <2>8. Sum(T) = f[z] + Sum(U) /\ Sum(T) # f[x] + Sum(W)
    BY <2>3, <2>5
  <2> HIDE DEF U, W, X
  <2>9. Sum(U) = f[x] + Sum(X) /\ Sum(W) = f[z] + Sum(X)
    BY <2>4, <2>7
  <2>10. /\ Sum(T) \in Int /\ Sum(U) \in Int /\ Sum(W) \in Int /\ Sum(X) \in Int
         /\ f[x] \in Int /\ f[z] \in Int
    BY <1>1, <1>2, <2>4, <2>7
  <2> QED
    BY <2>8, <2>9, <2>10
<1>4. \A x \in S : Sum(S) = f[x] + Sum(S \ {x})
  BY <1>3
<1> QED
  BY <1>4 DEF Sum

(* One element more. *)
LEMMA SumAdds ==
  ASSUME NEW S, IsFiniteSet(S), NEW f, NEW y, y \notin S, \A x \in S \cup {y} : f[x] \in Int
  PROVE  SumFunctionOnSet(f, S \cup {y}) = f[y] + SumFunctionOnSet(f, S)
<1>1. IsFiniteSet(S \cup {y}) /\ (S \cup {y}) \ {y} = S
  BY FS_AddElement
<1> DEFINE R == S \cup {y}
<1>2. y \in R /\ IsFiniteSet(R) /\ R \ {y} = S /\ \A x \in R : f[x] \in Int
  BY <1>1
<1> HIDE DEF R
<1>3. SumFunctionOnSet(f, R) = f[y] + SumFunctionOnSet(f, R \ {y})
  BY <1>2, SumTakes
<1> QED
  BY <1>2, <1>3 DEF R

(* Only what is in the set counts. *)
LEMMA SumAlike ==
  ASSUME NEW S, IsFiniteSet(S), NEW f, NEW g, \A x \in S : f[x] \in Int /\ g[x] = f[x]
  PROVE  SumFunctionOnSet(g, S) = SumFunctionOnSet(f, S)
<1> DEFINE F(T) == SumFunctionOnSet(f, T)
           G(T) == SumFunctionOnSet(g, T)
           Bad == {T \in SUBSET S : F(T) # G(T)}
<1>1. \A T \in SUBSET S : IsFiniteSet(T) /\ (\A x \in T : f[x] \in Int /\ g[x] \in Int /\ g[x] = f[x])
  BY FS_Subset
<1>2. \A T \in SUBSET S : /\ T = {} => F(T) = 0 /\ G(T) = 0
                          /\ \A x \in T : F(T) = f[x] + F(T \ {x}) /\ G(T) = g[x] + G(T \ {x})
  <2> TAKE T \in SUBSET S
  <2>1. IsFiniteSet(T) /\ (\A x \in T : f[x] \in Int) /\ \A x \in T : g[x] \in Int
    BY <1>1
  <2>2. T = {} => F(T) = 0
    BY <2>1, SumOfOne
  <2>3. T = {} => G(T) = 0
    BY <2>1, SumOfOne
  <2>4. \A x \in T : F(T) = f[x] + F(T \ {x})
    BY <2>1, SumTakes
  <2>5. \A x \in T : G(T) = g[x] + G(T \ {x})
    BY <2>1, SumTakes
  <2> QED
    BY <2>2, <2>3, <2>4, <2>5
<1> HIDE DEF F, G
<1>3. ASSUME Bad # {} PROVE FALSE
  <2>1. Bad \subseteq FiniteSubsetsOf(S)
    <3>1. \A T \in Bad : IsFiniteSet(T) /\ T \in SUBSET S
      BY <1>1
    <3> QED
      BY <3>1 DEF FiniteSubsetsOf
  <2>2. PICK T \in Bad : \A U \in SUBSET T : U # T => U \notin Bad
    <3> HIDE DEF Bad
    <3> QED
      BY <1>3, <2>1, LeastSubset
  <2>3. T \in SUBSET S /\ F(T) # G(T) /\ \A U \in SUBSET T : U # T => F(U) = G(U)
    BY <2>2
  <2>4. T # {}
    BY <1>2, <2>3
  <2>5. PICK x \in T : TRUE
    BY <2>4
  <2>6. F(T \ {x}) = G(T \ {x}) /\ f[x] = g[x]
    BY <1>1, <2>3
  <2> QED
    BY <1>2, <2>3, <2>6
<1>4. F(S) = G(S)
  BY <1>3
<1> QED
  BY <1>4 DEF F, G

-----------------------------------------------------------------------------
(* The statistics.                                                         *)

Held == live \cup dropped \cup Splitting
Widths == [b \in Arena |-> Width(b)]

(* While free runs, the block is no longer live and its call not yet counted. *)
Pending == IF from = "free" THEN 1 ELSE 0
Uncounted == allocCount - freeCount - Cardinality(live \cup dropped) - Pending

FreeSum == sizeFree = SumFunctionOnSet(size, ToSet(freeBlocks))
UseSum  == sizeInUse = SumFunctionOnSet(Widths, Held)
Balance == Uncounted % CountLimit = 0

Stats == FreeSum /\ UseSum /\ Balance

(* The blocks on the list and those in use are finitely many, and no block is both. *)
StatTypes ==
         /\ IsFiniteSet(ToSet(freeBlocks)) /\ ToSet(freeBlocks) \subseteq Arena
         /\ \A b \in ToSet(freeBlocks) : size[b] \in Int
         /\ IsFiniteSet(Held) /\ Held \subseteq Arena /\ Held \cap ToSet(freeBlocks) = {}
         /\ \A b \in Held : Widths[b] = Width(b) /\ Width(b) \in Int
         /\ IsFiniteSet(live \cup dropped) /\ Cardinality(live \cup dropped) \in Nat
         /\ size \in [Arena -> Nat] /\ sizeFree \in Int /\ sizeInUse \in Int
         /\ cur # 0 => cur \notin ToSet(freeBlocks) /\ cur \notin Held

(* So it is in every state of the invariant. *)
LEMMA StatsTyped == IInv => StatTypes
<1> SUFFICES ASSUME IInv PROVE StatTypes
  OBVIOUS
<1>1. ToSet(freeBlocks) \subseteq Blocks /\ Held \subseteq Blocks
  BY DEF Blocks, Held, InFlight
<1>2. Blocks \subseteq Arena
  BY BlockFacts DEF IInv
<1>3. Arena \subseteq 1 .. (SizeLimit - 1) /\ 1 \in Int /\ SizeLimit - 1 \in Int
  BY MemPoolAssumption
<1>4. IsFiniteSet(Arena)
  BY <1>3, FS_Interval, FS_Subset
<1>5. ToSet(freeBlocks) \subseteq Arena /\ Held \subseteq Arena
  BY <1>1, <1>2
<1>6. IsFiniteSet(ToSet(freeBlocks)) /\ IsFiniteSet(Held)
  BY <1>4, <1>5, FS_Subset
<1>7. IsFiniteSet(live \cup dropped)
  BY <1>6, FS_Subset DEF Held
<1>8. Cardinality(live \cup dropped) \in Nat
  BY <1>7, FS_CardinalityType
<1>9. size \in [Arena -> Nat] /\ sizeFree \in Int /\ sizeInUse \in Int
  BY DEF IInv, TypeOK
<1>10. ASSUME NEW b \in Held PROVE Widths[b] = Width(b) /\ Width(b) \in Int
  <2>1. b \in Arena /\ b \in Blocks
    BY <1>1, <1>5
  <2>2. Width(b) \in Nat
    BY <2>1, BlockFacts DEF IInv
  <2> QED
    BY <2>1, <2>2 DEF Widths
<1>11. \A b \in ToSet(freeBlocks) : size[b] \in Int
  BY <1>5, <1>9
<1>12. Held \cap ToSet(freeBlocks) = {}
  BY DEF IInv, OneOwner, Held, InFlight
<1>13. cur # 0 => cur \notin ToSet(freeBlocks) /\ cur \notin Held
  BY DEF IInv, OneOwner, Held, InFlight, Splitting
<1> QED
  BY <1>5, <1>6, <1>7, <1>8, <1>9, <1>10, <1>11, <1>12, <1>13 DEF StatTypes

(* What is on the list keeps its size. *)
LEMMA FreeSumKept ==
  ASSUME IInv, IInv', FreeSum, sizeFree' = sizeFree, ToSet(freeBlocks') = ToSet(freeBlocks),
         \A b \in ToSet(freeBlocks) : size'[b] = size[b]
  PROVE  FreeSum'
<1> DEFINE T == ToSet(freeBlocks)
<1>1. IsFiniteSet(T) /\ \A b \in T : size[b] \in Int /\ size'[b] = size[b]
  BY StatsTyped DEF StatTypes
<1>2. FreeSum' <=> sizeFree' = SumFunctionOnSet(size', T)
  BY DEF FreeSum
<1>3. sizeFree = SumFunctionOnSet(size, T)
  BY DEF FreeSum
<1> HIDE DEF T
<1>4. SumFunctionOnSet(size', T) = SumFunctionOnSet(size, T)
  BY <1>1, SumAlike
<1> QED
  BY <1>2, <1>3, <1>4

(* A block is unlinked. *)
LEMMA FreeSumLess ==
  ASSUME IInv, IInv', FreeSum, NEW b \in ToSet(freeBlocks), sizeFree' = sizeFree - size[b],
         ToSet(freeBlocks') = ToSet(freeBlocks) \ {b},
         \A c \in ToSet(freeBlocks') : size'[c] = size[c]
  PROVE  FreeSum'
<1> DEFINE T == ToSet(freeBlocks)
           U == ToSet(freeBlocks')
<1>1. /\ IsFiniteSet(T) /\ (\A c \in T : size[c] \in Int) /\ b \in T /\ U = T \ {b}
      /\ sizeFree = SumFunctionOnSet(size, T)
  BY StatsTyped DEF StatTypes, FreeSum
<1>2. FreeSum' <=> sizeFree' = SumFunctionOnSet(size', U)
  BY DEF FreeSum
<1>3. IsFiniteSet(U) /\ \A c \in U : size[c] \in Int /\ size'[c] = size[c]
  BY <1>1, FS_Subset
<1> HIDE DEF T, U
<1>4. SumFunctionOnSet(size', U) = SumFunctionOnSet(size, U)
  BY <1>3, SumAlike
<1>5. SumFunctionOnSet(size, T) = size[b] + SumFunctionOnSet(size, U)
  BY <1>1, SumTakes
<1>6. SumFunctionOnSet(size, U) \in Int /\ size[b] \in Int
  BY <1>1, <1>3, SumOfOne
<1>7. sizeFree' = SumFunctionOnSet(size, U)
  BY <1>1, <1>5, <1>6
<1> QED
  BY <1>2, <1>4, <1>7

(* A block is linked in. *)
LEMMA FreeSumMore ==
  ASSUME IInv, IInv', FreeSum, NEW b \in Arena, b \notin ToSet(freeBlocks),
         sizeFree' = sizeFree + size[b],
         ToSet(freeBlocks') = ToSet(freeBlocks) \cup {b},
         \A c \in ToSet(freeBlocks') : size'[c] = size[c]
  PROVE  FreeSum'
<1> DEFINE T == ToSet(freeBlocks)
           U == ToSet(freeBlocks')
<1>1. /\ IsFiniteSet(T) /\ (\A c \in T : size[c] \in Int) /\ U = T \cup {b} /\ b \notin T
      /\ sizeFree = SumFunctionOnSet(size, T) /\ size[b] \in Int
  BY StatsTyped DEF StatTypes, FreeSum
<1>2. FreeSum' <=> sizeFree' = SumFunctionOnSet(size', U)
  BY DEF FreeSum
<1>3. IsFiniteSet(U) /\ \A c \in U : size[c] \in Int /\ size'[c] = size[c]
  BY <1>1, FS_AddElement
<1> HIDE DEF T, U
<1>4. SumFunctionOnSet(size', U) = SumFunctionOnSet(size, U)
  BY <1>3, SumAlike
<1>5. SumFunctionOnSet(size, U) = size[b] + SumFunctionOnSet(size, T)
  BY <1>1, SumAdds
<1>6. SumFunctionOnSet(size, T) \in Int
  BY <1>1, SumOfOne
<1>7. sizeFree' = SumFunctionOnSet(size, U)
  BY <1>1, <1>5, <1>6
<1> QED
  BY <1>2, <1>4, <1>7

(* What is in use stays as large as it is. *)
LEMMA UseSumKept ==
  ASSUME IInv, IInv', UseSum, sizeInUse' = sizeInUse, Held' = Held,
         \A b \in Held : Width(b)' = Width(b)
  PROVE  UseSum'
<1>1. /\ IsFiniteSet(Held) /\ sizeInUse = SumFunctionOnSet(Widths, Held)
      /\ \A b \in Held : Widths[b] = Width(b) /\ Width(b) \in Int
  BY StatsTyped DEF StatTypes, UseSum
<1>0. StatTypes'
  BY StatsTyped, PTL
<1>2. (\A b \in Held : Widths[b] = Width(b))'
  BY <1>0 DEF StatTypes
<1>3. \A b \in Held : Widths[b] \in Int /\ Widths'[b] = Widths[b]
  BY <1>1, <1>2
<1>4. SumFunctionOnSet(Widths', Held) = SumFunctionOnSet(Widths, Held)
  BY <1>1, <1>3, SumAlike
<1> QED
  BY <1>1, <1>4 DEF UseSum

(* A block is granted, whole or to be split. *)
LEMMA UseSumMore ==
  ASSUME IInv, IInv', UseSum, NEW b, b \notin Held, Held' = Held \cup {b},
         sizeInUse' = sizeInUse + Width(b)',
         \A c \in Held : Width(c)' = Width(c)
  PROVE  UseSum'
<1>1. /\ IsFiniteSet(Held) /\ sizeInUse = SumFunctionOnSet(Widths, Held)
      /\ \A c \in Held : Widths[c] = Width(c) /\ Width(c) \in Int
  BY StatsTyped DEF StatTypes, UseSum
<1>0. StatTypes'
  BY StatsTyped, PTL
<1>2. (\A c \in Held : Widths[c] = Width(c) /\ Width(c) \in Int)'
  BY <1>0 DEF StatTypes
<1>3. \A c \in Held : Widths[c] \in Int /\ Widths'[c] = Widths[c]
  BY <1>1, <1>2
<1>4. SumFunctionOnSet(Widths', Held) = SumFunctionOnSet(Widths, Held)
  BY <1>1, <1>3, SumAlike
<1>5. (\A c \in Held \cup {b} : Widths'[c] \in Int) /\ Widths'[b] = Width(b)' /\ Width(b)' \in Int
  BY <1>2
<1>6. SumFunctionOnSet(Widths', Held \cup {b}) = Widths'[b] + SumFunctionOnSet(Widths', Held)
  BY <1>1, <1>5, SumAdds
<1>7. SumFunctionOnSet(Widths, Held) \in Int
  BY <1>1, <1>3, SumOfOne
<1> QED
  BY <1>1, <1>4, <1>5, <1>6, <1>7 DEF UseSum

(* A block is given back. *)
LEMMA UseSumLess ==
  ASSUME IInv, IInv', UseSum, NEW b \in Held, Held' = Held \ {b}, sizeInUse' = sizeInUse - Width(b),
         \A c \in Held' : Width(c)' = Width(c)
  PROVE  UseSum'
<1>1. /\ IsFiniteSet(Held) /\ sizeInUse = SumFunctionOnSet(Widths, Held)
      /\ \A c \in Held : Widths[c] = Width(c) /\ Widths[c] \in Int
  BY StatsTyped DEF StatTypes, UseSum
<1>0. StatTypes'
  BY StatsTyped, PTL
<1>2. IsFiniteSet(Held') /\ \A c \in Held' : Widths'[c] = Width(c)'
  BY <1>0 DEF StatTypes
<1>3. \A c \in Held' : Widths[c] \in Int /\ Widths'[c] = Widths[c]
  BY <1>1, <1>2
<1>4. SumFunctionOnSet(Widths', Held') = SumFunctionOnSet(Widths, Held')
  BY <1>2, <1>3, SumAlike
<1>5. SumFunctionOnSet(Widths, Held) = Widths[b] + SumFunctionOnSet(Widths, Held \ {b})
  BY <1>1, SumTakes
<1>6. SumFunctionOnSet(Widths, Held') \in Int /\ Widths[b] \in Int /\ Widths[b] = Width(b)
  BY <1>1, <1>2, <1>3, SumOfOne
<1>7. sizeInUse' = SumFunctionOnSet(Widths, Held')
  BY <1>1, <1>5, <1>6
<1> QED
  BY <1>4, <1>7 DEF UseSum

(* A counter that wraps around is off by whole turns. *)
LEMMA DivMod ==
  ASSUME NEW x \in Int, NEW d \in Int, d > 0
  PROVE  /\ x \div d \in Int /\ x % d \in 0 .. d - 1 /\ x = d * (x \div d) + (x % d)
BY SMTT(30)

(* A number of whole turns stays one when whole turns are added. *)
LEMMA TurnsAway ==
  ASSUME NEW d \in Int, d > 0, NEW x \in Int, x % d = 0, NEW k \in Int
  PROVE  (x + d * k) % d = 0
<1> DEFINE q == x \div d
           y == x + d * k
           p == y \div d
           r == y % d
<1>1. q \in Int /\ x = d * q
  BY DivMod
<1>2. y \in Int /\ y = d * (q + k)
  BY <1>1
<1>3. p \in Int /\ r \in 0 .. d - 1 /\ y = d * p + r
  BY <1>2, DivMod
<1> HIDE DEF q, y, p, r
<1>4. d * (q + k - p) = r /\ q + k - p \in Int
  BY <1>1, <1>2, <1>3
<1> DEFINE e == q + k - p
<1>5. e \in Int /\ d * e = r
  BY <1>4
<1> HIDE DEF e
<1>6. e = 0
  <2>1. ASSUME e >= 1 PROVE FALSE
    <3>1. d * e >= d
      BY <1>5, <2>1
    <3> QED
      BY <1>3, <1>5, <3>1
  <2>2. ASSUME e <= -1 PROVE FALSE
    <3>1. d * e < 0
      BY <1>5, <2>2
    <3> QED
      BY <1>3, <1>5, <3>1
  <2> QED
    BY <1>5, <2>1, <2>2
<1>7. r = 0
  BY <1>5, <1>6
<1> QED
  BY <1>7 DEF r, y

(* Counting up at the width of a counter adds one and whole turns. *)
LEMMA Wraps ==
  ASSUME NEW d \in Int, d > 0, NEW c \in Int
  PROVE  \E k \in Int : (c + 1) % d = c + 1 + d * k
<1> DEFINE q == (c + 1) \div d
           r == (c + 1) % d
<1>1. q \in Int /\ r \in Int /\ c + 1 = d * q + r
  BY DivMod
<1> HIDE DEF q, r
<1>2. -q \in Int /\ r = c + 1 + d * (-q)
  BY <1>1
<1> QED
  BY <1>2 DEF r

(* What the counters are balanced with are integers. *)
LEMMA CountTypes ==
  IInv => /\ allocCount \in Int /\ freeCount \in Int /\ CountLimit \in Int /\ CountLimit > 0
          /\ Cardinality(live \cup dropped) \in Int /\ Pending \in Int /\ Uncounted \in Int
<1> SUFFICES ASSUME IInv
             PROVE  /\ allocCount \in Int /\ freeCount \in Int /\ CountLimit \in Int /\ CountLimit > 0
                    /\ Cardinality(live \cup dropped) \in Int /\ Pending \in Int /\ Uncounted \in Int
  OBVIOUS
<1>1. CountLimit \in Int /\ CountLimit > 0
  BY MemPoolAssumption
<1>2. allocCount \in Int /\ freeCount \in Int
  BY <1>1 DEF IInv, TypeOK
<1>3. Cardinality(live \cup dropped) \in Int
  BY StatsTyped DEF StatTypes
<1>4. Pending \in Int
  BY DEF Pending
<1> QED
  BY <1>1, <1>2, <1>3, <1>4 DEF Uncounted

(* The clients' blocks and the counters keep together, *)
LEMMA BalanceKept ==
  ASSUME IInv, IInv', Balance, Uncounted' = Uncounted
  PROVE  Balance'
BY DEF Balance

(* or come apart by whole turns: *)
LEMMA BalanceTurns ==
  ASSUME IInv, Balance, NEW k \in Int, Uncounted' = Uncounted + CountLimit * k
  PROVE  Balance'
<1>1. Uncounted \in Int /\ CountLimit \in Int /\ CountLimit > 0 /\ Uncounted % CountLimit = 0
  BY CountTypes DEF Balance
<1>2. (Uncounted + CountLimit * k) % CountLimit = 0
  BY <1>1, TurnsAway
<1> QED
  BY <1>2 DEF Balance

(* when a block is granted, *)
LEMMA GrantBalances ==
  ASSUME IInv, Balance, AllocCount, NEW b, b \notin live \cup dropped, live' = live \cup {b},
         UNCHANGED <<dropped, freeCount>>, Pending = 0, Pending' = 0
  PROVE  Balance'
<1>1. PICK k \in Int : (allocCount + 1) % CountLimit = allocCount + 1 + CountLimit * k
  BY CountTypes, Wraps
<1> DEFINE L == live \cup dropped
           card == Cardinality(L)
<1>2. (live \cup dropped)' = L \cup {b} /\ IsFiniteSet(L) /\ b \notin L
  BY StatsTyped DEF StatTypes
<1>3. Cardinality(L \cup {b}) = card + 1
  <2> HIDE DEF L
  <2> QED
    BY <1>2, FS_AddElement
<1>4. Cardinality((live \cup dropped)') = card + 1
  BY <1>2, <1>3
<1>5. card \in Int /\ Uncounted = allocCount - freeCount - card
  BY CountTypes DEF Uncounted
<1>6. Uncounted' = allocCount' - freeCount - (card + 1)
  <2>1. Uncounted' = allocCount' - freeCount' - Cardinality((live \cup dropped)') - Pending'
    BY DEF Uncounted
  <2>2. allocCount' \in Int
    BY <1>1, CountTypes DEF AllocCount
  <2> HIDE DEF card, L
  <2> QED
    BY <1>4, <1>5, <2>1, <2>2, CountTypes
<1> DEFINE turns == CountLimit * k
<1>7. turns \in Int /\ allocCount' = allocCount + 1 + turns
  BY <1>1, CountTypes DEF AllocCount
<1> HIDE DEF card, turns
<1>8. Uncounted' = Uncounted + turns
  BY <1>5, <1>6, <1>7, CountTypes
<1> QED
  BY <1>8, BalanceTurns DEF turns

(* given up, *)
LEMMA GiveUpBalances ==
  ASSUME IInv, Balance, NEW b \in live, b \notin dropped, live' = live \ {b},
         UNCHANGED <<dropped, allocCount, freeCount>>, Pending = 0, Pending' = 1
  PROVE  Balance'
<1> DEFINE L == live \cup dropped
           card == Cardinality(L)
<1>1. (live \cup dropped)' = L \ {b} /\ IsFiniteSet(L) /\ b \in L
  BY StatsTyped DEF StatTypes
<1>2. Cardinality(L \ {b}) = card - 1
  <2> HIDE DEF L
  <2> QED
    BY <1>1, FS_RemoveElement
<1>3. Cardinality((live \cup dropped)') = card - 1
  BY <1>1, <1>2
<1>4. card \in Int /\ Uncounted = allocCount - freeCount - card
  BY CountTypes DEF Uncounted
<1>5. Uncounted' = allocCount - freeCount - Cardinality((live \cup dropped)') - 1
  BY DEF Uncounted
<1> HIDE DEF card, L
<1>6. Uncounted' = Uncounted
  BY <1>3, <1>4, <1>5, CountTypes
<1> QED
  BY <1>6 DEF Balance

(* and taken back. *)
LEMMA TakeBackBalances ==
  ASSUME IInv, Balance, freeCount' = (freeCount + 1) % CountLimit,
         UNCHANGED <<live, dropped, allocCount>>, Pending = 1, Pending' = 0
  PROVE  Balance'
<1>1. PICK k \in Int : (freeCount + 1) % CountLimit = freeCount + 1 + CountLimit * k
  BY CountTypes, Wraps
<1> DEFINE turns == CountLimit * k
           card == Cardinality(live \cup dropped)
<1>2. turns \in Int /\ freeCount' = freeCount + 1 + turns /\ -k \in Int /\ CountLimit * (-k) = -turns
  BY <1>1, CountTypes
<1>3. /\ Uncounted = allocCount - freeCount - card - 1 /\ card \in Int
      /\ Uncounted' = allocCount - freeCount' - card - 0
  BY CountTypes DEF Uncounted
<1> HIDE DEF card, turns
<1>4. Uncounted' = Uncounted + (-turns)
  BY <1>2, <1>3, CountTypes
<1>5. Uncounted' = Uncounted + CountLimit * (-k)
  BY <1>2, <1>4
<1> QED
  BY <1>2, <1>5, BalanceTurns

(* A step that moves no block between the list and the clients. *)
LEMMA StatsKept ==
  ASSUME IInv, IInv', Stats,
         UNCHANGED <<stats, freeBlocks, size>>, (live \cup dropped)' = live \cup dropped,
         Splitting' = Splitting, Splitting = {} \/ req' = req, Pending' = Pending
  PROVE  Stats'
<1>1. FreeSum'
  BY FreeSumKept DEF Stats, stats
<1>2. Held' = Held
  BY DEF Held
<1>3. \A b \in Held : Width(b)' = Width(b)
  BY DEF Width
<1>4. UseSum'
  BY <1>2, <1>3, UseSumKept DEF Stats, stats
<1>5. Uncounted' = Uncounted
  BY DEF Uncounted, stats
<1>6. Balance'
  BY <1>5, BalanceKept DEF Stats
<1> QED
  BY <1>1, <1>4, <1>6 DEF Stats

(* A whole block goes from the list to a client. *)
LEMMA TakeWholeStats ==
  ASSUME IInv, IInv', Stats, NEW i \in DOMAIN freeBlocks, TakeWhole(i) PROVE Stats'
<1>0. PICK b : b = freeBlocks[i]
  OBVIOUS
<1>1. i \in 1 .. Len(freeBlocks)
  BY ListPlaces DEF IInv
<1>2. /\ freeBlocks' = RemoveAt(freeBlocks, i) /\ size' = size
      /\ sizeInUse' = sizeInUse + size[b] /\ sizeFree' = sizeFree - size[b]
      /\ live' = live \cup {b} /\ dropped' = dropped /\ freeCount' = freeCount
      /\ AllocCount /\ pc = "find" /\ from' = "none"
  BY <1>0 DEF TakeWhole, Grant, Return
<1>3. ToSet(freeBlocks') = ToSet(freeBlocks) \ {b} /\ b \in ToSet(freeBlocks)
  BY <1>0, <1>1, <1>2, Unlinked
<1>4. b \notin live /\ b \notin dropped
  BY <1>3, ListBlock
<1>5. from = "none" /\ Splitting = {} /\ Splitting' = {} /\ Pending = 0 /\ Pending' = 0
  BY <1>2 DEF IInv, Control, Splitting, Pending
<1>6. FreeSum'
  BY <1>2, <1>3, FreeSumLess DEF Stats
<1>7. b \notin Held /\ Held' = Held \cup {b}
  BY <1>2, <1>4, <1>5 DEF Held
<1>8. (\A c \in Held : Width(c)' = Width(c)) /\ Width(b)' = size[b]
  BY <1>2, <1>5 DEF Width
<1>9. UseSum'
  BY <1>2, <1>7, <1>8, UseSumMore DEF Stats
<1>10. Balance'
  BY <1>2, <1>4, <1>5, GrantBalances DEF Stats
<1> QED
  BY <1>6, <1>9, <1>10 DEF Stats

(* A block leaves the list, and its head is in use from here on. *)
LEMMA TakeAndSplitStats ==
  ASSUME IInv, IInv', Stats, NEW i \in DOMAIN freeBlocks, TakeAndSplit(i) PROVE Stats'
<1>0. PICK b, next : b = freeBlocks[i] /\ next = b + HeaderSize + req
  OBVIOUS
<1>1. i \in 1 .. Len(freeBlocks)
  BY ListPlaces DEF IInv
<1>2. /\ freeBlocks' = RemoveAt(freeBlocks, i)
      /\ size' = [size EXCEPT ![next] = size[b] - req - HeaderSize]
      /\ sizeInUse' = sizeInUse + size[b] - ((size[b] - req - HeaderSize) + HeaderSize)
      /\ sizeFree' = sizeFree - size[b]
      /\ block' = b /\ cur' = next /\ from' = "split" /\ pc' = "add" /\ pc = "find"
      /\ live' = live /\ dropped' = dropped /\ req' = req
      /\ allocCount' = allocCount /\ freeCount' = freeCount
  BY <1>0 DEF TakeAndSplit, Rest, AddFreeBlock, held
<1>3. ToSet(freeBlocks') = ToSet(freeBlocks) \ {b} /\ b \in ToSet(freeBlocks)
  BY <1>0, <1>1, <1>2, Unlinked
<1>4. b \notin live /\ b \notin dropped /\ b # 0 /\ size[b] \in Nat
  BY <1>3, ListBlock
<1>5. from = "none" /\ Splitting = {} /\ Splitting' = {b} /\ Pending' = Pending
  BY <1>2 DEF IInv, Control, Splitting, Pending
<1>6. b \notin Held /\ Held' = Held \cup {b}
  BY <1>2, <1>4, <1>5 DEF Held
<1>7. next \notin ToSet(freeBlocks') /\ next \notin Held'
  <2>1. next # 0
    BY <1>2, ConstantFacts DEF IInv, Control
  <2>2. StatTypes'
    BY StatsTyped, PTL
  <2> QED
    BY <1>2, <2>1, <2>2 DEF StatTypes
<1>8. \A c \in ToSet(freeBlocks') \cup Held : size'[c] = size[c]
  <2>1. StatTypes
    BY StatsTyped
  <2> QED
    BY <1>2, <1>3, <1>6, <1>7, <2>1 DEF StatTypes
<1>9. FreeSum'
  BY <1>2, <1>3, <1>8, FreeSumLess DEF Stats
<1>10. (\A c \in Held : Width(c)' = Width(c)) /\ Width(b)' = req
  BY <1>2, <1>5, <1>6, <1>8 DEF Width
<1>11. sizeInUse' = sizeInUse + req
  <2>1. sizeInUse \in Int /\ req \in Int /\ HeaderSize \in Int
    BY MemPoolAssumption DEF IInv, TypeOK
  <2> QED
    BY <1>2, <1>4, <2>1
<1>12. UseSum'
  BY <1>6, <1>10, <1>11, UseSumMore DEF Stats
<1>13. Uncounted' = Uncounted
  BY <1>2, <1>5 DEF Uncounted
<1>14. Balance'
  BY <1>13, BalanceKept DEF Stats
<1> QED
  BY <1>9, <1>12, <1>14 DEF Stats

(* New pages are nobody's yet. *)
LEMMA GrowStats ==
  ASSUME IInv, IInv', Stats, NEW base \in PageAddrs, Grow(base) PROVE Stats'
<1>1. /\ freeBlocks' = freeBlocks /\ size' = [size EXCEPT ![base] = Pages * PageSize - HeaderSize]
      /\ pc = "find" /\ pc' = "add" /\ from' = "grow" /\ cur' = base
      /\ live' = live /\ dropped' = dropped /\ req' = req
      /\ sizeInUse' = sizeInUse /\ sizeFree' = sizeFree
      /\ allocCount' = allocCount /\ freeCount' = freeCount
  BY DEF Grow, AddFreeBlock, stats, held
<1>2. from = "none" /\ Splitting = {} /\ Splitting' = {} /\ Pending' = Pending
  BY <1>1 DEF IInv, Control, Splitting, Pending
<1>3. Held' = Held
  BY <1>1, <1>2 DEF Held
<1>4. base \notin ToSet(freeBlocks) /\ base \notin Held
  <2>1. base # 0
    BY <1>1, ConstantFacts DEF IInv, Control
  <2>2. StatTypes'
    BY StatsTyped, PTL
  <2> QED
    BY <1>1, <1>3, <2>1, <2>2 DEF StatTypes
<1>5. \A c \in ToSet(freeBlocks) \cup Held : size'[c] = size[c]
  <2>1. StatTypes
    BY StatsTyped
  <2> QED
    BY <1>1, <1>4, <2>1 DEF StatTypes
<1>6. FreeSum'
  BY <1>1, <1>5, FreeSumKept DEF Stats
<1>7. \A c \in Held : Width(c)' = Width(c)
  BY <1>2, <1>5 DEF Width
<1>8. UseSum'
  BY <1>1, <1>3, <1>7, UseSumKept DEF Stats
<1>9. Uncounted' = Uncounted
  BY <1>1, <1>2 DEF Uncounted
<1>10. Balance'
  BY <1>9, BalanceKept DEF Stats
<1> QED
  BY <1>6, <1>8, <1>10 DEF Stats

(* A client gives up a block. *)
LEMMA FreeStats ==
  ASSUME IInv, IInv', Stats, NEW b \in live, Free(b) PROVE Stats'
<1>1. /\ pc = "idle" /\ sizeInUse' = sizeInUse - size[b] /\ sizeFree' = sizeFree
      /\ live' = live \ {b} /\ dropped' = dropped /\ from' = "free"
      /\ freeBlocks' = freeBlocks /\ size' = size
      /\ allocCount' = allocCount /\ freeCount' = freeCount
  BY DEF Free, AddFreeBlock, mem
<1>2. from = "none" /\ Splitting = {} /\ Splitting' = {} /\ Pending = 0 /\ Pending' = 1
  BY <1>1 DEF IInv, Control, Splitting, Pending
<1>3. b \notin dropped /\ b \in Held /\ Held' = Held \ {b}
  BY <1>1, <1>2 DEF Held, IInv, OneOwner
<1>4. FreeSum'
  BY <1>1, FreeSumKept DEF Stats
<1>5. (\A c \in Held' : Width(c)' = Width(c)) /\ Width(b) = size[b]
  BY <1>1, <1>2 DEF Width
<1>6. UseSum'
  BY <1>1, <1>3, <1>5, UseSumLess DEF Stats
<1>7. Balance'
  BY <1>1, <1>2, <1>3, GiveUpBalances DEF Stats
<1> QED
  BY <1>4, <1>6, <1>7 DEF Stats

(* The scan takes a neighbour off the list. *)
LEMMA MergeStats == ASSUME IInv, IInv', Stats, Merge PROVE Stats'
<1>0. PICK b, low, high : /\ b = freeBlocks[n]
                          /\ low = IF End(b) = cur THEN b ELSE cur
                          /\ high = IF End(b) = cur THEN cur ELSE b
  OBVIOUS
<1>1. n \in 1 .. Len(freeBlocks) /\ pc = "add"
  BY DEF Merge, Scanning, IInv, Control, TypeOK
<1>2. /\ freeBlocks' = RemoveAt(freeBlocks, n)
      /\ size' = [size EXCEPT ![low] = size[low] + size[high] + HeaderSize, ![high] = 0]
      /\ sizeFree' = sizeFree - size[b] /\ sizeInUse' = sizeInUse
      /\ allocCount' = allocCount /\ freeCount' = freeCount
      /\ live' = live /\ dropped' = dropped /\ from' = from /\ req' = req /\ block' = block
  BY <1>0 DEF Merge, held, call
<1>3. ToSet(freeBlocks') = ToSet(freeBlocks) \ {b} /\ b \in ToSet(freeBlocks)
  BY <1>0, <1>1, <1>2, Unlinked
<1>4. StatTypes
  BY StatsTyped
<1>5. /\ low \in {b, cur} /\ high \in {b, cur} /\ b \notin Held
      /\ cur \notin ToSet(freeBlocks) /\ cur \notin Held
  <2>1. cur # 0
    BY <1>1, ConstantFacts DEF IInv, Control
  <2> QED
    BY <1>0, <1>3, <1>4, <2>1 DEF StatTypes
<1>6. \A c \in ToSet(freeBlocks') \cup Held : size'[c] = size[c]
  <2>1. \A c \in ToSet(freeBlocks') \cup Held : c \in Arena /\ c # low /\ c # high
    BY <1>3, <1>4, <1>5 DEF StatTypes
  <2>2. size \in [Arena -> Nat]
    BY <1>4 DEF StatTypes
  <2> QED
    BY <1>2, <2>1, <2>2
<1>7. FreeSum'
  BY <1>2, <1>3, <1>6, FreeSumLess DEF Stats
<1>8. Splitting' = Splitting /\ Held' = Held /\ Pending' = Pending
  BY <1>2 DEF Splitting, Held, Pending
<1>9. \A c \in Held : Width(c)' = Width(c)
  BY <1>2, <1>6, <1>8 DEF Width
<1>10. UseSum'
  BY <1>2, <1>8, <1>9, UseSumKept DEF Stats
<1>11. Uncounted' = Uncounted
  BY <1>2, <1>8 DEF Uncounted
<1>12. Balance'
  BY <1>11, BalanceKept DEF Stats
<1> QED
  BY <1>7, <1>10, <1>12 DEF Stats

(* The new pages are on the list. *)
LEMMA GrowDoneStats == ASSUME IInv, IInv', Stats, GrowDone PROVE Stats'
<1>1. /\ AtInsert /\ from = "grow" /\ from' = "none"
      /\ freeBlocks' = InsertAt(freeBlocks, addAt + 1, cur) /\ sizeFree' = sizeFree + size[cur]
      /\ size' = size /\ sizeInUse' = sizeInUse
      /\ allocCount' = allocCount /\ freeCount' = freeCount
      /\ live' = live /\ dropped' = dropped
  BY DEF GrowDone, Link, held
<1>2. /\ ToSet(freeBlocks') = ToSet(freeBlocks) \cup {cur}
      /\ cur \in Arena /\ cur \notin ToSet(freeBlocks)
  BY <1>1, Linked
<1>3. FreeSum'
  BY <1>1, <1>2, FreeSumMore DEF Stats
<1>4. Splitting = {} /\ Splitting' = {} /\ Held' = Held /\ Pending' = Pending
  BY <1>1 DEF Splitting, Held, Pending
<1>5. \A c \in Held : Width(c)' = Width(c)
  BY <1>1, <1>4 DEF Width
<1>6. UseSum'
  BY <1>1, <1>4, <1>5, UseSumKept DEF Stats
<1>7. Uncounted' = Uncounted
  BY <1>1, <1>4 DEF Uncounted
<1>8. Balance'
  BY <1>7, BalanceKept DEF Stats
<1> QED
  BY <1>3, <1>6, <1>8 DEF Stats

(* The block that was given up is on the list, and the call counted. *)
LEMMA FreeDoneStats == ASSUME IInv, IInv', Stats, FreeDone PROVE Stats'
<1>1. /\ AtInsert /\ from = "free" /\ from' = "none"
      /\ freeBlocks' = InsertAt(freeBlocks, addAt + 1, cur) /\ sizeFree' = sizeFree + size[cur]
      /\ size' = size /\ sizeInUse' = sizeInUse
      /\ allocCount' = allocCount /\ freeCount' = (freeCount + 1) % CountLimit
      /\ live' = live /\ dropped' = dropped
  BY DEF FreeDone, Link, Return, held
<1>2. /\ ToSet(freeBlocks') = ToSet(freeBlocks) \cup {cur}
      /\ cur \in Arena /\ cur \notin ToSet(freeBlocks)
  BY <1>1, Linked
<1>3. FreeSum'
  BY <1>1, <1>2, FreeSumMore DEF Stats
<1>4. Splitting = {} /\ Splitting' = {} /\ Held' = Held /\ Pending = 1 /\ Pending' = 0
  BY <1>1 DEF Splitting, Held, Pending
<1>5. \A c \in Held : Width(c)' = Width(c)
  BY <1>1, <1>4 DEF Width
<1>6. UseSum'
  BY <1>1, <1>4, <1>5, UseSumKept DEF Stats
<1>7. Balance'
  BY <1>1, <1>4, TakeBackBalances DEF Stats
<1> QED
  BY <1>3, <1>6, <1>7 DEF Stats

(* The tail is on the list, and the head, in use already, a client's. *)
LEMMA SplitDoneStats == ASSUME IInv, IInv', Stats, SplitDone PROVE Stats'
<1>0. PICK b : b = block
  OBVIOUS
<1>1. /\ AtInsert /\ from = "split" /\ from' = "none"
      /\ freeBlocks' = InsertAt(freeBlocks, addAt + 1, cur) /\ sizeFree' = sizeFree + size[cur]
      /\ size' = [size EXCEPT ![b] = req] /\ sizeInUse' = sizeInUse
      /\ AllocCount /\ freeCount' = freeCount
      /\ live' = live \cup {b} /\ dropped' = dropped
  BY <1>0 DEF SplitDone, Link, Return, Grant
<1>2. Splitting = {b} /\ Splitting' = {} /\ b \in Held /\ Held' = Held /\ Pending = 0 /\ Pending' = 0
  BY <1>0, <1>1 DEF Splitting, Held, Pending
<1>3. b \notin live \cup dropped \cup ToSet(freeBlocks) /\ b # cur /\ b \in Arena
  <2>1. b \in InFlight
    BY <1>2 DEF InFlight
  <2> QED
    BY <1>0, <1>1, <2>1 DEF IInv, OneOwner, Control
<1>4. size \in [Arena -> Nat] /\ ToSet(freeBlocks) \subseteq Arena /\ Held \subseteq Arena
  BY StatsTyped DEF StatTypes
<1>5. size'[b] = req /\ \A c \in Arena : c # b => size'[c] = size[c]
  BY <1>1, <1>3, <1>4
<1>6. cur \in Arena
  BY <1>1 DEF AtInsert, IInv, Control
<1>7. \A c \in ToSet(freeBlocks) \cup {cur} : size'[c] = size[c]
  BY <1>3, <1>4, <1>5, <1>6
<1>8. ToSet(freeBlocks') = ToSet(freeBlocks) \cup {cur} /\ cur \notin ToSet(freeBlocks)
  BY <1>1, <1>7, Linked
<1>9. FreeSum'
  BY <1>1, <1>6, <1>7, <1>8, FreeSumMore DEF Stats
<1>10. \A c \in Held : Width(c)' = Width(c)
  BY <1>2, <1>4, <1>5 DEF Width
<1>11. UseSum'
  BY <1>1, <1>2, <1>10, UseSumKept DEF Stats
<1>12. Balance'
  BY <1>1, <1>2, <1>3, GrantBalances DEF Stats
<1> QED
  BY <1>9, <1>11, <1>12 DEF Stats

(* Every step keeps the books. *)
LEMMA NextStats == ASSUME IInv, IInv', Stats, [Next]_vars PROVE Stats'
<1>1. CASE UNCHANGED vars
  BY <1>1, StatsKept DEF vars, mem, held, call, Splitting, Pending
<1>2. ASSUME NEW s \in Sizes, AllocCall(s) PROVE Stats'
  <2>1. Splitting = {} /\ Splitting' = {}
    BY <1>2 DEF AllocCall, IInv, Control, Splitting
  <2> QED
    BY <1>2, <2>1, StatsKept DEF AllocCall, mem, held, Pending
<1>3. ASSUME NEW b \in live, Free(b) PROVE Stats'
  BY <1>3, FreeStats
<1>4. ASSUME NEW b \in live, FreeIgnored(b) PROVE Stats'
  BY <1>4, StatsKept DEF FreeIgnored, mem, call, Splitting, Pending
<1>5. ASSUME NEW i \in DOMAIN freeBlocks, TakeWhole(i) PROVE Stats'
  BY <1>5, TakeWholeStats
<1>6. ASSUME NEW i \in DOMAIN freeBlocks, TakeAndSplit(i) PROVE Stats'
  BY <1>6, TakeAndSplitStats
<1>7. ASSUME NEW base \in PageAddrs, Grow(base) PROVE Stats'
  BY <1>7, GrowStats
<1>8. CASE AllocFails
  <2>1. from = "none" /\ from' = "none"
    BY <1>8 DEF AllocFails, Return, IInv, Control
  <2> QED
    BY <1>8, <2>1, StatsKept DEF AllocFails, mem, held, Splitting, Pending
<1>9. CASE Merge
  BY <1>9, MergeStats
<1>10. CASE Pass
  BY <1>10, StatsKept DEF Pass, mem, held, call, Splitting, Pending
<1>11. CASE Rescan
  BY <1>11, StatsKept DEF Rescan, mem, held, call, Splitting, Pending
<1>12. CASE SplitDone
  BY <1>12, SplitDoneStats
<1>13. CASE GrowDone
  BY <1>13, GrowDoneStats
<1>14. CASE FreeDone
  BY <1>14, FreeDoneStats
<1>15. CASE LinkOverrun
  BY <1>15, StatsKept DEF LinkOverrun, mem, held, call, Splitting, Pending
<1> QED
  BY <1>1, <1>2, <1>3, <1>4, <1>5, <1>6, <1>7, <1>8, <1>9, <1>10, <1>11, <1>12, <1>13, <1>14,
     <1>15 DEF Next, Call, Step

(* The empty pool's books are in order. *)
LEMMA InitStats == ASSUME Init PROVE Stats
<1>1. ToSet(freeBlocks) = {} /\ Held = {} /\ live \cup dropped = {} /\ Pending = 0
  BY DEF Init, ToSet, Held, Splitting, Pending
<1>2. IsFiniteSet({}) /\ Cardinality({}) = 0
  BY FS_EmptySet
<1>3. \A f : SumFunctionOnSet(f, {}) = 0
  BY <1>2, SumOfOne
<1>4. FreeSum /\ UseSum
  BY <1>1, <1>3 DEF Init, FreeSum, UseSum
<1>5. Uncounted = 0
  BY <1>1, <1>2 DEF Init, Uncounted
<1>6. CountLimit \in Int /\ CountLimit > 0
  BY MemPoolAssumption
<1>7. 0 % CountLimit = 0
  <2>1. PICK q \in Int, r \in 0 .. CountLimit - 1 : 0 = CountLimit * q + r /\ r = 0 % CountLimit
    BY <1>6, DivMod
  <2> QED
    BY <1>6, SMT
<1> QED
  BY <1>4, <1>5, <1>7 DEF Stats, Balance

(* The statistics agree with the blocks in every state the pool reaches: at   *)
(* every step of a call freeSize() is the sum of the sizes on the free list   *)
(* and usedSize() of what clients, dropped blocks and a block being split     *)
(* hold, and between calls the calls of alloc and free that were counted      *)
(* differ, at the width of their counters, by the blocks nobody has given     *)
(* back.                                                                      *)
THEOREM StatisticsAgree == Spec => []Accounting
<1>1. Init => IInv /\ Stats
  BY InitInv, InitStats
<1>2. (IInv /\ Stats) /\ [Next]_vars => (IInv /\ Stats)'
  BY NextInv, NextStats
<1>3. IInv /\ Stats => Accounting
  <2> SUFFICES ASSUME IInv, Stats PROVE Accounting
    OBVIOUS
  <2>1. /\ sizeFree = SumFunctionOnSet(size, ToSet(freeBlocks))
        /\ sizeInUse = SumFunctionOnSet([b \in Arena |-> Width(b)], live \cup dropped \cup Splitting)
    BY DEF Stats, FreeSum, UseSum, Widths, Held
  <2>2. pc \in {"idle", "find"} => (allocCount - freeCount - Cardinality(live \cup dropped)) % CountLimit = 0
    <3>1. CASE pc \in {"idle", "find"}
      <4>1. Pending = 0
        BY <3>1 DEF IInv, Control, Pending
      <4>2. allocCount - freeCount - Cardinality(live \cup dropped) \in Int
        BY CountTypes
      <4>3. Uncounted = allocCount - freeCount - Cardinality(live \cup dropped)
        BY <4>1, <4>2 DEF Uncounted
      <4> QED
        BY <4>3 DEF Stats, Balance
    <3> QED
      BY <3>1
  <2> QED
    BY <2>1, <2>2 DEF Accounting
<1> QED
  BY <1>1, <1>2, <1>3, PTL DEF Spec
=============================================================================
