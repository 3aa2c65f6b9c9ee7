------------------------- MODULE VirtualConsole_proofs -------------------------
(***************************************************************************)
(* The console stays inside its buffer and its framebuffer, and implements *)
(* the terminal of module Terminal: proved for every resolution, font and  *)
(* text.  The terminal breaks all that was printed into lines anew; the    *)
(* console only ever has the last of them, in its buffer.  What relates    *)
(* the two is BufferShows: after each character the buffer has the last    *)
(* lines of what was printed up to it, and the cursor is behind the last.  *)
(***************************************************************************)
EXTENDS VirtualConsole, FiniteSetTheorems, SequenceTheorems, TLAPS

(* Before anything was printed the cursor is where init, which does not    *)
(* move it, needs it to be.                                                *)
Unprinted == wired = <<>> => cursorX = 0 /\ cursorY = 0 /\ current = <<>>

IInv == TypeOK /\ StaysInside /\ Unprinted

(***************************************************************************)
(* Arithmetic                                                              *)
(***************************************************************************)
(* Multiplication is monotone. *)
LEMMA TimesMonotone ==
  ASSUME NEW a \in Nat, NEW b \in Nat, NEW c \in Nat, NEW d \in Nat, a <= b, c <= d
  PROVE  a * c <= b * d
<1>1. a * c <= b * c
  <2>1. PICK e \in Nat : b = a + e
    <3>1. b - a \in Nat /\ b = a + (b - a)
      OBVIOUS
    <3> QED BY <3>1
  <2>2. b * c = a * c + e * c
    BY <2>1
  <2>3. e * c \in Nat /\ a * c \in Nat
    BY <2>1
  <2> QED BY <2>2, <2>3
<1>2. b * c <= b * d
  <2>1. PICK e \in Nat : d = c + e
    <3>1. d - c \in Nat /\ d = c + (d - c)
      OBVIOUS
    <3> QED BY <3>1
  <2>2. b * d = b * c + b * e
    BY <2>1
  <2>3. b * e \in Nat /\ b * c \in Nat
    BY <2>1
  <2> QED BY <2>2, <2>3
<1>3. a * c \in Nat /\ b * c \in Nat /\ b * d \in Nat
  OBVIOUS
<1> QED BY <1>1, <1>2, <1>3

(* What whole division means. *)
LEMMA Quotient ==
  ASSUME NEW a \in Nat, NEW d \in Nat \ {0}
  PROVE  /\ a \div d \in Nat
         /\ (a \div d) * d <= a
         /\ a < (a \div d) * d + d
  OBVIOUS

(* Whole division is monotone, and antitone in the divisor. *)
LEMMA QuotientMonotone ==
  ASSUME NEW a \in Nat, NEW b \in Nat, a <= b,
         NEW c \in Nat \ {0}, NEW d \in Nat \ {0}, c <= d
  PROVE  a \div d <= b \div c
<1> DEFINE q == a \div d  p == b \div c
<1>1. q \in Nat /\ p \in Nat /\ q * d <= a /\ b < p * c + c
  BY Quotient
<1>2. SUFFICES ASSUME p + 1 <= q PROVE FALSE
  BY <1>1
<1> HIDE DEF q, p
<1>3. (p + 1) * c <= q * d
  BY <1>1, <1>2, TimesMonotone
<1>4. (p + 1) * c = p * c + c
  BY <1>1
<1>5. p * c \in Nat /\ q * d \in Nat
  BY <1>1
<1> QED BY <1>1, <1>3, <1>4, <1>5

(* The cell in column x of line y has its place inside the shape. *)
LEMMA PlaceInShape ==
  ASSUME NEW l \in Nat, NEW c \in Nat, NEW x \in 0 .. (l - 1), NEW y \in 0 .. (c - 1)
  PROVE  y * l + x \in 0 .. (l * c - 1)
<1>1. (y + 1) * l <= c * l
  BY TimesMonotone
<1>2. (y + 1) * l = y * l + l /\ c * l = l * c
  OBVIOUS
<1>3. y * l \in Nat /\ l * c \in Nat
  OBVIOUS
<1> QED BY <1>1, <1>2, <1>3

(* The shape init gives the console fits the buffer and the framebuffer. *)
LEMMA ShapeFits ==
  ASSUME NEW r \in Resolutions
  PROVE  /\ r \in Nat \X Nat \X Nat
         /\ Columns(r[1]) \in Nat \ {0} /\ Rows(r[2]) \in Nat \ {0}
         /\ Columns(r[1]) * Rows(r[2]) <= BufferSize
         /\ Columns(r[1]) * FontWidth <= r[1]
         /\ Rows(r[2]) * FontHeight <= r[2]
<1> DEFINE w == Smaller(r[1], MaxResWidth)  h == Smaller(r[2], MaxResHeight)
<1>1. /\ r \in Nat \X Nat \X Nat /\ FontWidth <= r[1] /\ FontHeight <= r[2]
      /\ FontWidth \in Nat \ {0} /\ FontHeight \in Nat \ {0}
      /\ CellWidth \in Nat \ {0} /\ CellHeight \in Nat \ {0}
      /\ CellWidth <= FontWidth /\ CellHeight <= FontHeight
      /\ MaxResWidth \in Nat /\ MaxResHeight \in Nat
      /\ FontWidth <= MaxResWidth /\ FontHeight <= MaxResHeight
  BY ConsoleAssumption
<1>2. /\ w \in Nat /\ w <= r[1] /\ w <= MaxResWidth /\ FontWidth <= w
      /\ h \in Nat /\ h <= r[2] /\ h <= MaxResHeight /\ FontHeight <= h
  BY <1>1 DEF Smaller
<1>3. Columns(r[1]) = w \div FontWidth /\ Rows(r[2]) = h \div FontHeight
  BY DEF Columns, Rows
<1> HIDE DEF w, h
<1>4. /\ Columns(r[1]) \in Nat /\ Rows(r[2]) \in Nat
      /\ Columns(r[1]) * FontWidth <= w /\ Rows(r[2]) * FontHeight <= h
      /\ w < Columns(r[1]) * FontWidth + FontWidth
      /\ h < Rows(r[2]) * FontHeight + FontHeight
  BY <1>1, <1>2, <1>3, Quotient
<1>5. Columns(r[1]) # 0
  <2> SUFFICES ASSUME Columns(r[1]) = 0 PROVE FALSE
    OBVIOUS
  <2>1. Columns(r[1]) * FontWidth = 0
    BY <1>1
  <2> QED BY <1>1, <1>2, <1>4, <2>1
<1>6. Rows(r[2]) # 0
  <2> SUFFICES ASSUME Rows(r[2]) = 0 PROVE FALSE
    OBVIOUS
  <2>1. Rows(r[2]) * FontHeight = 0
    BY <1>1
  <2> QED BY <1>1, <1>2, <1>4, <2>1
<1>7. Columns(r[1]) <= MaxResWidth \div CellWidth /\ Rows(r[2]) <= MaxResHeight \div CellHeight
  BY <1>1, <1>2, <1>3, QuotientMonotone
<1>8. MaxResWidth \div CellWidth \in Nat /\ MaxResHeight \div CellHeight \in Nat
  BY <1>1, Quotient
<1>9. Columns(r[1]) * Rows(r[2]) <= BufferSize
  BY <1>4, <1>7, <1>8, TimesMonotone DEF BufferSize
<1>10. Columns(r[1]) * FontWidth \in Nat /\ Rows(r[2]) * FontHeight \in Nat
  BY <1>1, <1>4
<1> QED BY <1>1, <1>2, <1>4, <1>5, <1>6, <1>9, <1>10

(* A glyph drawn in a cell of that shape has its pixels in the framebuffer. *)
LEMMA GlyphInFrame ==
  ASSUME NEW r \in Resolutions, NEW cell \in Cells(Columns(r[1]), Rows(r[2]))
  PROVE  Pixels(cell, r[3]) \subseteq 0 .. (r[3] * r[2] - 1)
<1> SUFFICES ASSUME NEW i \in 0 .. (FontHeight - 1), NEW k \in 0 .. (FontWidth - 1)
             PROVE  (cell[2] * FontHeight + i) * r[3] + cell[1] * FontWidth + k
                      \in 0 .. (r[3] * r[2] - 1)
  BY DEF Pixels
<1> DEFINE x == cell[1] * FontWidth + k  y == cell[2] * FontHeight + i
<1>1. /\ r[1] \in Nat /\ r[2] \in Nat /\ r[3] \in Nat /\ r[1] <= r[3]
      /\ FontWidth \in Nat /\ FontHeight \in Nat
  BY ConsoleAssumption
<1>2. /\ Columns(r[1]) \in Nat /\ Rows(r[2]) \in Nat
      /\ Columns(r[1]) * FontWidth <= r[1] /\ Rows(r[2]) * FontHeight <= r[2]
  BY ShapeFits
<1>3. cell[1] \in 0 .. (Columns(r[1]) - 1) /\ cell[2] \in 0 .. (Rows(r[2]) - 1)
  BY DEF Cells
<1>4. x \in 0 .. (FontWidth * Columns(r[1]) - 1)
  BY <1>1, <1>2, <1>3, PlaceInShape
<1>5. y \in 0 .. (FontHeight * Rows(r[2]) - 1)
  BY <1>1, <1>2, <1>3, PlaceInShape
<1> HIDE DEF x, y
<1>6. x \in 0 .. (r[3] - 1) /\ y \in 0 .. (r[2] - 1)
  <2>1. FontWidth * Columns(r[1]) = Columns(r[1]) * FontWidth
        /\ FontHeight * Rows(r[2]) = Rows(r[2]) * FontHeight
    BY <1>1, <1>2
  <2>2. Columns(r[1]) * FontWidth \in Nat /\ Rows(r[2]) * FontHeight \in Nat
    BY <1>1, <1>2
  <2> QED BY <1>1, <1>2, <1>4, <1>5, <2>1, <2>2
<1>7. y * r[3] + x \in 0 .. (r[3] * r[2] - 1)
  BY <1>1, <1>6, PlaceInShape
<1>8. y * r[3] + x = (cell[2] * FontHeight + i) * r[3] + cell[1] * FontWidth + k
  <2>1. cell[1] * FontWidth \in Nat /\ k \in Nat /\ y * r[3] \in Nat
    BY <1>1, <1>2, <1>3, <1>6
  <2> QED BY <2>1 DEF x, y
<1> QED BY <1>7, <1>8

(* The size of the buffer is a number. *)
LEMMA SizeOfBuffer == BufferSize \in Nat
<1>1. MaxResWidth \div CellWidth \in Nat /\ MaxResHeight \div CellHeight \in Nat
  BY ConsoleAssumption, Quotient
<1> QED
  BY <1>1 DEF BufferSize

(* A character of appendText is stored inside the buffer. *)
LEMMA StoredInside == IInv => Stored \subseteq DOMAIN buffer
<1> SUFFICES ASSUME IInv PROVE Stored \subseteq DOMAIN buffer
  OBVIOUS
<1>1. /\ DOMAIN buffer = 0 .. (BufferSize - 1)
      /\ lineLength \in Nat /\ lineCount \in Nat
      /\ cursorX \in 0 .. (lineLength - 1) /\ cursorY \in 0 .. (lineCount - 1)
      /\ lineLength * lineCount <= BufferSize
  BY DEF IInv, TypeOK, StaysInside
<1>2. BufferSize \in Nat
  BY SizeOfBuffer
<1>3. \A x \in 0 .. (lineLength - 1) : cursorY * lineLength + x \in 0 .. (BufferSize - 1)
  <2> TAKE x \in 0 .. (lineLength - 1)
  <2>1. cursorY * lineLength + x \in 0 .. (lineLength * lineCount - 1)
    BY <1>1, PlaceInShape
  <2>2. lineLength * lineCount \in Nat
    BY <1>1
  <2> HIDE DEF IInv
  <2> QED BY <1>1, <1>2, <2>1, <2>2
<1>4. CASE current[pos] = Newline
  <2>1. cursorX .. (lineLength - 1) \subseteq 0 .. (lineLength - 1)
    BY <1>1
  <2> QED BY <1>1, <1>3, <1>4, <2>1 DEF Stored
<1>5. CASE current[pos] # Newline
  BY <1>1, <1>3, <1>5 DEF Stored, Place
<1> QED BY <1>4, <1>5

(***************************************************************************)
(* The invariant                                                           *)
(***************************************************************************)
(* It holds at the start. *)
LEMMA InitIInv == Init => IInv
<1> SUFFICES ASSUME Init PROVE IInv
  OBVIOUS
<1>1. TypeOK
  <2>1. <<>> \in Seq(Characters)
    OBVIOUS
  <2>2. DOMAIN buffer = 0 .. (BufferSize - 1)
    BY DEF Init
  <2>3. cursorX \in 0 .. (lineLength - 1) /\ cursorY \in 0 .. (lineCount - 1)
        /\ lineLength \in Nat \ {0} /\ lineCount \in Nat \ {0}
    BY ConsoleAssumption DEF Init
  <2>4. resolution \in Nat \X Nat \X Nat
    BY DEF Init
  <2>5. overrun \in BOOLEAN /\ initComplete \in BOOLEAN
    BY Zenon DEF Init
  <2>6. pos \in Nat \ {0}
    BY DEF Init
  <2>7. wired \in Seq(Characters) /\ current \in Seq(Characters)
    BY <2>1 DEF Init
  <2> QED BY <2>2, <2>3, <2>4, <2>5, <2>6, <2>7 DEF TypeOK
<1>2. StaysInside
  BY ConsoleAssumption DEF Init, StaysInside
<1> QED BY <1>1, <1>2 DEF Init, IInv, Unprinted

(* Every step keeps it. *)
LEMMA StepIInv == IInv /\ [Next]_vars => IInv'
<1> SUFFICES ASSUME IInv, [Next]_vars PROVE IInv'
  OBVIOUS
<1>1. ASSUME NEW r \in Resolutions, InitConsole(r) PROVE IInv'
  <2>1. /\ r \in Nat \X Nat \X Nat
        /\ Columns(r[1]) \in Nat \ {0} /\ Rows(r[2]) \in Nat \ {0}
        /\ Columns(r[1]) * Rows(r[2]) <= BufferSize
        /\ Columns(r[1]) * FontWidth <= r[1]
        /\ Rows(r[2]) * FontHeight <= r[2]
    BY ShapeFits
  <2>2. /\ lineLength' = Columns(r[1]) /\ lineCount' = Rows(r[2])
        /\ initComplete' = TRUE /\ resolution' = r /\ DOMAIN buffer' = DOMAIN buffer
        /\ UNCHANGED <<overrun, cursorX, cursorY, wired, current, pos>>
        /\ cursorX = 0 /\ cursorY = 0
    BY <1>1 DEF InitConsole, IInv, Unprinted
  <2>3. TypeOK'
    <3>1. TypeOK
      BY DEF IInv
    <3>2. DOMAIN buffer' = 0 .. (BufferSize - 1) /\ resolution' \in Nat \X Nat \X Nat
      BY <2>1, <2>2, <3>1 DEF TypeOK
    <3>3. overrun' \in BOOLEAN /\ initComplete' \in BOOLEAN
      BY <2>2, <3>1, Zenon DEF TypeOK
    <3>4. /\ lineLength' \in Nat \ {0} /\ lineCount' \in Nat \ {0}
          /\ cursorX' \in 0 .. (lineLength' - 1) /\ cursorY' \in 0 .. (lineCount' - 1)
      BY <2>1, <2>2
    <3>5. wired' \in Seq(Characters) /\ current' \in Seq(Characters) /\ pos' \in Nat \ {0}
      BY <2>2, <3>1 DEF TypeOK
    <3> QED BY <3>2, <3>3, <3>4, <3>5 DEF TypeOK
  <2>4. StaysInside'
    <3>1. \A cell \in Cells(lineLength', lineCount') :
            Pixels(cell, resolution'[3]) \subseteq 0 .. (resolution'[3] * resolution'[2] - 1)
      BY <2>2, GlyphInFrame
    <3>2. ~overrun'
      BY <2>2 DEF IInv, StaysInside
    <3>3. /\ lineLength' * lineCount' <= BufferSize
          /\ lineLength' * FontWidth <= resolution'[1]
          /\ lineCount' * FontHeight <= resolution'[2]
      BY ONLY <2>1, <2>2
    <3> QED BY <3>1, <3>2, <3>3 DEF StaysInside
  <2> QED BY <2>2, <2>3, <2>4 DEF IInv, Unprinted
<1>2. ASSUME NEW t \in Seq(Characters), AppendText(t) PROVE IInv'
  <2>1. wired' = wired \o t /\ wired \in Seq(Characters) /\ t # <<>>
    BY <1>2 DEF AppendText, IInv, TypeOK
  <2>2. wired' \in Seq(Characters) /\ wired' # <<>>
    <3>1. Len(t) # 0
      BY <2>1
    <3>2. Len(wired') = Len(wired) + Len(t) /\ wired' \in Seq(Characters)
      BY <2>1
    <3> QED BY <2>1, <3>1, <3>2
  <2> QED BY <1>2, <2>2 DEF AppendText, IInv, TypeOK, StaysInside, Unprinted, shape
<1>3. ASSUME Put, DOMAIN buffer' = DOMAIN buffer,
             cursorX' \in 0 .. (lineLength - 1), cursorY' \in 0 .. (lineCount - 1)
      PROVE  IInv'
  <2>1. /\ pos' = pos + 1 /\ UNCHANGED shape
        /\ overrun' = (overrun \/ ~(Stored \subseteq DOMAIN buffer))
    BY <1>3 DEF Put
  <2>2. ~overrun'
    BY <2>1, StoredInside DEF IInv, StaysInside
  <2>3. wired' = wired /\ current' = current /\ wired # <<>>
    BY <1>3 DEF Put, IInv, TypeOK, Unprinted
  <2> QED BY <1>3, <2>1, <2>2, <2>3 DEF IInv, TypeOK, StaysInside, Unprinted, shape
<1>4. CASE Stay
  BY <1>3, <1>4 DEF Stay, Painted, LineIsFull, IInv, TypeOK
<1>5. CASE Wrap
  BY <1>3, <1>5 DEF Wrap, Painted, LastLine, IInv, TypeOK
<1>6. CASE Scroll
  BY <1>3, <1>6 DEF Scroll, Scrolled, Painted, IInv, TypeOK
<1>7. CASE UpdateScreen
  BY <1>7 DEF UpdateScreen, IInv, TypeOK, StaysInside, Unprinted, shape
<1>8. CASE UNCHANGED vars
  BY <1>8 DEF vars, IInv, TypeOK, StaysInside, Unprinted, shape
<1>9. \A t \in Texts : t \in Seq(Characters) /\ Printed(t) \in Seq(Characters)
  <2> TAKE t \in Texts
  <2>1. t \in Seq(Characters) /\ FormatRoom \in Nat \ {0}
    BY ConsoleAssumption
  <2>2. Smaller(Len(t), FormatRoom - 1) \in 0 .. Len(t)
    BY <2>1 DEF Smaller
  <2> QED BY <2>1, <2>2 DEF Printed
<1> QED BY <1>1, <1>2, <1>4, <1>5, <1>6, <1>7, <1>8, <1>9 DEF Next, Step

(* Between two characters the cursor is always in a cell of the console,   *)
(* whatever was printed.                                                   *)
THEOREM CursorInCell == Spec => []TypeOK
<1>1. IInv => TypeOK
  BY DEF IInv
<1> QED BY <1>1, InitIInv, StepIInv, PTL DEF Spec

(* appendText never stores outside its buffer, and updateScreen never      *)
(* draws outside the framebuffer, for every resolution with room for one   *)
(* character and every font not smaller than the one the buffer is for.    *)
THEOREM NeverOutside == Spec => []StaysInside
<1>1. IInv => StaysInside
  BY DEF IInv
<1> QED BY <1>1, InitIInv, StepIInv, PTL DEF Spec

(***************************************************************************)
(* Folds: what has a least bad subset needs no induction                   *)
(***************************************************************************)
(* Of natural numbers there is a least one. *)
LEMMA LeastNatural ==
  ASSUME NEW W \in SUBSET Nat, W # {}
  PROVE  \E i \in W : \A k \in W : i <= k
<1> DEFINE Below == {0 .. i : i \in W}
<1>1. Below \subseteq FiniteSubsetsOf(Nat)
  <2>1. ASSUME NEW i \in W PROVE 0 .. i \in SUBSET Nat /\ IsFiniteSet(0 .. i)
    <3>1. 0 \in Int /\ i \in Int
      OBVIOUS
    <3>2. IsFiniteSet(0 .. i)
      BY <3>1, FS_Interval
    <3> QED
      BY <3>2
  <2> QED
    BY <2>1 DEF FiniteSubsetsOf
<1>2. PICK D \in Below : \A E \in Below : <<E, D>> \notin StrictSubsetOrdering(Nat)
  <2>1. Below # {}
    OBVIOUS
  <2> HIDE DEF Below
  <2> QED
    BY <1>1, <2>1, FS_StrictSubsetOrderingWellFounded, WFMin
<1>3. PICK i \in W : D = 0 .. i
  OBVIOUS
<1>4. ASSUME NEW k \in W, k < i PROVE FALSE
  <2>1. 0 .. k \in SUBSET Nat /\ 0 .. i \in SUBSET Nat
    BY <1>4
  <2>2. 0 .. k \subseteq 0 .. i /\ i \in 0 .. i /\ i \notin 0 .. k
    BY <1>4
  <2>3. <<0 .. k, 0 .. i>> \in StrictSubsetOrdering(Nat)
    BY <2>1, <2>2 DEF StrictSubsetOrdering
  <2> QED
    BY <1>2, <1>3, <2>3
<1> QED
  BY <1>4

(* Of the finite sets that are bad there is one all of whose proper subsets *)
(* are not: what induction over finite sets comes down to.                  *)
LEMMA LeastSubset ==
  ASSUME NEW S, NEW Bad, Bad \subseteq FiniteSubsetsOf(S), Bad # {}
  PROVE  \E Z \in Bad : \A U \in SUBSET Z : U # Z => U \notin Bad
<1>1. PICK Z \in Bad : \A U \in Bad : <<U, Z>> \notin StrictSubsetOrdering(S)
  BY FS_StrictSubsetOrderingWellFounded, WFMin
<1>2. ASSUME NEW U \in SUBSET Z, U # Z, U \in Bad PROVE FALSE
  <2>1. <<U, Z>> \in StrictSubsetOrdering(S)
    BY <1>2 DEF StrictSubsetOrdering, FiniteSubsetsOf
  <2> QED
    BY <1>1, <1>2, <2>1
<1> QED
  BY <1>2

(* g says for every subset of S what folding step over it, in the order of c, *)
(* gives.                                                                     *)
Folds(g, S, c, step, base) ==
  \A Z \in SUBSET S : g[Z] = IF Z = {} THEN base ELSE step[<<c[Z], g[Z \ {c[Z]}]>>]

(* No two functions fold alike and differ. *)
LEMMA FoldsAgree ==
  ASSUME NEW S, NEW R, NEW c, NEW step, NEW base, NEW g, NEW h,
         \A Z \in SUBSET S : Z # {} => c[Z] \in Z,
         Folds(g, S, c, step, base), Folds(h, R, c, step, base),
         NEW Z, Z \subseteq S, Z \subseteq R, IsFiniteSet(Z)
  PROVE  g[Z] = h[Z]
<1> DEFINE Bad == {U \in SUBSET Z : g[U] # h[U]}
<1> SUFFICES ASSUME Bad # {} PROVE FALSE
  OBVIOUS
<1>1. Bad \subseteq FiniteSubsetsOf(S)
  <2>1. ASSUME NEW U \in Bad PROVE IsFiniteSet(U) /\ U \in SUBSET S
    BY FS_Subset
  <2> QED
    BY <2>1 DEF FiniteSubsetsOf
<1>2. PICK U \in Bad : \A W \in SUBSET U : W # U => W \notin Bad
  <2> HIDE DEF Bad
  <2> QED
    BY <1>1, LeastSubset
<1>3. U \in SUBSET S /\ U \in SUBSET R /\ U \in SUBSET Z /\ g[U] # h[U]
  OBVIOUS
<1>4. CASE U = {}
  BY <1>3, <1>4 DEF Folds
<1>5. CASE U # {}
  <2>1. c[U] \in U
    BY <1>3, <1>5
  <2>2. g[U \ {c[U]}] = h[U \ {c[U]}]
    BY <1>2, <1>3, <2>1
  <2>3. g[U] = step[<<c[U], g[U \ {c[U]}]>>] /\ h[U] = step[<<c[U], h[U \ {c[U]}]>>]
    BY <1>3, <1>5 DEF Folds
  <2> QED
    BY <1>3, <2>2, <2>3
<1> QED
  BY <1>4, <1>5

(* Over a finite set there is a fold. *)
LEMMA FoldExists ==
  ASSUME NEW S, IsFiniteSet(S), NEW V, NEW c, NEW step, NEW base \in V,
         \A Z \in SUBSET S : Z # {} => c[Z] \in Z,
         \A x \in S, v \in V : step[<<x, v>>] \in V
  PROVE  \E g \in [SUBSET S -> V] : Folds(g, S, c, step, base)
<1> DEFINE Has(Z) == \E g \in [SUBSET Z -> V] : Folds(g, Z, c, step, base)
           Bad == {Z \in SUBSET S : ~Has(Z)}
<1> SUFFICES ASSUME Bad # {} PROVE FALSE
  OBVIOUS
<1>1. Bad \subseteq FiniteSubsetsOf(S)
  <2>1. ASSUME NEW U \in Bad PROVE IsFiniteSet(U) /\ U \in SUBSET S
    BY FS_Subset
  <2> QED
    BY <2>1 DEF FiniteSubsetsOf
<1>2. PICK Z \in Bad : \A U \in SUBSET Z : U # Z => U \notin Bad
  <2> HIDE DEF Bad
  <2> QED
    BY <1>1, LeastSubset
<1>3. Z \in SUBSET S /\ ~Has(Z) /\ \A U \in SUBSET Z : U # Z => Has(U)
  BY <1>2
<1> DEFINE h(U) == CHOOSE g \in [SUBSET U -> V] : Folds(g, U, c, step, base)
           g == [U \in SUBSET Z |-> IF U = {} THEN base
                                      ELSE step[<<c[U], h(U \ {c[U]})[U \ {c[U]}]>>]]
<1>4. ASSUME NEW U \in SUBSET Z, U # Z
      PROVE  h(U) \in [SUBSET U -> V] /\ Folds(h(U), U, c, step, base)
  BY <1>3, <1>4
<1> HIDE DEF h
<1>5. ASSUME NEW U \in SUBSET Z, U # {}
      PROVE  /\ c[U] \in U /\ U \ {c[U]} \in SUBSET Z /\ U \ {c[U]} # Z
             /\ h(U \ {c[U]})[U \ {c[U]}] \in V
  <2>1. c[U] \in U
    BY <1>3, <1>5
  <2> DEFINE W == U \ {c[U]}
  <2>2. W \in SUBSET Z /\ W # Z /\ W \in SUBSET W
    BY <2>1
  <2> HIDE DEF W
  <2>3. h(W)[W] \in V
    <3>1. h(W) \in [SUBSET W -> V]
      BY <1>4, <2>2
    <3> QED
      BY <2>2, <3>1
  <2> QED
    BY <2>1, <2>2, <2>3 DEF W
<1>6. g \in [SUBSET Z -> V]
  <2>1. ASSUME NEW U \in SUBSET Z
        PROVE  (IF U = {} THEN base ELSE step[<<c[U], h(U \ {c[U]})[U \ {c[U]}]>>]) \in V
    <3>1. CASE U = {}
      BY <3>1
    <3>2. CASE U # {}
      <4>1. c[U] \in S /\ h(U \ {c[U]})[U \ {c[U]}] \in V
        BY <1>3, <1>5, <3>2
      <4> QED
        BY <3>2, <4>1
    <3> QED
      BY <3>1, <3>2
  <2> QED
    BY <2>1
<1>7. ASSUME NEW U \in SUBSET Z, U # {} PROVE g[U \ {c[U]}] = h(U \ {c[U]})[U \ {c[U]}]
  <2> DEFINE W == U \ {c[U]}
  <2>1. W \in SUBSET Z /\ W # Z
    BY <1>5, <1>7
  <2> HIDE DEF W
  <2>2. Folds(h(W), W, c, step, base)
    BY <1>4, <2>1
  <2>3. CASE W = {}
    <3>1. h(W)[W] = base
      BY <2>2, <2>3 DEF Folds
    <3> QED
      BY <2>1, <2>3, <3>1 DEF W
  <2>4. CASE W # {}
    <3> DEFINE X == W \ {c[W]}
    <3>1. c[W] \in W /\ X \in SUBSET W /\ X \in SUBSET Z /\ X # Z /\ IsFiniteSet(X)
      <4>1. c[W] \in W /\ X \in SUBSET Z /\ X # Z
        BY <1>5, <2>1, <2>4
      <4>2. X \in SUBSET S
        BY <1>3, <4>1
      <4>3. IsFiniteSet(X)
        BY <4>2, FS_Subset
      <4> QED
        BY <4>1, <4>3
    <3>2. h(W)[W] = step[<<c[W], h(W)[X]>>]
      BY <2>2, <2>4 DEF Folds
    <3>3. g[W] = step[<<c[W], h(X)[X]>>]
      BY <2>1, <2>4
    <3> HIDE DEF X
    <3>4. Folds(h(X), X, c, step, base)
      BY <1>4, <3>1
    <3>5. \A Y \in SUBSET X : Y # {} => c[Y] \in Y
      BY <1>3, <3>1
    <3>6. h(X)[X] = h(W)[X]
      BY <2>2, <3>1, <3>4, <3>5, FoldsAgree
    <3> QED
      BY <3>2, <3>3, <3>6 DEF W
  <2> QED
    BY <2>3, <2>4
<1>8. Folds(g, Z, c, step, base)
  <2>1. ASSUME NEW U \in SUBSET Z
        PROVE  g[U] = IF U = {} THEN base ELSE step[<<c[U], g[U \ {c[U]}]>>]
    <3>1. g[U] = IF U = {} THEN base ELSE step[<<c[U], h(U \ {c[U]})[U \ {c[U]}]>>]
      OBVIOUS
    <3> HIDE DEF g
    <3> QED
      BY <1>7, <3>1
  <2> HIDE DEF g
  <2> QED
    BY <2>1 DEF Folds
<1> HIDE DEF g
<1> QED
  BY <1>3, <1>6, <1>8

(***************************************************************************)
(* The lines of a text                                                     *)
(***************************************************************************)
(* Lines on a glass: at least one, which may be empty. *)
Page == Seq(Seq(Characters)) \ {<<>>}

(* Writing a character leaves lines. *)
LEMMA TypeGrows ==
  ASSUME NEW l \in Page, NEW c \in Characters, NEW w
  PROVE  T!Type(l, c, w) \in Page
<1> DEFINE n == Len(l)
           last == l[n]
           typed == Append(T!Front(l), Append(last, c))
<1>1. l \in Seq(Seq(Characters)) /\ n \in Nat \ {0} /\ last \in Seq(Characters)
  BY DEF Page
<1>2. T!Front(l) \in Seq(Seq(Characters))
  BY <1>1 DEF T!Front
<1>3. typed \in Page
  <2>1. typed \in Seq(Seq(Characters)) /\ Len(typed) = Len(T!Front(l)) + 1
        /\ Len(T!Front(l)) \in Nat
    BY <1>1, <1>2
  <2> HIDE DEF typed
  <2>2. typed # <<>>
    BY <2>1
  <2> QED
    BY <2>1, <2>2 DEF Page
<1>4. Append(l, <<>>) \in Page /\ Append(typed, <<>>) \in Page
  <2>1. \A p \in Page : Append(p, <<>>) \in Page
    <3> TAKE p \in Page
    <3>1. p \in Seq(Seq(Characters)) /\ <<>> \in Seq(Characters)
      BY DEF Page
    <3>2. Append(p, <<>>) \in Seq(Seq(Characters)) /\ Len(Append(p, <<>>)) = Len(p) + 1
      BY <3>1
    <3> DEFINE q == Append(p, <<>>)
    <3>3. q \in Seq(Seq(Characters)) /\ Len(q) # 0
      BY <3>1, <3>2
    <3> HIDE DEF q
    <3>4. q # <<>>
      BY <3>3
    <3> QED
      BY <3>3, <3>4 DEF Page, q
  <2> QED
    BY <1>3, <2>1
<1> QED
  BY <1>3, <1>4 DEF T!Type

(* A finite set of places has a last one. *)
LEMMA LastPlace ==
  ASSUME NEW n \in Nat, NEW S \in SUBSET (1 .. n), S # {}
  PROVE  T!Max(S) \in S /\ \A i \in S : i <= T!Max(S)
<1> DEFINE Left == {n - i : i \in S}
<1>1. Left \in SUBSET Nat /\ Left # {}
  <2>1. \A i \in S : n - i \in Nat
    OBVIOUS
  <2> QED
    BY <2>1
<1>2. PICK k \in Left : \A m \in Left : k <= m
  <2> HIDE DEF Left
  <2> QED
    BY <1>1, LeastNatural
<1>3. PICK i \in S : k = n - i
  OBVIOUS
<1>4. \A j \in S : i >= j
  BY <1>2, <1>3
<1>5. \E x \in S : \A y \in S : x >= y
  BY <1>4
<1>6. T!Max(S) \in S /\ \A y \in S : T!Max(S) >= y
  BY <1>5 DEF T!Max
<1> QED
  BY <1>6

(* The order in which a text is typed, and the typing. *)
LastOf(n) == [S \in SUBSET (1 .. n) |-> T!Max(S)]
Typing(t, w) == [p \in (1 .. Len(t)) \X Page |-> T!Type(p[2], t[p[1]], w)]

(* The lines of a text are what typing its characters one after the other  *)
(* gives.                                                                  *)
LEMMA LinesAreTyped ==
  ASSUME NEW t \in Seq(Characters), NEW w
  PROVE  \E g \in [SUBSET (1 .. Len(t)) -> Page] :
           /\ Folds(g, 1 .. Len(t), LastOf(Len(t)), Typing(t, w), << <<>> >>)
           /\ T!Lines(t, w) = g[1 .. Len(t)]
<1> DEFINE n == Len(t)
           S == 1 .. n
           base == << <<>> >>
           any(R) == T!Max(R)
           typ(l, i) == T!Type(l, t[i], w)
           Types(h) == h = [R \in SUBSET S |-> IF R = {} THEN base
                                               ELSE typ(h[R \ {any(R)}], any(R))]
           c == LastOf(n)
           step == Typing(t, w)
<1>1. T!Lines(t, w) = (CHOOSE h : Types(h))[S]
  <2>1. DOMAIN t = S
    OBVIOUS
  <2> QED
    BY <2>1 DEF T!Lines, T!FoldLeft, T!MapThenFoldSet
<1>2. IsFiniteSet(S) /\ n \in Nat
  <2>1. n \in Nat
    OBVIOUS
  <2> QED
    BY <2>1, FS_Interval
<1>3. \A R \in SUBSET S : R # {} => any(R) \in R /\ c[R] = any(R)
  BY <1>2, LastPlace DEF LastOf
<1>4. \A i \in S, l \in Page : step[<<i, l>>] = typ(l, i) /\ step[<<i, l>>] \in Page
  <2> TAKE i \in S, l \in Page
  <2>1. t[i] \in Characters
    OBVIOUS
  <2>2. typ(l, i) \in Page
    BY <2>1, TypeGrows
  <2>3. step[<<i, l>>] = typ(l, i)
    BY DEF Typing
  <2> QED
    BY <2>2, <2>3
<1>5. base \in Page
  BY DEF Page
<1> HIDE DEF any, typ, c, step, base, S
<1>6. PICK g \in [SUBSET S -> Page] : Folds(g, S, c, step, base)
  <2>1. \A R \in SUBSET S : R # {} => c[R] \in R
    BY <1>3
  <2>2. \A i \in S, l \in Page : step[<<i, l>>] \in Page
    BY <1>4
  <2> QED
    BY <1>2, <1>5, <2>1, <2>2, FoldExists
<1>7. ASSUME NEW h \in [SUBSET S -> Page], NEW R \in SUBSET S, R # {}
      PROVE  typ(h[R \ {any(R)}], any(R)) = step[<<c[R], h[R \ {c[R]}]>>]
  <2>1. c[R] = any(R) /\ any(R) \in S /\ h[R \ {any(R)}] \in Page
    BY <1>3, <1>7
  <2> QED
    BY <1>4, <2>1
<1>8. Types(g)
  <2>1. \A R \in SUBSET S : g[R] = IF R = {} THEN base ELSE typ(g[R \ {any(R)}], any(R))
    BY <1>6, <1>7 DEF Folds
  <2> QED
    BY <2>1
<1> DEFINE h == CHOOSE h : Types(h)
<1>9. Types(h)
  <2> HIDE DEF Types
  <2> QED
    BY <1>8
<1> HIDE DEF h
<1>10. h = g
  <2>1. h = [R \in SUBSET S |-> h[R]]
        /\ \A R \in SUBSET S : h[R] = IF R = {} THEN base ELSE typ(h[R \ {any(R)}], any(R))
    BY <1>9
  <2> DEFINE Bad == {R \in SUBSET S : h[R] # g[R]}
  <2>2. Bad \subseteq FiniteSubsetsOf(S)
    <3>1. \A R \in Bad : IsFiniteSet(R) /\ R \in SUBSET S
      BY <1>2, FS_Subset
    <3> QED
      BY <3>1 DEF FiniteSubsetsOf
  <2>3. ASSUME Bad # {} PROVE FALSE
    <3>1. PICK R \in Bad : \A U \in SUBSET R : U # R => U \notin Bad
      <4> HIDE DEF Bad
      <4> QED
        BY <2>2, <2>3, LeastSubset
    <3>2. R \in SUBSET S /\ h[R] # g[R] /\ \A U \in SUBSET R : U # R => h[U] = g[U]
      BY <3>1
    <3>3. g[R] = IF R = {} THEN base ELSE typ(g[R \ {any(R)}], any(R))
      BY <1>8, <3>2
    <3>4. h[R] = IF R = {} THEN base ELSE typ(h[R \ {any(R)}], any(R))
      BY <2>1, <3>2
    <3>5. R # {} => any(R) \in R
      BY <1>3, <3>2
    <3>6. R # {} => h[R \ {any(R)}] = g[R \ {any(R)}]
      BY <3>2, <3>5
    <3> QED
      BY <3>2, <3>3, <3>4, <3>6
  <2> QED
    BY <1>6, <2>1, <2>3
<1>11. T!Lines(t, w) = g[S]
  BY <1>1, <1>10 DEF h
<1> QED
  BY <1>6, <1>11 DEF S, c, step, base

(* Nothing printed is an empty line, and one character more is typed behind *)
(* what was there.                                                          *)
LEMMA LinesGrow ==
  ASSUME NEW t \in Seq(Characters), NEW w
  PROVE  /\ T!Lines(t, w) \in Page
         /\ t = <<>> => T!Lines(t, w) = << <<>> >>
         /\ \A c \in Characters : T!Lines(Append(t, c), w) = T!Type(T!Lines(t, w), c, w)
<1> DEFINE n == Len(t)
           S == 1 .. n
           base == << <<>> >>
<1>1. PICK g \in [SUBSET S -> Page] :
        /\ Folds(g, S, LastOf(n), Typing(t, w), base)
        /\ T!Lines(t, w) = g[S]
  BY LinesAreTyped
<1>2. T!Lines(t, w) \in Page
  BY <1>1
<1>3. t = <<>> => T!Lines(t, w) = base
  <2>1. t = <<>> => S = {}
    OBVIOUS
  <2> QED
    BY <1>1, <2>1 DEF Folds
<1>4. ASSUME NEW c \in Characters PROVE T!Lines(Append(t, c), w) = T!Type(T!Lines(t, w), c, w)
  <2> DEFINE u == Append(t, c)
             R == 1 .. (n + 1)
  <2>1. n \in Nat /\ u \in Seq(Characters) /\ Len(u) = n + 1 /\ u[n + 1] = c
        /\ \A i \in S : u[i] = t[i]
    OBVIOUS
  <2>2. PICK h \in [SUBSET R -> Page] :
          /\ Folds(h, R, LastOf(n + 1), Typing(u, w), base)
          /\ T!Lines(u, w) = h[R]
    <3> HIDE DEF u
    <3> QED
      BY <2>1, LinesAreTyped
  <2> HIDE DEF u
  <2>3. S \subseteq R /\ R \ {n + 1} = S /\ R # {} /\ IsFiniteSet(S)
    <3>1. S \subseteq R /\ R \ {n + 1} = S /\ R # {}
      BY <2>1
    <3>2. IsFiniteSet(S)
      <4>1. 1 \in Int /\ n \in Int
        BY <2>1
      <4> QED
        BY <4>1, FS_Interval
    <3> QED
      BY <3>1, <3>2
  <2>4. T!Max(R) = n + 1
    <3>1. n + 1 \in Nat /\ R \in SUBSET (1 .. (n + 1)) /\ R # {} /\ n + 1 \in R
      BY <2>1
    <3> DEFINE m == n + 1
    <3>2. m \in Nat /\ R \in SUBSET (1 .. m) /\ R # {} /\ m \in R
      BY <3>1
    <3> HIDE DEF m, R
    <3>3. T!Max(R) \in R /\ \A i \in R : i <= T!Max(R)
      BY <3>2, LastPlace
    <3> DEFINE k == T!Max(R)
    <3>4. k \in R /\ \A i \in R : i <= k
      BY <3>3
    <3> HIDE DEF k
    <3>5. k = m
      <4>1. k \in 1 .. m /\ m <= k
        BY <3>2, <3>4
      <4> QED
        BY <3>2, <4>1
    <3> QED
      BY <3>5 DEF k, m
  <2>5. h[R] = T!Type(h[S], c, w)
    <3>1. h[R] = Typing(u, w)[<<LastOf(n + 1)[R], h[R \ {LastOf(n + 1)[R]}]>>]
      BY <2>2, <2>3 DEF Folds
    <3>2. LastOf(n + 1)[R] = n + 1
      BY <2>4 DEF LastOf
    <3>3. h[S] \in Page
      BY <2>2, <2>3
    <3>4. n + 1 \in 1 .. Len(u)
      BY <2>1
    <3>5. Typing(u, w)[<<n + 1, h[S]>>] = T!Type(h[S], u[n + 1], w)
      BY <3>3, <3>4 DEF Typing
    <3> QED
      BY <2>1, <2>3, <3>1, <3>2, <3>5
  <2>6. Folds(h, S, LastOf(n), Typing(t, w), base)
    <3>1. ASSUME NEW U \in SUBSET S, U # {}
          PROVE  h[U] = Typing(t, w)[<<LastOf(n)[U], h[U \ {LastOf(n)[U]}]>>]
      <4>1. U \in SUBSET R /\ LastOf(n + 1)[U] = T!Max(U) /\ LastOf(n)[U] = T!Max(U)
        BY <2>3 DEF LastOf
      <4> DEFINE m == T!Max(U)
      <4>2. m \in S
        BY <2>1, <3>1, LastPlace
      <4> HIDE DEF m
      <4>3. h[U] = Typing(u, w)[<<m, h[U \ {m}]>>]
        BY <2>2, <3>1, <4>1 DEF Folds, m
      <4>4. h[U \ {m}] \in Page
        BY <2>2, <4>1
      <4>5. m \in 1 .. Len(u) /\ m \in 1 .. Len(t)
        BY <2>1, <4>2
      <4>6. Typing(u, w)[<<m, h[U \ {m}]>>] = T!Type(h[U \ {m}], u[m], w)
        BY <4>4, <4>5 DEF Typing
      <4>7. Typing(t, w)[<<m, h[U \ {m}]>>] = T!Type(h[U \ {m}], t[m], w)
        BY <4>4, <4>5 DEF Typing
      <4>8. u[m] = t[m]
        BY <2>1, <4>2
      <4> QED
        BY <4>1, <4>3, <4>6, <4>7, <4>8 DEF m
    <3>2. h[{}] = base
      BY <2>2 DEF Folds
    <3> QED
      BY <3>1, <3>2 DEF Folds
  <2>7. h[S] = g[S]
    <3>1. \A U \in SUBSET S : U # {} => LastOf(n)[U] \in U
      BY <2>1, LastPlace DEF LastOf
    <3> HIDE DEF S, base
    <3> QED
      BY <1>1, <2>3, <2>6, <3>1, FoldsAgree
  <2> QED
    BY <1>1, <2>2, <2>5, <2>7 DEF u
<1> QED
  BY <1>2, <1>3, <1>4

(***************************************************************************)
(* The buffer shows the last lines                                         *)
(***************************************************************************)
(* The lines of a page that have left a glass of so many. *)
Above(l, count) == IF Len(l) > count THEN Len(l) - count ELSE 0

(* The character in column x of a line. *)
CharAt(l, line, x) == IF line <= Len(l) /\ x < Len(l[line]) THEN l[line][x + 1] ELSE Blank

(* The buffer has the last lines of a page, blank where they end. *)
Shows(b, l, length, count) ==
  \A x \in 0 .. (length - 1), y \in 0 .. (count - 1) :
    b[y * length + x] = CharAt(l, Above(l, count) + y + 1, x)

(* The page with c behind its last line, before that line is broken. *)
Written(l, c) == IF c = Newline THEN l ELSE Append(T!Front(l), Append(l[Len(l)], c))

(* What has been printed of wired, and how far appendText is with it. *)
Done     == Len(wired) - Len(current)
PutSoFar == SubSeq(wired, 1, Done + pos - 1)
Lines    == T!Lines(PutSoFar, lineLength)

(* The text at hand is the end of wired, and pos is in it or behind it.    *)
Behind ==
  /\ Len(current) <= Len(wired) /\ pos <= Len(current) + 1
  /\ \A k \in 1 .. Len(current) : wired[Done + k] = current[k]
  /\ current = <<>> \/ current \in Texts \cup {Printed(t) : t \in Texts}

(* The buffer has the last lines of what has been printed, and the cursor  *)
(* is behind the last of them.                                             *)
BufferShows ==
  initComplete => /\ cursorX = Len(Lines[Len(Lines)])
                  /\ cursorY = Len(Lines) - Above(Lines, lineCount) - 1
                  /\ Shows(buffer, Lines, lineLength, lineCount)

PInv == Behind /\ BufferShows

(* What is written is behind the last line, and the lines stay as many. *)
LEMMA WrittenPage ==
  ASSUME NEW l \in Page, NEW c \in Characters
  PROVE  /\ l[Len(l)] \in Seq(Characters) /\ Len(l) \in Nat \ {0}
         /\ Written(l, c) \in Page /\ Len(Written(l, c)) = Len(l)
         /\ \A i \in 1 .. (Len(l) - 1) : Written(l, c)[i] = l[i]
         /\ Written(l, c)[Len(l)] = IF c = Newline THEN l[Len(l)] ELSE Append(l[Len(l)], c)
<1>1. l \in Seq(Seq(Characters)) /\ l # <<>>
  BY DEF Page
<1>2. Len(l) \in Nat \ {0}
  BY <1>1
<1>3. l[Len(l)] \in Seq(Characters)
  BY <1>1, <1>2
<1>4. CASE c = Newline
  BY <1>2, <1>3, <1>4 DEF Written
<1>5. CASE c # Newline
  <2> DEFINE f == T!Front(l)
             z == Append(l[Len(l)], c)
  <2>1. f \in Seq(Seq(Characters)) /\ Len(f) = Len(l) - 1
        /\ \A i \in 1 .. (Len(l) - 1) : f[i] = l[i]
    <3> DEFINE m == Len(l) - 1
    <3>1. m \in 0 .. Len(l) /\ 1 .. m \subseteq 1 .. Len(l)
      BY <1>2
    <3>2. f = SubSeq(l, 1, m)
      BY DEF T!Front
    <3> HIDE DEF f, m
    <3>3. \A i \in 1 .. m : l[i] \in Seq(Characters)
      BY <1>1, <3>1
    <3>4. f \in Seq(Seq(Characters)) /\ Len(f) = m /\ \A i \in 1 .. m : f[i] = l[i]
      BY <1>1, <3>1, <3>2, <3>3
    <3> QED
      BY <3>4 DEF m
  <2>2. z \in Seq(Characters)
    BY <1>3
  <2> HIDE DEF f, z
  <2>3. /\ Append(f, z) \in Seq(Seq(Characters)) /\ Len(Append(f, z)) = Len(l)
        /\ \A i \in 1 .. (Len(l) - 1) : Append(f, z)[i] = l[i]
        /\ Append(f, z)[Len(l)] = z
    BY <1>2, <2>1, <2>2
  <2>4. Written(l, c) = Append(f, z)
    BY <1>5 DEF Written, f, z
  <2>5. Append(f, z) # <<>>
    <3> DEFINE q == Append(f, z)
    <3>1. q \in Seq(Seq(Characters)) /\ Len(q) # 0
      BY <1>2, <2>3
    <3> HIDE DEF q
    <3>2. q # <<>>
      BY <3>1
    <3> QED
      BY <3>2 DEF q
  <2>6. Append(f, z) \in Page
    BY <2>3, <2>5 DEF Page
  <2> QED
    BY <1>2, <1>3, <1>5, <2>3, <2>4, <2>6 DEF z
<1> QED
  BY <1>4, <1>5

(* A broken line leaves the others, and an empty one. *)
LEMMA BrokenPage ==
  ASSUME NEW l \in Page
  PROVE  /\ Append(l, <<>>) \in Page /\ Len(Append(l, <<>>)) = Len(l) + 1 /\ Len(l) \in Nat \ {0}
         /\ \A i \in 1 .. Len(l) : Append(l, <<>>)[i] = l[i]
         /\ Append(l, <<>>)[Len(l) + 1] = <<>>
         /\ \A i \in 1 .. Len(l) : l[i] \in Seq(Characters)
<1>1. l \in Seq(Seq(Characters)) /\ l # <<>> /\ <<>> \in Seq(Characters)
  BY DEF Page
<1>2. Len(l) \in Nat \ {0} /\ \A i \in 1 .. Len(l) : l[i] \in Seq(Characters)
  BY <1>1
<1> DEFINE q == Append(l, <<>>)
<1>3. /\ q \in Seq(Seq(Characters)) /\ Len(q) = Len(l) + 1
      /\ \A i \in 1 .. Len(l) : q[i] = l[i]
      /\ q[Len(l) + 1] = <<>>
  BY <1>1
<1> HIDE DEF q
<1>4. q # <<>>
  BY <1>2, <1>3
<1>5. q \in Page
  BY <1>3, <1>4 DEF Page
<1> QED
  BY <1>2, <1>3, <1>5 DEF q

(* Typing is writing, and breaking the line when that filled it. *)
LEMMA TypingWrites ==
  ASSUME NEW l, NEW c, NEW w
  PROVE  T!Type(l, c, w) = IF c = Newline \/ Len(l[Len(l)]) + 1 = w
                             THEN Append(Written(l, c), <<>>) ELSE Written(l, c)
<1>1. CASE c = Newline
  BY <1>1 DEF T!Type, Written
<1>2. CASE c # Newline /\ Len(l[Len(l)]) + 1 = w
  BY <1>2 DEF T!Type, Written
<1>3. CASE c # Newline /\ Len(l[Len(l)]) + 1 # w
  BY <1>3 DEF T!Type, Written
<1> QED
  BY <1>1, <1>2, <1>3

(* A place in the buffer is that of one cell only. *)
LEMMA PlaceIsOfOneCell ==
  ASSUME NEW n \in Nat, NEW x \in 0 .. (n - 1), NEW u \in 0 .. (n - 1),
         NEW y \in Nat, NEW v \in Nat, y * n + x = v * n + u
  PROVE  x = u /\ y = v
<1>1. ASSUME NEW i \in Nat, NEW j \in Nat, i < j, NEW p \in 0 .. (n - 1), NEW q \in 0 .. (n - 1)
      PROVE  i * n + p # j * n + q
  <2>1. (i + 1) * n <= j * n
    BY <1>1, TimesMonotone
  <2>2. (i + 1) * n = i * n + n
    OBVIOUS
  <2>3. i * n \in Nat /\ j * n \in Nat
    OBVIOUS
  <2> QED
    BY <2>1, <2>2, <2>3
<1>2. ~(y < v) /\ ~(v < y)
  BY <1>1
<1>3. y = v
  BY <1>2
<1>4. y * n \in Nat
  OBVIOUS
<1> QED
  BY <1>3, <1>4

(* A character of a page that is written on. *)
LEMMA WrittenChars ==
  ASSUME NEW l \in Page, NEW c \in Characters, NEW line \in Nat \ {0}, NEW x \in Nat
  PROVE  CharAt(Written(l, c), line, x) =
           IF c # Newline /\ line = Len(l) /\ x = Len(l[Len(l)]) THEN c ELSE CharAt(l, line, x)
<1> DEFINE n == Len(l)
           q == Written(l, c)
           last == l[n]
<1>1. /\ last \in Seq(Characters) /\ n \in Nat \ {0} /\ Len(q) = n
      /\ \A i \in 1 .. (n - 1) : q[i] = l[i]
      /\ q[n] = IF c = Newline THEN last ELSE Append(last, c)
  BY WrittenPage
<1> SUFFICES CharAt(q, line, x) =
               IF c # Newline /\ line = n /\ x = Len(last) THEN c ELSE CharAt(l, line, x)
  OBVIOUS
<1>0. last = l[n] /\ n = Len(l)
  OBVIOUS
<1> HIDE DEF n, q, last
<1>2. CharAt(q, line, x) = IF line <= n /\ x < Len(q[line]) THEN q[line][x + 1] ELSE Blank
  BY <1>1 DEF CharAt
<1>3. CharAt(l, line, x) = IF line <= n /\ x < Len(l[line]) THEN l[line][x + 1] ELSE Blank
  BY <1>0 DEF CharAt
<1>4. CASE line > n
  BY <1>1, <1>2, <1>3, <1>4
<1>5. CASE line < n
  <2>1. q[line] = l[line]
    BY <1>1, <1>5
  <2> QED
    BY <1>1, <1>2, <1>3, <1>5, <2>1
<1>6. CASE line = n /\ c = Newline
  <2>1. q[line] = l[line]
    BY <1>1, <1>6, <1>0
  <2> QED
    BY <1>2, <1>3, <1>6, <2>1
<1>7. CASE line = n /\ c # Newline
  <2>1. q[line] = Append(last, c) /\ l[line] = last /\ Len(last) \in Nat
    BY <1>1, <1>7, <1>0
  <2>2. /\ Len(Append(last, c)) = Len(last) + 1
        /\ \A i \in 1 .. Len(last) : Append(last, c)[i] = last[i]
        /\ Append(last, c)[Len(last) + 1] = c
    BY <1>1
  <2>3. CASE x < Len(last)
    <3>1. x + 1 \in 1 .. Len(last)
      BY <2>1, <2>3
    <3>2. Append(last, c)[x + 1] = last[x + 1]
      BY <2>2, <3>1
    <3> QED
      BY <1>2, <1>3, <1>7, <2>1, <2>2, <2>3, <3>2
  <2>4. CASE x = Len(last)
    BY <1>2, <1>3, <1>7, <2>1, <2>2, <2>4
  <2>5. CASE x > Len(last)
    BY <1>2, <1>3, <1>7, <2>1, <2>2, <2>5
  <2> QED
    BY <1>7, <2>1, <2>3, <2>4, <2>5
<1>8. line \in Int /\ n \in Int
  BY <1>1
<1> QED
  BY <1>4, <1>5, <1>6, <1>7, <1>8

(* The character after pos is stored where the page gets it. *)
LEMMA PaintShows ==
  ASSUME TypeOK, StaysInside, NEW l \in Page, current[pos] \in Characters,
         Shows(buffer, l, lineLength, lineCount),
         cursorX = Len(l[Len(l)]), cursorY = Len(l) - Above(l, lineCount) - 1
  PROVE  Shows(Painted, Written(l, current[pos]), lineLength, lineCount)
<1> DEFINE c == current[pos]
           q == Written(l, c)
           above == Above(l, lineCount)
<1>1. /\ lineLength \in Nat \ {0} /\ lineCount \in Nat \ {0}
      /\ cursorX \in 0 .. (lineLength - 1) /\ cursorY \in 0 .. (lineCount - 1)
      /\ DOMAIN buffer = 0 .. (BufferSize - 1) /\ lineLength * lineCount <= BufferSize
  BY DEF TypeOK, StaysInside
<1>2. Len(l) \in Nat \ {0} /\ Len(q) = Len(l) /\ c \in Characters
  BY WrittenPage
<1>3. above \in Nat /\ Above(q, lineCount) = above /\ Len(l) = above + cursorY + 1
  <2>1. above \in Nat
    BY <1>1, <1>2 DEF Above
  <2> QED
    BY <1>1, <1>2, <2>1 DEF Above
<1> SUFFICES ASSUME NEW x \in 0 .. (lineLength - 1), NEW y \in 0 .. (lineCount - 1)
             PROVE  Painted[y * lineLength + x] = CharAt(q, above + y + 1, x)
  BY <1>3 DEF Shows
<1> DEFINE p == y * lineLength + x
<1>4. buffer[p] = CharAt(l, above + y + 1, x)
  BY DEF Shows
<1>5. p \in DOMAIN buffer
  <2>1. p \in 0 .. (lineLength * lineCount - 1)
    BY <1>1, PlaceInShape
  <2>2. lineLength * lineCount \in Nat /\ BufferSize \in Nat
    BY <1>1, SizeOfBuffer
  <2> HIDE DEF p
  <2> QED
    BY <1>1, <2>1, <2>2
<1>6. Painted[p] = IF p \in Stored THEN Character ELSE buffer[p]
  <2> HIDE DEF p
  <2> QED
    BY <1>5 DEF Painted
<1>7. CharAt(q, above + y + 1, x) =
        IF c # Newline /\ above + y + 1 = Len(l) /\ x = cursorX
          THEN c ELSE CharAt(l, above + y + 1, x)
  <2>1. above + y + 1 \in Nat \ {0} /\ x \in Nat
    BY <1>3
  <2> QED
    BY <1>2, <2>1, WrittenChars
<1>8. above + y + 1 = Len(l) <=> y = cursorY
  <2>1. above \in Nat /\ y \in Int /\ cursorY \in Int /\ Len(l) = above + cursorY + 1
    BY <1>1, <1>3
  <2> DEFINE n == Len(l)
             v == cursorY
  <2>2. above \in Nat /\ y \in Int /\ v \in Int /\ n = above + v + 1
    BY <2>1
  <2> HIDE DEF above, n, v
  <2>3. above + y + 1 = n <=> y = v
    BY <2>2
  <2> QED
    BY <2>3 DEF n, v
<1>9. \A u \in 0 .. (lineLength - 1) : p = cursorY * lineLength + u => x = u /\ y = cursorY
  <2> SUFFICES ASSUME NEW u \in 0 .. (lineLength - 1), p = cursorY * lineLength + u
               PROVE  x = u /\ y = cursorY
    OBVIOUS
  <2> DEFINE n == lineLength
             v == cursorY
  <2>1. n \in Nat /\ x \in 0 .. (n - 1) /\ u \in 0 .. (n - 1) /\ y \in Nat /\ v \in Nat
        /\ y * n + x = v * n + u
    BY <1>1
  <2> HIDE DEF n, v
  <2>2. x = u /\ y = v
    BY <2>1, PlaceIsOfOneCell
  <2> QED
    BY <2>2 DEF v
<1>10. CASE c = Newline
  <2>1. Stored = {cursorY * lineLength + u : u \in cursorX .. (lineLength - 1)} /\ Character = Blank
    BY <1>10 DEF Stored, Character
  <2>2. ASSUME p \in Stored PROVE CharAt(l, above + y + 1, x) = Blank
    <3>1. PICK u \in cursorX .. (lineLength - 1) : p = cursorY * lineLength + u
      BY <2>1, <2>2
    <3>2. u \in 0 .. (lineLength - 1) /\ u >= cursorX
      BY <1>1
    <3>3. x = u /\ y = cursorY
      BY <1>9, <3>1, <3>2
    <3>4. ~(x < Len(l[above + y + 1]))
      BY <1>1, <1>8, <3>2, <3>3
    <3> QED
      BY <3>4 DEF CharAt
  <2> QED
    BY <1>4, <1>6, <1>7, <1>10, <2>1, <2>2
<1>11. CASE c # Newline
  <2>1. Stored = {cursorY * lineLength + cursorX} /\ Character = c
    BY <1>11 DEF Stored, Character, Place
  <2>2. p \in Stored <=> y = cursorY /\ x = cursorX
    BY <1>1, <1>9, <2>1
  <2> QED
    BY <1>4, <1>6, <1>7, <1>8, <1>11, <2>1, <2>2
<1> QED
  BY <1>10, <1>11

(* A new line below the last changes no character of the page. *)
LEMMA BrokenChars ==
  ASSUME NEW l \in Page, NEW line \in Nat \ {0}, NEW x \in Nat
  PROVE  CharAt(Append(l, <<>>), line, x) = CharAt(l, line, x)
<1> DEFINE n == Len(l)
           q == Append(l, <<>>)
<1>1. /\ n \in Nat /\ Len(q) = n + 1 /\ q[n + 1] = <<>>
      /\ \A i \in 1 .. n : q[i] = l[i]
  BY BrokenPage
<1> SUFFICES CharAt(q, line, x) = CharAt(l, line, x)
  OBVIOUS
<1>0. n = Len(l)
  OBVIOUS
<1> HIDE DEF n, q
<1>2. CharAt(q, line, x) = IF line <= n + 1 /\ x < Len(q[line]) THEN q[line][x + 1] ELSE Blank
  BY <1>1 DEF CharAt
<1>3. CharAt(l, line, x) = IF line <= n /\ x < Len(l[line]) THEN l[line][x + 1] ELSE Blank
  BY <1>0 DEF CharAt
<1>4. CASE line <= n
  <2>1. q[line] = l[line]
    BY <1>1, <1>4
  <2> QED
    BY <1>1, <1>2, <1>3, <1>4, <2>1
<1>5. CASE line = n + 1
  <2>1. Len(q[line]) = 0
    BY <1>1, <1>5
  <2> QED
    BY <1>1, <1>2, <1>3, <1>5, <2>1
<1>6. CASE line > n + 1
  BY <1>1, <1>2, <1>3, <1>6
<1> QED
  BY <1>1, <1>4, <1>5, <1>6

(* While there is room below, a new line leaves the buffer as it is. *)
LEMMA WrapShows ==
  ASSUME NEW l \in Page, NEW b, NEW n \in Nat, NEW k \in Nat \ {0}, Len(l) < k, Shows(b, l, n, k)
  PROVE  Shows(b, Append(l, <<>>), n, k) /\ Above(l, k) = 0 /\ Above(Append(l, <<>>), k) = 0
<1>1. Len(l) \in Nat /\ Len(Append(l, <<>>)) = Len(l) + 1
  BY BrokenPage
<1>2. Above(l, k) = 0 /\ Above(Append(l, <<>>), k) = 0
  BY <1>1 DEF Above
<1>3. ASSUME NEW x \in 0 .. (n - 1), NEW y \in 0 .. (k - 1)
      PROVE  b[y * n + x] = CharAt(Append(l, <<>>), 0 + y + 1, x)
  <2>1. b[y * n + x] = CharAt(l, 0 + y + 1, x)
    BY <1>2 DEF Shows
  <2>2. 0 + y + 1 \in Nat \ {0} /\ x \in Nat
    OBVIOUS
  <2> QED
    BY <2>1, <2>2, BrokenChars
<1> QED
  BY <1>2, <1>3 DEF Shows

(* Without, the lines move up by one, and the last is blank. *)
LEMMA ScrollShows ==
  ASSUME NEW l \in Page, NEW b, NEW size \in Nat, DOMAIN b = 0 .. (size - 1),
         lineLength \in Nat \ {0}, lineCount \in Nat \ {0}, lineLength * lineCount <= size,
         Len(l) >= lineCount, Shows(b, l, lineLength, lineCount)
  PROVE  /\ Shows(Scrolled(b), Append(l, <<>>), lineLength, lineCount)
         /\ Above(Append(l, <<>>), lineCount) = Above(l, lineCount) + 1
         /\ Len(l) = Above(l, lineCount) + lineCount
<1> DEFINE q == Append(l, <<>>)
           above == Above(l, lineCount)
           n == lineLength
           k == lineCount
<1>1. Len(l) \in Nat /\ Len(q) = Len(l) + 1
  BY BrokenPage
<1>2. above \in Nat /\ Above(q, k) = above + 1 /\ Len(l) = above + k
  BY <1>1 DEF Above
<1> SUFFICES ASSUME NEW x \in 0 .. (n - 1), NEW y \in 0 .. (k - 1)
             PROVE  Scrolled(b)[y * n + x] = CharAt(q, (above + 1) + y + 1, x)
  BY <1>2 DEF Shows
<1> DEFINE p == y * n + x
<1>3. p \in 0 .. (n * k - 1)
  BY PlaceInShape
<1>4. n * k \in Nat /\ Kept \in Nat /\ Kept + n = n * k
  <2>1. k - 1 \in Nat /\ k = (k - 1) + 1
    OBVIOUS
  <2>2. n * k \in Nat /\ n * (k - 1) \in Nat
    BY <2>1
  <2>3. n * k = n * (k - 1) + n
    BY <2>1
  <2> QED
    BY <2>2, <2>3 DEF Kept
<1>5. p \in DOMAIN b /\ p < Kept + n
  <2> HIDE DEF p
  <2> QED
    BY <1>3, <1>4
<1>6. Scrolled(b)[p] = IF p < Kept /\ p + n \in DOMAIN b THEN b[p + n] ELSE Blank
  <2> HIDE DEF p
  <2> QED
    BY <1>4, <1>5 DEF Scrolled
<1>7. CharAt(q, (above + 1) + y + 1, x) = CharAt(l, (above + 1) + y + 1, x)
  <2>1. (above + 1) + y + 1 \in Nat \ {0} /\ x \in Nat
    BY <1>2
  <2> QED
    BY <2>1, BrokenChars
<1>8. CASE y < k - 1
  <2>1. y + 1 \in 0 .. (k - 1) /\ y \in 0 .. ((k - 1) - 1) /\ k - 1 \in Nat
    BY <1>8
  <2>2. p \in 0 .. (n * (k - 1) - 1)
    BY <2>1, PlaceInShape
  <2>3. (y + 1) * n + x = p + n /\ y * n \in Nat
    BY <2>1
  <2>4. p < Kept /\ p + n \in DOMAIN b
    <3> HIDE DEF p
    <3>1. p < Kept /\ p \in Nat
      BY <1>3, <1>4, <2>2 DEF Kept
    <3> QED
      BY <1>4, <3>1
  <2>5. b[(y + 1) * n + x] = CharAt(l, above + (y + 1) + 1, x)
    BY <2>1 DEF Shows
  <2>6. above + (y + 1) + 1 = (above + 1) + y + 1
    BY <1>2
  <2> QED
    BY <1>6, <1>7, <2>3, <2>4, <2>5, <2>6
<1>9. CASE y = k - 1
  <2>1. p >= Kept /\ p \in Int
    <3>1. y * n = Kept
      BY <1>9 DEF Kept
    <3> QED
      BY <1>4, <3>1
  <2>2. ~(p < Kept)
    <3> HIDE DEF p
    <3> QED
      BY <1>4, <2>1
  <2>3. ~((above + 1) + y + 1 <= Len(l))
    BY <1>2, <1>9
  <2> QED
    BY <1>6, <1>7, <2>2, <2>3 DEF CharAt
<1> QED
  BY <1>2, <1>8, <1>9

(* What updateScreen draws of a buffer that shows the lines of a text is   *)
(* the picture of the text.                                                *)
LEMMA DrawnIsThePicture ==
  ASSUME NEW b, NEW t, NEW n \in Nat, NEW k \in Nat, BufferSize \in Nat, n * k <= BufferSize,
         Shows(b, T!Lines(t, n), n, k)
  PROVE  Drawn(b, n, k) = T!Picture(t, <<n, k>>)
<1> DEFINE l == T!Lines(t, n)
           cells == (0 .. (n - 1)) \X (0 .. (k - 1))
<1>1. T!Picture(t, <<n, k>>) = [cell \in cells |-> CharAt(l, Above(l, k) + cell[2] + 1, cell[1])]
  BY DEF T!Picture, CharAt, Above
<1>2. ASSUME NEW cell \in cells
      PROVE  /\ At(cell, n) = cell[2] * n + cell[1] /\ At(cell, n) < BufferSize
             /\ cell[1] \in 0 .. (n - 1) /\ cell[2] \in 0 .. (k - 1)
  <2>1. cell[1] \in 0 .. (n - 1) /\ cell[2] \in 0 .. (k - 1)
    OBVIOUS
  <2>2. At(cell, n) = cell[2] * n + cell[1]
    BY DEF At
  <2>3. At(cell, n) \in 0 .. (n * k - 1)
    BY <2>1, <2>2, PlaceInShape
  <2>4. n * k \in Nat
    OBVIOUS
  <2> QED
    BY <2>1, <2>2, <2>3, <2>4
<1>3. {c \in Cells(n, k) : At(c, n) < BufferSize} = cells
  <2>1. Cells(n, k) = cells
    BY DEF Cells
  <2> HIDE DEF cells
  <2> QED
    BY <1>2, <2>1
<1>4. Drawn(b, n, k) = [cell \in cells |-> b[At(cell, n)]]
  BY <1>3 DEF Drawn
<1>5. \A cell \in cells : b[At(cell, n)] = CharAt(l, Above(l, k) + cell[2] + 1, cell[1])
  <2> TAKE cell \in cells
  <2>1. /\ At(cell, n) = cell[2] * n + cell[1]
        /\ cell[1] \in 0 .. (n - 1) /\ cell[2] \in 0 .. (k - 1)
    BY <1>2
  <2>2. \A x \in 0 .. (n - 1), y \in 0 .. (k - 1) : b[y * n + x] = CharAt(l, Above(l, k) + y + 1, x)
    BY DEF Shows
  <2> QED
    BY <2>1, <2>2
<1> HIDE DEF cells, l
<1> QED
  BY <1>1, <1>4, <1>5

(***************************************************************************)
(* The text and its beginnings                                             *)
(***************************************************************************)
(* The beginning of a text, and the next longer one. *)
LEMMA Beginnings ==
  ASSUME NEW S, NEW s \in Seq(S), NEW k \in 0 .. Len(s)
  PROVE  /\ SubSeq(s, 1, k) \in Seq(S) /\ Len(SubSeq(s, 1, k)) = k
         /\ \A i \in 1 .. k : SubSeq(s, 1, k)[i] = s[i]
         /\ k < Len(s) => SubSeq(s, 1, k + 1) = Append(SubSeq(s, 1, k), s[k + 1])
         /\ k = Len(s) => SubSeq(s, 1, k) = s
<1>1. \A i \in 1 .. k : s[i] \in S
  OBVIOUS
<1>2. SubSeq(s, 1, k) \in Seq(S) /\ Len(SubSeq(s, 1, k)) = k
      /\ \A i \in 1 .. k : SubSeq(s, 1, k)[i] = s[i]
  BY <1>1
<1>3. ASSUME k < Len(s) PROVE SubSeq(s, 1, k + 1) = Append(SubSeq(s, 1, k), s[k + 1])
  <2>1. k + 1 \in 1 .. Len(s)
    BY <1>3
  <2>2. \A i \in 1 .. (k + 1) : s[i] \in S
    BY <2>1
  <2> DEFINE u == SubSeq(s, 1, k)
             v == SubSeq(s, 1, k + 1)
             z == s[k + 1]
  <2>3. v \in Seq(S) /\ Len(v) = k + 1 /\ \A i \in 1 .. (k + 1) : v[i] = s[i]
    BY <2>1, <2>2
  <2>4. u \in Seq(S) /\ Len(u) = k /\ z \in S /\ \A i \in 1 .. k : u[i] = s[i]
    BY <1>2, <2>1, <2>2
  <2>5. k \in Nat
    OBVIOUS
  <2> HIDE DEF u, v
  <2>6. Append(u, z) \in Seq(S) /\ Len(Append(u, z)) = k + 1
        /\ \A i \in 1 .. (k + 1) : Append(u, z)[i] = s[i]
    BY <2>4, <2>5
  <2> DEFINE q == Append(u, z)
  <2>7. q \in Seq(S) /\ Len(q) = Len(v) /\ \A i \in 1 .. Len(q) : q[i] = v[i]
    BY <2>3, <2>6
  <2> HIDE DEF q, z
  <2>8. q = v
    BY <2>3, <2>7, SeqEqual
  <2> QED
    BY <2>8 DEF q, u, v, z
<1>4. ASSUME k = Len(s) PROVE SubSeq(s, 1, k) = s
  <2> DEFINE u == SubSeq(s, 1, k)
  <2>1. u \in Seq(S) /\ Len(u) = Len(s) /\ \A i \in 1 .. Len(u) : u[i] = s[i]
    BY <1>2, <1>4
  <2> HIDE DEF u
  <2>2. u = s
    BY <2>1, SeqEqual
  <2> QED
    BY <2>2 DEF u
<1> QED
  BY <1>2, <1>3, <1>4

(* A text behind another: both can be found again. *)
LEMMA OneBehindOther ==
  ASSUME NEW S, NEW s \in Seq(S), NEW t \in Seq(S)
  PROVE  /\ s \o t \in Seq(S) /\ Len(s \o t) = Len(s) + Len(t)
         /\ \A i \in 1 .. Len(s) : (s \o t)[i] = s[i]
         /\ \A k \in 1 .. Len(t) : (s \o t)[Len(s) + k] = t[k]
         /\ SubSeq(s \o t, 1, Len(s)) = s
<1> DEFINE w == s \o t
<1>1. /\ w \in Seq(S) /\ Len(w) = Len(s) + Len(t)
      /\ \A i \in 1 .. Len(s) : w[i] = s[i]
      /\ \A k \in 1 .. Len(t) : w[Len(s) + k] = t[k]
  OBVIOUS
<1>2. Len(s) \in Nat /\ Len(t) \in Nat
  OBVIOUS
<1> HIDE DEF w
<1> DEFINE u == SubSeq(w, 1, Len(s))
<1>3. u \in Seq(S) /\ Len(u) = Len(s) /\ \A i \in 1 .. Len(s) : u[i] = w[i]
  <2>1. Len(s) \in 0 .. Len(w)
    BY <1>1, <1>2
  <2> QED
    BY <1>1, <2>1, Beginnings
<1>4. u = s
  <2> HIDE DEF u
  <2>1. Len(u) = Len(s) /\ \A i \in 1 .. Len(u) : u[i] = s[i]
    BY <1>1, <1>3
  <2> QED
    BY <1>3, <2>1, SeqEqual
<1> QED
  BY <1>1, <1>4 DEF w

(* Two texts one behind the other make the text that has both in it. *)
LEMMA TwoParts ==
  ASSUME NEW S, NEW s \in Seq(S), NEW u \in Seq(S), NEW t \in Seq(S),
         Len(s) = Len(u) + Len(t),
         \A i \in 1 .. Len(u) : s[i] = u[i],
         \A k \in 1 .. Len(t) : s[Len(u) + k] = t[k]
  PROVE  u \o t = s
<1> DEFINE w == u \o t
           m == Len(u)
<1>1. /\ w \in Seq(S) /\ Len(w) = m + Len(t)
      /\ \A i \in 1 .. m : w[i] = u[i]
      /\ \A k \in 1 .. Len(t) : w[m + k] = t[k]
  BY OneBehindOther
<1>2. m \in Nat /\ Len(t) \in Nat
  OBVIOUS
<1> HIDE DEF w
<1>3. \A i \in 1 .. Len(w) : w[i] = s[i]
  <2> TAKE i \in 1 .. Len(w)
  <2>1. CASE i <= m
    <3>1. i \in 1 .. m
      BY <1>2, <2>1
    <3> QED
      BY <1>1, <3>1
  <2>2. CASE i > m
    <3>1. i - m \in 1 .. Len(t) /\ i = m + (i - m)
      BY <1>1, <1>2, <2>2
    <3> QED
      BY <1>1, <3>1
  <2>3. i \in Int /\ m \in Int
    BY <1>2
  <2> QED
    BY <2>1, <2>2, <2>3
<1>4. w = s
  BY <1>1, <1>3, SeqEqual
<1> QED
  BY <1>4 DEF w

(* A text whose end is t is its beginning and t. *)
LEMMA BeginningAndEnd ==
  ASSUME NEW S, NEW s \in Seq(S), NEW t \in Seq(S), Len(t) <= Len(s),
         \A k \in 1 .. Len(t) : s[Len(s) - Len(t) + k] = t[k]
  PROVE  SubSeq(s, 1, Len(s) - Len(t)) \o t = s
<1> DEFINE m == Len(s) - Len(t)
           u == SubSeq(s, 1, m)
<1>1. m \in 0 .. Len(s) /\ Len(s) = m + Len(t) /\ Len(t) \in Nat
  OBVIOUS
<1>2. \A k \in 1 .. Len(t) : s[m + k] = t[k]
  OBVIOUS
<1> HIDE DEF m
<1>3. u \in Seq(S) /\ Len(u) = m /\ \A i \in 1 .. m : u[i] = s[i]
  BY <1>1, Beginnings
<1> HIDE DEF u
<1>4. u \o t = s
  BY <1>1, <1>2, <1>3, TwoParts
<1> QED
  BY <1>4 DEF u, m

(***************************************************************************)
(* Every step keeps what the buffer shows                                  *)
(***************************************************************************)
(* Before the console is on there is nothing for its buffer to show. *)
LEMMA InitPInv == Init => PInv
<1> SUFFICES ASSUME Init PROVE PInv
  OBVIOUS
<1>1. wired = <<>> /\ current = <<>> /\ pos = 1 /\ ~initComplete
  BY DEF Init
<1> QED
  BY <1>1 DEF PInv, Behind, BufferShows

(* A console that comes up shows an empty page. *)
LEMMA BlankShows ==
  ASSUME NEW b, NEW n \in Nat, NEW k \in Nat \ {0}, n * k <= BufferSize,
         \A i \in 0 .. (BufferSize - 1) : b[i] = Blank
  PROVE  Shows(b, << <<>> >>, n, k) /\ Above(<< <<>> >>, k) = 0
<1> DEFINE l == << <<>> >>
<1>1. Len(l) = 1 /\ Len(l[1]) = 0
  OBVIOUS
<1> HIDE DEF l
<1>2. Above(l, k) = 0
  BY <1>1 DEF Above
<1>3. ASSUME NEW x \in 0 .. (n - 1), NEW y \in 0 .. (k - 1)
      PROVE  b[y * n + x] = CharAt(l, 0 + y + 1, x)
  <2>1. y * n + x \in 0 .. (n * k - 1) /\ n * k \in Nat
    BY PlaceInShape
  <2> DEFINE p == y * n + x
             m == n * k
  <2>2. p \in 0 .. (m - 1) /\ m \in Nat /\ m <= BufferSize
    BY <2>1
  <2> HIDE DEF p, m
  <2>3. b[p] = Blank
    BY <2>2, SizeOfBuffer
  <2>4. ~(0 + y + 1 <= Len(l) /\ x < Len(l[0 + y + 1]))
    <3>1. CASE y = 0
      BY <1>1, <3>1
    <3>2. CASE y > 0
      BY <1>1, <3>2
    <3> QED
      BY <3>1, <3>2
  <2>5. CharAt(l, 0 + y + 1, x) = Blank
    BY <2>4 DEF CharAt
  <2> QED
    BY <2>3, <2>5 DEF p
<1>4. Shows(b, l, n, k)
  BY <1>2, <1>3 DEF Shows
<1> QED
  BY <1>2, <1>4 DEF l

(* Where appendText is in the text: there is a character, and it comes next. *)
LEMMA PutTypes ==
  ASSUME IInv, PInv, Put
  PROVE  /\ current[pos] \in Characters /\ Lines \in Page
         /\ Lines' = T!Type(Lines, current[pos], lineLength)
         /\ Behind' /\ initComplete' = initComplete
         /\ lineLength' = lineLength /\ lineCount' = lineCount
<1>1. /\ wired \in Seq(Characters) /\ current \in Seq(Characters) /\ pos \in Nat \ {0}
      /\ Len(current) <= Len(wired)
      /\ \A k \in 1 .. Len(current) : wired[Done + k] = current[k]
  BY DEF IInv, TypeOK, PInv, Behind
<1>2. /\ pos <= Len(current) /\ pos' = pos + 1 /\ wired' = wired /\ current' = current
      /\ initComplete' = initComplete /\ lineLength' = lineLength /\ lineCount' = lineCount
  BY DEF Put, shape
<1>3. Len(current) \in Nat /\ Len(wired) \in Nat /\ Done \in Nat /\ Done' = Done
      /\ Len(wired) = Done + Len(current)
  BY <1>1, <1>2 DEF Done
<1>4. Behind'
  <2>1. pos' <= Len(current') + 1
    BY <1>1, <1>2, <1>3
  <2> QED
    BY <1>2, <1>3, <2>1 DEF PInv, Behind
<1> DEFINE k == Done + pos - 1
<1>5. k \in 0 .. Len(wired) /\ k < Len(wired) /\ k + 1 = Done + pos
  BY <1>1, <1>2, <1>3
<1>6. current[pos] \in Characters /\ wired[k + 1] = current[pos]
  <2>1. pos \in 1 .. Len(current)
    BY <1>1, <1>2, <1>3
  <2> HIDE DEF k
  <2> QED
    BY <1>1, <1>5, <2>1
<1>7. PutSoFar = SubSeq(wired, 1, k) /\ PutSoFar' = SubSeq(wired, 1, k + 1)
  <2>1. Done' + pos' - 1 = k + 1
    BY <1>1, <1>2, <1>3
  <2> HIDE DEF k
  <2>2. PutSoFar' = SubSeq(wired', 1, Done' + pos' - 1)
    BY DEF PutSoFar
  <2>3. PutSoFar' = SubSeq(wired, 1, k + 1)
    BY <1>2, <2>1, <2>2
  <2> QED
    BY <2>3 DEF PutSoFar, k
<1> HIDE DEF k
<1>8. PutSoFar \in Seq(Characters) /\ PutSoFar' = Append(PutSoFar, current[pos])
  BY <1>1, <1>5, <1>6, <1>7, Beginnings
<1>9. Lines = T!Lines(PutSoFar, lineLength)
  BY DEF Lines
<1>10. Lines' = T!Lines(PutSoFar', lineLength)
  BY <1>2 DEF Lines
<1> DEFINE s == PutSoFar
           w == lineLength
           c == current[pos]
<1>11. s \in Seq(Characters) /\ c \in Characters
  BY <1>6, <1>8
<1> HIDE DEF s, w, c
<1>12. T!Lines(s, w) \in Page /\ T!Lines(Append(s, c), w) = T!Type(T!Lines(s, w), c, w)
  BY <1>11, LinesGrow
<1>13. Lines \in Page /\ Lines' = T!Type(Lines, c, w)
  BY <1>8, <1>9, <1>10, <1>12 DEF s, w, c
<1> QED
  BY <1>2, <1>4, <1>6, <1>13 DEF w, c

(* What a step of appendText's loop leaves on the page. *)
LEMMA PageAfterPut ==
  ASSUME IInv, PInv, Put, initComplete
  PROVE  LET c == current[pos] IN
         /\ Lines \in Page /\ c \in Characters
         /\ Written(Lines, c) \in Page /\ Len(Written(Lines, c)) = Len(Lines)
         /\ Lines' = IF LineIsFull THEN Append(Written(Lines, c), <<>>) ELSE Written(Lines, c)
         /\ Shows(Painted, Written(Lines, c), lineLength, lineCount)
         /\ ~LineIsFull => Len(Written(Lines, c)[Len(Lines)]) = cursorX + 1
<1> DEFINE c == current[pos]
           last == Lines[Len(Lines)]
<1>1. Lines \in Page /\ c \in Characters /\ Lines' = T!Type(Lines, c, lineLength)
  BY PutTypes
<1>2. /\ last \in Seq(Characters) /\ Len(Lines) \in Nat \ {0}
      /\ Written(Lines, c) \in Page /\ Len(Written(Lines, c)) = Len(Lines)
      /\ Written(Lines, c)[Len(Lines)] = IF c = Newline THEN last ELSE Append(last, c)
  BY <1>1, WrittenPage
<1>3. cursorX = Len(last) /\ cursorY = Len(Lines) - Above(Lines, lineCount) - 1
      /\ Shows(buffer, Lines, lineLength, lineCount)
  BY DEF PInv, BufferShows
<1>4. Shows(Painted, Written(Lines, c), lineLength, lineCount)
  BY <1>1, <1>3, PaintShows DEF IInv
<1>5. LineIsFull <=> c = Newline \/ Len(last) + 1 = lineLength
  <2>1. cursorX \in 0 .. (lineLength - 1) /\ lineLength \in Nat
    BY DEF IInv, TypeOK
  <2> DEFINE n == Len(last)
  <2>2. n \in 0 .. (lineLength - 1) /\ cursorX = n
    BY <1>3, <2>1
  <2> HIDE DEF n
  <2>3. cursorX + 1 >= lineLength <=> n + 1 = lineLength
    BY <2>1, <2>2
  <2> QED
    BY <2>3 DEF LineIsFull, n
<1>6. Lines' = IF LineIsFull THEN Append(Written(Lines, c), <<>>) ELSE Written(Lines, c)
  <2>1. T!Type(Lines, c, lineLength) = IF c = Newline \/ Len(last) + 1 = lineLength
                                         THEN Append(Written(Lines, c), <<>>) ELSE Written(Lines, c)
    BY TypingWrites
  <2> HIDE DEF last, c
  <2> QED
    BY <1>1, <1>5, <2>1
<1>7. ASSUME ~LineIsFull PROVE Len(Written(Lines, c)[Len(Lines)]) = cursorX + 1
  <2>1. c # Newline
    BY <1>5, <1>7
  <2>2. Written(Lines, c)[Len(Lines)] = Append(last, c)
    BY <1>2, <2>1
  <2> HIDE DEF last, c
  <2>3. Len(Append(last, c)) = Len(last) + 1
    BY <1>1, <1>2
  <2> QED
    BY <1>3, <2>2, <2>3
<1> QED
  BY <1>1, <1>2, <1>4, <1>6, <1>7

(* A character that leaves its line open. *)
LEMMA StayPInv ==
  ASSUME IInv, PInv, Stay PROVE PInv'
<1>1. Put /\ ~LineIsFull /\ buffer' = Painted /\ cursorX' = cursorX + 1 /\ cursorY' = cursorY
  BY DEF Stay
<1>2. Behind' /\ initComplete' = initComplete /\ lineLength' = lineLength /\ lineCount' = lineCount
  BY <1>1, PutTypes
<1>3. ASSUME initComplete PROVE BufferShows'
  <2> DEFINE q == Written(Lines, current[pos])
  <2>1. /\ Lines' = q /\ Len(q) = Len(Lines)
        /\ Shows(Painted, q, lineLength, lineCount)
        /\ Len(q[Len(Lines)]) = cursorX + 1
    BY <1>1, <1>3, PageAfterPut
  <2>2. cursorY = Len(Lines) - Above(Lines, lineCount) - 1
    BY <1>3 DEF PInv, BufferShows
  <2> HIDE DEF q
  <2>3. Above(q, lineCount) = Above(Lines, lineCount)
    BY <2>1 DEF Above
  <2>4. cursorX' = Len(Lines'[Len(Lines')])
    BY <1>1, <2>1
  <2>5. cursorY' = Len(Lines') - Above(Lines', lineCount') - 1
    BY <1>1, <1>2, <2>1, <2>2, <2>3
  <2>6. Shows(buffer', Lines', lineLength', lineCount')
    BY <1>1, <1>2, <2>1
  <2> QED
    BY <2>4, <2>5, <2>6 DEF BufferShows
<1>4. ASSUME ~initComplete PROVE BufferShows'
  BY <1>2, <1>4 DEF BufferShows
<1> QED
  BY <1>2, <1>3, <1>4 DEF PInv

(* A character that ends its line, with room below. *)
LEMMA WrapPInv ==
  ASSUME IInv, PInv, Wrap PROVE PInv'
<1>1. Put /\ LineIsFull /\ ~LastLine /\ buffer' = Painted /\ cursorX' = 0 /\ cursorY' = cursorY + 1
  BY DEF Wrap
<1>2. Behind' /\ initComplete' = initComplete /\ lineLength' = lineLength /\ lineCount' = lineCount
  BY <1>1, PutTypes
<1>3. ASSUME initComplete PROVE BufferShows'
  <2> DEFINE q == Written(Lines, current[pos])
             z == Append(q, <<>>)
  <2>1. /\ Lines' = z /\ q \in Page /\ Len(q) = Len(Lines)
        /\ Shows(Painted, q, lineLength, lineCount)
    BY <1>1, <1>3, PageAfterPut
  <2>2. cursorY = Len(Lines) - Above(Lines, lineCount) - 1
    BY <1>3 DEF PInv, BufferShows
  <2>3. /\ lineLength \in Nat \ {0} /\ lineCount \in Nat \ {0} /\ cursorY \in Nat
        /\ cursorY + 1 < lineCount
    BY <1>1 DEF IInv, TypeOK, LastLine
  <2> HIDE DEF q
  <2>4. Len(z) = Len(q) + 1 /\ z[Len(q) + 1] = <<>> /\ Len(q) \in Nat
    BY <2>1, BrokenPage
  <2>5. Len(q) < lineCount
    <3> DEFINE n == Len(q)
               v == cursorY
               k == lineCount
    <3>1. n \in Nat /\ k \in Nat /\ v \in Nat /\ v + 1 < k
          /\ v = n - (IF n > k THEN n - k ELSE 0) - 1
      BY <2>1, <2>2, <2>3, <2>4 DEF Above
    <3> HIDE DEF n, v, k
    <3>2. n < k
      BY <3>1
    <3> QED
      BY <3>2 DEF n, k
  <2>6. /\ Shows(Painted, z, lineLength, lineCount)
        /\ Above(q, lineCount) = 0 /\ Above(z, lineCount) = 0
    <3>1. lineLength \in Nat /\ lineCount \in Nat \ {0}
      BY <2>3
    <3> QED
      BY <2>1, <2>5, <3>1, WrapShows
  <2>7. Above(Lines, lineCount) = 0
    BY <2>1, <2>6 DEF Above
  <2> HIDE DEF z
  <2>8. cursorX' = Len(Lines'[Len(Lines')])
    <3>1. Len(<<>>) = 0
      OBVIOUS
    <3> QED
      BY <1>1, <2>1, <2>4, <3>1
  <2>9. cursorY' = Len(Lines') - Above(Lines', lineCount') - 1
    <3>1. cursorY' = Len(z) - 0 - 1
      BY <1>1, <2>1, <2>2, <2>4, <2>7
    <3> QED
      BY <1>2, <2>1, <2>6, <3>1
  <2>10. Shows(buffer', Lines', lineLength', lineCount')
    BY <1>1, <1>2, <2>1, <2>6
  <2> QED
    BY <2>8, <2>9, <2>10 DEF BufferShows
<1>4. ASSUME ~initComplete PROVE BufferShows'
  BY <1>2, <1>4 DEF BufferShows
<1> QED
  BY <1>2, <1>3, <1>4 DEF PInv

(* A character that ends the last line. *)
LEMMA ScrollPInv ==
  ASSUME IInv, PInv, Scroll PROVE PInv'
<1>1. /\ Put /\ LineIsFull /\ LastLine
      /\ buffer' = Scrolled(Painted) /\ cursorX' = 0 /\ cursorY' = cursorY
  BY DEF Scroll
<1>2. Behind' /\ initComplete' = initComplete /\ lineLength' = lineLength /\ lineCount' = lineCount
  BY <1>1, PutTypes
<1>3. ASSUME initComplete PROVE BufferShows'
  <2> DEFINE q == Written(Lines, current[pos])
             z == Append(q, <<>>)
             b == Painted
  <2>1. /\ Lines' = z /\ q \in Page /\ Len(q) = Len(Lines)
        /\ Shows(b, q, lineLength, lineCount)
    BY <1>1, <1>3, PageAfterPut
  <2>2. cursorY = Len(Lines) - Above(Lines, lineCount) - 1
    BY <1>3 DEF PInv, BufferShows
  <2>3. /\ lineLength \in Nat \ {0} /\ lineCount \in Nat \ {0} /\ cursorY \in 0 .. (lineCount - 1)
        /\ cursorY + 1 >= lineCount /\ lineLength * lineCount <= BufferSize
    BY <1>1 DEF IInv, TypeOK, LastLine, StaysInside
  <2>4. DOMAIN b = 0 .. (BufferSize - 1) /\ BufferSize \in Nat
    BY SizeOfBuffer DEF Painted, IInv, TypeOK
  <2> HIDE DEF q, b
  <2>5. Len(z) = Len(q) + 1 /\ z[Len(q) + 1] = <<>> /\ Len(q) \in Nat
    BY <2>1, BrokenPage
  <2>6. Above(q, lineCount) = Above(Lines, lineCount)
    BY <2>1 DEF Above
  <2>7. Len(q) >= lineCount
    <3> DEFINE n == Len(q)
               v == cursorY
               k == lineCount
    <3>1. n \in Nat /\ k \in Nat /\ v \in Nat /\ v + 1 = k
          /\ v = n - (IF n > k THEN n - k ELSE 0) - 1
      BY <2>1, <2>2, <2>3, <2>5 DEF Above
    <3> HIDE DEF n, v, k
    <3>2. n >= k
      BY <3>1
    <3> QED
      BY <3>2 DEF n, k
  <2>8. /\ Shows(Scrolled(b), z, lineLength, lineCount)
        /\ Above(z, lineCount) = Above(q, lineCount) + 1
    BY <2>1, <2>3, <2>4, <2>7, ScrollShows
  <2>9. Above(q, lineCount) \in Nat
    BY <2>3, <2>5, <2>7 DEF Above
  <2> HIDE DEF z
  <2>10. cursorX' = Len(Lines'[Len(Lines')])
    <3>1. Len(<<>>) = 0
      OBVIOUS
    <3> QED
      BY <1>1, <2>1, <2>5, <3>1
  <2>11. cursorY' = Len(Lines') - Above(Lines', lineCount') - 1
    <3>1. cursorY' = Len(z) - Above(z, lineCount) - 1
      BY <1>1, <2>1, <2>2, <2>5, <2>6, <2>8, <2>9
    <3> QED
      BY <1>2, <2>1, <3>1
  <2>12. Shows(buffer', Lines', lineLength', lineCount')
    BY <1>1, <1>2, <2>1, <2>8 DEF b
  <2> QED
    BY <2>10, <2>11, <2>12 DEF BufferShows
<1>4. ASSUME ~initComplete PROVE BufferShows'
  BY <1>2, <1>4 DEF BufferShows
<1> QED
  BY <1>2, <1>3, <1>4 DEF PInv

(***************************************************************************)
(* The console is a terminal                                               *)
(***************************************************************************)
(* What is printed at once is a text of characters. *)
LEMMA TextIsPrintable ==
  ASSUME NEW t, t \in Texts \cup {Printed(u) : u \in Texts}
  PROVE  t \in Seq(Characters)
<1>1. ASSUME NEW u \in Texts PROVE u \in Seq(Characters) /\ Printed(u) \in Seq(Characters)
  <2>1. u \in Seq(Characters) /\ FormatRoom \in Nat \ {0}
    BY ConsoleAssumption
  <2>2. Smaller(Len(u), FormatRoom - 1) \in 0 .. Len(u)
    BY <2>1 DEF Smaller
  <2> QED
    BY <2>1, <2>2 DEF Printed
<1> QED
  BY <1>1

(* The text the terminal has, and its glass. *)
TerminalState ==
  <<SubSeq(wired, 1, Len(wired) - Len(current)),
    IF initComplete THEN <<lineLength, lineCount>> ELSE <<>>,
    screen>>

(* A console nobody has given a framebuffer is a terminal that is off. *)
LEMMA InitIsTheTerminals == Init => T!Init
<1> SUFFICES ASSUME Init PROVE T!Init
  OBVIOUS
<1>1. wired = <<>> /\ current = <<>> /\ initComplete = FALSE /\ screen = <<>>
  BY DEF Init
<1>2. SubSeq(wired, 1, Len(wired) - Len(current)) = <<>>
  BY <1>1
<1> QED
  BY <1>1, <1>2 DEF T!Init

(* init turns the terminal on. *)
LEMMA InitConsoleTurnsOn ==
  ASSUME IInv, IInv', PInv, NEW r \in Resolutions, InitConsole(r)
  PROVE  PInv' /\ T!Next
<1>1. /\ ~initComplete /\ wired = <<>> /\ current = <<>> /\ cursorX = 0 /\ cursorY = 0
      /\ initComplete' = TRUE /\ UNCHANGED <<cursorX, cursorY, wired, current, pos>>
      /\ lineLength' = Columns(r[1]) /\ lineCount' = Rows(r[2])
      /\ screen' = Drawn(buffer', lineLength', lineCount')
      /\ buffer' = [i \in DOMAIN buffer |-> Blank]
  BY DEF InitConsole, IInv, Unprinted
<1>2. \A i \in 0 .. (BufferSize - 1) : buffer'[i] = Blank
  <2>1. DOMAIN buffer = 0 .. (BufferSize - 1)
    BY DEF IInv, TypeOK
  <2> QED
    BY <1>1, <2>1
<1> DEFINE b == buffer'
           n == lineLength'
           k == lineCount'
           l == << <<>> >>
<1>3. n \in Nat /\ k \in Nat \ {0} /\ n * k <= BufferSize
  BY DEF IInv, TypeOK, StaysInside
<1>4. pos = 1 /\ Len(current) = 0 /\ Len(wired) = 0
  <2>1. Len(current) = 0 /\ Len(wired) = 0
    BY <1>1
  <2>2. pos \in Nat \ {0} /\ pos <= Len(current) + 1
    BY DEF IInv, TypeOK, PInv, Behind
  <2> QED
    BY <2>1, <2>2
<1>5. Behind'
  BY <1>1, <1>4 DEF PInv, Behind
<1>6. PutSoFar' = <<>>
  <2>1. PutSoFar' = SubSeq(wired', 1, Len(wired') - Len(current') + pos' - 1)
    BY DEF PutSoFar, Done
  <2>2. Len(wired') - Len(current') + pos' - 1 = 0
    BY <1>1, <1>4
  <2>3. PutSoFar' = SubSeq(<<>>, 1, 0)
    BY <1>1, <2>1, <2>2
  <2> QED
    BY <2>3
<1>7. T!Lines(<<>>, n) = l
  <2>1. <<>> \in Seq(Characters)
    OBVIOUS
  <2> QED
    BY <2>1, LinesGrow
<1>8. Lines' = l
  <2>1. Lines' = T!Lines(PutSoFar', lineLength')
    BY DEF Lines
  <2> QED
    BY <1>6, <1>7, <2>1
<1> HIDE DEF b, n, k
<1>9. Shows(b, l, n, k) /\ Above(l, k) = 0
  <2>1. \A i \in 0 .. (BufferSize - 1) : b[i] = Blank
    BY <1>2 DEF b
  <2> QED
    BY <1>3, <2>1, BlankShows
<1>10. BufferShows'
  <2>1. Len(l) = 1 /\ Len(l[1]) = 0
    OBVIOUS
  <2> HIDE DEF l
  <2>2. cursorX' = Len(Lines'[Len(Lines')])
    BY <1>1, <1>8, <2>1
  <2>3. cursorY' = Len(Lines') - Above(Lines', lineCount') - 1
    BY <1>1, <1>8, <1>9, <2>1 DEF k
  <2>4. Shows(buffer', Lines', lineLength', lineCount')
    BY <1>8, <1>9 DEF b, n, k
  <2> QED
    BY <2>2, <2>3, <2>4 DEF BufferShows
<1>11. Drawn(b, n, k) = T!Picture(<<>>, <<n, k>>)
  <2>1. Shows(b, T!Lines(<<>>, n), n, k)
    BY <1>7, <1>9
  <2>2. k \in Nat
    BY <1>3
  <2> QED
    BY <1>3, <2>1, <2>2, SizeOfBuffer, DrawnIsThePicture
<1>12. T!TurnOn(<<n, k>>)
  <2>1. SubSeq(wired, 1, Len(wired) - Len(current)) = <<>>
    BY <1>1, <1>4
  <2>2. SubSeq(wired', 1, Len(wired') - Len(current')) = SubSeq(wired, 1, Len(wired) - Len(current))
    BY <1>1
  <2>3. screen' = T!Picture(<<>>, <<n, k>>)
    BY <1>1, <1>11 DEF b, n, k
  <2> QED
    BY <1>1, <2>1, <2>2, <2>3 DEF T!TurnOn, n, k
<1>13. <<n, k>> \in {<<Columns(s[1]), Rows(s[2])>> : s \in Resolutions}
  BY <1>1 DEF n, k
<1>14. T!Next
  BY <1>12, <1>13 DEF T!Next
<1> QED
  BY <1>5, <1>10, <1>14 DEF PInv

(* A call of appendText changes nothing one can see yet. *)
LEMMA AppendTextWaits ==
  ASSUME IInv, PInv, NEW t \in Texts \cup {Printed(u) : u \in Texts}, AppendText(t)
  PROVE  PInv' /\ UNCHANGED TerminalState
<1>1. /\ current = <<>> /\ wired' = wired \o t /\ current' = t /\ pos' = 1
      /\ UNCHANGED <<buffer, cursorX, cursorY, lineLength, lineCount, initComplete, screen>>
  BY DEF AppendText, shape
<1>2. /\ wired \in Seq(Characters) /\ t \in Seq(Characters)
      /\ pos \in Nat \ {0} /\ pos <= Len(current) + 1
  BY TextIsPrintable DEF IInv, TypeOK, PInv, Behind
<1>3. pos = 1 /\ Len(current) = 0 /\ Len(wired) \in Nat /\ Len(t) \in Nat
  <2>1. Len(current) = 0
    BY <1>1
  <2> QED
    BY <1>2, <2>1
<1>4. /\ Len(wired \o t) = Len(wired) + Len(t)
      /\ \A k \in 1 .. Len(t) : (wired \o t)[Len(wired) + k] = t[k]
      /\ SubSeq(wired \o t, 1, Len(wired)) = wired
  BY <1>2, OneBehindOther
<1> DEFINE w == wired \o t
<1>5. /\ Len(w) = Len(wired) + Len(t) /\ SubSeq(w, 1, Len(wired)) = wired
      /\ \A k \in 1 .. Len(t) : w[Len(wired) + k] = t[k]
      /\ wired' = w
  BY <1>1, <1>4
<1> HIDE DEF w
<1>6. Len(wired') - Len(current') = Len(wired) /\ Len(wired) - Len(current) = Len(wired)
  BY <1>1, <1>3, <1>5
<1>7. SubSeq(wired, 1, Len(wired)) = wired
  <2>1. Len(wired) \in 0 .. Len(wired)
    BY <1>3
  <2> QED
    BY <1>2, <2>1, Beginnings
<1>8. Behind'
  <2>1. Len(current') <= Len(wired') /\ pos' <= Len(current') + 1
    BY <1>1, <1>3, <1>5
  <2>2. \A k \in 1 .. Len(current') : wired'[Done' + k] = current'[k]
    <3>1. Done' = Len(wired)
      BY <1>6 DEF Done
    <3> QED
      BY <1>1, <1>5, <3>1
  <2>3. current' \in Texts \cup {Printed(u) : u \in Texts}
    BY <1>1
  <2> QED
    BY <2>1, <2>2, <2>3 DEF Behind
<1>9. PutSoFar' = PutSoFar
  <2>1. PutSoFar' = SubSeq(wired', 1, (Len(wired') - Len(current')) + pos' - 1)
        /\ PutSoFar = SubSeq(wired, 1, (Len(wired) - Len(current)) + pos - 1)
    BY DEF PutSoFar, Done
  <2>2. Len(wired) + 1 - 1 = Len(wired)
    BY <1>3
  <2> QED
    BY <1>1, <1>3, <1>5, <1>6, <1>7, <2>1, <2>2
<1>10. BufferShows'
  <2>1. Lines' = Lines
    BY <1>1, <1>9 DEF Lines
  <2> QED
    BY <1>1, <2>1 DEF PInv, BufferShows
<1>11. UNCHANGED TerminalState
  BY <1>1, <1>5, <1>6, <1>7 DEF TerminalState
<1> QED
  BY <1>8, <1>10, <1>11 DEF PInv

(* When it returns, updateScreen has shown the text. *)
LEMMA UpdateScreenShows ==
  ASSUME IInv, PInv, UpdateScreen
  PROVE  PInv' /\ T!Next
<1>1. /\ current # <<>> /\ pos > Len(current)
      /\ screen' = IF initComplete THEN Drawn(buffer, lineLength, lineCount) ELSE screen
      /\ current' = <<>> /\ pos' = 1
      /\ UNCHANGED <<buffer, cursorX, cursorY, lineLength, lineCount, initComplete, wired>>
  BY DEF UpdateScreen, shape
<1>2. /\ wired \in Seq(Characters) /\ current \in Seq(Characters)
      /\ pos \in Nat \ {0} /\ pos <= Len(current) + 1
      /\ Len(current) <= Len(wired)
      /\ \A k \in 1 .. Len(current) : wired[Len(wired) - Len(current) + k] = current[k]
      /\ current \in Texts \cup {Printed(t) : t \in Texts}
  BY <1>1 DEF IInv, TypeOK, PInv, Behind, Done
<1>3. pos = Len(current) + 1 /\ Len(current) \in Nat /\ Len(wired) \in Nat /\ Len(current') = 0
  BY <1>1, <1>2
<1>4. SubSeq(wired, 1, Len(wired)) = wired
  <2>1. Len(wired) \in 0 .. Len(wired)
    BY <1>3
  <2> QED
    BY <1>2, <2>1, Beginnings
<1>5. PutSoFar = wired /\ PutSoFar' = wired
  <2>1. PutSoFar = SubSeq(wired, 1, (Len(wired) - Len(current)) + pos - 1)
        /\ PutSoFar' = SubSeq(wired', 1, (Len(wired') - Len(current')) + pos' - 1)
    BY DEF PutSoFar, Done
  <2>2. (Len(wired) - Len(current)) + pos - 1 = Len(wired)
    BY <1>3
  <2>3. (Len(wired') - Len(current')) + pos' - 1 = Len(wired)
    BY <1>1, <1>3
  <2> QED
    BY <1>1, <1>4, <2>1, <2>2, <2>3
<1>6. Behind'
  BY <1>1, <1>3 DEF Behind
<1>7. BufferShows'
  <2>1. Lines' = Lines
    BY <1>1, <1>5 DEF Lines
  <2> QED
    BY <1>1, <2>1 DEF PInv, BufferShows
<1>8. SubSeq(wired, 1, Len(wired) - Len(current)) \o current = wired
  BY <1>2, BeginningAndEnd
<1>9. SubSeq(wired', 1, Len(wired') - Len(current')) = wired
  <2>1. Len(wired') - Len(current') = Len(wired)
    BY <1>1, <1>3
  <2> QED
    BY <1>1, <1>4, <2>1
<1>10. ASSUME initComplete PROVE screen' = T!Picture(wired, <<lineLength, lineCount>>)
  <2>1. lineLength \in Nat /\ lineCount \in Nat /\ lineLength * lineCount <= BufferSize
    BY DEF IInv, TypeOK, StaysInside
  <2>2. Shows(buffer, T!Lines(wired, lineLength), lineLength, lineCount)
    BY <1>5, <1>10 DEF PInv, BufferShows, Lines
  <2>3. Drawn(buffer, lineLength, lineCount) = T!Picture(wired, <<lineLength, lineCount>>)
    BY <2>1, <2>2, SizeOfBuffer, DrawnIsThePicture
  <2> QED
    BY <1>1, <1>10, <2>3
<1>11. T!Show(current)
  <2>1. SubSeq(wired', 1, Len(wired') - Len(current'))
          = SubSeq(wired, 1, Len(wired) - Len(current)) \o current
    BY <1>8, <1>9
  <2>2. (IF initComplete' THEN <<lineLength', lineCount'>> ELSE <<>>)
          = (IF initComplete THEN <<lineLength, lineCount>> ELSE <<>>)
    BY <1>1
  <2> DEFINE s == IF initComplete THEN <<lineLength, lineCount>> ELSE <<>>
  <2>3. screen' = IF s = <<>> THEN screen
                  ELSE T!Picture(SubSeq(wired', 1, Len(wired') - Len(current')), s)
    <3>1. CASE initComplete
      <4>1. s = <<lineLength, lineCount>> /\ s # <<>>
        BY <3>1
      <4> QED
        BY <1>9, <1>10, <3>1, <4>1
    <3>2. CASE ~initComplete
      BY <1>1, <3>2
    <3> QED
      BY <3>1, <3>2
  <2> QED
    BY <2>1, <2>2, <2>3 DEF T!Show
<1>12. T!Next
  BY <1>2, <1>11 DEF T!Next
<1> QED
  BY <1>6, <1>7, <1>12 DEF PInv

(* Every step keeps the invariant, and is one of the terminal or changes   *)
(* nothing of it.                                                          *)
LEMMA StepIsTheTerminals ==
  ASSUME IInv, IInv', PInv, [Next]_vars
  PROVE  PInv' /\ [T!Next]_TerminalState
<1>1. ASSUME NEW r \in Resolutions, InitConsole(r) PROVE PInv' /\ T!Next
  BY <1>1, InitConsoleTurnsOn
<1>2. ASSUME NEW t \in Texts \cup {Printed(u) : u \in Texts}, AppendText(t)
      PROVE  PInv' /\ UNCHANGED TerminalState
  BY <1>2, AppendTextWaits
<1>3. ASSUME Put PROVE UNCHANGED TerminalState
  BY <1>3 DEF Put, shape, TerminalState
<1>4. ASSUME Stay \/ Wrap \/ Scroll PROVE PInv' /\ UNCHANGED TerminalState
  <2>1. Put
    BY <1>4 DEF Stay, Wrap, Scroll
  <2>2. PInv'
    BY <1>4, StayPInv, WrapPInv, ScrollPInv
  <2> QED
    BY <1>3, <2>1, <2>2
<1>5. ASSUME UpdateScreen PROVE PInv' /\ T!Next
  BY <1>5, UpdateScreenShows
<1>6. ASSUME UNCHANGED vars PROVE PInv' /\ UNCHANGED TerminalState
  BY <1>6 DEF vars, shape, TerminalState, PInv, Behind, Done, BufferShows, Lines, PutSoFar
<1>7. ASSUME Next PROVE PInv' /\ (T!Next \/ UNCHANGED TerminalState)
  BY <1>1, <1>2, <1>4, <1>5, <1>7 DEF Next, Step
<1> QED
  BY <1>6, <1>7

(* Whenever a call to print returns, the screen shows the last lines of    *)
(* all that was printed, broken where a line was full: the console, with   *)
(* its flat buffer and its cursor, is the terminal of module Terminal, for *)
(* every resolution, font and text.                                        *)
THEOREM ConsoleImplementsTerminal == Spec => ImplementsTerminal
<1>1. Init => PInv /\ T!Init
  BY InitPInv, InitIsTheTerminals
<1>2. IInv /\ IInv' /\ PInv /\ [Next]_vars => PInv' /\ [T!Next]_TerminalState
  BY StepIsTheTerminals
<1> QED
  BY <1>1, <1>2, InitIInv, StepIInv, PTL DEF Spec, ImplementsTerminal, T!Spec, TerminalState
=============================================================================
