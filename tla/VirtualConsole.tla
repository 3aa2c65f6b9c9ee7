---------------------------- MODULE VirtualConsole ----------------------------
(***************************************************************************)
(* The kernel's text console, kernel/framebuffer/VirtualConsole.cpp: a     *)
(* flat buffer of lines that appendText fills character by character and   *)
(* scrolls, and updateScreen draws.  One step of the model is one turn of  *)
(* appendText's loop, init, or updateScreen.                               *)
(***************************************************************************)
EXTENDS Integers, Sequences

CONSTANTS
  MaxResWidth, MaxResHeight,    \* the resolution the buffer is made for,
  CellWidth, CellHeight,        \* with characters of 8 by 16 pixels
  FontWidth, FontHeight,        \* font.psf
  DefaultLength, DefaultCount,  \* the shape before init
  FormatRoom,                   \* buf[1024] of appendFormattedText
  Resolutions,                  \* of framebuffers, as <<width, height, words of a line>>
  Characters, Texts,            \* what is printed
  Newline, Blank, Nul,
  MaxText                       \* bound: how much is printed

BufferSize == (MaxResWidth \div CellWidth) * (MaxResHeight \div CellHeight)

ASSUME ConsoleAssumption ==
  /\ MaxResWidth \in Nat /\ MaxResHeight \in Nat
  /\ CellWidth \in Nat \ {0} /\ CellHeight \in Nat \ {0}
  /\ FontWidth \in Nat /\ FontHeight \in Nat
  /\ CellWidth <= FontWidth /\ CellHeight <= FontHeight
  /\ FontWidth <= MaxResWidth /\ FontHeight <= MaxResHeight
  /\ DefaultLength \in Nat \ {0} /\ DefaultCount \in Nat \ {0}
  /\ DefaultLength * DefaultCount <= BufferSize
  /\ FormatRoom \in Nat \ {0} /\ MaxText \in Nat
  /\ \A r \in Resolutions : /\ r \in Nat \X Nat \X Nat
                            /\ FontWidth <= r[1] /\ FontHeight <= r[2] /\ r[1] <= r[3]
  /\ Texts \subseteq Seq(Characters)
  /\ Newline # Blank

VARIABLES
  buffer,                 \* buffer, by index
  overrun,                \* whether a store missed the buffer
  cursorX, cursorY, lineLength, lineCount, initComplete,
  resolution,             \* of the framebuffer the console was given
  screen,                 \* the character drawn in each cell
  wired,                  \* all the text that went to the serial port
  current, pos            \* appendText's text and its position in it

shape == <<lineLength, lineCount, initComplete, resolution>>
vars  == <<buffer, overrun, cursorX, cursorY, shape, screen, wired, current, pos>>

Init ==
  /\ buffer = [i \in 0 .. (BufferSize - 1) |-> Nul] /\ overrun = FALSE
  /\ cursorX = 0 /\ cursorY = 0
  /\ lineLength = DefaultLength /\ lineCount = DefaultCount
  /\ initComplete = FALSE /\ resolution = <<0, 0, 0>> /\ screen = <<>>
  /\ wired = <<>> /\ current = <<>> /\ pos = 1

Smaller(a, b) == IF a < b THEN a ELSE b

(***************************************************************************)
(* init and updateScreen                                                   *)
(***************************************************************************)
ColumnsUnclamped(width) == width \div FontWidth   \* mutant: any framebuffer fits
Columns(width) == Smaller(width, MaxResWidth) \div FontWidth
Rows(height)   == Smaller(height, MaxResHeight) \div FontHeight

Cells(length, count) == (0 .. (length - 1)) \X (0 .. (count - 1))

(* The index of a cell's character, and what updateScreen draws of b. *)
At(cell, length) == cell[2] * length + cell[1]

Drawn(b, length, count) ==
  [cell \in {c \in Cells(length, count) : At(c, length) < BufferSize} |-> b[At(cell, length)]]

(* The words of the framebuffer that drawCharAt stores a cell's glyph to.  *)
PixelsByBytes(cell, words) ==   \* mutant: a line counted in bytes
  {(cell[2] * FontHeight + i) * 4 * words + cell[1] * FontWidth + k :
     i \in 0 .. (FontHeight - 1), k \in 0 .. (FontWidth - 1)}
Pixels(cell, words) ==
  {(cell[2] * FontHeight + i) * words + cell[1] * FontWidth + k :
     i \in 0 .. (FontHeight - 1), k \in 0 .. (FontWidth - 1)}

(* kmain calls init before it prints: all that can be printed earlier is   *)
(* the message of a panic, and a panic does not come back.                 *)
InitConsole(r) ==
  /\ ~initComplete /\ wired = <<>>
  /\ buffer' = [i \in DOMAIN buffer |-> Blank]
  /\ lineLength' = Columns(r[1]) /\ lineCount' = Rows(r[2])
  /\ initComplete' = TRUE /\ resolution' = r
  /\ screen' = Drawn(buffer', lineLength', lineCount')
  /\ UNCHANGED <<overrun, cursorX, cursorY, wired, current, pos>>

(***************************************************************************)
(* appendText, and appendFormattedText with the text kvsnprintf leaves it  *)
(***************************************************************************)
Printed(t) == SubSeq(t, 1, Smaller(Len(t), FormatRoom - 1))

(* kprint(t), or kprintf of what formats to t: serial is served first. *)
AppendText(t) ==
  /\ current = <<>> /\ t # <<>> /\ Len(wired) + Len(t) <= MaxText
  /\ wired' = wired \o t
  /\ current' = t /\ pos' = 1
  /\ UNCHANGED <<buffer, overrun, cursorX, cursorY, shape, screen>>

Place == cursorY * lineLength + cursorX

(* Where the character at pos goes: a newline blanks the rest of its line. *)
Stored == IF current[pos] = Newline
            THEN {cursorY * lineLength + x : x \in cursorX .. (lineLength - 1)}
            ELSE {Place}

Character == IF current[pos] = Newline THEN Blank ELSE current[pos]

Painted == [i \in DOMAIN buffer |-> IF i \in Stored THEN Character ELSE buffer[i]]

LineIsFullLate ==   \* mutant: one column too many
  current[pos] = Newline \/ cursorX >= lineLength
LineIsFull == current[pos] = Newline \/ cursorX + 1 >= lineLength
LastLine   == cursorY + 1 >= lineCount

(* memmove of all lines but the first, memset of the last. *)
Kept == lineLength * (lineCount - 1)

ScrolledNotCleared(b) ==   \* mutant: the last line stays
  [i \in DOMAIN b |-> IF i < Kept THEN b[i + lineLength] ELSE b[i]]
Scrolled(b) ==
  [i \in DOMAIN b |-> IF i < Kept /\ i + lineLength \in DOMAIN b THEN b[i + lineLength]
                      ELSE IF i < Kept + lineLength THEN Blank
                      ELSE b[i]]

Put ==
  /\ pos <= Len(current) /\ pos' = pos + 1
  /\ overrun' = (overrun \/ ~(Stored \subseteq DOMAIN buffer))
  /\ UNCHANGED <<shape, screen, wired, current>>

Stay ==
  /\ Put /\ ~LineIsFull
  /\ buffer' = Painted /\ cursorX' = cursorX + 1
  /\ UNCHANGED cursorY

Wrap ==
  /\ Put /\ LineIsFull /\ ~LastLine
  /\ buffer' = Painted /\ cursorX' = 0 /\ cursorY' = cursorY + 1

Scroll ==
  /\ Put /\ LineIsFull /\ LastLine
  /\ buffer' = Scrolled(Painted) /\ cursorX' = 0
  /\ UNCHANGED cursorY

UpdateScreen ==
  /\ current # <<>> /\ pos > Len(current)
  /\ screen' = IF initComplete THEN Drawn(buffer, lineLength, lineCount) ELSE screen
  /\ current' = <<>> /\ pos' = 1
  /\ UNCHANGED <<buffer, overrun, cursorX, cursorY, shape, wired>>

Step == Stay \/ Wrap \/ Scroll \/ UpdateScreen

Next == \/ \E r \in Resolutions : InitConsole(r)
        \/ \E t \in Texts : AppendText(t) \/ AppendText(Printed(t))
        \/ Step

Spec == Init /\ [][Next]_vars

(***************************************************************************)
(* Properties                                                              *)
(***************************************************************************)
(* The types, and the cursor between two characters: always in a cell.     *)
TypeOK ==
  /\ DOMAIN buffer = 0 .. (BufferSize - 1)
  /\ overrun \in BOOLEAN /\ initComplete \in BOOLEAN
  /\ lineLength \in Nat \ {0} /\ lineCount \in Nat \ {0}
  /\ cursorX \in 0 .. (lineLength - 1) /\ cursorY \in 0 .. (lineCount - 1)
  /\ resolution \in Nat \X Nat \X Nat
  /\ wired \in Seq(Characters) /\ current \in Seq(Characters)
  /\ pos \in Nat \ {0}

(* No framebuffer, font or text makes the console store outside its buffer *)
(* of 1280x1024 pixels' worth of characters, or a pixel of a glyph outside *)
(* the framebuffer, and every cell of its shape has a place in the buffer. *)
StaysInside ==
  /\ ~overrun
  /\ lineLength * lineCount <= BufferSize
  /\ initComplete => /\ lineLength * FontWidth <= resolution[1]
                     /\ lineCount * FontHeight <= resolution[2]
                     /\ \A cell \in Cells(lineLength, lineCount) :
                          Pixels(cell, resolution[3]) \subseteq 0 .. (resolution[3] * resolution[2] - 1)

T == INSTANCE Terminal WITH
       Texts  <- Texts \cup {Printed(t) : t \in Texts},
       Shapes <- {<<Columns(r[1]), Rows(r[2])>> : r \in Resolutions},
       text   <- SubSeq(wired, 1, Len(wired) - Len(current)),
       shape  <- IF initComplete THEN <<lineLength, lineCount>> ELSE <<>>,
       glass  <- screen

(* Whenever a call to print returns, the screen shows the last lines of    *)
(* all that was printed: the console is the terminal of module Terminal.   *)
ImplementsTerminal == T!Spec
=============================================================================
