------------------------------- MODULE Terminal -------------------------------
(***************************************************************************)
(* What a console promises whoever prints to it: once it is on, its glass  *)
(* shows the last lines of all that was printed, broken where a line is    *)
(* full.  VirtualConsole is shown to implement this module.                *)
(***************************************************************************)
EXTENDS Integers, Sequences, SequencesExt

CONSTANTS Texts,     \* the texts programs print
          Shapes,    \* the widths and heights of glasses, in characters
          Newline, Blank

VARIABLES text,      \* everything printed so far
          shape,     \* the shape of the glass, <<>> while the console is off
          glass      \* the character in each cell <<column, line>>

(* A full line is followed by a new one at once: a newline that comes next *)
(* leaves that one empty.                                                  *)
Type(lines, c, width) ==
  LET last  == lines[Len(lines)]
      typed == Append(Front(lines), Append(last, c))
  IN  CASE c = Newline                             -> Append(lines, <<>>)
        [] c # Newline /\ Len(last) + 1 = width    -> Append(typed, <<>>)
        [] c # Newline /\ Len(last) + 1 # width    -> typed

Lines(t, width) == FoldLeft(LAMBDA lines, c : Type(lines, c, width), <<<< >>>>, t)

Picture(t, s) ==
  LET lines == Lines(t, s[1])
      above == IF Len(lines) > s[2] THEN Len(lines) - s[2] ELSE 0
  IN  [cell \in (0 .. (s[1] - 1)) \X (0 .. (s[2] - 1)) |->
         LET line == above + cell[2] + 1
         IN  IF line <= Len(lines) /\ cell[1] < Len(lines[line])
               THEN lines[line][cell[1] + 1]
               ELSE Blank]

Init == text = <<>> /\ shape = <<>> /\ glass = <<>>

(* A console comes up before anything is printed. *)
TurnOn(s) ==
  /\ shape = <<>> /\ text = <<>>
  /\ shape' = s /\ glass' = Picture(<<>>, s)
  /\ UNCHANGED text

Show(t) ==
  /\ text' = text \o t
  /\ glass' = IF shape = <<>> THEN glass ELSE Picture(text', shape)
  /\ UNCHANGED shape

Next == (\E s \in Shapes : TurnOn(s)) \/ (\E t \in Texts : Show(t))

Spec == Init /\ [][Next]_<<text, shape, glass>>
=============================================================================
