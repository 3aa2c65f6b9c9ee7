--------------------------- MODULE WarningCollector ---------------------------
(***************************************************************************)
(* The warning collector's class of that name                              *)
(* (tools/src/warningcollector/__init__.py): collect reads a compiler's    *)
(* output line by line and builds the warnings with their notes and the    *)
(* lines that continue them, merge counts equal warnings.                  *)
(*                                                                         *)
(* A line is told apart by what collect asks of it: whether it has the     *)
(* form file:line:column: level: message, whether its level is note,       *)
(* whether it begins with white space.  Two lines of that form are equal   *)
(* here when file, line, column, level and message are.                    *)
(***************************************************************************)
EXTENDS Naturals, SequencesExt

CONSTANTS
  Lines,      \* the lines a compiler writes
  Matching,   \* those that match the pattern of collect
  Notes,      \* those of them whose level is note
  Indented,   \* those that begin with white space (an empty line does)
  Beginning   \* the beginning of a line, without its newline

ASSUME WarningAssumption ==
  /\ Notes \subseteq Matching /\ Matching \subseteq Lines /\ Indented \subseteq Lines
  /\ Beginning \notin Lines

Texts == Lines \cup {Beginning}

(* Every warning and note in the order of its creation: its line, the one it *)
(* was added to (0: the list of warnings) and extra.                         *)
Record == [text : Matching, of : Nat, extra : Seq(Texts)]

(* currentWarning is the last of them while inWarning is set. *)
Collector == [recs : Seq(Record), inWarning : BOOLEAN, last : Nat]

NewCollector == [recs |-> <<>>, inWarning |-> FALSE, last |-> 0]

Current(c) == Len(c.recs)
IsNote(c, i) == c.recs[i].text \in Notes

(* mutant: a note is kept as the warning that later notes belong to *)
ContinueOrEndAny(c, line) ==
  IF ~c.inWarning THEN c
  ELSE IF line \in Indented
  THEN [c EXCEPT !.recs[Current(c)].extra = Append(@, line)]
  ELSE [c EXCEPT !.inWarning = FALSE, !.last = Current(c)]

(* append_extra for a line that continues the current warning; any other     *)
(* line ends it.                                                             *)
ContinueOrEnd(c, line) ==
  IF ~c.inWarning THEN c
  ELSE IF line \in Indented
  THEN [c EXCEPT !.recs[Current(c)].extra = Append(@, line)]
  ELSE [c EXCEPT !.inWarning = FALSE,
                 !.last = IF IsNote(c, Current(c)) THEN @ ELSE Current(c)]

(* A line of the pattern starts a warning, or a note of the last one. *)
Start(c, line) ==
  IF line \notin Matching THEN c
  ELSE [c EXCEPT !.recs = Append(@, [text |-> line, extra |-> <<>>,
                                     of |-> IF line \in Notes THEN c.last ELSE 0]),
                 !.inWarning = TRUE]

Collect(c, line) == Start(ContinueOrEnd(c, line), line)

MergeAppends(list, r) ==   \* mutant: equal warnings are not looked for
  IF r.of # 0 THEN list ELSE Append(list, [text |-> r.text, count |-> 1])

(* One turn of merge's loop over the warnings of the other collector, which   *)
(* are its records that were added to no warning: the first equal warning     *)
(* gets the count, which is 1.                                                *)
MergeOne(list, r) ==
  LET equal == {i \in DOMAIN list : list[i].text = r.text}
  IN  IF r.of # 0 THEN list
      ELSE IF equal = {} THEN Append(list, [text |-> r.text, count |-> 1])
      ELSE LET first == CHOOSE i \in equal : \A k \in equal : i <= k
           IN  [list EXCEPT ![first].count = @ + 1]

Merge(list, other) == FoldLeft(MergeOne, list, other.recs)
=============================================================================
