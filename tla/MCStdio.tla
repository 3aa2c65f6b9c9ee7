------------------------------- MODULE MCStdio -------------------------------
(* Instances of Stdio for TLC: every format of at most three directives, in *)
(* buffers shorter and longer than what they print.                         *)
EXTENDS Stdio

D(k, n) == Piece(k, n)

Alphabet == {D("literal", 1), D("literal", 3), D("percent", 1), D("char", 1),
             D("field", 0), D("field", 1), D("field", 2), D("unsupported", 0)}

Upto(n) == UNION {[1 .. k -> Alphabet] : k \in 0 .. n}
AllFormats == Upto(3)
ShortFormats == Upto(2)

(* "unsupported format specifier: %c" *)
BadText == <<D("literal", 4), D("char", 1)>>

(* ksnprintfOverflow of stdio_test.cpp: "abcdefg", "abc%d", "abc%d%sx" and   *)
(* "abc%p", into five bytes.                                                 *)
TestFormats == {<<D("literal", 7)>>,
                <<D("literal", 3), D("field", 3)>>,
                <<D("literal", 3), D("field", 3), D("field", 3), D("literal", 1)>>,
                <<D("literal", 3), D("field", 18)>>}
None == {}

(* panicf's callers: a short and a longer name, lines of one and two digits. *)
AllPlaces == {[file |-> 1, line |-> 1], [file |-> 3, line |-> 2]}
=============================================================================
