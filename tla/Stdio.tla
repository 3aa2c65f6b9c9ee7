-------------------------------- MODULE Stdio --------------------------------
(***************************************************************************)
(* Formatting into a buffer, kernel/utils/stdio.cpp, and its three ways of *)
(* use: ksnprintf, whose result smbios.cpp and bytes.cpp add to the        *)
(* buffer's address to append the next piece; kprintf, which formats into  *)
(* a buffer of its own for the console; and panicf of                      *)
(* kernel/utils/panic.cpp, which formats once to learn the length, again   *)
(* to get the text, and gives that to kprintf.                             *)
(*                                                                         *)
(* What a character is does not matter, only where it is stored: a format  *)
(* is a sequence of directives, each with the length of what it prints.    *)
(*                                                                         *)
(* The buffers lie in the frames of their functions.  A store outside is   *)
(* undefined: it may hit bytes that nobody uses, and the call goes on, or  *)
(* va_list, arguments and return address of this frame or of a caller's,   *)
(* and then nothing is known any more (pc = "smashed").                    *)
(***************************************************************************)
EXTENDS Integers, Sequences

CONSTANTS
  SizeLimit,     \* 2^w of size_t
  Formats,       \* what ksnprintf and kprintf are called with
  Rooms,         \* the sizes of the buffers of ksnprintf's callers
  PrintRoom,     \* the size of kprintf's buffer
  PanicFormats,  \* what kpanic, kpanicf, kassert and kassertf are called with
  BadSpecifier,  \* "unsupported format specifier: %c", stdio.cpp:205
  Places,        \* where they are called: the lengths of file and line
  MaxFrames      \* bound: the frames dumpStack finds

(* A run of literal text, "%%", "%c", a number, string or pointer, and the *)
(* conversions that are none of these.                                     *)
Kinds == {"literal", "percent", "char", "field", "unsupported"}

Directives == [kind : Kinds, len : Nat]

(* Where each directive of a format begins to print, and the length of it all. *)
StartOf(f) ==
  LET start[i \in 1 .. (Len(f) + 1)] == IF i = 1 THEN 0 ELSE start[i - 1] + f[i - 1].len
  IN  start

TextLen(f) == StartOf(f)[Len(f) + 1]

Messages == PanicFormats \cup {BadSpecifier}

Piece(k, n) == [kind |-> k, len |-> n]

(* "%s:%d: %s\n" with a message of n characters, and the "%p\n" of a frame. *)
ReportText(place, n) ==
  <<Piece("field", place.file), Piece("literal", 1), Piece("field", place.line),
    Piece("literal", 2), Piece("field", n), Piece("literal", 1)>>
FrameText == <<Piece("field", 18), Piece("literal", 1)>>

(* All that is ever formatted. *)
Texts == Formats \cup Messages \cup {<<>>, FrameText}
           \cup {ReportText(p, TextLen(f)) : p \in Places, f \in Messages}

(* No text is as long as the address space: its length and its zero are counted *)
(* in a size_t.  What kprintf prints in front of a message fits its buffer.     *)
ASSUME StdioAssumption ==
  /\ SizeLimit \in Nat /\ SizeLimit > 2
  /\ Rooms \subseteq 1 .. (SizeLimit - 1)
  /\ PrintRoom \in 1 .. (SizeLimit - 1) /\ MaxFrames \in Nat
  /\ Places \subseteq [file : Nat, line : Nat]
  /\ \A p \in Places : p.file + p.line + 3 < PrintRoom
  /\ \A f \in Formats \cup Messages :
       /\ f \in Seq(Directives)
       /\ \A i \in DOMAIN f : f[i].kind \in {"percent", "char"} => f[i].len = 1
  /\ \A f \in Texts : TextLen(f) < SizeLimit - 1
  /\ \A i \in DOMAIN BadSpecifier : BadSpecifier[i].kind # "unsupported"

VARIABLES
  pc,       \* see TypeOK
  caller,   \* who called kvsnprintf: see TypeOK
  room,     \* the size of the buffer of ksnprintf's caller
  base,     \* the offset in it that ksnprintf writes to
  fmt, at,  \* kvsnprintf's format and its position there
  size, j,  \* its n, and its j, which equals total_chars
  stored,   \* the offsets of its buffer that hold their character of the text
  end,      \* the offset of the terminating zero, -1 when no byte is left for one
  message,  \* the format of the panic that is running
  passes,   \* how often panicf has called kvsnprintf for it
  frames    \* how many frames dumpStack has printed

chain == <<room, base>>
text  == <<fmt, size>>
dying == <<message, passes, frames>>
vars  == <<pc, caller, chain, text, at, j, stored, end, dying>>

Init ==
  /\ pc = "idle" /\ caller = "ksnprintf" /\ room = 0 /\ base = 0
  /\ fmt = <<>> /\ at = 1 /\ size = 1 /\ j = 0
  /\ stored = {} /\ end = 0
  /\ message = <<>> /\ passes = 0 /\ frames = 0

(***************************************************************************)
(* kvsnprintf                                                              *)
(***************************************************************************)
MinusOneUnsigned(n) == n   \* mutant: j < n
MinusOne(n) == IF n = 0 THEN SizeLimit - 1 ELSE n - 1   \* n - 1 in size_t

Rem == IF j >= size THEN 0 ELSE size - j

(* Which offsets of those a directive prints to, from j on, it stores to. *)
LiteralStores(len) == {k \in j .. (j + len - 1) : k < size - 1}
PercentStores == IF j < MinusOne(size) THEN {j} ELSE {}
CharStores    == IF Rem > 0 THEN {j} ELSE {}
FieldStoresInAll(len) ==   \* mutant: the whole buffer for the rest of it
  {k \in j .. (j + len - 1) : k - j < MinusOne(size)}
FieldStores(len) == {k \in j .. (j + len - 1) : k - j < MinusOne(Rem)}

Stores(d) ==
  CASE d.kind = "literal" -> LiteralStores(d.len)
    [] d.kind = "percent" -> PercentStores
    [] d.kind = "char"    -> CharStores
    [] OTHER              -> FieldStores(d.len)

StartFormat(f, n) ==
  /\ pc' = "format" /\ fmt' = f /\ at' = 1 /\ size' = n /\ j' = 0
  /\ stored' = {} /\ end' = 0

Inside(offsets) == offsets \subseteq 0 .. (size - 1)

Directive ==
  /\ pc = "format" /\ at <= Len(fmt) /\ fmt[at].kind # "unsupported"
  /\ stored' = stored \cup Stores(fmt[at])
  /\ j' = j + fmt[at].len /\ at' = at + 1
  /\ \/ pc' = "format"
     \/ ~Inside(Stores(fmt[at])) /\ pc' = "smashed"
  /\ UNCHANGED <<caller, chain, text, end, dying>>

(* panicf called with f: its first buffer has two bytes. *)
Measure(f) ==
  /\ StartFormat(f, 2)
  /\ caller' = "panicf" /\ message' = f /\ passes' = 1 /\ frames' = 0
  /\ room' = 0 /\ base' = 0

UnsupportedAgain ==   \* mutant: reported with the format that has it
  /\ pc = "format" /\ at <= Len(fmt) /\ fmt[at].kind = "unsupported"
  /\ Measure(fmt)

(* A conversion nobody implemented: the call never returns. *)
Unsupported ==
  /\ pc = "format" /\ at <= Len(fmt) /\ fmt[at].kind = "unsupported"
  /\ Measure(BadSpecifier)

TerminatorAtLast == IF j <= size THEN j ELSE size - 1   \* mutant: off by one
(* A buffer of no bytes gets no zero: size - 1 is not an offset then. *)
Terminator == IF j < size THEN j ELSE size - 1

Terminate ==
  /\ pc = "format" /\ at > Len(fmt)
  /\ end' = Terminator /\ stored' = stored \ {end'}
  /\ pc' = "returned"
  /\ UNCHANGED <<caller, chain, text, at, j, dying>>

(***************************************************************************)
(* ksnprintf: a first piece of text, and further ones behind it, which     *)
(* bytesToHumanReadable separates with blanks.                             *)
(***************************************************************************)
ResultUnclamped == j                                    \* mutant: as snprintf returns
Result == IF j >= size THEN size - 1 ELSE j

First(f, r) ==
  /\ pc = "idle"
  /\ StartFormat(f, r)
  /\ caller' = "ksnprintf" /\ room' = r /\ base' = 0
  /\ UNCHANGED dying

Further(f) ==
  /\ pc = "returned" /\ caller = "ksnprintf" /\ size > 0
  /\ base' = base + Result
  /\ StartFormat(f, room - base')
  /\ UNCHANGED <<caller, room, dying>>

(* The blank is put over the zero, on the last byte of a buffer that is full, *)
(* and the rest may be empty.  llen < len of an empty one compares -1, as     *)
(* size_t the largest, and ends it.                                           *)
SeparateOverLast(f) ==   \* mutant: the blank not counted
  /\ pc = "returned" /\ caller = "ksnprintf" /\ size > 0
  /\ base' = base + Result + 1
  /\ StartFormat(f, room - base - Result)
  /\ UNCHANGED <<caller, room, dying>>
Separate(f) ==
  /\ pc = "returned" /\ caller = "ksnprintf" /\ size > 0
  /\ base' = base + Result + 1
  /\ StartFormat(f, room - base')
  /\ UNCHANGED <<caller, room, dying>>

(* The text is complete, and nothing of the call is of use any more. *)
Leave ==
  /\ pc' = "idle" /\ caller' = "ksnprintf" /\ room' = 0 /\ base' = 0
  /\ fmt' = <<>> /\ at' = 1 /\ size' = 1 /\ j' = 0 /\ stored' = {} /\ end' = 0
  /\ UNCHANGED dying

ChainDone == pc = "returned" /\ caller = "ksnprintf" /\ Leave

(***************************************************************************)
(* kprintf: the console gets what fits the buffer.                         *)
(***************************************************************************)
Kprintf(f) ==
  /\ pc = "idle"
  /\ StartFormat(f, PrintRoom)
  /\ caller' = "kprintf" /\ room' = 0 /\ base' = 0
  /\ UNCHANGED dying

Printing == pc = "returned" /\ caller \in {"kprintf", "report", "dumpStack"}

AppendText ==
  /\ Printing
  /\ \/ caller = "kprintf" /\ Leave
     \/ /\ caller # "kprintf" /\ pc' = "dump"
        /\ UNCHANGED <<caller, chain, text, at, j, stored, end, dying>>

(* The assertion in the write() of aarch64's serial port panics in its turn, *)
(* and kprintf does not return: what becomes of that is told in Serial.      *)
AppendAsserts ==
  /\ Printing
  /\ pc' = "asserted"
  /\ UNCHANGED <<caller, chain, text, at, j, stored, end, dying>>

(***************************************************************************)
(* panic and panicf: a buffer of two bytes, then one of the length that    *)
(* was missing; then kprintf, the stack, and halt.                         *)
(***************************************************************************)
Report(n) ==
  /\ \E place \in Places : StartFormat(ReportText(place, n), PrintRoom)
  /\ caller' = "report"

(* panic(file, line, msg): a text that is not formatted first. *)
Panic(f) ==
  /\ pc = "idle"
  /\ Report(TextLen(f))
  /\ message' = f /\ passes' = 0 /\ frames' = 0 /\ room' = 0 /\ base' = 0

Panicf(f) == pc = "idle" /\ Measure(f)

TooLongForZero == j > size    \* mutant: the zero forgotten
TooLong == j > size - 1
NeededForText == j            \* mutant: the zero not allocated
Needed  == j + 1

Retry ==
  /\ pc = "returned" /\ caller = "panicf" /\ TooLong
  /\ StartFormat(message, Needed)
  /\ passes' = passes + 1
  /\ UNCHANGED <<caller, chain, message, frames>>

(* The string in the buffer ends at its zero. *)
ReportMessage ==
  /\ pc = "returned" /\ caller = "panicf" /\ ~TooLong
  /\ Report(end)
  /\ UNCHANGED <<chain, dying>>

DumpFrame ==
  /\ pc = "dump" /\ frames < MaxFrames
  /\ StartFormat(FrameText, PrintRoom)
  /\ caller' = "dumpStack" /\ frames' = frames + 1
  /\ UNCHANGED <<chain, message, passes>>

(* The last frame has no other before it. *)
Halt ==
  /\ pc = "dump"
  /\ pc' = "halted"
  /\ UNCHANGED <<caller, chain, text, at, j, stored, end, dying>>

Step == \/ Directive \/ Unsupported \/ Terminate \/ AppendText \/ AppendAsserts
        \/ Retry \/ ReportMessage \/ DumpFrame \/ Halt

Call == \/ \E f \in Formats, r \in Rooms : First(f, r)
        \/ \E f \in Formats : Further(f) \/ Separate(f) \/ Kprintf(f)
        \/ ChainDone
        \/ \E f \in PanicFormats : Panic(f) \/ Panicf(f)

Next == Step \/ Call

Spec == Init /\ [][Next]_vars

(* One thread runs the kernel: a call that was made goes on. *)
FairSpec == Spec /\ WF_vars(Step)

(***************************************************************************)
(* Properties                                                              *)
(***************************************************************************)
(* The types of the variables: j and size stay numbers that size_t holds.  *)
TypeOK ==
  /\ pc \in {"idle", "format", "returned", "dump", "halted", "asserted", "smashed"}
  /\ caller \in {"ksnprintf", "kprintf", "panicf", "report", "dumpStack"}
  /\ room \in Nat /\ base \in Nat
  /\ fmt \in Texts /\ at \in 1 .. (Len(fmt) + 1)
  /\ size \in Nat /\ j \in Nat
  /\ stored \subseteq Nat /\ end \in Nat \cup {-1}
  /\ message \in Messages \cup {<<>>} /\ passes \in Nat /\ frames \in 0 .. MaxFrames

Smaller(a, b) == IF a < b THEN a ELSE b

Done == pc \in {"returned", "dump", "halted", "asserted"}

(* Whatever was printed, inside the buffer it leaves the beginning of the  *)
(* text, as much as fits, and one zero behind it (stdio.cpp:214-218).      *)
HoldsPrefix ==
  Done => /\ end = Smaller(j, size - 1)
          /\ stored \cap 0 .. (size - 1) = 0 .. (end - 1)

(* ksnprintf returns the offset of that zero, and so the next piece of an  *)
(* SMBIOS description, or of a number of bytes behind its blank, continues *)
(* the text in what is left of the buffer.                                 *)
PiecesChain ==
  caller = "ksnprintf" /\ pc # "idle" =>
    /\ base <= room /\ size = room - base
    /\ pc = "returned" => Result = end

FieldsStartInside(f, n) ==
  \A i \in DOMAIN f :
    /\ f[i].kind = "field" /\ f[i].len > 0 => StartOf(f)[i] < n
    /\ f[i].kind = "percent" => n > 0

(* The formatter stores outside its buffer exactly when a number, string   *)
(* or pointer begins behind the buffer's end: rem is 0 then, and n - 1 in  *)
(* the conversion wraps around.  Nothing else can, at any size, but "%%"   *)
(* in the empty buffer that the blank of bytesToHumanReadable can leave.   *)
OnlyLateFieldsEscape ==
  /\ Done => (Inside(stored) <=> FieldsStartInside(fmt, size))
  /\ pc = "smashed" => ~FieldsStartInside(fmt, size)

Panicking == caller \in {"panicf", "report", "dumpStack"}

(* panicf formats at most twice, and gives kprintf all of the message; the *)
(* console then gets of the report what fits kprintf's buffer.             *)
WholeMessageReported ==
  /\ passes <= 2
  /\ caller = "report" =>
       /\ \E place \in Places : fmt = ReportText(place, TextLen(message))
       /\ Done => stored \cap 0 .. (PrintRoom - 1)
                     = 0 .. (Smaller(TextLen(fmt), PrintRoom - 1) - 1)

(* Of all of a panic, only the first pass of panicf can overrun its buffer. *)
OnlyMeasuringSmashes ==
  Panicking /\ pc = "smashed" => passes = 1 /\ ~FieldsStartInside(message, 2)

(* Each piece is there as far as it fits, the next one follows it, and of a   *)
(* panic kprintf is given the whole message, if the pass that measured it has *)
(* left panicf's frame intact.                                                *)
TextContinues ==
  HoldsPrefix /\ PiecesChain /\ WholeMessageReported /\ OnlyMeasuringSmashes

(* A panic ends in halt(), also the one the formatter itself raises, unless  *)
(* its report meets a full serial buffer (Serial's PanicHaltsOrBufferFull    *)
(* goes on from there), or a number, string or pointer that does not begin   *)
(* in the first two characters was stored over panicf's frame.               *)
PanicHalts ==
  Panicking ~> \/ pc \in {"halted", "asserted"}
               \/ pc = "smashed" /\ passes = 1 /\ ~FieldsStartInside(message, 2)

(* The tests of ksnprintf call a buffer that is too small truncation       *)
(* (stdio_test.cpp, ksnprintfOverflow): nothing behind it is stored to.    *)
KsnprintfStaysInside == caller = "ksnprintf" => stored \subseteq 0 .. (size - 1)
=============================================================================
