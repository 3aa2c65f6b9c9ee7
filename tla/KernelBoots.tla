----------------------------- MODULE KernelBoots -----------------------------
(***************************************************************************)
(* The boot test (image/kernel-boots.py) beside the QEMU it starts: it     *)
(* waits for the QMP socket, connects, lets the guest go, reads the serial *)
(* log until it has seen "start complete" or its time is over, asks QEMU   *)
(* for a picture and to quit, and otherwise terminates and kills it.       *)
(*                                                                         *)
(* Time is counted in the turns of wait_for_output that sleep: reading is  *)
(* taken to be faster than the clock.  QEMU and the guest may stop, hang   *)
(* or end at any point.                                                    *)
(***************************************************************************)
EXTENDS Naturals, Sequences

CONSTANTS
  Timeout,   \* --timeout, in turns
  MaxLines   \* bound: the lines the guest prints before its last one

ASSUME BootAssumption == Timeout \in Nat /\ MaxLines \in Nat

VARIABLES
  pc,         \* the await, call or test that comes next
  raising,    \* what went wrong, if anything
  connected,  \* whether self.qmp is connected
  taken,      \* how much of the log is in serial_output
  elapsed,    \* time.time() - start_time
  looked,     \* how much was in the log when the last sleep began
  qemu,       \* what qemu_process is doing
  hung,       \* whether it has stopped to react
  signals,    \* what it was told
  sock,       \* qmp-sock
  log,        \* serial.log, in the pieces QEMU writes
  booted      \* whether the guest has printed its last line

vars == <<pc, raising, connected, taken, elapsed, looked, qemu, hung, signals, sock, log, booted>>
machine == <<qemu, hung, sock, log, booted>>

(* The guest's last line may be written in two pieces. *)
Pieces == {"line", "start", "complete", "start complete"}
EndOfLine == {"line", "complete", "start complete"}

(* "start complete" in text *)
HasMarker(text) ==
  \E i \in DOMAIN text :
    \/ text[i] = "start complete"
    \/ text[i] = "start" /\ i < Len(text) /\ text[i + 1] = "complete"

Init ==
  /\ pc = "build" /\ raising = "nothing" /\ connected = FALSE
  /\ taken = 0 /\ elapsed = 0 /\ looked = 0
  /\ qemu = "none" /\ hung = FALSE /\ signals = {}
  /\ sock \in {"absent", "stale"}
  /\ log \in {<<>>, <<"line", "start complete">>}     \* of an earlier test
  /\ booted = FALSE

(***************************************************************************)
(* QEMU and the guest                                                      *)
(***************************************************************************)
Alive == qemu \in {"starting", "bound", "listening", "paused", "running"}
test == <<pc, raising, connected, taken, elapsed, looked, signals>>

(* The socket has its name before anyone can connect to it. *)
Bind ==
  /\ qemu = "starting" /\ ~hung
  /\ qemu' = "bound" /\ sock' = "live"
  /\ UNCHANGED <<test, hung, log, booted>>

Listen ==
  /\ qemu = "bound" /\ ~hung
  /\ qemu' = "listening"
  /\ UNCHANGED <<test, hung, sock, log, booted>>

(* The socket stays behind when QEMU ends in another way than by itself. *)
End ==
  /\ Alive
  /\ qemu' = "exited"
  /\ sock' \in {"absent", IF sock = "live" THEN "stale" ELSE sock}
  /\ UNCHANGED <<test, hung, log, booted>>

Hang ==
  /\ Alive /\ ~hung
  /\ hung' = TRUE
  /\ UNCHANGED <<test, qemu, sock, log, booted>>

GuestPrints ==
  /\ qemu = "running" /\ ~hung /\ ~booted
  /\ \E piece \in Pieces :
       /\ IF log # <<>> /\ log[Len(log)] = "start" THEN piece = "complete" ELSE piece # "complete"
       /\ piece = "line" => Len(log) < MaxLines
       /\ log' = Append(log, piece)
       /\ booted' = (piece \in {"complete", "start complete"})
  /\ UNCHANGED <<test, qemu, hung, sock>>

Machine == Bind \/ Listen \/ End \/ Hang \/ GuestPrints

(***************************************************************************)
(* start_qemu                                                              *)
(***************************************************************************)
Goto(next) == pc' = next /\ UNCHANGED raising

(* The finally of main: shutdown comes next in any case. *)
Raise(what) == pc' = "screendump" /\ raising' = what

(* cmake may fail, which is not looked at; it may be missing. *)
Build ==
  /\ pc = "build"
  /\ Goto("start") \/ Raise("no tool")
  /\ UNCHANGED <<connected, taken, elapsed, looked, signals, machine>>

StartQemu ==
  /\ pc = "start"
  /\ log' = <<>> /\ sock' = "absent" /\ qemu' = "starting"
  /\ Goto("socket")
  /\ UNCHANGED <<connected, taken, elapsed, looked, signals, hung, booted>>

(* Popen raises. *)
NoQemu ==
  /\ pc = "start"
  /\ log' = <<>> /\ sock' = "absent"
  /\ Raise("no tool")
  /\ UNCHANGED <<connected, taken, elapsed, looked, signals, qemu, hung, booted>>

FindSocket ==
  /\ pc = "socket" /\ sock # "absent"
  /\ Goto("connect")
  /\ UNCHANGED <<connected, taken, elapsed, looked, signals, machine>>

Connect ==
  /\ pc = "connect" /\ qemu = "listening" /\ ~hung
  /\ connected' = TRUE /\ qemu' = "paused"
  /\ Goto("cont")
  /\ UNCHANGED <<taken, elapsed, looked, signals, hung, sock, log, booted>>

(* Nobody listens: there is no second try. *)
ConnectFails ==
  /\ pc = "connect" /\ qemu \in {"bound", "exited"}
  /\ Raise("connect")
  /\ UNCHANGED <<connected, taken, elapsed, looked, signals, machine>>

Cont ==
  /\ pc = "cont" /\ qemu = "paused" /\ ~hung
  /\ qemu' = "running"
  /\ Goto("test")
  /\ UNCHANGED <<connected, taken, elapsed, looked, signals, hung, sock, log, booted>>

ContFails ==
  /\ pc = "cont" /\ qemu = "exited"
  /\ Raise("cont")
  /\ UNCHANGED <<connected, taken, elapsed, looked, signals, machine>>

(***************************************************************************)
(* wait_for_output                                                         *)
(***************************************************************************)
(* mutant: one turn too many *)
InTimeInclusive ==
  /\ pc = "test" /\ elapsed <= Timeout
  /\ Goto("readline")
  /\ UNCHANGED <<connected, taken, elapsed, looked, signals, machine>>

InTime ==
  /\ pc = "test" /\ elapsed < Timeout
  /\ Goto("readline")
  /\ UNCHANGED <<connected, taken, elapsed, looked, signals, machine>>

(* mutant: the loop's else is missing *)
TimeIsOverQuietly ==
  /\ pc = "test" /\ elapsed >= Timeout
  /\ Goto("screendump")
  /\ UNCHANGED <<connected, taken, elapsed, looked, signals, machine>>

TimeIsOver ==
  /\ pc = "test" /\ elapsed >= Timeout
  /\ Raise("timeout")
  /\ UNCHANGED <<connected, taken, elapsed, looked, signals, machine>>

(* readline: to the end of the line, or of the file. *)
LineEnd ==
  LET ends == {i \in taken + 1 .. Len(log) : log[i] \in EndOfLine}
  IN  IF ends = {} THEN Len(log) ELSE CHOOSE i \in ends : \A k \in ends : i <= k

(* mutant: only the line is searched *)
SeenInLine == HasMarker(SubSeq(log, taken + 1, taken'))
Seen == HasMarker(SubSeq(log, 1, taken'))

ReadLine ==
  /\ pc = "readline" /\ taken < Len(log)
  /\ taken' = LineEnd
  /\ Goto(IF Seen THEN "screendump" ELSE "test")
  /\ UNCHANGED <<connected, elapsed, looked, signals, machine>>

ReadNothing ==
  /\ pc = "readline" /\ taken = Len(log)
  /\ looked' = Len(log)
  /\ Goto("sleep")
  /\ UNCHANGED <<connected, taken, elapsed, signals, machine>>

(* mutant: start_time is set again in the loop *)
SleepAndRestart ==
  /\ pc = "sleep"
  /\ elapsed' = 0
  /\ Goto("test")
  /\ UNCHANGED <<connected, taken, looked, signals, machine>>

Sleep ==
  /\ pc = "sleep"
  /\ elapsed' = elapsed + 1
  /\ Goto("test")
  /\ UNCHANGED <<connected, taken, looked, signals, machine>>

(***************************************************************************)
(* shutdown and __exit__                                                   *)
(***************************************************************************)
(* execute returns, or raises; both errors are caught.  It waits for a QEMU  *)
(* that hangs.                                                               *)
Answers == ~(connected /\ Alive /\ hung)

Screendump ==
  /\ pc = "screendump" /\ Answers
  /\ Goto("quit")
  /\ UNCHANGED <<connected, taken, elapsed, looked, signals, machine>>

Quit ==
  /\ pc = "quit" /\ Answers
  /\ signals' = IF connected /\ Alive THEN signals \cup {"quit"} ELSE signals
  /\ Goto("wait")
  /\ UNCHANGED <<connected, taken, elapsed, looked, machine>>

(* qemu_process is None. *)
NothingToWaitFor ==
  /\ pc = "wait" /\ qemu = "none"
  /\ pc' = "done" /\ raising' = "attribute"
  /\ UNCHANGED <<connected, taken, elapsed, looked, signals, machine>>

Waits == {"wait", "wait after terminate", "wait after kill"}

Exited ==
  /\ pc \in Waits /\ qemu = "exited"
  /\ Goto("done")
  /\ UNCHANGED <<connected, taken, elapsed, looked, signals, machine>>

Expires(at, signal, next) ==
  /\ pc = at /\ Alive
  /\ signals' = signals \cup signal
  /\ Goto(next)
  /\ UNCHANGED <<connected, taken, elapsed, looked, machine>>

Terminate == Expires("wait", {"terminate"}, "wait after terminate")
KillNot == Expires("wait after terminate", {}, "done")     \* mutant: a deaf QEMU is left alone
Kill == Expires("wait after terminate", {"kill"}, "wait after kill")
GiveUp == Expires("wait after kill", {}, "done")

Test ==
  \/ Build \/ StartQemu \/ NoQemu \/ FindSocket \/ Connect \/ ConnectFails \/ Cont \/ ContFails
  \/ InTime \/ TimeIsOver \/ ReadLine \/ ReadNothing \/ Sleep
  \/ Screendump \/ Quit \/ NothingToWaitFor \/ Exited \/ Terminate \/ Kill \/ GiveUp

Next == Test \/ Machine

Spec == Init /\ [][Next]_vars

(* The test runs on; QEMU starts unless it hangs or ends, and obeys SIGKILL. *)
FairSpec ==
  /\ Spec /\ WF_vars(Test) /\ WF_vars(Bind \/ Listen)
  /\ WF_vars("kill" \in signals /\ End)

(***************************************************************************)
(* Properties                                                              *)
(***************************************************************************)
TypeOK ==
  /\ pc \in Waits \cup {"build", "start", "socket", "connect", "cont", "test", "readline",
                        "sleep", "screendump", "quit", "done"}
  /\ raising \in {"nothing", "no tool", "connect", "cont", "timeout", "attribute"}
  /\ connected \in BOOLEAN /\ hung \in BOOLEAN /\ booted \in BOOLEAN
  /\ taken \in 0 .. Len(log) /\ looked \in 0 .. Len(log)
  /\ elapsed \in 0 .. Timeout
  /\ qemu \in {"none", "starting", "bound", "listening", "paused", "running", "exited"}
  /\ signals \subseteq {"quit", "terminate", "kill"}
  /\ sock \in {"absent", "stale", "live"}
  /\ log \in Seq(Pieces)

(* The test succeeds only if the guest it started has printed its last line:  *)
(* not for a log, a socket or a guest of an earlier test, and not because its *)
(* time is over.                                                              *)
SuccessMeansBooted == pc = "done" /\ raising = "nothing" => booted

(* The time is over only for a guest that had not printed all of its last     *)
(* line when the test last looked, one turn before: however the line was cut, *)
(* and however many lines came at once.                                       *)
TimeoutMeansLate == raising = "timeout" => ~HasMarker(SubSeq(log, 1, looked))

(* The verdict is the guest's: neither an early success nor a late failure.   *)
VerdictIsTrue == SuccessMeansBooted /\ TimeoutMeansLate

(* QEMU does not outlive the test: whatever failed, it has ended or ends.     *)
QemuEndsWithTheTest == pc = "done" ~> ~Alive

(* The waits without a limit: for a socket nobody creates, and for the answer *)
(* of a QEMU that has accepted the connection and hangs.                      *)
WaitsWithoutLimit ==
  \/ pc = "socket" /\ sock = "absent" /\ (qemu = "exited" \/ hung)
  \/ pc = "connect" /\ qemu = "listening" /\ hung
  \/ pc = "cont" /\ qemu = "paused" /\ hung
  \/ pc \in {"screendump", "quit"} /\ ~Answers

(* The test ends within its limits, unless it stays in one of these waits:    *)
(* it goes on from there when QEMU ends after all, but for the socket.        *)
TestEnds == <>(pc = "done") \/ <>[]WaitsWithoutLimit

(* Nothing of the boot test is left over: the test ends, and QEMU with it.    *)
TestAndQemuEnd == TestEnds /\ QemuEndsWithTheTest
=============================================================================
