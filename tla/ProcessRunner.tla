---------------------------- MODULE ProcessRunner ----------------------------
(***************************************************************************)
(* ProcessRunner.run of the warning collector                              *)
(* (tools/src/warningcollector/__init__.py) beside the compiler it runs:   *)
(* the compiler writes to two pipes, run() waits for either with select    *)
(* and reads a line from each that is ready, through a buffer select does  *)
(* not know of.                                                            *)
(*                                                                         *)
(* A pipe's text is never removed from output: taken and fetched say how   *)
(* much of it run() has used and how much Python's buffer has taken in, so *)
(* the buffer and the pipe are the two stretches behind them.              *)
(***************************************************************************)
EXTENDS WarningCollector, FiniteSets

CONSTANTS
  PipeSize,      \* how much a pipe holds
  ChunkSize,     \* how much one read takes from it
  MaxParts,      \* bound: how much the compiler writes to each pipe
  Written        \* bound: what it writes there

ASSUME RunnerAssumption ==
  /\ PipeSize \in Nat \ {0} /\ ChunkSize \in Nat \ {0}
  /\ MaxParts \in [{"stdout", "stderr"} -> Nat]
  /\ Written \in [{"stdout", "stderr"} -> SUBSET Texts]

VARIABLES
  output,      \* what the compiler has written to each pipe: lines and beginnings of lines
  closed,      \* the pipes whose writing end is closed
  exited,      \* whether the compiler has ended, so that poll() says so
  writing,     \* what it cannot write before there is room in the pipe
  fetched,     \* how much of each output is out of the pipe
  taken,       \* how much of it readline() has returned
  pc,          \* where run() is
  ready,       \* ret[0], what select returned
  got,         \* the pipes a line came from in this turn
  collectors,  \* stdout_collector and stderr_collector
  file         \* the .warnings.json file, and the build it is of

vars == <<output, closed, exited, writing, fetched, taken, pc, ready, got,
          collectors, file>>
compiler == <<output, closed, exited, writing>>
runner == <<fetched, taken, pc, ready, got, collectors, file>>

Fds == {"stdout", "stderr"}
Nothing == <<>>

Init ==
  /\ output = [fd \in Fds |-> <<>>] /\ closed = {} /\ exited = FALSE
  /\ writing = Nothing
  /\ fetched = [fd \in Fds |-> 0] /\ taken = [fd \in Fds |-> 0]
  /\ pc = "select" /\ ready = {} /\ got = {}
  /\ collectors = [fd \in Fds |-> NewCollector]
  /\ file = [build |-> "earlier", warnings |-> <<>>]

InPipe(fd) == Len(output[fd]) - fetched[fd]
AtEnd(fd) == InPipe(fd) = 0 /\ fd \in closed

(***************************************************************************)
(* The compiler                                                            *)
(***************************************************************************)
Write(fd, part) ==
  /\ writing = Nothing /\ fd \notin closed /\ InPipe(fd) < PipeSize
  /\ Len(output[fd]) < MaxParts[fd]
  /\ output' = [output EXCEPT ![fd] = Append(@, part)]
  /\ UNCHANGED <<closed, exited, writing, runner>>

(* The pipe is full: the compiler waits, and writes nothing else. *)
WaitForRoom(fd, part) ==
  /\ writing = Nothing /\ fd \notin closed /\ InPipe(fd) = PipeSize
  /\ Len(output[fd]) < MaxParts[fd]
  /\ writing' = <<fd, part>>
  /\ UNCHANGED <<output, closed, exited, runner>>

WriteNow ==
  /\ writing # Nothing
  /\ LET fd == writing[1]
     IN  /\ InPipe(fd) < PipeSize
         /\ output' = [output EXCEPT ![fd] = Append(@, writing[2])]
  /\ writing' = Nothing
  /\ UNCHANGED <<closed, exited, runner>>

(* By the compiler, or one after the other when it exits. *)
Close(fd) ==
  /\ writing = Nothing /\ fd \notin closed
  /\ closed' = closed \cup {fd}
  /\ UNCHANGED <<output, exited, writing, runner>>

Exit ==
  /\ closed = Fds /\ ~exited
  /\ exited' = TRUE
  /\ UNCHANGED <<output, closed, writing, runner>>

Compiler ==
  \/ \E fd \in Fds, part \in Texts :
       part \in Written[fd] /\ (Write(fd, part) \/ WaitForRoom(fd, part))
  \/ WriteNow
  \/ \E fd \in Fds : Close(fd)
  \/ Exit

(***************************************************************************)
(* run()                                                                   *)
(***************************************************************************)
(* The lines Python's buffer holds the end of. *)
LineEnds(fd) == {i \in taken[fd] + 1 .. fetched[fd] : output[fd][i] \in Lines}

(* The for loop takes them in the order of reads. *)
After(fd) == IF fd = "stdout" /\ "stderr" \in ready THEN "stderr" ELSE "poll"

(* mutant: stdout_line and stderr_line keep the line of the turn before *)
SelectAndKeep ==
  /\ pc = "select"
  /\ ready' = {fd \in Fds : InPipe(fd) > 0 \/ AtEnd(fd)} /\ ready' # {}
  /\ pc' = IF "stdout" \in ready' THEN "stdout" ELSE "stderr"
  /\ UNCHANGED <<compiler, fetched, taken, got, collectors, file>>

(* select: a pipe is ready when a read of it would not wait. *)
Select ==
  /\ pc = "select"
  /\ ready' = {fd \in Fds : InPipe(fd) > 0 \/ AtEnd(fd)} /\ ready' # {}
  /\ got' = {}
  /\ pc' = IF "stdout" \in ready' THEN "stdout" ELSE "stderr"
  /\ UNCHANGED <<compiler, fetched, taken, collectors, file>>

(* readline has no whole line: it reads on. *)
Fetch(fd) ==
  /\ pc = fd /\ LineEnds(fd) = {} /\ InPipe(fd) > 0
  /\ fetched' = [fetched EXCEPT ![fd] = @ + (IF InPipe(fd) < ChunkSize THEN InPipe(fd) ELSE ChunkSize)]
  /\ UNCHANGED <<compiler, taken, pc, ready, got, collectors, file>>

(* readline returns the text up to the end-th part, and collect gets it. *)
TakeUpTo(fd, end, line) ==
  /\ taken' = [taken EXCEPT ![fd] = end]
  /\ collectors' = [collectors EXCEPT ![fd] = Collect(@, line)]
  /\ got' = got \cup {fd}
  /\ pc' = After(fd)
  /\ UNCHANGED <<compiler, fetched, ready, file>>

ReadLine(fd) ==
  /\ pc = fd /\ LineEnds(fd) # {}
  /\ \E end \in LineEnds(fd) :
       /\ \A i \in LineEnds(fd) : end <= i
       /\ TakeUpTo(fd, end, output[fd][end])

(* The last line has no newline. *)
ReadRest(fd) ==
  /\ pc = fd /\ LineEnds(fd) = {} /\ AtEnd(fd) /\ taken[fd] < fetched[fd]
  /\ TakeUpTo(fd, fetched[fd], Beginning)

ReadNothing(fd) ==
  /\ pc = fd /\ AtEnd(fd) /\ taken[fd] = fetched[fd]
  /\ pc' = After(fd)
  /\ UNCHANGED <<compiler, fetched, taken, ready, got, collectors, file>>

OverWhenExited == exited                  \* mutant: what is still to be read is not waited for
OverWhenSilent == exited /\ ready = {}    \* mutant: a pipe at its end is never ready
Over == exited /\ got = {}

Poll ==
  /\ pc = "poll"
  /\ pc' = IF Over THEN "report" ELSE "select"
  /\ UNCHANGED <<compiler, fetched, taken, ready, got, collectors, file>>

(* merge and dump_to_json_file, which writes nothing when there is nothing *)
Merged == Merge(Merge(<<>>, collectors["stdout"]), collectors["stderr"])

Report ==
  /\ pc = "report"
  /\ file' = IF Merged = <<>> THEN file ELSE [build |-> "this", warnings |-> Merged]
  /\ pc' = "done"
  /\ UNCHANGED <<compiler, fetched, taken, ready, got, collectors>>

(* The command has no -o: get_output_file() is None, None + '.' raises, and  *)
(* the exit status of the compiler is not passed on.                         *)
ReportFails ==
  /\ pc = "report"
  /\ pc' = "failed"
  /\ UNCHANGED <<compiler, fetched, taken, ready, got, collectors, file>>

Run ==
  \/ Select
  \/ \E fd \in Fds : Fetch(fd) \/ ReadLine(fd) \/ ReadRest(fd) \/ ReadNothing(fd)
  \/ Poll \/ Report \/ ReportFails

Next == Compiler \/ Run

Spec == Init /\ [][Next]_vars
FairSpec == Spec /\ WF_vars(Compiler) /\ WF_vars(Run)

(***************************************************************************)
(* Properties                                                              *)
(***************************************************************************)
TypeOK ==
  /\ output \in [Fds -> Seq(Texts)] /\ closed \subseteq Fds /\ exited \in BOOLEAN
  /\ writing \in (Fds \X Texts) \cup {Nothing}
  /\ fetched \in [Fds -> Nat] /\ taken \in [Fds -> Nat]
  /\ \A fd \in Fds : taken[fd] <= fetched[fd] /\ fetched[fd] <= Len(output[fd])
  /\ pc \in Fds \cup {"select", "poll", "report", "done", "failed"}
  /\ ready \subseteq Fds /\ got \subseteq ready
  /\ collectors \in [Fds -> Collector]
  /\ file.build \in {"earlier", "this"}

Ended == pc \in {"report", "done", "failed"}

(* Lines are lost only in one case: the compiler has ended, they are from a   *)
(* pipe the last select did not report, and the other pipe, which it did, had *)
(* nothing left.  What the last select reported is read to its end.           *)
LostOnlyBehindTheOther ==
  Ended => /\ exited
           /\ \A fd \in Fds : taken[fd] < Len(output[fd]) => ready = Fds \ {fd}
           /\ \A fd \in ready : taken[fd] = Len(output[fd])

(* The lines of a pipe run() has taken, by their places in its output. *)
LinesTaken(fd) == {i \in 1 .. taken[fd] : output[fd][i] \in Lines}
MatchesTaken(fd) == {i \in LinesTaken(fd) : output[fd][i] \in Matching}

(* The place's warning or note in the collector. *)
RecordOf(fd, i) == Cardinality({k \in MatchesTaken(fd) : k <= i})

(* The lines that continue the warning at i are followed by one that ends it, *)
(* and not by a warning or note that is indented itself.                      *)
EndsBefore(fd, i, j) ==
  \E k \in LinesTaken(fd) :
    /\ i < k /\ k <= j /\ output[fd][k] \notin Indented
    /\ \A m \in i + 1 .. k - 1 : output[fd][m] \notin Matching

(* A note is kept with the warning it follows in the same stream, whatever    *)
(* lies between them; a note with no warning before it is a warning of its    *)
(* own.  (An indented note directly under a warning is not of that kind:      *)
(* collect takes it for a continuation and does not let the warning end.)     *)
NotesFollowTheirWarning ==
  \A fd \in Fds : \A j \in MatchesTaken(fd) :
    output[fd][j] \in Notes =>
      LET before == {i \in MatchesTaken(fd) : i < j /\ output[fd][i] \notin Notes}
          of == collectors[fd].recs[RecordOf(fd, j)].of
      IN  IF before = {} THEN of = 0
          ELSE LET i == CHOOSE i \in before : \A k \in before : k <= i
               IN  EndsBefore(fd, i, j) => of = RecordOf(fd, i)

(* The file this build writes has each warning once, with the number of times *)
(* it was in both streams, as far as they were read; a build without warnings *)
(* leaves the file of an earlier one.                                         *)
CountsAddUp ==
  pc = "done" =>
    LET TimesIn(fd, t) == Cardinality({i \in LinesTaken(fd) : output[fd][i] = t})
        Times(t) == TimesIn("stdout", t) + TimesIn("stderr", t)
        Entries(t) == {i \in DOMAIN file.warnings : file.warnings[i].text = t}
    IN  IF file.build = "this"
        THEN \A t \in Matching \ Notes :
               IF Times(t) = 0 THEN Entries(t) = {}
               ELSE \E i \in Entries(t) : Entries(t) = {i} /\ file.warnings[i].count = Times(t)
        ELSE \A t \in Matching : Times(t) = 0

(* readline waits for the rest of a line, which the compiler will not write   *)
(* before the other pipe is read.                                             *)
StuckInALine ==
  \E fd, other \in Fds :
    /\ pc = fd /\ LineEnds(fd) = {} /\ InPipe(fd) = 0 /\ fd \notin closed
    /\ taken[fd] < fetched[fd]
    /\ writing # Nothing /\ writing[1] = other /\ InPipe(other) = PipeSize

(* run() ends, unless both wait for each other in the middle of a line: never *)
(* on a compiler that writes its lines whole.                                 *)
RunEnds == <>(pc \in {"done", "failed"} \/ StuckInALine)
=============================================================================
