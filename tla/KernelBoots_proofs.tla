-------------------------- MODULE KernelBoots_proofs --------------------------
(***************************************************************************)
(* The verdict of the boot test, proved for every timeout and every number *)
(* of lines: it succeeds only for a guest that has booted, and its time is *)
(* over only for one that had not when the test last looked.               *)
(***************************************************************************)
EXTENDS KernelBoots, FiniteSetTheorems, WellFoundedInduction, SequenceTheorems, TLAPS

(***************************************************************************)
(* The inductive invariant                                                 *)
(***************************************************************************)
Starting == {"build", "start", "socket", "connect", "cont"}
Reading == {"test", "readline", "sleep"}
Ending == {"screendump", "quit", "done"} \cup Waits

(* Nothing has gone wrong while it starts QEMU and reads the log. *)
NothingRaised == pc \in Starting \cup Reading => raising = "nothing"

(* Nothing is read before the guest goes, nor QEMU there before it starts. *)
NothingTaken == pc \in Starting => taken = 0 /\ looked = 0
NoQemuYet == pc \in {"build", "start"} => qemu = "none" /\ ~booted
QemuThere == pc \in {"socket", "connect", "cont"} \cup Reading => qemu # "none"

(* A turn begins in time. *)
TurnInTime == pc \in {"readline", "sleep"} => elapsed < Timeout

(* The log is of the guest that was started. *)
MarkerMeansBooted == qemu # "none" /\ HasMarker(log) => booted

(* What was read so far does not have the marker; it is what was looked at. *)
NotSeenYet == pc \in Reading => ~HasMarker(SubSeq(log, 1, taken))
LookedAtWhatWasTaken == looked <= taken

(* The test ends without an error only when it has seen the marker. *)
SuccessSeen == pc \in Ending /\ raising = "nothing" => booted

IInv ==
  /\ TypeOK
  /\ NothingRaised /\ NothingTaken /\ NoQemuYet /\ QemuThere /\ TurnInTime
  /\ MarkerMeansBooted /\ NotSeenYet /\ LookedAtWhatWasTaken
  /\ SuccessSeen /\ TimeoutMeansLate

(***************************************************************************)
(* Lemmas                                                                  *)
(***************************************************************************)

(* A set of natural numbers that is not empty has a least element: of the     *)
(* intervals from 0 to its elements, one is smallest.                         *)
LEMMA LeastNatural ==
  ASSUME NEW T \in SUBSET Nat, T # {}
  PROVE  \E i \in T : \A k \in T : i <= k
<1> DEFINE Below == {0 .. i : i \in T}
<1>1. Below \subseteq FiniteSubsetsOf(Nat)
  <2>1. ASSUME NEW i \in T PROVE 0 .. i \in SUBSET Nat /\ IsFiniteSet(0 .. i)
    <3>1. 0 \in Int /\ i \in Int
      OBVIOUS
    <3>2. IsFiniteSet(0 .. i)
      BY <3>1, FS_Interval
    <3> QED
      BY <3>2
  <2> QED
    BY <2>1 DEF FiniteSubsetsOf
<1>2. PICK D \in Below : \A E \in Below : <<E, D>> \notin StrictSubsetOrdering(Nat)
  <2>1. Below # {}
    OBVIOUS
  <2> HIDE DEF Below
  <2> QED
    BY <1>1, <2>1, FS_StrictSubsetOrderingWellFounded, WFMin
<1>3. PICK i \in T : D = 0 .. i
  OBVIOUS
<1>4. ASSUME NEW k \in T, k < i PROVE FALSE
  <2>1. 0 .. k \in SUBSET Nat /\ 0 .. i \in SUBSET Nat
    BY <1>4
  <2>2. 0 .. k \subseteq 0 .. i /\ i \in 0 .. i /\ i \notin 0 .. k
    BY <1>4
  <2>3. <<0 .. k, 0 .. i>> \in StrictSubsetOrdering(Nat)
    BY <2>1, <2>2 DEF StrictSubsetOrdering
  <2> QED
    BY <1>2, <1>3, <2>3
<1> QED
  BY <1>4

(* readline takes at least one piece of a log that has more, and none that    *)
(* the log does not have.                                                     *)
LEMMA LineEndInLog ==
  ASSUME log \in Seq(Pieces), taken \in Nat, taken < Len(log)
  PROVE  LineEnd \in taken + 1 .. Len(log)
<1> DEFINE ends == {i \in taken + 1 .. Len(log) : log[i] \in EndOfLine}
<1>1. CASE ends = {}
  BY <1>1 DEF LineEnd
<1>2. CASE ends # {}
  <2>1. ends \in SUBSET Nat
    OBVIOUS
  <2>2. \E i \in ends : \A k \in ends : i <= k
    <3> HIDE DEF ends
    <3> QED
      BY <1>2, <2>1, LeastNatural
  <2>3. LineEnd \in ends
    BY <1>2, <2>2 DEF LineEnd
  <2> QED
    BY <2>3
<1> QED
  BY <1>1, <1>2

(* The marker in what was read of a text, in terms of the text. *)
MarkerWithin(text, n) ==
  \E i \in 1 .. n :
    \/ text[i] = "start complete"
    \/ text[i] = "start" /\ i < n /\ text[i + 1] = "complete"

LEMMA MarkerInPrefix ==
  ASSUME NEW text \in Seq(Pieces), NEW n \in 0 .. Len(text)
  PROVE  HasMarker(SubSeq(text, 1, n)) <=> MarkerWithin(text, n)
<1> DEFINE s == SubSeq(text, 1, n)
<1>1. Len(s) = n /\ DOMAIN s = 1 .. n /\ \A i \in 1 .. n : s[i] = text[i]
  BY SubSeqProperties
<1> HIDE DEF s
<1>2. \A i \in 1 .. n : i < n => i + 1 \in 1 .. n
  OBVIOUS
<1>3. HasMarker(s) <=> MarkerWithin(text, n)
  BY <1>1, <1>2, Zenon DEF HasMarker, MarkerWithin
<1> QED
  BY <1>3 DEF s

LEMMA MarkerInWhole ==
  ASSUME NEW text \in Seq(Pieces)
  PROVE  HasMarker(text) <=> MarkerWithin(text, Len(text))
<1>1. DOMAIN text = 1 .. Len(text)
  OBVIOUS
<1> QED
  BY <1>1, Zenon DEF HasMarker, MarkerWithin

LEMMA NoMarkerInNothing == ASSUME NEW text PROVE ~MarkerWithin(text, 0)
<1>1. \A i \in 1 .. 0 : FALSE
  OBVIOUS
<1> QED
  BY <1>1, Zenon DEF MarkerWithin

LEMMA MarkerGrows ==
  ASSUME NEW text, NEW n \in Nat, NEW m \in Nat, m <= n, MarkerWithin(text, m)
  PROVE  MarkerWithin(text, n)
<1>1. \A i \in 1 .. m : i \in 1 .. n /\ (i < m => i < n)
  OBVIOUS
<1> QED
  BY <1>1, Zenon DEF MarkerWithin

(* What the type invariant says of the log and of what was read of it. *)
LEMMA LogTypes ==
  ASSUME TypeOK
  PROVE  /\ log \in Seq(Pieces) /\ Len(log) \in Nat
         /\ taken \in 0 .. Len(log) /\ looked \in 0 .. Len(log)
         /\ taken \in Nat /\ looked \in Nat /\ taken <= Len(log) /\ looked <= Len(log)
<1>1. log \in Seq(Pieces) /\ taken \in 0 .. Len(log) /\ looked \in 0 .. Len(log)
  BY Zenon DEF TypeOK
<1>2. Len(log) \in Nat
  BY <1>1, LenProperties
<1> QED
  BY <1>1, <1>2

(* What the guest prints next does not change what was read. *)
LEMMA MarkerBeforeAppend ==
  ASSUME NEW text \in Seq(Pieces), NEW piece \in Pieces, NEW n \in 0 .. Len(text)
  PROVE  MarkerWithin(Append(text, piece), n) <=> MarkerWithin(text, n)
<1>1. \A i \in 1 .. n : Append(text, piece)[i] = text[i] /\ (i < n => i + 1 \in 1 .. n)
  BY AppendProperties
<1> QED
  BY <1>1, Zenon DEF MarkerWithin

(***************************************************************************)
(* The proof                                                               *)
(***************************************************************************)

LEMMA InitInv == Init => IInv
<1> SUFFICES ASSUME Init PROVE IInv
  OBVIOUS
<1>1. <<>> \in Seq(Pieces) /\ <<"line", "start complete">> \in Seq(Pieces)
  BY DEF Pieces
<1>2. log \in Seq(Pieces) /\ Len(log) \in Nat
  BY <1>1 DEF Init
<1>3. /\ pc = "build" /\ raising = "nothing" /\ connected = FALSE
      /\ taken = 0 /\ elapsed = 0 /\ looked = 0
      /\ qemu = "none" /\ hung = FALSE /\ signals = {}
      /\ sock \in {"absent", "stale"} /\ booted = FALSE
  BY DEF Init
<1>4. TypeOK
  <2>1. taken \in 0 .. Len(log) /\ looked \in 0 .. Len(log) /\ elapsed \in 0 .. Timeout
    BY <1>2, <1>3, BootAssumption
  <2>2. connected \in BOOLEAN /\ hung \in BOOLEAN /\ booted \in BOOLEAN
    BY <1>3
  <2> QED
    BY <1>2, <1>3, <2>1, <2>2, Zenon DEF TypeOK
<1>5. NothingRaised /\ NothingTaken /\ NoQemuYet /\ QemuThere /\ TurnInTime /\ MarkerMeansBooted
  BY <1>3 DEF NothingRaised, NothingTaken, NoQemuYet, QemuThere, TurnInTime, MarkerMeansBooted,
              Starting, Reading
<1>6. NotSeenYet /\ LookedAtWhatWasTaken /\ SuccessSeen /\ TimeoutMeansLate
  BY <1>3 DEF NotSeenYet, LookedAtWhatWasTaken, SuccessSeen, TimeoutMeansLate, Reading, Ending, Waits
<1> QED
  BY <1>4, <1>5, <1>6 DEF IInv

(* The test goes on from one of its parts to the next, or raises an error,    *)
(* and begins a turn in time.                                                 *)
GoesOn ==
  /\ pc' \in Starting \cup Reading => pc \in Starting \cup Reading /\ raising' = raising
  /\ pc' \in Starting => pc \in Starting
  /\ pc' \in {"build", "start"} => pc \in {"build", "start"}
  /\ pc' \in {"socket", "connect", "cont"} \cup Reading => pc \in {"socket", "connect", "cont"} \cup Reading
  /\ pc' \in Reading => pc \in Reading
  /\ pc' \in {"readline", "sleep"} => elapsed' < Timeout
  /\ pc' \in Ending /\ raising' = "nothing" => pc \in Ending /\ raising = "nothing"
  /\ raising' = "timeout" => raising = "timeout"

LEMMA GoesOnInv ==
  ASSUME IInv, GoesOn, TypeOK', UNCHANGED <<taken, looked, machine>>
  PROVE  IInv'
<1> USE DEF IInv
<1>1. taken' = taken /\ looked' = looked /\ qemu' = qemu /\ log' = log /\ booted' = booted
  BY DEF machine
<1>2. (NothingRaised /\ NothingTaken /\ NoQemuYet /\ QemuThere)'
  BY <1>1, Zenon DEF GoesOn, NothingRaised, NothingTaken, NoQemuYet, QemuThere
<1>3. (TurnInTime /\ MarkerMeansBooted /\ NotSeenYet)'
  BY <1>1, Zenon DEF GoesOn, TurnInTime, MarkerMeansBooted, NotSeenYet
<1>4. (LookedAtWhatWasTaken /\ SuccessSeen /\ TimeoutMeansLate)'
  BY <1>1, Zenon DEF GoesOn, LookedAtWhatWasTaken, SuccessSeen, TimeoutMeansLate
<1> QED
  BY <1>2, <1>3, <1>4

(* A step of the test that leaves QEMU and the log alone, and what it has     *)
(* read of it, keeps what is said of them.                                    *)
LEMMA TestStepInv ==
  ASSUME IInv,
         \/ Build \/ FindSocket \/ ConnectFails \/ ContFails \/ InTime \/ Sleep
         \/ Screendump \/ Quit \/ NothingToWaitFor \/ Exited \/ Terminate \/ Kill \/ GiveUp
  PROVE  IInv'
<1> DEFINE PcType == pc \in Waits \cup {"build", "start", "socket", "connect", "cont", "test",
                                        "readline", "sleep", "screendump", "quit", "done"}
           RaisingType == raising \in {"nothing", "no tool", "connect", "cont", "timeout", "attribute"}
           Rest == UNCHANGED <<taken, looked, connected, machine>>
<1>1. PcType /\ RaisingType /\ elapsed \in 0 .. Timeout /\ signals \subseteq {"quit", "terminate", "kill"}
  BY DEF IInv, TypeOK
<1>2. NothingRaised /\ TurnInTime /\ SuccessSeen
  BY DEF IInv
<1> DEFINE Step == /\ GoesOn /\ PcType' /\ RaisingType' /\ elapsed' \in 0 .. Timeout
                   /\ signals' \subseteq {"quit", "terminate", "kill"} /\ Rest
<1> USE DEF Goto, Raise, Waits, Starting, Reading, Ending, NothingRaised, TurnInTime
<1>3. Build => Step
  BY <1>1, <1>2 DEF Build, GoesOn
<1>4. FindSocket => Step
  BY <1>1, <1>2 DEF FindSocket, GoesOn
<1>5. ConnectFails => Step
  BY <1>1, <1>2 DEF ConnectFails, GoesOn
<1>6. ContFails => Step
  BY <1>1, <1>2 DEF ContFails, GoesOn
<1>7. InTime => Step
  BY <1>1, <1>2 DEF InTime, GoesOn
<1>8. Sleep => Step
  BY <1>1, <1>2, BootAssumption DEF Sleep, GoesOn
<1>9. Screendump => Step
  BY <1>1, <1>2 DEF Screendump, GoesOn
<1>10. Quit => Step
  BY <1>1, <1>2 DEF Quit, GoesOn
<1>11. NothingToWaitFor => Step
  BY <1>1, <1>2 DEF NothingToWaitFor, GoesOn
<1>12. Exited => Step
  BY <1>1, <1>2 DEF Exited, GoesOn
<1>13. Terminate => Step
  BY <1>1, <1>2 DEF Terminate, Expires, GoesOn
<1>14. Kill => Step
  BY <1>1, <1>2 DEF Kill, Expires, GoesOn
<1>15. GiveUp => Step
  BY <1>1, <1>2 DEF GiveUp, Expires, GoesOn
<1>16. Step
  BY <1>3, <1>4, <1>5, <1>6, <1>7, <1>8, <1>9, <1>10, <1>11, <1>12, <1>13, <1>14, <1>15
<1>17. TypeOK'
  <2>1. UNCHANGED <<taken, looked, connected, hung, booted, qemu, sock, log>>
    BY <1>16 DEF machine
  <2> HIDE DEF Waits
  <2> QED
    BY <1>16, <2>1, Zenon DEF IInv, TypeOK
<1> QED
  BY <1>16, <1>17, GoesOnInv

(* QEMU is started, or is not: the log is empty, and nothing of it was read.  *)
LEMMA StartInv == ASSUME IInv, StartQemu \/ NoQemu PROVE IInv'
<1> USE DEF IInv
<1>1. log' = <<>> /\ sock' = "absent" /\ pc = "start"
  BY DEF StartQemu, NoQemu
<1>2. log' \in Seq(Pieces) /\ Len(log') = 0
  BY <1>1
<1>3. ~HasMarker(log')
  BY <1>1 DEF HasMarker
<1>4. taken = 0 /\ looked = 0 /\ ~booted /\ qemu = "none" /\ raising = "nothing"
  BY <1>1 DEF NothingTaken, NoQemuYet, NothingRaised, Starting
<1>5. /\ UNCHANGED <<connected, taken, elapsed, looked, signals, hung, booted>>
      /\ \/ pc' = "socket" /\ raising' = raising /\ qemu' = "starting"
         \/ pc' = "screendump" /\ raising' = "no tool" /\ qemu' = qemu
  BY DEF StartQemu, NoQemu, Goto, Raise
<1>6. TypeOK'
  <2>1. taken' = 0 /\ looked' = 0
    BY <1>4, <1>5, Zenon
  <2>2. taken' \in 0 .. Len(log') /\ looked' \in 0 .. Len(log')
    BY <1>2, <2>1
  <2> QED
    BY <1>1, <1>2, <1>4, <1>5, <2>2, Zenon DEF TypeOK
<1>7. (NothingRaised /\ NothingTaken /\ NoQemuYet /\ QemuThere /\ TurnInTime /\ MarkerMeansBooted)'
  BY <1>3, <1>4, <1>5
  DEF NothingRaised, NothingTaken, NoQemuYet, QemuThere, TurnInTime, MarkerMeansBooted, Starting, Reading
<1>8. (NotSeenYet /\ LookedAtWhatWasTaken /\ SuccessSeen /\ TimeoutMeansLate)'
  BY <1>4, <1>5
  DEF NotSeenYet, LookedAtWhatWasTaken, SuccessSeen, TimeoutMeansLate, Reading, Ending, Waits
<1> QED
  BY <1>6, <1>7, <1>8

(* Connected, let go: the log is not read yet. *)
LEMMA ConnectInv == ASSUME IInv, Connect \/ Cont PROVE IInv'
<1> USE DEF IInv
<1> USE DEF TypeOK, NothingRaised, NothingTaken, NoQemuYet, QemuThere, TurnInTime, MarkerMeansBooted,
            LookedAtWhatWasTaken, SuccessSeen, TimeoutMeansLate,
            Starting, Reading, Ending, Waits, Goto
<1>1. CASE Connect
  BY <1>1 DEF Connect, NotSeenYet
<1>2. CASE Cont
  <2>1. taken = 0 /\ taken' = 0 /\ log' = log
    BY <1>2 DEF Cont
  <2>2. ~MarkerWithin(log, 0)
    BY NoMarkerInNothing
  <2>3. NotSeenYet'
    BY <2>1, <2>2, MarkerInPrefix DEF NotSeenYet
  <2> QED
    BY <1>2, <2>3 DEF Cont
<1> QED
  BY <1>1, <1>2

(* The time is over: what was looked at is within what was read. *)
LEMMA TimeIsOverInv == ASSUME IInv, TimeIsOver PROVE IInv'
<1> USE DEF IInv
<1>1. ~MarkerWithin(log, taken)
  BY LogTypes, MarkerInPrefix DEF TimeIsOver, NotSeenYet, Reading
<1>2. ~MarkerWithin(log, looked)
  <2>1. looked \in Nat /\ taken \in Nat /\ looked <= taken
    BY LogTypes DEF LookedAtWhatWasTaken
  <2> QED
    BY <1>1, <2>1, MarkerGrows
<1>3. ~HasMarker(SubSeq(log, 1, looked))
  BY <1>2, LogTypes, MarkerInPrefix
<1>4. TimeoutMeansLate'
  BY <1>3 DEF TimeoutMeansLate, TimeIsOver, machine
<1> QED
  BY <1>4
  DEF TimeIsOver, TypeOK, NothingRaised, NothingTaken, NoQemuYet, QemuThere, TurnInTime,
      MarkerMeansBooted, NotSeenYet, LookedAtWhatWasTaken, SuccessSeen,
      Starting, Reading, Ending, Waits, Raise, machine

(* A line is read: it has the marker, then the guest has booted, or not.      *)
LEMMA ReadLineInv == ASSUME IInv, ReadLine PROVE IInv'
<1> USE DEF IInv
<1>1. taken' \in taken + 1 .. Len(log) /\ taken' \in 0 .. Len(log)
  <2>1. log \in Seq(Pieces) /\ taken \in Nat /\ taken < Len(log) /\ taken' = LineEnd
    BY LogTypes DEF ReadLine
  <2>2. taken' \in taken + 1 .. Len(log)
    BY <2>1, LineEndInLog
  <2> QED
    BY <2>1, <2>2
<1>2. /\ pc = "readline" /\ UNCHANGED <<connected, elapsed, looked, signals, machine>>
      /\ raising' = raising /\ pc' = (IF Seen THEN "screendump" ELSE "test")
  BY DEF ReadLine, Goto
<1>3. Seen => booted
  <2>1. SUFFICES ASSUME HasMarker(SubSeq(log, 1, taken')) PROVE booted
    BY DEF Seen
  <2>2. MarkerWithin(log, taken')
    BY <1>1, <2>1, MarkerInPrefix DEF TypeOK
  <2>3. MarkerWithin(log, Len(log))
    <3>1. taken' \in Nat /\ Len(log) \in Nat /\ taken' <= Len(log)
      BY <1>1, LogTypes
    <3> QED
      BY <2>2, <3>1, MarkerGrows
  <2>4. HasMarker(log)
    BY <2>3, MarkerInWhole DEF TypeOK
  <2> QED
    BY <1>2, <2>4 DEF MarkerMeansBooted, QemuThere, Reading
<1>4. NotSeenYet'
  BY <1>2 DEF NotSeenYet, Seen, Reading, machine
<1>5. TypeOK'
  BY <1>1, <1>2 DEF TypeOK, Waits, machine
<1>6. (NothingRaised /\ NothingTaken /\ NoQemuYet /\ QemuThere /\ TurnInTime /\ MarkerMeansBooted)'
  BY <1>2
  DEF NothingRaised, NothingTaken, NoQemuYet, QemuThere, TurnInTime, MarkerMeansBooted, Starting,
      Reading, machine
<1>7. (LookedAtWhatWasTaken /\ SuccessSeen /\ TimeoutMeansLate)'
  BY <1>1, <1>2, <1>3
  DEF TypeOK, LookedAtWhatWasTaken, SuccessSeen, TimeoutMeansLate, NothingRaised, Reading, Ending, Waits, machine
<1> QED
  BY <1>4, <1>5, <1>6, <1>7

LEMMA ReadNothingInv == ASSUME IInv, ReadNothing PROVE IInv'
BY DEF ReadNothing, IInv, TypeOK, NothingRaised, NothingTaken, NoQemuYet, QemuThere, TurnInTime,
       MarkerMeansBooted, NotSeenYet, LookedAtWhatWasTaken, SuccessSeen, TimeoutMeansLate,
       Starting, Reading, Ending, Waits, Goto, machine

LEMMA TestIsBoolean == \A e, S : (e \in S) \in BOOLEAN
OBVIOUS

(* QEMU: only its state and its socket change. *)
LEMMA QemuInv == ASSUME IInv, Bind \/ Listen \/ End \/ Hang PROVE IInv'
<1> USE DEF IInv
<1>1. UNCHANGED <<pc, raising, connected, taken, elapsed, looked, signals, log, booted>>
  BY DEF Bind, Listen, End, Hang, test
<1>2. qemu # "none" /\ qemu' # "none"
  BY DEF Bind, Listen, End, Hang, Alive
<1>3. qemu' \in {"bound", "listening", "exited", qemu} /\ hung' \in {TRUE, hung}
      /\ sock' \in {"live", "absent", "stale", sock}
  BY Zenon DEF Bind, Listen, End, Hang
<1>4. TypeOK'
  <2>1. /\ qemu' \in {"none", "starting", "bound", "listening", "paused", "running", "exited"}
        /\ sock' \in {"absent", "stale", "live"}
    BY <1>3 DEF TypeOK
  <2>2. hung' \in BOOLEAN
    BY <1>3, Zenon DEF TypeOK
  <2> QED
    BY <1>1, <2>1, <2>2, Zenon DEF TypeOK
<1>5. (NothingRaised /\ NothingTaken /\ NoQemuYet /\ QemuThere /\ TurnInTime /\ MarkerMeansBooted)'
  BY <1>1, <1>2, Zenon
  DEF NothingRaised, NothingTaken, NoQemuYet, QemuThere, TurnInTime, MarkerMeansBooted
<1>6. (NotSeenYet /\ LookedAtWhatWasTaken /\ SuccessSeen /\ TimeoutMeansLate)'
  BY <1>1, Zenon DEF NotSeenYet, LookedAtWhatWasTaken, SuccessSeen, TimeoutMeansLate
<1> QED
  BY <1>4, <1>5, <1>6

(* The guest prints: the marker is in the log when its last line is whole.    *)
LEMMA GuestPrintsInv == ASSUME IInv, GuestPrints PROVE IInv'
<1> USE DEF IInv
<1>1. PICK piece \in Pieces :
        /\ log' = Append(log, piece)
        /\ booted' = (piece \in {"complete", "start complete"})
  BY DEF GuestPrints
<1>2. qemu = "running" /\ ~booted /\ UNCHANGED <<test, qemu, hung, sock>>
  BY DEF GuestPrints
<1>3. UNCHANGED <<pc, raising, connected, taken, elapsed, looked, signals, qemu, hung, sock>>
  BY <1>2 DEF test
<1>4. /\ log' \in Seq(Pieces) /\ Len(log') = Len(log) + 1
      /\ log'[Len(log) + 1] = piece /\ \A i \in 1 .. Len(log) : log'[i] = log[i]
  <2>1. log \in Seq(Pieces) /\ log' = Append(log, piece)
    BY <1>1, LogTypes
  <2> QED
    BY <2>1, AppendProperties
<1>5. TypeOK'
  <2>1. taken' \in 0 .. Len(log') /\ looked' \in 0 .. Len(log')
    BY <1>3, <1>4, LogTypes
  <2>2. booted' \in BOOLEAN
    BY <1>1, TestIsBoolean, Zenon
  <2>3. TypeOK /\ log' \in Seq(Pieces)
    BY <1>4
  <2>4. /\ pc' = pc /\ raising' = raising /\ qemu' = qemu /\ signals' = signals /\ sock' = sock
        /\ connected' = connected /\ hung' = hung /\ elapsed' = elapsed
    BY <1>3
  <2> QED
    BY <2>1, <2>2, <2>3, <2>4, ZenonT(60) DEF TypeOK
<1>6. MarkerMeansBooted'
  <2>1. SUFFICES ASSUME HasMarker(log'), piece \notin {"complete", "start complete"} PROVE FALSE
    BY <1>1 DEF MarkerMeansBooted
  <2>2. ~MarkerWithin(log, Len(log))
    BY <1>2, LogTypes, MarkerInWhole DEF MarkerMeansBooted
  <2>3. MarkerWithin(log', Len(log) + 1)
    BY <1>4, <2>1, MarkerInWhole
  <2>4. PICK i \in 1 .. Len(log) + 1 :
          \/ log'[i] = "start complete"
          \/ log'[i] = "start" /\ i < Len(log) + 1 /\ log'[i + 1] = "complete"
    BY <2>3, Zenon DEF MarkerWithin
  <2>5. piece # "complete" /\ piece # "start complete"
    BY <2>1
  <2>6. CASE log'[i] = "start complete"
    <3>1. i # Len(log) + 1
      BY <1>4, <2>5, <2>6, Zenon
    <3>2. i \in 1 .. Len(log)
      BY <3>1, LogTypes
    <3>3. log[i] = "start complete"
      BY <1>4, <2>6, <3>2, Zenon
    <3> QED
      BY <2>2, <3>2, <3>3, Zenon DEF MarkerWithin
  <2>7. CASE log'[i] = "start" /\ i < Len(log) + 1 /\ log'[i + 1] = "complete"
    <3>1. i + 1 # Len(log) + 1
      BY <1>4, <2>5, <2>7, Zenon
    <3>2. i \in 1 .. Len(log) /\ i + 1 \in 1 .. Len(log) /\ i < Len(log)
      BY <2>7, <3>1, LogTypes
    <3>3. log[i] = "start" /\ log[i + 1] = "complete"
      BY <1>4, <2>7, <3>2, Zenon
    <3> QED
      BY <2>2, <3>2, <3>3, Zenon DEF MarkerWithin
  <2> QED
    BY <2>4, <2>6, <2>7
<1>7. NotSeenYet' /\ TimeoutMeansLate'
  <2>1. ASSUME NEW n \in 0 .. Len(log)
        PROVE  HasMarker(SubSeq(log', 1, n)) <=> HasMarker(SubSeq(log, 1, n))
    <3>1. n \in 0 .. Len(log')
      BY <1>4, LogTypes
    <3>2. HasMarker(SubSeq(log', 1, n)) <=> MarkerWithin(log', n)
      BY <1>4, <3>1, MarkerInPrefix
    <3>3. HasMarker(SubSeq(log, 1, n)) <=> MarkerWithin(log, n)
      BY LogTypes, MarkerInPrefix
    <3>4. MarkerWithin(log', n) <=> MarkerWithin(log, n)
      BY <1>1, LogTypes, MarkerBeforeAppend
    <3> QED
      BY <3>2, <3>3, <3>4
  <2>2. /\ HasMarker(SubSeq(log', 1, taken)) <=> HasMarker(SubSeq(log, 1, taken))
        /\ HasMarker(SubSeq(log', 1, looked)) <=> HasMarker(SubSeq(log, 1, looked))
    BY <2>1, LogTypes
  <2> QED
    BY <1>3, <2>2 DEF NotSeenYet, TimeoutMeansLate
<1>8. (NothingRaised /\ NothingTaken /\ NoQemuYet /\ QemuThere /\ TurnInTime)'
  BY <1>2, <1>3 DEF NothingRaised, NothingTaken, NoQemuYet, QemuThere, TurnInTime
<1>9. (LookedAtWhatWasTaken /\ SuccessSeen)'
  BY <1>2, <1>3 DEF LookedAtWhatWasTaken, SuccessSeen
<1> QED
  BY <1>5, <1>6, <1>7, <1>8, <1>9

LEMMA NextInv == IInv /\ [Next]_vars => IInv'
<1> SUFFICES ASSUME IInv, [Next]_vars PROVE IInv'
  OBVIOUS
<1>1. CASE Test
  BY <1>1, TestStepInv, StartInv, ConnectInv, TimeIsOverInv, ReadLineInv, ReadNothingInv DEF Test
<1>2. CASE Machine
  BY <1>2, QemuInv, GuestPrintsInv DEF Machine
<1>3. CASE UNCHANGED vars
  <2>1. UNCHANGED <<pc, raising, connected, taken, elapsed, looked, qemu, hung, signals, sock, log, booted>>
    BY <1>3 DEF vars
  <2>2. TypeOK'
    <3>1. TypeOK
      BY DEF IInv
    <3>2. /\ pc' = pc /\ raising' = raising /\ qemu' = qemu /\ signals' = signals /\ sock' = sock
          /\ taken' = taken /\ looked' = looked /\ elapsed' = elapsed /\ log' = log
      BY <2>1
    <3>3. connected' \in BOOLEAN /\ hung' \in BOOLEAN /\ booted' \in BOOLEAN
      BY <2>1, <3>1, Zenon DEF TypeOK
    <3> QED
      BY <3>1, <3>2, <3>3, Zenon DEF TypeOK
  <2>3. (NothingRaised /\ NothingTaken /\ NoQemuYet /\ QemuThere /\ TurnInTime /\ MarkerMeansBooted)'
    BY <2>1, Zenon
    DEF IInv, NothingRaised, NothingTaken, NoQemuYet, QemuThere, TurnInTime, MarkerMeansBooted
  <2>4. (NotSeenYet /\ LookedAtWhatWasTaken /\ SuccessSeen /\ TimeoutMeansLate)'
    BY <2>1, Zenon DEF IInv, NotSeenYet, LookedAtWhatWasTaken, SuccessSeen, TimeoutMeansLate
  <2> QED
    BY <2>2, <2>3, <2>4 DEF IInv
<1> QED
  BY <1>1, <1>2, <1>3 DEF Next

(* The invariant holds in every state of the boot test.                       *)
THEOREM Invariant == Spec => []IInv
BY InitInv, NextInv, PTL DEF Spec

(* The types of the boot test's variables, its bounds among them: no more     *)
(* turns than the timeout has, nothing read that the log does not have.       *)
THEOREM TypeCorrect == Spec => []TypeOK
<1>1. IInv => TypeOK
  BY DEF IInv
<1> QED
  BY <1>1, Invariant, PTL

(* The boot test's verdict is the guest's: it succeeds only when the guest it *)
(* started has printed its last line, and reports a timeout only when that    *)
(* line was not whole when it last looked.                                    *)
THEOREM VerdictCorrect == Spec => []VerdictIsTrue
<1>1. IInv => VerdictIsTrue
  BY DEF IInv, VerdictIsTrue, SuccessMeansBooted, SuccessSeen, Ending
<1> QED
  BY <1>1, Invariant, PTL
=============================================================================
