-------------------------------- MODULE Serial --------------------------------
(***************************************************************************)
(* The kernel's log on aarch64: the serial port                            *)
(* (kernel/arch/aarch64/serial/Serial.cpp), which keeps text in a buffer   *)
(* until kmain has found the port, and panic (kernel/utils/panic.cpp),     *)
(* which prints on the same path and stops the kernel.                     *)
(*                                                                         *)
(* The kernel is one thread; the port takes characters out of its queue at *)
(* its own pace.  A character is named by its number in what was printed.  *)
(***************************************************************************)
EXTENDS Integers, Sequences

CONSTANTS
  BufferSize,      \* sizeof(serialBuffer)
  FifoSize,        \* how many characters the port takes before FR says full
  Lengths,         \* of what kmain and what it calls print
  FoundLength,     \* "Serial Port Found\n"
  AbsentLength,    \* "Serial not found\n"
  CompleteLength,  \* "start complete\n"
  PanicLength,     \* "%s:%d: %s\n" of panic
  FrameLength,     \* "%p\n" of dumpStack
  Frames,          \* bound: the frames dumpStack finds
  StackDepth,      \* bound: the panics inside each other the stack has room for
  MaxPrinted       \* bound: the characters kmain prints besides

ASSUME SerialAssumption ==
  /\ BufferSize \in Nat /\ FifoSize \in Nat \ {0}
  /\ Lengths \subseteq Nat
  /\ {FoundLength, AbsentLength, CompleteLength, PanicLength, FrameLength} \subseteq Nat
  /\ FrameLength <= PanicLength
  /\ Frames \in Nat /\ StackDepth \in Nat \ {0} /\ MaxPrinted \in Nat

VARIABLES
  pc,        \* where the kernel is: see TypeOK
  then,      \* where it goes on when write() returns
  port,      \* "unknown" until Serial::init, then "found" or "absent"
  enabled,   \* enabled
  buffer,    \* the first bufferUsed characters of buffer
  sending,   \* what write() has yet to give to the port
  fifo,      \* what the port has taken and not transmitted
  wire,      \* what it has transmitted
  printed,   \* the number of characters write() has accepted
  panics,    \* how many panics are running, each called by the one before
  frames     \* how many frames dumpStack has printed

vars == <<pc, then, port, enabled, buffer, sending, fifo, wire, printed, panics,
          frames>>

Init ==
  /\ pc = "run" /\ then = "run" /\ port = "unknown" /\ enabled = FALSE
  /\ buffer = <<>> /\ sending = <<>> /\ fifo = <<>> /\ wire = <<>>
  /\ printed = 0 /\ panics = 0 /\ frames = 0

(***************************************************************************)
(* Serial::write                                                           *)
(***************************************************************************)
(* The n characters that follow the first k. *)
Text(k, n) == [i \in 1 .. n |-> k + i]

NewText(len) == Text(printed, len)

FitsWithZero(len) == Len(buffer) + len < BufferSize   \* mutant: off by one
FitsBefore(len) == Len(buffer) <= BufferSize          \* mutant: the new text not counted
Fits(len) == Len(buffer) + len <= BufferSize

WriteToPort(len, next) ==
  /\ enabled
  /\ sending' = NewText(len) /\ printed' = printed + len
  /\ pc' = "send" /\ then' = next
  /\ UNCHANGED <<buffer, panics>>

WriteToBuffer(len, next) ==
  /\ ~enabled /\ Fits(len)
  /\ buffer' = buffer \o NewText(len) /\ printed' = printed + len
  /\ pc' = next /\ then' = next
  /\ UNCHANGED <<sending, panics>>

(* The assertion fails: panic is called, and the text is lost. *)
WriteAsserts(len) ==
  /\ ~enabled /\ ~Fits(len)
  /\ panics' = panics + 1
  /\ pc' = IF panics' > StackDepth THEN "overflow" ELSE "panic"
  /\ then' = pc'
  /\ UNCHANGED <<buffer, sending, printed>>

(* appendText(text) for a text of that length, and what follows it. *)
Write(len, next) ==
  WriteToPort(len, next) \/ WriteToBuffer(len, next) \/ WriteAsserts(len)

SendCharWhenFull ==   \* mutant: waits for the queue to be full
  /\ pc = "send" /\ sending # <<>> /\ Len(fifo) = FifoSize
  /\ fifo' = Append(fifo, Head(sending)) /\ sending' = Tail(sending)
  /\ UNCHANGED <<pc, then, port, enabled, buffer, wire, printed, panics, frames>>

(* One turn of the loop, when the busy wait on FR is over. *)
SendChar ==
  /\ pc = "send" /\ sending # <<>> /\ Len(fifo) < FifoSize
  /\ fifo' = Append(fifo, Head(sending)) /\ sending' = Tail(sending)
  /\ UNCHANGED <<pc, then, port, enabled, buffer, wire, printed, panics, frames>>

SendDone ==
  /\ pc = "send" /\ sending = <<>>
  /\ pc' = then
  /\ UNCHANGED <<then, port, enabled, buffer, sending, fifo, wire, printed, panics, frames>>

(***************************************************************************)
(* Serial::init                                                            *)
(***************************************************************************)
(* FR reads neither as all ones nor as zero. *)
PortFound ==
  /\ pc = "run" /\ port = "unknown"
  /\ Write(FoundLength, "enable")
  /\ UNCHANGED <<port, enabled, fifo, wire, frames>>

EnableUnflushed ==   \* mutant: what was buffered is not sent
  /\ pc = "enable"
  /\ enabled' = TRUE
  /\ sending' = <<>>
  /\ pc' = "send" /\ then' = "flushed"
  /\ UNCHANGED <<port, buffer, fifo, wire, printed, panics, frames>>

(* The port is configured, and what was buffered is sent. *)
Enable ==
  /\ pc = "enable"
  /\ enabled' = TRUE
  /\ sending' = buffer
  /\ pc' = "send" /\ then' = "flushed"
  /\ UNCHANGED <<port, buffer, fifo, wire, printed, panics, frames>>

Flushed ==
  /\ pc = "flushed"
  /\ buffer' = <<>> /\ port' = "found"
  /\ pc' = "run" /\ then' = "run"
  /\ UNCHANGED <<enabled, sending, fifo, wire, printed, panics, frames>>

PortAbsent ==
  /\ pc = "run" /\ port = "unknown"
  /\ port' = "absent"
  /\ Write(AbsentLength, "run")
  /\ UNCHANGED <<enabled, fifo, wire, frames>>

(***************************************************************************)
(* kmain and panic                                                         *)
(***************************************************************************)
KernelPrints(len) ==
  /\ pc = "run" /\ printed + len <= MaxPrinted
  /\ Write(len, "run")
  /\ UNCHANGED <<port, enabled, fifo, wire, frames>>

Complete ==
  /\ pc = "run" /\ port # "unknown"
  /\ Write(CompleteLength, "halt")
  /\ UNCHANGED <<port, enabled, fifo, wire, frames>>

(* Any part of the kernel may panic, the mapping of the port among them. *)
KernelPanics ==
  /\ pc = "run"
  /\ pc' = "panic" /\ then' = "panic" /\ panics' = panics + 1
  /\ UNCHANGED <<port, enabled, buffer, sending, fifo, wire, printed, frames>>

PanicMessage ==
  /\ pc = "panic"
  /\ Write(PanicLength, "dump")
  /\ frames' = 0
  /\ UNCHANGED <<port, enabled, fifo, wire>>

DumpFrame ==
  /\ pc = "dump" /\ frames < Frames
  /\ Write(FrameLength, "dump")
  /\ frames' = frames + 1
  /\ UNCHANGED <<port, enabled, fifo, wire>>

DumpEndsNever ==   \* mutant: the end of the chain of frames is not seen
  /\ pc = "dump" /\ frames > Frames
  /\ pc' = "halt" /\ then' = "halt"
  /\ UNCHANGED <<port, enabled, buffer, sending, fifo, wire, printed, panics, frames>>

DumpEnds ==
  /\ pc = "dump"
  /\ pc' = "halt" /\ then' = "halt"
  /\ UNCHANGED <<port, enabled, buffer, sending, fifo, wire, printed, panics, frames>>

Kernel == \/ SendChar \/ SendDone \/ PortFound \/ Enable \/ Flushed \/ PortAbsent
          \/ Complete \/ KernelPanics \/ PanicMessage \/ DumpFrame \/ DumpEnds
          \/ \E len \in Lengths : KernelPrints(len)

(* The port transmits the oldest character it holds. *)
Transmit ==
  /\ fifo # <<>>
  /\ wire' = Append(wire, Head(fifo)) /\ fifo' = Tail(fifo)
  /\ UNCHANGED <<pc, then, port, enabled, buffer, sending, printed, panics, frames>>

Next == Kernel \/ Transmit

Spec == Init /\ [][Next]_vars

(* The kernel is never preempted, and the port transmits while it is on.   *)
FairSpec == Spec /\ WF_vars(Kernel) /\ WF_vars(Transmit)

(***************************************************************************)
(* Properties                                                              *)
(***************************************************************************)
(* The types of the variables. *)
TypeOK ==
  /\ pc \in {"run", "send", "enable", "flushed", "panic", "dump", "halt", "overflow"}
  /\ then \in {"run", "enable", "flushed", "panic", "dump", "halt", "overflow"}
  /\ port \in {"unknown", "found", "absent"} /\ enabled \in BOOLEAN
  /\ buffer \in Seq(Nat) /\ sending \in Seq(Nat) /\ fifo \in Seq(Nat) /\ wire \in Seq(Nat)
  /\ Len(fifo) <= FifoSize /\ Len(buffer) <= BufferSize
  /\ printed \in Nat /\ panics \in 0 .. (StackDepth + 1) /\ frames \in 0 .. Frames

L == INSTANCE Log WITH
       Lengths <- Lengths \cup {FoundLength, AbsentLength, CompleteLength, PanicLength, FrameLength}

(* The line carries what write() accepted, nothing lost, doubled or out of *)
(* order: over the switch from the buffer to the port, with the text about *)
(* the port itself in between, and through a panic.                        *)
ImplementsLog == L!Spec

(* The panics that call each other until the stack is used up are those of *)
(* a buffer without room for the message of a panic, and of nothing else.  *)
OverflowMeansFull ==
  pc = "overflow" => ~enabled /\ Len(buffer) + PanicLength > BufferSize

(* Once the port is on, all that was printed before and after arrives: the *)
(* message of a panic too, although the kernel halts behind it.            *)
PrintedArrives ==
  \A n \in 1 .. (MaxPrinted + FoundLength) :
    (enabled /\ printed >= n) ~> (Len(wire) >= n)

(* A panic comes to its halt(), or runs out of stack. *)
PanicEnds == (panics > 0) ~> (pc \in {"halt", "overflow"})

(* A panic halts, unless there is no port and the buffer has no room for its  *)
(* message: then the assertion of write() fails again and again.              *)
PanicHaltsOrBufferFull == []OverflowMeansFull /\ PanicEnds
=============================================================================
