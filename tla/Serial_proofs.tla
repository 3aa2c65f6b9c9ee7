---------------------------- MODULE Serial_proofs -----------------------------
(***************************************************************************)
(* The serial line carries the kernel's log in order, proved for buffers,  *)
(* queues and texts of every size.                                         *)
(***************************************************************************)
EXTENDS Serial, SequenceTheorems, TLAPS

(* The port is written to only when it is on, and it is switched on once.  *)
Control ==
  /\ pc # "send" => then = pc /\ sending = <<>>
  /\ pc = "send" => enabled
  /\ then \in {"enable", "overflow"} => ~enabled
  /\ then = "flushed" => enabled
  /\ enabled => port = "found" \/ then = "flushed"
  /\ then \in {"run", "enable", "flushed"} => panics = 0
  /\ pc # "overflow" => panics <= StackDepth

(* What is printed lies, in order, on the line, in the queue and in the    *)
(* text write() is at, or all of it in the buffer.                         *)
Order ==
  /\ wire = Text(0, Len(wire))
  /\ fifo = Text(Len(wire), Len(fifo))
  /\ sending = Text(Len(wire) + Len(fifo), Len(sending))
  /\ enabled => printed = Len(wire) + Len(fifo) + Len(sending)
  /\ ~enabled => wire = <<>> /\ fifo = <<>> /\ buffer = Text(0, printed)

IInv == TypeOK /\ Control /\ Order /\ OverflowMeansFull

(***************************************************************************)
(* Runs of characters                                                      *)
(***************************************************************************)
(* A run of characters is a sequence of numbers of the given length. *)
LEMMA TextIsSeq ==
  ASSUME NEW k \in Nat, NEW n \in Nat
  PROVE  Text(k, n) \in Seq(Nat) /\ Len(Text(k, n)) = n
<1>1. Text(k, n) \in [1 .. n -> Nat]
  BY DEF Text
<1> QED BY <1>1 DEF Text

(* Two runs that meet are one run. *)
LEMMA TextJoins ==
  ASSUME NEW k \in Nat, NEW n \in Nat, NEW m \in Nat
  PROVE  Text(k, n) \o Text(k + n, m) = Text(k, n + m)
<1>0. k + n \in Nat /\ n + m \in Nat
  OBVIOUS
<1>1. /\ Text(k, n) \in Seq(Nat) /\ Len(Text(k, n)) = n
      /\ Text(k + n, m) \in Seq(Nat) /\ Len(Text(k + n, m)) = m
      /\ Text(k, n + m) \in Seq(Nat) /\ Len(Text(k, n + m)) = n + m
  BY <1>0, TextIsSeq
<1> DEFINE s == Text(k, n)  t == Text(k + n, m)  u == Text(k, n + m)
<1>2. /\ \A i \in 1 .. n : s[i] = k + i
      /\ \A i \in 1 .. m : t[i] = k + n + i
      /\ \A i \in 1 .. (n + m) : u[i] = k + i
  BY DEF Text
<1>3. s \in Seq(Nat) /\ t \in Seq(Nat) /\ u \in Seq(Nat)
      /\ Len(s) = n /\ Len(t) = m /\ Len(u) = n + m
  BY <1>1
<1> HIDE DEF s, t, u
<1>4. /\ s \o t \in Seq(Nat) /\ Len(s \o t) = n + m
      /\ \A i \in 1 .. (n + m) : i <= n => (s \o t)[i] = s[i]
      /\ \A i \in 1 .. (n + m) : i > n => (s \o t)[i] = t[i - n]
  <2>1. /\ s \o t \in Seq(Nat)
        /\ Len(s \o t) = Len(s) + Len(t)
        /\ \A i \in 1 .. Len(s) + Len(t) :
             (s \o t)[i] = IF i <= Len(s) THEN s[i] ELSE t[i - Len(s)]
    BY <1>3, ConcatProperties
  <2>2. \A i \in 1 .. n + m : (s \o t)[i] = IF i <= n THEN s[i] ELSE t[i - n]
    BY <1>3, <2>1, Zenon
  <2>3. ASSUME NEW i \in 1 .. n + m, i <= n
        PROVE  (s \o t)[i] = s[i]
    BY <2>2, <2>3, Zenon
  <2>4. ASSUME NEW i \in 1 .. n + m, i > n
        PROVE  (s \o t)[i] = t[i - n]
    <3>1. ~(i <= n)
      BY <2>4
    <3> QED BY <2>2, <3>1, Zenon
  <2>5. Len(s \o t) = n + m
    BY <1>3, <2>1, Zenon
  <2> QED BY <2>1, <2>3, <2>4, <2>5, Zenon
<1>5. \A i \in 1 .. (n + m) : (s \o t)[i] = u[i]
  <2> TAKE i \in 1 .. (n + m)
  <2>1. CASE i <= n
    <3>1. i \in 1 .. n
      BY <2>1
    <3>2. s[i] = k + i /\ u[i] = k + i /\ (s \o t)[i] = s[i]
      BY <1>2, <1>4, <2>1, <3>1
    <3> QED BY <3>2
  <2>2. CASE i > n
    <3>1. i - n \in 1 .. m
      BY <2>2
    <3>2. t[i - n] = k + n + (i - n)
      BY <1>2, <3>1
    <3>3. (s \o t)[i] = t[i - n]
      BY <1>4, <2>2
    <3>4. u[i] = k + i
      BY <1>2
    <3>5. k + n + (i - n) = k + i
      OBVIOUS
    <3> QED BY <3>2, <3>3, <3>4, <3>5, Zenon
  <2>3. i <= n \/ i > n
    OBVIOUS
  <2> QED BY <2>1, <2>2, <2>3, Zenon
<1>6. s \o t = u
  <2>1. Len(s \o t) = Len(u)
    BY <1>3, <1>4
  <2>2. \A i \in 1 .. Len(s \o t) : (s \o t)[i] = u[i]
    BY <1>4, <1>5, Zenon
  <2> QED BY <1>3, <1>4, <2>1, <2>2, SeqEqual
<1> QED BY <1>6 DEF s, t, u

(* The next character makes a run one longer. *)
LEMMA TextGrows ==
  ASSUME NEW k \in Nat, NEW n \in Nat
  PROVE  Append(Text(k, n), k + n + 1) = Text(k, n + 1)
<1>1. /\ Text(k, n) \in Seq(Nat) /\ Len(Text(k, n)) = n
      /\ Text(k, n + 1) \in Seq(Nat) /\ Len(Text(k, n + 1)) = n + 1
  <2>1. n + 1 \in Nat
    OBVIOUS
  <2> QED BY <2>1, TextIsSeq
<1> DEFINE s == Text(k, n)  u == Text(k, n + 1)
<1>2. /\ \A i \in 1 .. n : s[i] = k + i
      /\ \A i \in 1 .. (n + 1) : u[i] = k + i
  BY DEF Text
<1>3. s \in Seq(Nat) /\ u \in Seq(Nat) /\ Len(s) = n /\ Len(u) = n + 1
  BY <1>1
<1> HIDE DEF s, u
<1>4. Append(s, k + n + 1) \in Seq(Nat) /\ Len(Append(s, k + n + 1)) = n + 1
  BY <1>3
<1>5. \A i \in 1 .. (n + 1) : Append(s, k + n + 1)[i] = u[i]
  BY <1>2, <1>3
<1>6. Append(s, k + n + 1) = u
  BY <1>3, <1>4, <1>5, SeqEqual
<1> QED BY <1>6 DEF s, u

(* The first character of a run, and the run behind it. *)
LEMMA TextShrinks ==
  ASSUME NEW k \in Nat, NEW n \in Nat \ {0}
  PROVE  Head(Text(k, n)) = k + 1 /\ Tail(Text(k, n)) = Text(k + 1, n - 1)
<1>1. /\ Text(k, n) \in Seq(Nat) /\ Len(Text(k, n)) = n
      /\ Text(k + 1, n - 1) \in Seq(Nat) /\ Len(Text(k + 1, n - 1)) = n - 1
  <2>1. n \in Nat /\ n - 1 \in Nat /\ k + 1 \in Nat
    OBVIOUS
  <2> QED BY <2>1, TextIsSeq
<1> DEFINE s == Text(k, n)  u == Text(k + 1, n - 1)
<1>2. /\ \A i \in 1 .. n : s[i] = k + i
      /\ \A i \in 1 .. (n - 1) : u[i] = k + 1 + i
  BY DEF Text
<1>3. s \in Seq(Nat) /\ u \in Seq(Nat) /\ Len(s) = n /\ Len(u) = n - 1
  BY <1>1
<1> HIDE DEF s, u
<1>4. s # <<>>
  BY <1>3
<1>5. Head(s) = k + 1
  <2>1. Head(s) = s[1]
    BY <1>3, <1>4
  <2> QED BY <1>2, <2>1
<1>6. /\ Tail(s) \in Seq(Nat) /\ Len(Tail(s)) = n - 1
      /\ \A i \in 1 .. (n - 1) : Tail(s)[i] = s[i + 1]
  BY <1>3, <1>4, HeadTailProperties
<1>7. \A i \in 1 .. (n - 1) : Tail(s)[i] = u[i]
  BY <1>2, <1>6
<1>8. Tail(s) = u
  BY <1>3, <1>6, <1>7, SeqEqual
<1> QED BY <1>5, <1>8 DEF s, u

(***************************************************************************)
(* The invariant                                                           *)
(***************************************************************************)
LEMMA InitIInv == Init => IInv
<1> SUFFICES ASSUME Init PROVE IInv
  OBVIOUS
<1>1. <<>> \in Seq(Nat) /\ Len(<<>>) = 0
  OBVIOUS
<1>2. \A k \in Nat : Text(k, 0) = <<>>
  <2> TAKE k \in Nat
  <2>1. Text(k, 0) \in Seq(Nat) /\ Len(Text(k, 0)) = 0
    BY TextIsSeq
  <2> QED BY <2>1
<1>3. TypeOK
  <2>1. 0 <= FifoSize /\ 0 <= BufferSize /\ 0 \in 0 .. Frames /\ 0 \in 0 .. (StackDepth + 1)
    BY SerialAssumption
  <2>2. enabled \in BOOLEAN
    BY Zenon DEF Init
  <2> QED BY <1>1, <2>1, <2>2 DEF Init, TypeOK
<1>4. Order
  BY <1>1, <1>2 DEF Init, Order
<1> QED BY <1>3, <1>4, SerialAssumption DEF Init, IInv, Control, OverflowMeansFull

(* write() keeps the invariant, whether it sends, stores or asserts. *)
LEMMA WriteKeeps ==
  ASSUME IInv, NEW len \in Nat, NEW next \in {"run", "enable", "dump", "halt"},
         pc \in {"run", "panic", "dump"}, Write(len, next),
         next = "enable" => ~enabled,
         next \in {"run", "enable"} => panics = 0,
         panics = 0 \/ len <= PanicLength,
         UNCHANGED <<enabled, fifo, wire>>, frames' \in 0 .. Frames,
         port' \in {"unknown", "found", "absent"}, port' = port \/ port = "unknown"
  PROVE  IInv'
<1>1. /\ TypeOK /\ Control /\ Order
      /\ sending = <<>> /\ then = pc /\ panics <= StackDepth
      /\ (enabled => port = "found")
  BY DEF IInv, Control
<1>2. /\ printed \in Nat /\ panics \in Nat /\ Len(wire) \in Nat /\ Len(fifo) \in Nat
      /\ wire \in Seq(Nat) /\ fifo \in Seq(Nat) /\ buffer \in Seq(Nat)
      /\ Len(fifo) <= FifoSize /\ Len(buffer) <= BufferSize
      /\ enabled \in BOOLEAN
      /\ sending \in Seq(Nat) /\ Len(sending) = 0
      /\ StackDepth \in Nat \ {0}
  BY <1>1, SerialAssumption DEF TypeOK
<1>3. NewText(len) \in Seq(Nat) /\ Len(NewText(len)) = len
  BY <1>2, TextIsSeq DEF NewText
<1>4. CASE WriteToPort(len, next)
  <2>1. /\ enabled /\ sending' = NewText(len) /\ printed' = printed + len
        /\ pc' = "send" /\ then' = next /\ UNCHANGED <<buffer, panics>>
    BY <1>4 DEF WriteToPort
  <2>2. TypeOK'
    BY <1>1, <1>2, <1>3, <2>1 DEF TypeOK
  <2>3. Control'
    BY <1>1, <2>1 DEF Control
  <2>4. Order'
    <3>1. printed = Len(wire) + Len(fifo)
      BY <1>1, <1>2, <2>1 DEF Order
    <3>2. sending' = Text(Len(wire') + Len(fifo'), Len(sending'))
      BY <1>3, <2>1, <3>1 DEF NewText
    <3>3. printed' = Len(wire') + Len(fifo') + Len(sending')
      BY <1>3, <2>1, <3>1
    <3> QED BY <1>1, <2>1, <3>2, <3>3 DEF Order
  <2> QED BY <2>1, <2>2, <2>3, <2>4 DEF IInv, OverflowMeansFull
<1>5. CASE WriteToBuffer(len, next)
  <2>1. /\ ~enabled /\ Fits(len) /\ buffer' = buffer \o NewText(len)
        /\ printed' = printed + len /\ pc' = next /\ then' = next
        /\ UNCHANGED <<sending, panics>>
    BY <1>5 DEF WriteToBuffer
  <2>2. buffer' \in Seq(Nat) /\ Len(buffer') = Len(buffer) + len
    <3>1. /\ buffer \o NewText(len) \in Seq(Nat)
          /\ Len(buffer \o NewText(len)) = Len(buffer) + Len(NewText(len))
      BY <1>2, <1>3, ConcatProperties
    <3> QED BY <1>3, <2>1, <3>1
  <2>3. TypeOK'
    BY <1>1, <1>2, <2>1, <2>2 DEF TypeOK, Fits
  <2>4. Control'
    BY <1>1, <2>1 DEF Control
  <2>5. Order'
    <3>1. buffer = Text(0, printed) /\ wire = <<>> /\ fifo = <<>>
      BY <1>1, <2>1 DEF Order
    <3>2. buffer' = Text(0, printed')
      <4>1. Text(0, printed) \o Text(0 + printed, len) = Text(0, printed + len)
        <5>1. 0 \in Nat /\ printed \in Nat /\ len \in Nat
          BY <1>2
        <5> HIDE DEF IInv
        <5> QED BY ONLY <5>1, TextJoins
      <4>2. 0 + printed = printed
        BY <1>2
      <4> QED BY <2>1, <3>1, <4>1, <4>2 DEF NewText
    <3> QED BY <1>1, <2>1, <3>1, <3>2 DEF Order
  <2> QED BY <2>1, <2>3, <2>4, <2>5 DEF IInv, OverflowMeansFull
<1>6. CASE WriteAsserts(len)
  <2>1. /\ ~enabled /\ ~Fits(len) /\ panics' = panics + 1
        /\ pc' = (IF panics' > StackDepth THEN "overflow" ELSE "panic") /\ then' = pc'
        /\ UNCHANGED <<buffer, sending, printed>>
    BY <1>6 DEF WriteAsserts
  <2>2. pc' \in {"overflow", "panic"} /\ panics' \in 0 .. (StackDepth + 1)
        /\ (pc' # "overflow" => panics' <= StackDepth)
    BY <1>1, <1>2, <2>1
  <2>3. enabled' \in BOOLEAN
    BY <1>2, <2>1, Zenon
  <2>4. TypeOK'
    BY <1>1, <1>2, <2>1, <2>2, <2>3 DEF TypeOK
  <2>5. Control'
    BY <1>1, <2>1, <2>2 DEF Control
  <2>6. Order'
    BY <1>1, <2>1 DEF Order
  <2>7. OverflowMeansFull'
    <3>1. pc' = "overflow" => len <= PanicLength
      BY <1>2, <2>1
    <3>2. Len(buffer) + len > BufferSize /\ Len(buffer) \in Nat /\ PanicLength \in Nat /\ BufferSize \in Nat
      BY <1>2, <2>1, SerialAssumption DEF Fits
    <3> QED BY <2>1, <3>1, <3>2 DEF OverflowMeansFull
  <2> QED BY <2>4, <2>5, <2>6, <2>7 DEF IInv
<1> QED BY <1>4, <1>5, <1>6 DEF Write

(* Every step keeps the invariant. *)
LEMMA StepIInv == IInv /\ [Next]_vars => IInv'
<1> SUFFICES ASSUME IInv, [Next]_vars PROVE IInv'
  OBVIOUS
<1>0. /\ TypeOK /\ Control /\ Order /\ OverflowMeansFull
      /\ enabled \in BOOLEAN
  BY DEF IInv, TypeOK
<1>a. /\ FoundLength \in Nat /\ AbsentLength \in Nat /\ CompleteLength \in Nat
      /\ PanicLength \in Nat /\ FrameLength \in Nat /\ FrameLength <= PanicLength
      /\ Lengths \subseteq Nat /\ Frames \in Nat /\ StackDepth \in Nat \ {0}
  BY SerialAssumption
<1>1. CASE SendChar
  <2> DEFINE w == Len(wire)  f == Len(fifo)  s == Len(sending)
  <2>1. /\ pc = "send" /\ sending # <<>> /\ f < FifoSize
        /\ fifo' = Append(fifo, Head(sending)) /\ sending' = Tail(sending)
        /\ UNCHANGED <<pc, then, port, enabled, buffer, wire, printed, panics, frames>>
    BY <1>1 DEF SendChar
  <2>2. enabled /\ w \in Nat /\ f \in Nat /\ s \in Nat \ {0} /\ FifoSize \in Nat
        /\ sending \in Seq(Nat) /\ fifo \in Seq(Nat)
        /\ w + f \in Nat
    <3>1. enabled
      BY <1>0, <2>1 DEF Control
    <3>2. wire \in Seq(Nat) /\ fifo \in Seq(Nat) /\ sending \in Seq(Nat) /\ sending # <<>>
      BY <1>0, <2>1 DEF TypeOK
    <3>3. w \in Nat /\ f \in Nat /\ s \in Nat \ {0}
      BY <3>2
    <3>4. FifoSize \in Nat
      BY SerialAssumption
    <3> QED BY <3>1, <3>2, <3>3, <3>4
  <2>3. /\ sending = Text(w + f, s) /\ fifo = Text(w, f) /\ printed = w + f + s
    BY <1>0, <2>2 DEF Order
  <2>4. Head(sending) = w + f + 1 /\ Tail(sending) = Text(w + f + 1, s - 1)
    BY <2>2, <2>3, TextShrinks
  <2>5. fifo' = Text(w, f + 1)
    <3>1. Append(Text(w, f), w + f + 1) = Text(w, f + 1)
      BY ONLY <2>2, TextGrows
    <3> QED BY <2>1, <2>3, <2>4, <3>1
  <2>6. /\ fifo' \in Seq(Nat) /\ Len(fifo') = f + 1
        /\ sending' \in Seq(Nat) /\ Len(sending') = s - 1
    <3>1. f + 1 \in Nat /\ s - 1 \in Nat /\ w + f + 1 \in Nat
      BY <2>2
    <3>2. /\ Text(w, f + 1) \in Seq(Nat) /\ Len(Text(w, f + 1)) = f + 1
          /\ Text(w + f + 1, s - 1) \in Seq(Nat) /\ Len(Text(w + f + 1, s - 1)) = s - 1
      BY ONLY <2>2, <3>1, TextIsSeq
    <3> QED BY <2>1, <2>4, <2>5, <3>2
  <2>7. TypeOK'
    BY <1>0, <2>1, <2>2, <2>6 DEF TypeOK
  <2>8. Control'
    BY <1>0, <2>1 DEF Control
  <2>9. Order'
    <3>1. fifo' = Text(Len(wire'), Len(fifo')) /\ wire' = Text(0, Len(wire'))
      BY <1>0, <2>1, <2>5, <2>6 DEF Order
    <3>2. sending' = Text(Len(wire') + Len(fifo'), Len(sending'))
      <4>1. w + (f + 1) = w + f + 1
        BY <2>2
      <4> QED BY <2>1, <2>4, <2>6, <4>1
    <3>3. printed' = Len(wire') + Len(fifo') + Len(sending')
      <4>1. w + (f + 1) + (s - 1) = w + f + s
        BY <2>2
      <4> QED BY <2>1, <2>3, <2>6, <4>1
    <3> QED BY <2>1, <2>2, <3>1, <3>2, <3>3 DEF Order
  <2> QED BY <1>0, <2>1, <2>7, <2>8, <2>9 DEF IInv, OverflowMeansFull
<1>2. CASE Transmit
  <2> DEFINE w == Len(wire)  f == Len(fifo)  s == Len(sending)
  <2>1. /\ fifo # <<>> /\ wire' = Append(wire, Head(fifo)) /\ fifo' = Tail(fifo)
        /\ UNCHANGED <<pc, then, port, enabled, buffer, sending, printed, panics, frames>>
    BY <1>2 DEF Transmit
  <2>2. enabled /\ w \in Nat /\ f \in Nat \ {0} /\ s \in Nat /\ FifoSize \in Nat
        /\ wire \in Seq(Nat) /\ fifo \in Seq(Nat) /\ f <= FifoSize
    <3>1. wire \in Seq(Nat) /\ fifo \in Seq(Nat) /\ sending \in Seq(Nat) /\ f <= FifoSize
      BY <1>0 DEF TypeOK
    <3>2. w \in Nat /\ f \in Nat \ {0} /\ s \in Nat
      BY <2>1, <3>1
    <3>3. enabled
      BY <1>0, <2>1 DEF Order
    <3>4. FifoSize \in Nat
      BY SerialAssumption
    <3> QED BY <3>1, <3>2, <3>3, <3>4
  <2>3. /\ sending = Text(w + f, s) /\ fifo = Text(w, f) /\ wire = Text(0, w)
        /\ printed = w + f + s
    BY <1>0, <2>2 DEF Order
  <2>4. Head(fifo) = w + 1 /\ Tail(fifo) = Text(w + 1, f - 1)
    BY <2>2, <2>3, TextShrinks
  <2>5. wire' = Text(0, w + 1)
    <3>1. Append(Text(0, w), 0 + w + 1) = Text(0, w + 1)
      BY ONLY <2>2, TextGrows
    <3>2. 0 + w + 1 = w + 1
      BY <2>2
    <3> QED BY <2>1, <2>3, <2>4, <3>1, <3>2
  <2>6. /\ wire' \in Seq(Nat) /\ Len(wire') = w + 1
        /\ fifo' \in Seq(Nat) /\ Len(fifo') = f - 1
    <3>1. f - 1 \in Nat /\ w + 1 \in Nat
      BY <2>2
    <3>2. /\ Text(0, w + 1) \in Seq(Nat) /\ Len(Text(0, w + 1)) = w + 1
          /\ Text(w + 1, f - 1) \in Seq(Nat) /\ Len(Text(w + 1, f - 1)) = f - 1
      BY ONLY <3>1, TextIsSeq
    <3> QED BY <2>1, <2>4, <2>5, <3>2
  <2>7. TypeOK'
    BY <1>0, <2>1, <2>2, <2>6 DEF TypeOK
  <2>8. Control'
    BY <1>0, <2>1 DEF Control
  <2>9. Order'
    <3>1. fifo' = Text(Len(wire'), Len(fifo')) /\ wire' = Text(0, Len(wire'))
      BY <2>1, <2>4, <2>5, <2>6
    <3>2. (w + 1) + (f - 1) = w + f
      BY <2>2
    <3>3. sending' = Text(Len(wire') + Len(fifo'), Len(sending'))
      BY <2>1, <2>3, <2>6, <3>2
    <3>4. printed' = Len(wire') + Len(fifo') + Len(sending')
      BY <2>1, <2>3, <2>6, <3>2
    <3> QED BY <2>1, <2>2, <3>1, <3>3, <3>4 DEF Order
  <2> QED BY <1>0, <2>1, <2>7, <2>8, <2>9 DEF IInv, OverflowMeansFull
<1>3. CASE SendDone
  <2>1. pc = "send" /\ sending = <<>> /\ pc' = then
        /\ UNCHANGED <<then, port, enabled, buffer, sending, fifo, wire, printed, panics, frames>>
    BY <1>3 DEF SendDone
  <2>2. enabled /\ then \notin {"enable", "overflow"} /\ pc' # "send"
    BY <1>0, <2>1 DEF Control, TypeOK
  <2>3. TypeOK'
    BY <1>0, <2>1 DEF TypeOK
  <2>4. Control'
    BY <1>0, <2>1, <2>2 DEF Control, TypeOK
  <2>5. Order'
    BY <1>0, <2>1 DEF Order
  <2>6. OverflowMeansFull'
    <3>1. pc' # "overflow"
      BY <1>0, <2>1, <2>2 DEF Control, OverflowMeansFull, TypeOK
    <3> QED BY <3>1 DEF OverflowMeansFull
  <2> QED BY <2>3, <2>4, <2>5, <2>6 DEF IInv
<1>4. CASE PortFound
  <2>1. pc = "run" /\ port = "unknown" /\ Write(FoundLength, "enable")
        /\ UNCHANGED <<port, enabled, fifo, wire, frames>>
    BY <1>4 DEF PortFound
  <2>2. panics = 0 /\ ~enabled
    BY <1>0, <2>1 DEF Control
  <2>3. frames' \in 0 .. Frames /\ port' \in {"unknown", "found", "absent"}
    BY <1>0, <2>1 DEF TypeOK
  <2> QED BY <1>a, <2>1, <2>2, <2>3, WriteKeeps
<1>5. CASE PortAbsent
  <2>1. pc = "run" /\ port = "unknown" /\ port' = "absent" /\ Write(AbsentLength, "run")
        /\ UNCHANGED <<enabled, fifo, wire, frames>>
    BY <1>5 DEF PortAbsent
  <2>2. panics = 0
    BY <1>0, <2>1 DEF Control
  <2>3. frames' \in 0 .. Frames
    BY <1>0, <2>1 DEF TypeOK
  <2> QED BY <1>a, <2>1, <2>2, <2>3, WriteKeeps
<1>6. CASE Complete
  <2>1. pc = "run" /\ Write(CompleteLength, "halt")
        /\ UNCHANGED <<port, enabled, fifo, wire, frames>>
    BY <1>6 DEF Complete
  <2>2. panics = 0
    BY <1>0, <2>1 DEF Control
  <2>3. frames' \in 0 .. Frames /\ port' \in {"unknown", "found", "absent"}
    BY <1>0, <2>1 DEF TypeOK
  <2> QED BY <1>a, <2>1, <2>2, <2>3, WriteKeeps
<1>7. ASSUME NEW len \in Lengths, KernelPrints(len)
      PROVE  IInv'
  <2>1. pc = "run" /\ Write(len, "run") /\ UNCHANGED <<port, enabled, fifo, wire, frames>>
    BY <1>7 DEF KernelPrints
  <2>2. panics = 0 /\ len \in Nat
    BY <1>0, <1>a, <2>1 DEF Control
  <2>3. frames' \in 0 .. Frames /\ port' \in {"unknown", "found", "absent"}
    BY <1>0, <2>1 DEF TypeOK
  <2> QED BY <2>1, <2>2, <2>3, WriteKeeps
<1>8. CASE PanicMessage
  <2>1. pc = "panic" /\ Write(PanicLength, "dump") /\ frames' = 0
        /\ UNCHANGED <<port, enabled, fifo, wire>>
    BY <1>8 DEF PanicMessage
  <2>2. frames' \in 0 .. Frames /\ port' \in {"unknown", "found", "absent"} /\ PanicLength <= PanicLength
    BY <1>0, <1>a, <2>1 DEF TypeOK
  <2> QED BY <1>a, <2>1, <2>2, WriteKeeps
<1>9. CASE DumpFrame
  <2>1. pc = "dump" /\ frames < Frames /\ Write(FrameLength, "dump") /\ frames' = frames + 1
        /\ UNCHANGED <<port, enabled, fifo, wire>>
    BY <1>9 DEF DumpFrame
  <2>2. frames' \in 0 .. Frames /\ port' \in {"unknown", "found", "absent"}
    BY <1>0, <1>a, <2>1 DEF TypeOK
  <2> QED BY <1>a, <2>1, <2>2, WriteKeeps
<1>10. CASE Enable
  <2>1. /\ pc = "enable" /\ enabled' = TRUE /\ sending' = buffer
        /\ pc' = "send" /\ then' = "flushed"
        /\ UNCHANGED <<port, buffer, fifo, wire, printed, panics, frames>>
    BY <1>10 DEF Enable
  <2>2. ~enabled /\ panics = 0 /\ panics \in Nat
    BY <1>0, <2>1 DEF Control, TypeOK
  <2>3. wire = <<>> /\ fifo = <<>> /\ buffer = Text(0, printed) /\ printed \in Nat
    BY <1>0, <2>2 DEF Order, TypeOK
  <2>4. Len(wire) = 0 /\ Len(fifo) = 0 /\ Len(buffer) = printed
    BY <2>3, TextIsSeq
  <2>5. TypeOK'
    BY <1>0, <2>1 DEF TypeOK
  <2>6. Control'
    BY <1>0, <1>a, <2>1, <2>2 DEF Control
  <2>7. Order'
    <3>1. sending' = Text(Len(wire') + Len(fifo'), Len(sending'))
      BY <2>1, <2>3, <2>4
    <3>2. printed' = Len(wire') + Len(fifo') + Len(sending')
      BY <2>1, <2>3, <2>4
    <3> QED BY <1>0, <2>1, <3>1, <3>2 DEF Order
  <2> QED BY <2>1, <2>5, <2>6, <2>7 DEF IInv, OverflowMeansFull
<1>11. CASE Flushed
  <2>1. /\ pc = "flushed" /\ buffer' = <<>> /\ port' = "found" /\ pc' = "run" /\ then' = "run"
        /\ UNCHANGED <<enabled, sending, fifo, wire, printed, panics, frames>>
    BY <1>11 DEF Flushed
  <2>2. enabled /\ panics = 0
    BY <1>0, <2>1 DEF Control
  <2>3. buffer' \in Seq(Nat) /\ Len(buffer') <= BufferSize
    <3>1. <<>> \in Seq(Nat) /\ Len(<<>>) = 0 /\ BufferSize \in Nat
      BY SerialAssumption
    <3> QED BY <2>1, <3>1
  <2>4. TypeOK'
    BY <1>0, <2>1, <2>3 DEF TypeOK
  <2>5. Control'
    BY <1>0, <2>1, <2>2 DEF Control
  <2>6. Order'
    BY <1>0, <2>1, <2>2 DEF Order
  <2> QED BY <2>1, <2>4, <2>5, <2>6 DEF IInv, OverflowMeansFull
<1>12. CASE KernelPanics
  <2>1. /\ pc = "run" /\ pc' = "panic" /\ then' = "panic" /\ panics' = panics + 1
        /\ UNCHANGED <<port, enabled, buffer, sending, fifo, wire, printed, frames>>
    BY <1>12 DEF KernelPanics
  <2>2. panics = 0
    BY <1>0, <2>1 DEF Control
  <2>3. TypeOK'
    BY <1>0, <1>a, <2>1, <2>2 DEF TypeOK
  <2>4. Control'
    BY <1>0, <1>a, <2>1, <2>2 DEF Control
  <2>5. Order'
    BY <1>0, <2>1 DEF Order
  <2> QED BY <2>1, <2>3, <2>4, <2>5 DEF IInv, OverflowMeansFull
<1>13. CASE DumpEnds
  <2>1. /\ pc = "dump" /\ pc' = "halt" /\ then' = "halt"
        /\ UNCHANGED <<port, enabled, buffer, sending, fifo, wire, printed, panics, frames>>
    BY <1>13 DEF DumpEnds
  <2>2. TypeOK'
    BY <1>0, <2>1 DEF TypeOK
  <2>3. Control'
    BY <1>0, <2>1 DEF Control
  <2>4. Order'
    BY <1>0, <2>1 DEF Order
  <2> QED BY <2>1, <2>2, <2>3, <2>4 DEF IInv, OverflowMeansFull
<1>14. CASE UNCHANGED vars
  BY <1>0, <1>14 DEF vars, IInv, TypeOK, Control, Order, OverflowMeansFull
<1> QED
  BY <1>1, <1>2, <1>3, <1>4, <1>5, <1>6, <1>7, <1>8, <1>9, <1>10, <1>11, <1>12, <1>13, <1>14
     DEF Next, Kernel

(* The inductive invariant holds. *)
THEOREM Invariance == Spec => []IInv
<1> QED BY InitIInv, StepIInv, PTL DEF Spec

(* The buffer, the queue and the counters stay within their bounds: no     *)
(* text is written behind serialBuffer or to a queue that is full.         *)
THEOREM TypeCorrect == Spec => []TypeOK
<1>1. IInv => TypeOK
  BY DEF IInv
<1> QED BY <1>1, Invariance, PTL

(* Panics call each other until the stack is used up only when the port    *)
(* is off and the buffer has no room for the message of a panic.           *)
THEOREM OverflowIsOfFullBuffer == Spec => []OverflowMeansFull
<1>1. IInv => OverflowMeansFull
  BY DEF IInv
<1> QED BY <1>1, Invariance, PTL

(* A write() that is accepted puts its text into the log, one that asserts *)
(* changes nothing of it.                                                  *)
LEMMA WritePuts ==
  ASSUME NEW len, NEW next, Write(len, next), UNCHANGED wire,
         len \in Lengths \cup {FoundLength, AbsentLength, CompleteLength, PanicLength, FrameLength}
  PROVE  L!Next \/ UNCHANGED <<printed, wire>>
<1>1. CASE printed' = printed + len
  BY <1>1 DEF L!Next, L!Put
<1>2. CASE UNCHANGED printed
  BY <1>2
<1> QED BY <1>1, <1>2 DEF Write, WriteToPort, WriteToBuffer, WriteAsserts

(* Every step of the serial port delivers a character, takes a text into   *)
(* the log, or does nothing the reader of the line sees.                   *)
LEMMA StepLog == IInv /\ [Next]_vars => [L!Next]_<<printed, wire>>
<1> SUFFICES ASSUME IInv, [Next]_vars
             PROVE  L!Next \/ UNCHANGED <<printed, wire>>
  OBVIOUS
<1>1. CASE Transmit
  <2> DEFINE w == Len(wire)  f == Len(fifo)  s == Len(sending)
  <2>1. fifo # <<>> /\ wire' = Append(wire, Head(fifo)) /\ UNCHANGED printed
    BY <1>1 DEF Transmit
  <2>2. enabled /\ w \in Nat /\ f \in Nat \ {0} /\ s \in Nat
    BY <2>1 DEF IInv, Order, TypeOK
  <2>3. fifo = Text(w, f) /\ printed = w + f + s
    BY <2>2 DEF IInv, Order
  <2>4. Head(fifo) = w + 1
    BY <2>2, <2>3, TextShrinks
  <2>5. w < printed
    BY <2>2, <2>3
  <2> QED BY <2>1, <2>4, <2>5 DEF L!Next, L!Deliver
<1>2. CASE SendChar \/ SendDone \/ Enable \/ Flushed \/ KernelPanics \/ DumpEnds
  BY <1>2 DEF SendChar, SendDone, Enable, Flushed, KernelPanics, DumpEnds
<1>3. CASE PortFound
  BY <1>3, WritePuts DEF PortFound
<1>4. CASE PortAbsent
  BY <1>4, WritePuts DEF PortAbsent
<1>5. CASE Complete
  BY <1>5, WritePuts DEF Complete
<1>6. CASE PanicMessage
  BY <1>6, WritePuts DEF PanicMessage
<1>7. CASE DumpFrame
  BY <1>7, WritePuts DEF DumpFrame
<1>8. CASE \E len \in Lengths : KernelPrints(len)
  BY <1>8, WritePuts DEF KernelPrints
<1>9. CASE UNCHANGED vars
  BY <1>9 DEF vars
<1> QED BY <1>1, <1>2, <1>3, <1>4, <1>5, <1>6, <1>7, <1>8, <1>9 DEF Next, Kernel

(* The serial port implements the log: whatever is printed, before the     *)
(* port is found, while it is switched on and behind it, comes out in that *)
(* order and once.                                                         *)
THEOREM SerialIsLog == Spec => ImplementsLog
<1>1. Init => L!Init
  BY DEF Init, L!Init
<1> QED BY <1>1, Invariance, StepLog, PTL DEF Spec, ImplementsLog, L!Spec
=============================================================================
