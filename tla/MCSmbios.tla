------------------------------- MODULE MCSmbios -------------------------------
(* Tables as firmware of several versions of SMBIOS leaves them, and some it  *)
(* should not leave: cut off, without their end, with strings missing.        *)
EXTENDS Smbios, Integers
SE == INSTANCE SequencesExt

Zero(n) == [i \in 1 .. n |-> 0]
Letters(n) == [i \in 1 .. n |-> 65]

(* The strings of a structure, by their lengths, and what ends them. *)
StringBytes(lengths) ==
  IF lengths = <<>> THEN Zero(2)
  ELSE SE!FlattenSeq([i \in DOMAIN lengths |-> Letters(lengths[i]) \o Zero(1)]) \o Zero(1)

(* A structure of len bytes, with the bytes of field in it, zeros elsewhere.  *)
Struct(type, len, field, lengths) ==
  [i \in 1 .. len |-> CASE i = 1 -> type [] i = 2 -> len
                        [] i - 1 \in DOMAIN field -> field[i - 1]
                        [] OTHER -> 0]
  \o StringBytes(lengths)

At(offset, bytes) == [i \in {offset + k - 1 : k \in DOMAIN bytes} |-> bytes[i - offset + 1]]
And(f, g) == [i \in DOMAIN f \cup DOMAIN g |-> IF i \in DOMAIN g THEN g[i] ELSE f[i]]

Firmware == {Struct(FirmwareInfo, len, At(4, <<1, 2, 0, 0, 3>>), <<2, 1, 2>>) : len \in {18, 20, 24, 26}}
            \cup {Struct(FirmwareInfo, 26, And(At(4, <<1>>), At(24, rom)), <<1>>) : rom \in {<<16, 64>>, <<16, 128>>}}
            \cup {Struct(FirmwareInfo, 24, At(4, <<index>>), <<1, 3>>) : index \in {0, 2, 3, 4}}
System == {Struct(SystemInfo, len, And(At(4, <<1, 2, 3, 4>>), At(25, <<5, 0>>)), <<1, 1, 2, 1, 1>>) : len \in {8, 25, 27}}
Chassis == {Struct(ChassisInfo, len, At(4, <<1, 0, 2>>), <<1, 2>>) : len \in {9, 13, 21}}
Processor == {Struct(ProcessorInfo, len, And(And(At(4, <<1>>), At(7, <<2>>)), At(32, <<3, 0, 1>>)), <<2, 1, 1>>)
                : len \in {26, 32, 35, 40, 42}}
             \cup {Struct(ProcessorInfo, len, And(At(25, <<255>>), At(50, <<1>>)), <<2>>) : len \in {26, 48, 51}}
Array == {Struct(PhysicalMemoryArray, len, At(10, <<8>>), <<>>) : len \in {15, 23}}
Device == {Struct(MemoryDevice, len, At(12, <<255, high>>), <<1>>) : len \in {21, 28, 34, 40}, high \in {127, 0}}
Other == {Struct(2, 8, At(4, <<1>>), <<1>>), Struct(11, 5, At(4, <<0>>), <<>>)}
End == Struct(EndOfTable, 4, At(4, <<>>), <<>>)

(* A table of these structures, whose length differs by more from theirs.     *)
Made(entry, at, structures, filler, more) ==
  LET total[k \in 0 .. Len(structures)] ==
        IF k = 0 THEN 0 ELSE total[k - 1] + Len(structures[k])
  IN  [entry |-> entry, at |-> at, bytes |-> SE!FlattenSeq(structures), filler |-> filler,
       length |-> total[Len(structures)] + more,
       starts |-> [k \in 1 .. Len(structures) + 1 |-> total[k - 1]]]

FewFirmware == Struct(FirmwareInfo, 24, At(4, <<1, 2, 0, 0, 3>>), <<2, 1, 2>>)
FewArray == Struct(PhysicalMemoryArray, 23, At(10, <<8>>), <<>>)

Alone == {Made(entry, at, <<s, End>>, filler, 0)
            : entry \in {32, 64}, at \in {40, 64}, filler \in {0, 255},
              s \in Firmware \cup System \cup Chassis \cup Processor \cup Array \cup Device \cup Other}
Several == {Made(64, 40, <<FewFirmware, s, FewArray>> \o rest, filler, more)
              : s \in Processor \cup Device \cup Chassis, rest \in {<<>>, <<End>>, <<End, FewArray>>},
                filler \in {0, 255}, more \in {0, 6}}
CutOff == {Made(64, 40, <<s, t>>, filler, 0 - 3) : s \in Other, t \in Device \cup Array, filler \in {0, 255}}
MCTables == Alone \cup Several \cup CutOff \cup {Made(0, 0, <<End>>, 0, 0)}
=============================================================================
