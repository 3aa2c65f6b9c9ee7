-------------------------------- MODULE Heap --------------------------------
(***************************************************************************)
(* What a memory allocator promises its clients, whatever its free list    *)
(* looks like: kalloc hands out a range of memory that nobody else holds,  *)
(* of the length that was asked for, or refuses; kfree takes it back.      *)
(* MemPool is shown to implement this module.                              *)
(***************************************************************************)
EXTENDS Integers

CONSTANTS Arena,   \* the addresses that exist
          Sizes    \* the lengths clients ask for

VARIABLE claims    \* the ranges clients hold, as <<address, length>> pairs

Bytes(addr, len) == addr .. (addr + len - 1)

Init == claims = {}

(***************************************************************************)
(* A granted range lies in the arena, shares no byte with a range that is  *)
(* held, and even an empty one has an address of its own.                  *)
(***************************************************************************)
Alloc(addr, len) ==
  /\ Bytes(addr, len) \subseteq Arena
  /\ \A c \in claims : c[1] # addr /\ Bytes(c[1], c[2]) \cap Bytes(addr, len) = {}
  /\ claims' = claims \cup {<<addr, len>>}

Free(c) == claims' = claims \ {c}

Next == \/ \E addr \in Arena, len \in Sizes : Alloc(addr, len)
        \/ \E c \in claims : Free(c)

Spec == Init /\ [][Next]_claims
=============================================================================
