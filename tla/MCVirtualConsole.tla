--------------------------- MODULE MCVirtualConsole ---------------------------
(* Small consoles for TLC: characters of 2 by 3 pixels, a buffer of 3 by 3   *)
(* characters, framebuffers smaller, larger and no multiple of a character.  *)
EXTENDS VirtualConsole

CONSTANTS a, b

SmallResolutions == {<<2, 3, 2>>, <<2, 7, 4>>, <<5, 8, 5>>, <<7, 6, 8>>, <<6, 9, 6>>, <<20, 20, 24>>}

SmallCharacters == {a, b, Newline}

SmallTexts == UNION {[1 .. n -> {a, Newline}] : n \in 1 .. 3}
                \cup {<<b>>, <<b, b, a, a>>, <<a, a, b, b, b>>}
=============================================================================
