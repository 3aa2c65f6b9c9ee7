--------------------------- MODULE MCProcessRunner ---------------------------
(* The instance of ProcessRunner for TLC. *)
EXTENDS ProcessRunner

Parts == [stdout |-> 2, stderr |-> 3]
Both == [stdout |-> {"warning", "begin"}, stderr |-> Lines]
=============================================================================
