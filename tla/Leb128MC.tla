------------------------------ MODULE Leb128MC ------------------------------
(* All encodings of up to six groups; five are the first that do not fit   *)
(* an int, as with groups of 7 bits and ints of 32.                        *)
EXTENDS Leb128, SequencesExt

MCInputs == BoundedSeq(SUBSET {0, 1}, 6) \ {<<>>}
=============================================================================
