---------------------------- MODULE MCMergeExif ----------------------------
(***************************************************************************)
(* Files around an APP1 segment: the lengths at which the code behaves     *)
(* differently, cut off after any number of bytes.                         *)
(***************************************************************************)
EXTENDS MergeExif

MCBytes == {0, 1, 2, 3, 4, 216, 217, 225, 255}

Prefixes(s) == {SubSeq(s, 1, n) : n \in 0 .. Len(s)}

MCExifFiles ==
    UNION {Prefixes(<<255, 216, 255, marker, high, low, 1, 2, 255, 217>>) :
              marker \in {225, 217}, high \in {0, 1}, low \in {0, 1, 2, 3, 4}}

MCImageFiles == Prefixes(<<255, 216, 255, 217>>)
=============================================================================
