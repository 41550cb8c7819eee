----------------------------- MODULE MCReencoder -----------------------------
(***************************************************************************)
(* Small instances of Reencoder.                                           *)
(***************************************************************************)
EXTENDS Reencoder

CONSTANTS c1, c2, photo, f1, f2, plain, tailed, broken, flawed

(* A call writes f1 or f2, and reads photo or one of those two.            *)
MCArguments ==
    [input : {photo, f1, f2}, output : {f1, f2}, verbose : {FALSE}, throws : {TRUE}]

(* The pictures differ in what follows EOI and in their EXIF segment.  An  *)
(* output file may exist beforehand.                                       *)
Photo(i, exif) == [image |-> i, exif |-> exif, form |-> "original"]

MCDisk ==
    /\ disk[photo] \in {Absent, Photo(plain, plain), Photo(tailed, NoImage)}
    /\ disk[f1] \in {Absent, Photo(plain, NoImage)}
    /\ disk[f2] \in {Absent, Photo(tailed, tailed)}

(* Which of the two calls writes which file makes no difference.  One may  *)
(* write, rewrite or delete the file the other reads, and both may.        *)
PairInit ==
    /\ Init
    /\ MCDisk
    /\ Output(c1) = f1

PairSpec == PairInit /\ [][Next]_vars /\ Fairness

(* A single call with every option.                                        *)
MCSingleArguments ==
    [input : {photo, f1}, output : {f1}, verbose : BOOLEAN, throws : BOOLEAN]

=============================================================================
