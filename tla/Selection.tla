------------------------------ MODULE Selection ------------------------------
(***************************************************************************)
(* Selecting members of a sequence by their positions.                     *)
(*                                                                         *)
(* A recursive function stands here where SelectSeq would do: the proofs   *)
(* unfold it.                                                              *)
(***************************************************************************)
EXTENDS Integers, Sequences

(* Those of the first n members of s whose positions are in K, in order.   *)
Picked(s, K, n) ==
    LET f[i \in 0 .. n] ==
            IF i = 0 THEN <<>>
            ELSE IF i \in K THEN Append(f[i - 1], s[i]) ELSE f[i - 1]
    IN  f[n]
=============================================================================
