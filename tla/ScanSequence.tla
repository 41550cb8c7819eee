---------------------------- MODULE ScanSequence ----------------------------
(***************************************************************************)
(* What jpeg_finish_compress promises: it settles how many scans the file  *)
(* has, writes that many, one after the other, and only then ends the      *)
(* file; or it gives up and never ends it.                                 *)
(***************************************************************************)
EXTENDS Naturals

VARIABLES
    status,     \* idle, writing, ended or abandoned
    total,      \* how many scans the file has
    written     \* how many have been written

vars == <<status, total, written>>

Init == status = "idle" /\ total = 0 /\ written = 0

Begin ==
    /\ status = "idle"
    /\ status' = "writing"
    /\ total' \in Nat \ {0}
    /\ UNCHANGED written

WriteScan ==
    /\ status = "writing"
    /\ written < total
    /\ written' = written + 1
    /\ UNCHANGED <<status, total>>

End ==
    /\ status = "writing"
    /\ written = total
    /\ status' = "ended"
    /\ UNCHANGED <<total, written>>

GiveUp ==
    /\ status \in {"idle", "writing"}
    /\ status' = "abandoned"
    /\ UNCHANGED <<total, written>>

Next == Begin \/ WriteScan \/ End \/ GiveUp

Spec == Init /\ [][Next]_vars
=============================================================================
