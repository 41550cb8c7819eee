------------------------------ MODULE RowStore ------------------------------
(***************************************************************************)
(* What a virtual array of jmemmgr.c promises: rows that hold what was     *)
(* last written to them, whatever part of them is in memory.  A caller is  *)
(* given a strip of rows and looks at them, or writes them, through it.    *)
(* Rows are made defined by writing, from the first on; a caller that asks *)
(* for too much, skips rows or reads what is not there is refused.         *)
(***************************************************************************)
EXTENDS Integers

CONSTANTS Values, Zero

VARIABLES
    height,    \* how many rows there are
    tallest,   \* how many rows a strip may have
    zeroed,    \* whether rows are zero before they are written
    rows,      \* what the rows hold
    defined,   \* how many rows, from the first, have been made writable
    strip,     \* the rows that the caller has
    view,      \* what the caller sees in them
    usable     \* whether the array can still be used

vars == <<height, tallest, zeroed, rows, defined, strip, view, usable>>

NoStrip == [first |-> 0, end |-> 0, writable |-> FALSE]

StripRows(s) == s.first .. s.end - 1

Init ==
    /\ height \in Nat /\ tallest \in Nat /\ zeroed \in BOOLEAN
    /\ rows = [r \in 0 .. height - 1 |-> Zero]
    /\ defined = 0
    /\ strip = NoStrip
    /\ view = [r \in StripRows(NoStrip) |-> Zero]
    /\ usable = TRUE

Granted(s) ==
    /\ s.end <= height /\ s.end - s.first <= tallest
    /\ s.writable => s.first <= defined
    /\ s.writable \/ zeroed \/ s.end <= defined

(* Rows that become writable are zero, or hold anything at all.            *)
Access(s) ==
    /\ strip' = s
    /\ usable
    /\ Granted(s)
    /\ defined' = IF s.writable /\ defined < s.end THEN s.end ELSE defined
    /\ rows' \in [0 .. height - 1 -> Values]
    /\ \A r \in 0 .. height - 1 : zeroed \/ r \notin defined .. defined' - 1 => rows'[r] = rows[r]
    /\ view' = [r \in StripRows(s) |-> rows'[r]]
    /\ UNCHANGED <<height, tallest, zeroed, usable>>

Write(r, v) ==
    /\ usable
    /\ strip.writable
    /\ rows' = [rows EXCEPT ![r] = v]
    /\ view' = [view EXCEPT ![r] = v]
    /\ UNCHANGED <<height, tallest, zeroed, defined, strip, usable>>

(* An access is refused, or memory or a file fails, or the array is freed: *)
(* nothing is said any more of what the rows hold.                         *)
GiveUp ==
    /\ usable' = FALSE
    /\ strip' = NoStrip
    /\ view' = [r \in StripRows(NoStrip) |-> Zero]
    /\ UNCHANGED <<height, tallest, zeroed, defined>>

Next ==
    \/ \E first, end \in 0 .. height, writable \in BOOLEAN :
          first < end /\ Access([first |-> first, end |-> end, writable |-> writable])
    \/ \E r \in StripRows(strip), v \in Values : Write(r, v)
    \/ GiveUp

Spec == Init /\ [][Next]_vars
=============================================================================
