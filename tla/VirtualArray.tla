---------------------------- MODULE VirtualArray ----------------------------
(***************************************************************************)
(* A virtual array of jmemmgr.c, of samples or of coefficient blocks (the  *)
(* two copies of each routine are the same): a window of some rows is in   *)
(* memory, the rest in a backing store, and an access moves the window.    *)
(* What a row holds is one value.  The backing store of the memory         *)
(* manager's interface is used as the code uses it; the one the library is *)
(* built with, jmemnobs.c, refuses to open it (HasBackingStore = FALSE).   *)
(***************************************************************************)
EXTENDS Integers

CONSTANTS
    Heights,          \* how many rows an array may have
    Accesses,         \* how many rows a caller may ask for at once
    Values,           \* what a row may hold
    Zero, Junk,       \* ... zeroed, and as malloc leaves it
    Unwritten,        \* what the backing store has where nothing was written
    HasBackingStore   \* whether jpeg_open_backing_store works

ASSUME SizesAssumption == Heights \subseteq Nat \ {0} /\ Accesses \subseteq Nat \ {0}

ASSUME ValuesAssumption == Zero \in Values /\ Junk \in Values /\ Unwritten \notin Values

ASSUME StoreAssumption == HasBackingStore \in BOOLEAN

VARIABLES
    \* the control block
    rows_in_array, maxaccess, pre_zero, mem_buffer, rows_in_mem,
    cur_start_row, first_undef_row, dirty, b_s_open,
    store,   \* what the backing store holds, row by row
    opened,  \* how many backing stores are open
    strip,   \* the rows that the caller was given last
    state    \* whether the array is to be realized, in use, given up or freed

request == <<rows_in_array, maxaccess, pre_zero>>
window == <<mem_buffer, rows_in_mem, cur_start_row>>
backing == <<b_s_open, store, opened>>

vars == <<request, window, first_undef_row, dirty, backing, strip, state>>

-----------------------------------------------------------------------------
ArrayRows == 0 .. rows_in_array - 1

(* The rows that the buffer would have with its window at some place.      *)
WindowFrom(row) == row .. row + rows_in_mem - 1

NoStrip == [first |-> 0, end |-> 0, writable |-> FALSE]

StripRows(s) == s.first .. s.end - 1

Strips ==
    {s \in [first : 0 .. rows_in_array, end : 0 .. rows_in_array + 1, writable : BOOLEAN] :
        s.first < s.end}

TypeOK ==
    /\ rows_in_array \in Heights /\ maxaccess \in Accesses /\ pre_zero \in BOOLEAN
    /\ rows_in_mem \in Nat
    /\ mem_buffer \in [0 .. rows_in_mem - 1 -> Values]
    /\ cur_start_row \in ArrayRows
    /\ first_undef_row \in 0 .. rows_in_array
    /\ dirty \in BOOLEAN
    /\ b_s_open \in BOOLEAN
    /\ store \in [ArrayRows -> Values \cup {Unwritten}]
    /\ opened \in 0 .. 1
    /\ strip \in Strips \cup {NoStrip}
    /\ state \in {"requested", "realized", "error", "freed"}

(* request_virt_barray: the fields it does not set are as realize_virt_-   *)
(* arrays leaves them.                                                     *)
Init ==
    /\ rows_in_array \in Heights /\ maxaccess \in Accesses /\ pre_zero \in BOOLEAN
    /\ rows_in_mem = 0 /\ mem_buffer = [i \in 0 .. rows_in_mem - 1 |-> Junk]
    /\ cur_start_row = 0 /\ first_undef_row = 0 /\ dirty = FALSE
    /\ b_s_open = FALSE /\ store = [r \in ArrayRows |-> Unwritten] /\ opened = 0
    /\ strip = NoStrip
    /\ state = "requested"

-----------------------------------------------------------------------------
(* ERREXIT: what the caller was given is not used any more.                *)
ErrorExit ==
    /\ state' = "error"
    /\ strip' = NoStrip

minheights == (rows_in_array - 1) \div maxaccess + 1

(* realize_virt_arrays, with as much memory as jpeg_mem_available says.    *)
Realize(max_minheights) ==
    LET fits == minheights <= max_minheights
        size == IF fits THEN rows_in_array ELSE max_minheights * maxaccess
    IN  /\ state = "requested"
        /\ fits \/ HasBackingStore
        /\ rows_in_mem' = size
        /\ mem_buffer' = [i \in 0 .. size - 1 |-> Junk]
        /\ b_s_open' = ~fits
        /\ opened' = IF fits THEN 0 ELSE 1
        /\ cur_start_row' = 0 /\ first_undef_row' = 0 /\ dirty' = FALSE
        /\ state' = "realized"
        /\ UNCHANGED <<request, store, strip>>

(* The backing store cannot be opened, or malloc fails after that.         *)
RealizeFails ==
    /\ state = "requested"
    /\ \E open \in {FALSE, HasBackingStore} :
        /\ b_s_open' = open
        /\ opened' = IF open THEN 1 ELSE 0
    /\ ErrorExit
    /\ UNCHANGED <<request, window, first_undef_row, dirty, store>>

-----------------------------------------------------------------------------
(* Mutant: rows that are not defined are transferred too.                  *)
IoRowsAll(row) == {r \in WindowFrom(row) : r < rows_in_array}

(* Mutant: the last row that is defined is not transferred.                *)
IoRowsShort(row) == {r \in WindowFrom(row) : r < first_undef_row - 1 /\ r < rows_in_array}

(* The rows that do_barray_io transfers with the window at some place: no  *)
(* more than is defined, no more than fits.                                *)
IoRows(row) == {r \in WindowFrom(row) : r < first_undef_row /\ r < rows_in_array}

Flushed ==
    [r \in ArrayRows |-> IF dirty /\ r \in IoRows(cur_start_row)
                         THEN mem_buffer[r - cur_start_row] ELSE store[r]]

Loaded(row) ==
    [i \in 0 .. rows_in_mem - 1 |-> IF row + i \in IoRows(row)
                                    THEN Flushed[row + i] ELSE mem_buffer[i]]

(* Mutant: the last row of the window is not used.                         *)
InWindowStrict(s) == cur_start_row <= s.first /\ s.end < cur_start_row + rows_in_mem

InWindow(s) == cur_start_row <= s.first /\ s.end <= cur_start_row + rows_in_mem

(* A target after the window is put at its start, one before it at its end.*)
Target(s) ==
    IF s.first > cur_start_row THEN s.first
    ELSE IF s.end < rows_in_mem THEN 0 ELSE s.end - rows_in_mem

BadRequest(s) == s.end > rows_in_array \/ s.end - s.first > maxaccess \/ state # "realized"

(* The writer skipped rows, or a reader looks at undefined ones.           *)
BadRows(s) ==
    /\ first_undef_row < s.end
    /\ IF s.writable THEN first_undef_row < s.first ELSE ~pre_zero

(* Mutant: the whole strip is zeroed when part of it is not yet defined.   *)
PrezeroedFromStart(s) == {r \in StripRows(s) : pre_zero /\ first_undef_row < s.end}

(* The rows of a strip that are zeroed: those not yet defined.             *)
Prezeroed(s) == {r \in StripRows(s) : pre_zero /\ r >= first_undef_row}

Define(s) ==
    IF s.writable /\ first_undef_row < s.end THEN s.end ELSE first_undef_row

(* access_virt_barray moves the window if it has to ...                    *)
Access(s) ==
    LET moves  == ~InWindow(s)
        start  == IF moves THEN Target(s) ELSE cur_start_row
        buffer == IF moves THEN Loaded(start) ELSE mem_buffer
    IN  /\ ~BadRequest(s)
        /\ ~BadRows(s)
        /\ moves => b_s_open
        /\ cur_start_row' = start
        /\ store' = IF moves THEN Flushed ELSE store
        /\ mem_buffer' = [i \in 0 .. rows_in_mem - 1 |->
                             IF start + i \in Prezeroed(s) THEN Zero ELSE buffer[i]]
        /\ first_undef_row' = Define(s)
        /\ dirty' = (s.writable \/ (dirty /\ ~moves))
        /\ strip' = s
        /\ UNCHANGED <<request, rows_in_mem, b_s_open, opened, state>>

(* ... and reports what is wrong before it does, or after.                 *)
AccessRefused(s) ==
    /\ state \in {"requested", "realized"}
    /\ BadRequest(s)
    /\ ErrorExit
    /\ UNCHANGED <<request, window, first_undef_row, dirty, backing>>

AccessFails(s) ==
    /\ ~BadRequest(s)
    /\ BadRows(s)
    /\ ErrorExit
    /\ IF InWindow(s)
       THEN UNCHANGED <<mem_buffer, cur_start_row, dirty, store>>
       ELSE /\ cur_start_row' = Target(s)
            /\ mem_buffer' = Loaded(Target(s))
            /\ store' = Flushed
            /\ dirty' = FALSE
    /\ UNCHANGED <<request, rows_in_mem, first_undef_row, b_s_open, opened>>

(* write_backing_store or read_backing_store fails after some rows.        *)
StoreFails(s) ==
    /\ ~BadRequest(s)
    /\ ~InWindow(s) /\ b_s_open
    /\ \E n \in ArrayRows :
        \/ /\ dirty
           /\ store' = [r \in ArrayRows |-> IF r < n THEN Flushed[r] ELSE store[r]]
           /\ UNCHANGED <<window, dirty>>
        \/ /\ store' = Flushed
           /\ cur_start_row' = Target(s)
           /\ mem_buffer' = [i \in 0 .. rows_in_mem - 1 |->
                                IF Target(s) + i < n THEN Loaded(Target(s))[i] ELSE mem_buffer[i]]
           /\ dirty' = FALSE
           /\ UNCHANGED rows_in_mem
    /\ ErrorExit
    /\ UNCHANGED <<request, first_undef_row, b_s_open, opened>>

(* The caller writes a row through the pointer it was given.               *)
WriteRow(r, v) ==
    /\ state = "realized"
    /\ strip.writable
    /\ mem_buffer' = [mem_buffer EXCEPT ![r - cur_start_row] = v]
    /\ UNCHANGED <<request, rows_in_mem, cur_start_row, first_undef_row, dirty, backing, strip, state>>

(* Mutant: the flag is not cleared before the store is closed.             *)
FreePoolRecursive ==
    /\ state # "freed"
    /\ opened' = IF b_s_open THEN opened - 1 ELSE opened
    /\ strip' = NoStrip
    /\ IF b_s_open THEN state' \in {"freed", "error"} ELSE state' = "freed"
    /\ UNCHANGED <<request, window, first_undef_row, dirty, b_s_open, store>>

(* free_pool: closing the store may fail too, and brings the caller back   *)
(* here, by way of jpeg_destroy.                                           *)
FreePool ==
    /\ state # "freed"
    /\ b_s_open' = FALSE
    /\ opened' = IF b_s_open THEN opened - 1 ELSE opened
    /\ strip' = NoStrip
    /\ IF b_s_open THEN state' \in {"freed", "error"} ELSE state' = "freed"
    /\ UNCHANGED <<request, window, first_undef_row, dirty, store>>

Next ==
    \/ \E max_minheights \in 1 .. minheights : Realize(max_minheights)
    \/ RealizeFails
    \/ \E s \in Strips : Access(s) \/ AccessRefused(s) \/ AccessFails(s) \/ StoreFails(s)
    \/ \E r \in StripRows(strip), v \in Values \ {Junk} : WriteRow(r, v)
    \/ FreePool

Spec == Init /\ [][Next]_vars

-----------------------------------------------------------------------------
(* What is in a row, wherever it is.                                       *)
Row(r) ==
    IF r >= first_undef_row THEN Zero
    ELSE IF r \in WindowFrom(cur_start_row) THEN mem_buffer[r - cur_start_row]
    ELSE store[r]

Rows == INSTANCE RowStore WITH
    height <- rows_in_array,
    tallest <- maxaccess,
    zeroed <- pre_zero,
    rows <- [r \in ArrayRows |-> Row(r)],
    defined <- first_undef_row,
    view <- [r \in StripRows(strip) |-> mem_buffer[r - cur_start_row]],
    usable <- state \in {"requested", "realized"}

(* However the window moves, a caller sees in its strip what was last      *)
(* written to those rows, or zeros: access_virt_barray implements an array *)
(* that is all in memory.                                                  *)
RowsSurvive == Rows!Spec

(* An access never finds that it has to move the window of an array that   *)
(* is all in memory (JERR_VIRTUAL_BUG).                                    *)
NoVirtualBug ==
    state = "realized" /\ ~b_s_open =>
        \A s \in Strips : s.end <= rows_in_array => InWindow(s)

(* The backing store is written from its start on, without holes, and all  *)
(* that was defined and has left the window is there to be read back.      *)
NoHoles ==
    LET written == {r \in ArrayRows : store[r] # Unwritten}
    IN  /\ \A r \in written : \A q \in 0 .. r : q \in written
        /\ state = "realized" =>
            \A r \in 0 .. first_undef_row - 1 : r \in WindowFrom(cur_start_row) \/ r \in written

(* A backing store is closed once, even when closing it is what fails, and *)
(* none is left open when the array is freed.                              *)
StoreClosedOnce ==
    /\ opened = IF b_s_open THEN 1 ELSE 0
    /\ state = "freed" => opened = 0
=============================================================================
