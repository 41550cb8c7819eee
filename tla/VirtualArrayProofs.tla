------------------------- MODULE VirtualArrayProofs -------------------------
(***************************************************************************)
(* Proofs about VirtualArray, for arrays of any height, strips of any      *)
(* height and any buffer that realize_virt_arrays may choose.              *)
(***************************************************************************)
EXTENDS VirtualArray, TLAPS

-----------------------------------------------------------------------------
(* A buffer with a backing store has room for any strip; one without is    *)
(* the whole array.                                                        *)
BufferOK ==
    state = "realized" =>
        IF b_s_open THEN maxaccess <= rows_in_mem
        ELSE rows_in_mem = rows_in_array /\ cur_start_row = 0

(* The caller's strip is in the window, and what it may write will be      *)
(* saved.                                                                  *)
StripOK ==
    IF state = "realized" /\ strip # NoStrip
    THEN /\ InWindow(strip) /\ strip.end <= rows_in_array
         /\ strip.writable => dirty /\ strip.end <= first_undef_row
    ELSE strip = NoStrip

(* What the window holds and was not changed is in the backing store too.  *)
CleanOK ==
    state = "realized" /\ b_s_open /\ ~dirty =>
        \A r \in IoRows(cur_start_row) : store[r] = mem_buffer[r - cur_start_row]

Inv ==
    /\ TypeOK
    /\ BufferOK
    /\ StripOK
    /\ CleanOK
    /\ NoHoles
    /\ StoreClosedOnce
    /\ state = "requested" => first_undef_row = 0 /\ ~b_s_open

-----------------------------------------------------------------------------
LEMMA Between ==
    ASSUME NEW a \in Nat, NEW b \in Nat
    PROVE  \A r : r \in a .. b - 1 <=> r \in Nat /\ a <= r /\ r < b
  OBVIOUS

LEMMA SizeOfBuffer ==
    ASSUME NEW k \in Nat \ {0}, NEW m \in Nat \ {0}
    PROVE  k * m \in Nat /\ m <= k * m
<1>1. k * m = (k - 1) * m + m
  BY SMT
<1>2. (k - 1) * m \in Nat
  BY SMT
<1> QED
  BY <1>1, <1>2

(* A strip that was asked for correctly fits into the window it is given.  *)
LEMMA TargetFits ==
    ASSUME Inv, NEW s \in Strips, ~BadRequest(s), ~InWindow(s)
    PROVE  /\ b_s_open
           /\ Target(s) \in ArrayRows
           /\ Target(s) <= s.first /\ s.end <= Target(s) + rows_in_mem
<1> USE SizesAssumption DEF Inv, TypeOK, Strips, BadRequest, BufferOK
<1>1. b_s_open
  BY DEF InWindow
<1>2. s.end - s.first <= rows_in_mem
  BY <1>1
<1> QED
  BY <1>1, <1>2 DEF InWindow, Target, ArrayRows

(* What is flushed, and what can be loaded after it.                       *)
LEMMA FlushKeepsRows ==
    ASSUME Inv, state = "realized", b_s_open
    PROVE  /\ Flushed \in [ArrayRows -> Values \cup {Unwritten}]
           /\ \A r \in 0 .. first_undef_row - 1 : Flushed[r] = Row(r) /\ Flushed[r] \in Values
           /\ \A r \in ArrayRows : Flushed[r] # Unwritten =>
                  \A q \in 0 .. r : Flushed[q] # Unwritten
           /\ \A n \in ArrayRows, r \in ArrayRows :
                  (IF r < n THEN Flushed[r] ELSE store[r]) # Unwritten =>
                      \A q \in 0 .. r : (IF q < n THEN Flushed[q] ELSE store[q]) # Unwritten
<1> USE ValuesAssumption, SizesAssumption DEF Inv, TypeOK, ArrayRows
<1>1. \A r \in IoRows(cur_start_row) :
          /\ r \in ArrayRows /\ r < first_undef_row
          /\ r - cur_start_row \in 0 .. rows_in_mem - 1 /\ mem_buffer[r - cur_start_row] \in Values
  BY DEF IoRows, WindowFrom
<1>2. Flushed \in [ArrayRows -> Values \cup {Unwritten}]
  BY <1>1 DEF Flushed
<1>3. ASSUME NEW r \in 0 .. first_undef_row - 1
      PROVE  Flushed[r] = Row(r) /\ Flushed[r] \in Values
  <2>1. r \in ArrayRows
    OBVIOUS
  <2>2. CASE r \in WindowFrom(cur_start_row)
    <3>1. r \in IoRows(cur_start_row)
      BY <2>1, <2>2 DEF IoRows
    <3>2. Flushed[r] = mem_buffer[r - cur_start_row]
      BY <2>1, <3>1 DEF Flushed, CleanOK
    <3> QED
      BY <1>1, <2>2, <3>1, <3>2 DEF Row
  <2>3. CASE r \notin WindowFrom(cur_start_row)
    <3>1. r \notin IoRows(cur_start_row)
      BY <2>3 DEF IoRows
    <3>2. Flushed[r] = store[r] /\ store[r] \in Values
      BY <2>1, <2>3, <3>1 DEF Flushed, NoHoles
    <3> QED
      BY <2>3, <3>2 DEF Row
  <2> QED
    BY <2>2, <2>3
<1>4. \A r \in ArrayRows : Flushed[r] # Unwritten => r < first_undef_row \/ Flushed[r] = store[r]
  BY <1>1 DEF Flushed
<1>5. \A r \in ArrayRows : store[r] # Unwritten =>
          Flushed[r] # Unwritten /\ \A q \in 0 .. r : store[q] # Unwritten
  BY <1>1 DEF Flushed, NoHoles
<1>6. ASSUME NEW r \in ArrayRows, Flushed[r] # Unwritten, NEW q \in 0 .. r
      PROVE  Flushed[q] # Unwritten
  <2>1. q \in ArrayRows
    OBVIOUS
  <2> QED
    BY <1>3, <1>4, <1>5, <1>6, <2>1
<1>7. ASSUME NEW n \in ArrayRows, NEW r \in ArrayRows, NEW q \in 0 .. r,
             (IF r < n THEN Flushed[r] ELSE store[r]) # Unwritten
      PROVE  (IF q < n THEN Flushed[q] ELSE store[q]) # Unwritten
  BY <1>5, <1>6, <1>7
<1> QED
  BY <1>2, <1>3, <1>6, <1>7

(* ... and what the moved window holds.                                    *)
LEMMA LoadKeepsRows ==
    ASSUME Inv, state = "realized", b_s_open, NEW row \in ArrayRows
    PROVE  /\ Loaded(row) \in [0 .. rows_in_mem - 1 -> Values]
           /\ \A r \in IoRows(row) : Loaded(row)[r - row] = Row(r) /\ Flushed[r] = Row(r)
<1> USE DEF Inv, TypeOK, ArrayRows
<1>1. \A r \in IoRows(row) : r \in 0 .. first_undef_row - 1 /\ r - row \in 0 .. rows_in_mem - 1
  BY DEF IoRows, WindowFrom
<1>2. \A r \in IoRows(row) : Flushed[r] = Row(r) /\ Flushed[r] \in Values
  BY <1>1, FlushKeepsRows
<1>3. \A i \in 0 .. rows_in_mem - 1 : row + i \in IoRows(row) => Flushed[row + i] \in Values
  BY <1>2
<1>4. \A r \in IoRows(row) : row + (r - row) = r
  BY <1>1
<1> QED
  BY <1>1, <1>2, <1>3, <1>4 DEF Loaded

-----------------------------------------------------------------------------
(* An access whose window has moved, or not: the buffer before zeroing.    *)
LEMMA BufferAfterMove ==
    ASSUME Inv, NEW s \in Strips, ~BadRequest(s), NEW STATE start, NEW STATE buffer, NEW STATE stored,
           InWindow(s) => start = cur_start_row /\ buffer = mem_buffer /\ stored = store,
           ~InWindow(s) => start = Target(s) /\ buffer = Loaded(start) /\ stored = Flushed
    PROVE  /\ start \in ArrayRows
           /\ start <= s.first /\ s.end <= start + rows_in_mem
           /\ ~b_s_open => start = 0
           /\ buffer \in [0 .. rows_in_mem - 1 -> Values]
           /\ stored \in [ArrayRows -> Values \cup {Unwritten}]
           /\ \A r \in 0 .. first_undef_row - 1 :
                  Row(r) = IF r \in WindowFrom(start) THEN buffer[r - start] ELSE stored[r]
           /\ b_s_open /\ (~InWindow(s) \/ ~dirty) =>
                  \A r \in IoRows(start) : stored[r] = buffer[r - start]
           /\ \A r \in ArrayRows : stored[r] # Unwritten => \A q \in 0 .. r : stored[q] # Unwritten
           /\ \A r \in 0 .. first_undef_row - 1 : r \in WindowFrom(start) \/ stored[r] # Unwritten
<1> USE ValuesAssumption
<1>1. state = "realized"
  BY DEF BadRequest
<1>2. CASE InWindow(s)
  BY <1>1, <1>2 DEF InWindow, Inv, TypeOK, BufferOK, CleanOK, NoHoles, Row, WindowFrom, ArrayRows, Strips
<1>3. CASE ~InWindow(s)
  <2>1. b_s_open /\ start \in ArrayRows /\ start <= s.first /\ s.end <= start + rows_in_mem
    BY <1>3, TargetFits
  <2>2. /\ Loaded(start) \in [0 .. rows_in_mem - 1 -> Values]
        /\ \A r \in IoRows(start) : Loaded(start)[r - start] = Row(r) /\ Flushed[r] = Row(r)
    BY <1>1, <2>1, LoadKeepsRows
  <2>3. \A r \in 0 .. first_undef_row - 1 : r \in WindowFrom(start) => r \in IoRows(start)
    BY SizesAssumption DEF IoRows, Inv, TypeOK
  <2> QED
    BY <1>1, <1>3, <2>1, <2>2, <2>3, FlushKeepsRows
<1> QED
  BY <1>2, <1>3

(* An access gives out rows that hold what they held, and keeps Inv.       *)
LEMMA AccessKeepsRows ==
    ASSUME Inv, NEW s \in Strips, Access(s)
    PROVE  /\ Inv'
           /\ \A r \in ArrayRows : pre_zero \/ r \notin first_undef_row .. first_undef_row' - 1 =>
                  Row(r)' = Row(r)
           /\ \A r \in StripRows(s) : mem_buffer'[r - cur_start_row'] = Row(r)'
           /\ \A r \in ArrayRows : Row(r)' \in Values
<1> DEFINE moves  == ~InWindow(s)
           start  == IF moves THEN Target(s) ELSE cur_start_row
           buffer == IF moves THEN Loaded(start) ELSE mem_buffer
           stored == IF moves THEN Flushed ELSE store
<1> USE ValuesAssumption
<1>1. /\ ~BadRequest(s) /\ ~BadRows(s)
      /\ cur_start_row' = start /\ store' = stored
      /\ mem_buffer' = [i \in 0 .. rows_in_mem - 1 |->
                            IF start + i \in Prezeroed(s) THEN Zero ELSE buffer[i]]
      /\ first_undef_row' = Define(s)
      /\ dirty' = (s.writable \/ (dirty /\ ~moves))
      /\ strip' = s
      /\ UNCHANGED <<rows_in_array, maxaccess, pre_zero, rows_in_mem, b_s_open, opened, state>>
  BY DEF Access, request
<1>2. /\ start \in ArrayRows
      /\ start <= s.first /\ s.end <= start + rows_in_mem
      /\ ~b_s_open => start = 0
      /\ buffer \in [0 .. rows_in_mem - 1 -> Values]
      /\ stored \in [ArrayRows -> Values \cup {Unwritten}]
      /\ \A r \in 0 .. first_undef_row - 1 :
             Row(r) = IF r \in WindowFrom(start) THEN buffer[r - start] ELSE stored[r]
      /\ b_s_open /\ (moves \/ ~dirty) => \A r \in IoRows(start) : stored[r] = buffer[r - start]
      /\ \A r \in ArrayRows : stored[r] # Unwritten => \A q \in 0 .. r : stored[q] # Unwritten
      /\ \A r \in 0 .. first_undef_row - 1 : r \in WindowFrom(start) \/ stored[r] # Unwritten
  BY <1>1, BufferAfterMove
<1> HIDE DEF moves, start, buffer, stored
<1>3. /\ rows_in_array \in Nat /\ rows_in_mem \in Nat /\ first_undef_row \in 0 .. rows_in_array
      /\ s.first \in Nat /\ s.end \in Nat /\ s.first < s.end /\ s.end <= rows_in_array
      /\ s.writable \in BOOLEAN /\ start \in Nat /\ s.end - s.first <= maxaccess
      /\ state = "realized" /\ dirty \in BOOLEAN /\ pre_zero \in BOOLEAN
  BY <1>1, <1>2, SizesAssumption DEF BadRequest, Strips, Inv, TypeOK, ArrayRows
<1>4. /\ first_undef_row <= first_undef_row' /\ first_undef_row' \in 0 .. rows_in_array
      /\ s.writable => s.end <= first_undef_row'
      /\ first_undef_row' # first_undef_row =>
            s.writable /\ s.first <= first_undef_row /\ first_undef_row' = s.end
      /\ ~s.writable /\ first_undef_row < s.end => pre_zero
  BY <1>1, <1>3 DEF Define, BadRows
<1>5. mem_buffer' \in [0 .. rows_in_mem - 1 -> Values]
  BY <1>1, <1>2
<1>6. ASSUME NEW r \in WindowFrom(start)
      PROVE  /\ r - start \in 0 .. rows_in_mem - 1
             /\ r < first_undef_row => mem_buffer'[r - start] = buffer[r - start]
             /\ pre_zero /\ r \in StripRows(s) /\ r >= first_undef_row => mem_buffer'[r - start] = Zero
  <2>1. r - start \in 0 .. rows_in_mem - 1 /\ start + (r - start) = r
    BY <1>3 DEF WindowFrom
  <2>2. mem_buffer'[r - start] = IF r \in Prezeroed(s) THEN Zero ELSE buffer[r - start]
    BY <1>1, <2>1
  <2> QED
    BY <1>3, <2>1, <2>2 DEF Prezeroed, StripRows
<1>7. \A r \in StripRows(s) : r \in WindowFrom(start) /\ r \in ArrayRows
  BY <1>2, <1>3 DEF StripRows, WindowFrom, ArrayRows
<1>8. \A r \in ArrayRows :
          Row(r)' = IF r >= first_undef_row' THEN Zero
                    ELSE IF r \in WindowFrom(start) THEN mem_buffer'[r - start] ELSE stored[r]
  BY <1>1 DEF Row, WindowFrom
<1>9. ASSUME NEW r \in ArrayRows, pre_zero \/ r \notin first_undef_row .. first_undef_row' - 1
      PROVE  Row(r)' = Row(r)
  <2>0. r \in Nat /\ r < rows_in_array /\ first_undef_row \in Nat /\ first_undef_row' \in Nat
    BY <1>3, <1>4 DEF ArrayRows
  <2>1. CASE r < first_undef_row
    <3>1. r \in 0 .. first_undef_row - 1 /\ ~(r >= first_undef_row')
      BY <1>4, <2>0, <2>1
    <3> QED
      BY <1>2, <1>6, <1>8, <2>1, <3>1
  <2>2. CASE r >= first_undef_row'
    <3>1. r >= first_undef_row
      BY <1>4, <2>0, <2>2
    <3> QED
      BY <1>8, <2>2, <3>1 DEF Row
  <2>3. CASE r >= first_undef_row /\ r < first_undef_row'
    <3>1. r \in first_undef_row .. first_undef_row' - 1
      BY <2>0, <2>3, Between
    <3>2. pre_zero
      BY <1>9, <3>1
    <3>3. r \in StripRows(s)
      BY <1>3, <1>4, <2>0, <2>3 DEF StripRows
    <3>4. ~(r >= first_undef_row')
      BY <2>0, <2>3
    <3> QED
      BY <1>6, <1>7, <1>8, <2>3, <3>2, <3>3, <3>4 DEF Row
  <2> QED
    BY <2>0, <2>1, <2>2, <2>3
<1>10. ASSUME NEW r \in StripRows(s)
       PROVE  mem_buffer'[r - cur_start_row'] = Row(r)'
  <2>0. r \in Nat /\ first_undef_row' \in Nat /\ r < s.end
    BY <1>3, <1>4 DEF StripRows
  <2>1. CASE r < first_undef_row'
    <3>1. ~(r >= first_undef_row')
      BY <2>0, <2>1
    <3> QED
      BY <1>1, <1>7, <1>8, <3>1
  <2>2. CASE r >= first_undef_row'
    <3>1. pre_zero /\ r >= first_undef_row
      BY <1>3, <1>4, <1>7, <2>2 DEF StripRows, ArrayRows
    <3> QED
      BY <1>1, <1>6, <1>7, <1>8, <2>2, <3>1
  <2> QED
    BY <2>0, <2>1, <2>2
<1>11. ASSUME NEW r \in ArrayRows
       PROVE  Row(r)' \in Values
  <2>1. \A q \in WindowFrom(start) : mem_buffer'[q - start] \in Values
    BY <1>5, <1>6
  <2>2. r < first_undef_row' /\ r \notin WindowFrom(start) => r < first_undef_row
    BY <1>3, <1>4, <1>7 DEF StripRows, ArrayRows
  <2>3. r \notin WindowFrom(start) /\ r < first_undef_row => stored[r] \in Values
    BY <1>2, <1>3 DEF ArrayRows
  <2> QED
    BY <1>3, <1>4, <1>8, <2>1, <2>2, <2>3 DEF ArrayRows
<1>12. Inv'
  <2>1. TypeOK'
    BY <1>1, <1>2, <1>3, <1>4, <1>5 DEF TypeOK, Inv, ArrayRows, Strips
  <2>2. BufferOK'
    BY <1>1, <1>2, <1>3 DEF BufferOK, Inv
  <2>3. StripOK'
    BY <1>1, <1>2, <1>3, <1>4 DEF StripOK, InWindow
  <2>4. CleanOK'
    <3>1. SUFFICES ASSUME b_s_open, ~dirty', NEW r \in IoRows(cur_start_row)'
                   PROVE  stored[r] = mem_buffer'[r - start]
      BY <1>1, <1>3 DEF CleanOK
    <3>2. ~s.writable /\ (moves \/ ~dirty)
      BY <1>1, <3>1
    <3>3. first_undef_row' = first_undef_row
      BY <1>4, <3>2
    <3>4. r \in IoRows(start) /\ r \in WindowFrom(start) /\ r < first_undef_row
      BY <1>1, <3>1, <3>3 DEF IoRows, WindowFrom
    <3> QED
      BY <1>2, <1>6, <3>1, <3>2, <3>4
  <2>5. NoHoles'
    <3>1. ASSUME NEW r \in 0 .. first_undef_row' - 1
          PROVE  r \in WindowFrom(start) \/ r \in 0 .. first_undef_row - 1
      <4>0. first_undef_row \in Nat /\ first_undef_row' \in Nat
        BY <1>3, <1>4
      <4>1. r \in Nat /\ r < first_undef_row'
        BY <4>0, <3>1, Between
      <4>2. CASE r < first_undef_row
        <5>1. r \in 0 .. first_undef_row - 1
          BY <4>0, <4>1, <4>2, Between
        <5> QED
          BY <5>1
      <4>3. CASE r >= first_undef_row
        <5>1. r \in StripRows(s)
          BY <1>3, <1>4, <4>1, <4>3 DEF StripRows
        <5> QED
          BY <1>7, <5>1
      <4>4. r < first_undef_row \/ r >= first_undef_row
        BY <4>0, <4>1
      <4> QED
        BY <4>2, <4>3, <4>4
    <3>2. \A r \in 0 .. first_undef_row' - 1 : r \in WindowFrom(start) \/ stored[r] # Unwritten
      BY <1>2, <3>1
    <3> QED
      BY <1>1, <1>2, <1>3, <1>4, <3>2 DEF NoHoles, WindowFrom, ArrayRows
  <2>6. StoreClosedOnce'
    BY <1>1 DEF StoreClosedOnce, Inv
  <2> QED
    BY <1>1, <1>3, <2>1, <2>2, <2>3, <2>4, <2>5, <2>6 DEF Inv
<1> QED
  BY <1>9, <1>10, <1>11, <1>12

-----------------------------------------------------------------------------
(* The other steps.                                                        *)

LEMMA InitInv == Init => Inv
<1> SUFFICES ASSUME Init PROVE Inv
  OBVIOUS
<1> USE ValuesAssumption, SizesAssumption DEF Init
<1>1. rows_in_array \in Nat \ {0} /\ ArrayRows = 0 .. rows_in_array - 1
  BY DEF ArrayRows
<1>2. TypeOK
  <2>1. mem_buffer \in [0 .. rows_in_mem - 1 -> Values] /\ store \in [ArrayRows -> Values \cup {Unwritten}]
    OBVIOUS
  <2>2. cur_start_row \in ArrayRows /\ first_undef_row \in 0 .. rows_in_array
    BY <1>1
  <2> QED
    BY <2>1, <2>2 DEF TypeOK
<1>3. NoHoles
  BY <1>1 DEF NoHoles
<1> QED
  BY <1>2, <1>3 DEF Inv, BufferOK, StripOK, CleanOK, StoreClosedOnce

LEMMA RealizeInv ==
    ASSUME Inv, NEW max_minheights \in 1 .. minheights, Realize(max_minheights)
    PROVE  Inv'
<1> DEFINE fits == minheights <= max_minheights
           size == IF fits THEN rows_in_array ELSE max_minheights * maxaccess
<1>1. /\ state = "requested" /\ state' = "realized"
      /\ rows_in_mem' = size
      /\ mem_buffer' = [i \in 0 .. size - 1 |-> Junk]
      /\ b_s_open' = ~fits
      /\ opened' = IF fits THEN 0 ELSE 1
      /\ cur_start_row' = 0 /\ first_undef_row' = 0 /\ dirty' = FALSE
      /\ UNCHANGED <<rows_in_array, maxaccess, pre_zero, store, strip>>
  BY DEF Realize, request
<1>2. rows_in_array \in Nat \ {0} /\ maxaccess \in Nat \ {0}
  BY SizesAssumption DEF Inv, TypeOK
<1>3. max_minheights \in Nat \ {0}
  BY <1>2 DEF minheights
<1>4. size \in Nat /\ (~fits => maxaccess <= size) /\ fits \in BOOLEAN /\ (fits => size = rows_in_array)
  BY <1>2, <1>3, SizeOfBuffer
<1> HIDE DEF fits, size
<1>5. TypeOK'
  <2>1. mem_buffer' \in [0 .. size - 1 -> Values]
    BY <1>1, ValuesAssumption
  <2>2. 0 \in ArrayRows' /\ 0 \in 0 .. rows_in_array
    BY <1>1, <1>2 DEF ArrayRows
  <2>3. ArrayRows' = ArrayRows /\ Strips' = Strips
    BY <1>1 DEF ArrayRows, Strips
  <2>4. rows_in_mem' \in Nat /\ b_s_open' \in BOOLEAN /\ opened' \in 0 .. 1
    BY <1>1, <1>4
  <2> QED
    BY <1>1, <2>1, <2>2, <2>3, <2>4 DEF TypeOK, Inv, NoStrip
<1>6. StripOK'
  BY <1>1 DEF StripOK, Inv
<1>7. NoHoles'
  BY <1>1 DEF NoHoles, Inv, ArrayRows
<1>8. CleanOK'
  BY <1>1 DEF CleanOK, IoRows, WindowFrom
<1>9. BufferOK' /\ StoreClosedOnce'
  BY <1>1, <1>4 DEF BufferOK, StoreClosedOnce
<1> QED
  BY <1>1, <1>5, <1>6, <1>7, <1>8, <1>9 DEF Inv

LEMMA WriteInv ==
    ASSUME Inv, NEW q \in StripRows(strip), NEW v \in Values, WriteRow(q, v)
    PROVE  /\ Inv'
           /\ q \in ArrayRows
           /\ \A r \in ArrayRows : Row(r)' = IF r = q THEN v ELSE Row(r)
           /\ \A r \in StripRows(strip) :
                  mem_buffer'[r - cur_start_row] =
                      IF r = q THEN v ELSE mem_buffer[r - cur_start_row]
<1>1. /\ state = "realized" /\ strip.writable
      /\ mem_buffer' = [mem_buffer EXCEPT ![q - cur_start_row] = v]
      /\ UNCHANGED <<rows_in_array, maxaccess, pre_zero, rows_in_mem, cur_start_row,
                     first_undef_row, dirty, b_s_open, store, opened, strip, state>>
  BY DEF WriteRow, request, backing
<1>2. strip # NoStrip /\ strip \in Strips
  BY <1>1 DEF NoStrip, Inv, TypeOK
<1>3. /\ rows_in_mem \in Nat /\ cur_start_row \in Nat /\ first_undef_row \in Nat
      /\ rows_in_array \in Nat
      /\ mem_buffer \in [0 .. rows_in_mem - 1 -> Values]
      /\ strip.first \in Nat /\ strip.end \in Nat
  BY <1>2, SizesAssumption DEF Inv, TypeOK, Strips, ArrayRows
<1>4. /\ InWindow(strip) /\ strip.end <= rows_in_array
      /\ dirty /\ strip.end <= first_undef_row
  BY <1>1, <1>2 DEF Inv, StripOK
<1>5. \A r \in StripRows(strip) :
          /\ r \in Nat /\ r \in ArrayRows /\ r < first_undef_row
          /\ r \in WindowFrom(cur_start_row) /\ r - cur_start_row \in 0 .. rows_in_mem - 1
  BY <1>3, <1>4 DEF StripRows, ArrayRows, WindowFrom, InWindow
<1>6. \A r \in WindowFrom(cur_start_row) :
          mem_buffer'[r - cur_start_row] = IF r = q THEN v ELSE mem_buffer[r - cur_start_row]
  BY <1>1, <1>3, <1>5 DEF WindowFrom
<1>7. \A r \in ArrayRows : Row(r)' = IF r = q THEN v ELSE Row(r)
  <2>1. \A r : Row(r)' = IF r >= first_undef_row THEN Zero
                         ELSE IF r \in WindowFrom(cur_start_row) THEN mem_buffer'[r - cur_start_row]
                         ELSE store[r]
    BY <1>1 DEF Row, WindowFrom
  <2>2. ~(q >= first_undef_row) /\ q \in WindowFrom(cur_start_row)
    BY <1>3, <1>5
  <2> QED
    BY <1>6, <2>1, <2>2 DEF Row
<1>8. TypeOK'
  BY <1>1, <1>3 DEF Inv, TypeOK, ArrayRows, Strips
<1>9. /\ BufferOK' /\ StripOK' /\ CleanOK' /\ NoHoles' /\ StoreClosedOnce'
  BY <1>1, <1>4 DEF Inv, BufferOK, StripOK, CleanOK, NoHoles, StoreClosedOnce, InWindow, ArrayRows,
                    WindowFrom
<1> QED
  BY <1>1, <1>5, <1>6, <1>7, <1>8, <1>9 DEF Inv

(* A failure, or the end, after which no strip is held any more: the store *)
(* has what was flushed to it, whole or in part.                           *)
LEMMA EndInv ==
    ASSUME Inv, NEW s \in Strips,
           RealizeFails \/ AccessRefused(s) \/ AccessFails(s) \/ StoreFails(s) \/ FreePool
    PROVE  Inv'
<1> USE ValuesAssumption DEF Inv, request, window, backing, ErrorExit
<1>0. ASSUME ErrorExit \/ (strip' = NoStrip /\ state' \in {"freed", "error"}),
             UNCHANGED <<request, window, first_undef_row, dirty, store>>,
             b_s_open' \in BOOLEAN, StoreClosedOnce'
      PROVE  Inv'
  <2>1. ArrayRows' = ArrayRows /\ Strips' = Strips /\ NoStrip' = NoStrip
    BY <1>0 DEF ArrayRows, Strips, NoStrip
  <2>2. opened' \in 0 .. 1
    BY <1>0 DEF StoreClosedOnce
  <2>3. TypeOK'
    BY <1>0, <2>1, <2>2 DEF TypeOK
  <2>4. BufferOK' /\ StripOK' /\ CleanOK'
    BY <1>0 DEF BufferOK, StripOK, CleanOK
  <2>5. NoHoles'
    BY <1>0, <2>1 DEF NoHoles
  <2> QED
    BY <1>0, <2>3, <2>4, <2>5
<1>1. CASE RealizeFails
  <2>1. PICK open \in {FALSE, HasBackingStore} : b_s_open' = open /\ opened' = IF open THEN 1 ELSE 0
    BY <1>1 DEF RealizeFails
  <2>2. b_s_open' \in BOOLEAN /\ opened' = IF b_s_open' THEN 1 ELSE 0
    BY <2>1, StoreAssumption
  <2>3. ErrorExit /\ UNCHANGED <<request, window, first_undef_row, dirty, store>>
    BY <1>1 DEF RealizeFails
  <2>4. StoreClosedOnce'
    BY <2>2, <2>3 DEF StoreClosedOnce
  <2> QED
    BY <1>0, <2>2, <2>3, <2>4
<1>2. CASE AccessRefused(s)
  BY <1>0, <1>2 DEF AccessRefused, StoreClosedOnce, TypeOK
<1>3. CASE FreePool
  <2>1. /\ b_s_open' = FALSE /\ strip' = NoStrip /\ state' \in {"freed", "error"}
        /\ UNCHANGED <<request, window, first_undef_row, dirty, store>>
    BY <1>3 DEF FreePool
  <2>2. opened' = 0
    BY <1>3 DEF FreePool, StoreClosedOnce
  <2>3. StoreClosedOnce'
    BY <2>1, <2>2 DEF StoreClosedOnce
  <2> QED
    BY <1>0, <2>1, <2>3
<1>4. ASSUME ~BadRequest(s), ErrorExit, UNCHANGED <<request, rows_in_mem, first_undef_row, b_s_open, opened>>,
             cur_start_row' \in ArrayRows, mem_buffer' \in [0 .. rows_in_mem - 1 -> Values],
             dirty' \in BOOLEAN, store' \in [ArrayRows -> Values \cup {Unwritten}],
             \A r \in ArrayRows : store'[r] # Unwritten => \A q \in 0 .. r : store'[q] # Unwritten
      PROVE  Inv'
  <2>1. state = "realized"
    BY <1>4 DEF BadRequest
  <2>2. TypeOK'
    BY <1>4 DEF TypeOK, ArrayRows, Strips
  <2>3. BufferOK' /\ StripOK' /\ CleanOK' /\ StoreClosedOnce'
    BY <1>4, <2>1 DEF BufferOK, StripOK, CleanOK, StoreClosedOnce
  <2>4. NoHoles'
    <3>1. ArrayRows' = ArrayRows /\ \A r \in ArrayRows : 0 .. r \subseteq ArrayRows
      BY <1>4, SizesAssumption DEF ArrayRows, TypeOK
    <3> QED
      BY <1>4, <3>1 DEF NoHoles
  <2> QED
    BY <1>4, <2>2, <2>3, <2>4
<1>5. CASE AccessFails(s)
  <2>1. CASE InWindow(s)
    BY <1>0, <1>5, <2>1 DEF AccessFails, StoreClosedOnce, TypeOK
  <2>2. CASE ~InWindow(s)
    <3>1. /\ ~BadRequest(s) /\ state = "realized"
          /\ cur_start_row' = Target(s) /\ mem_buffer' = Loaded(Target(s))
          /\ store' = Flushed /\ dirty' = FALSE
      BY <1>5, <2>2 DEF AccessFails, BadRequest
    <3>2. b_s_open /\ Target(s) \in ArrayRows
      BY <2>2, <3>1, TargetFits
    <3> QED
      BY <1>4, <1>5, <3>1, <3>2, FlushKeepsRows, LoadKeepsRows DEF AccessFails
  <2> QED
    BY <2>1, <2>2
<1>6. CASE StoreFails(s)
  <2>1. ~BadRequest(s) /\ ~InWindow(s) /\ state = "realized"
    BY <1>6 DEF StoreFails, BadRequest
  <2>2. b_s_open /\ Target(s) \in ArrayRows
    BY <2>1, TargetFits
  <2>3. PICK n \in ArrayRows :
        \/ /\ dirty
           /\ store' = [r \in ArrayRows |-> IF r < n THEN Flushed[r] ELSE store[r]]
           /\ UNCHANGED <<mem_buffer, rows_in_mem, cur_start_row, dirty>>
        \/ /\ store' = Flushed
           /\ cur_start_row' = Target(s)
           /\ mem_buffer' = [i \in 0 .. rows_in_mem - 1 |->
                                IF Target(s) + i < n THEN Loaded(Target(s))[i] ELSE mem_buffer[i]]
           /\ dirty' = FALSE
           /\ UNCHANGED rows_in_mem
    BY <1>6 DEF StoreFails
  <2>4. /\ Flushed \in [ArrayRows -> Values \cup {Unwritten}]
        /\ Loaded(Target(s)) \in [0 .. rows_in_mem - 1 -> Values]
        /\ mem_buffer \in [0 .. rows_in_mem - 1 -> Values]
        /\ store \in [ArrayRows -> Values \cup {Unwritten}]
    BY <2>1, <2>2, FlushKeepsRows, LoadKeepsRows DEF TypeOK
  <2>5. ErrorExit /\ UNCHANGED <<request, rows_in_mem, first_undef_row, b_s_open, opened>>
    BY <1>6, <2>3 DEF StoreFails
  <2>6. CASE store' = Flushed /\ cur_start_row' = Target(s) /\ dirty' = FALSE
             /\ mem_buffer' = [i \in 0 .. rows_in_mem - 1 |->
                      IF Target(s) + i < n THEN Loaded(Target(s))[i] ELSE mem_buffer[i]]
    <3>1. mem_buffer' \in [0 .. rows_in_mem - 1 -> Values]
      BY <2>4, <2>6
    <3> QED
      BY <1>4, <2>1, <2>2, <2>4, <2>5, <2>6, <3>1, FlushKeepsRows
  <2>7. CASE /\ store' = [r \in ArrayRows |-> IF r < n THEN Flushed[r] ELSE store[r]]
             /\ UNCHANGED <<mem_buffer, rows_in_mem, cur_start_row, dirty>>
    <3>1. store' \in [ArrayRows -> Values \cup {Unwritten}]
      BY <2>4, <2>7
    <3>2. \A r \in ArrayRows : 0 .. r \subseteq ArrayRows
      BY SizesAssumption DEF ArrayRows, TypeOK
    <3>3. \A r \in ArrayRows : store'[r] # Unwritten => \A q \in 0 .. r : store'[q] # Unwritten
      BY <2>1, <2>2, <2>7, <3>2, FlushKeepsRows
    <3>4. cur_start_row' \in ArrayRows /\ mem_buffer' \in [0 .. rows_in_mem - 1 -> Values] /\ dirty' \in BOOLEAN
      BY <2>7 DEF TypeOK
    <3> QED
      BY <1>4, <2>1, <2>5, <3>1, <3>3, <3>4
  <2> QED
    BY <2>3, <2>6, <2>7
<1> QED
  BY <1>1, <1>2, <1>3, <1>5, <1>6

LEMMA StepInv == Inv /\ [Next]_vars => Inv'
<1> SUFFICES ASSUME Inv, [Next]_vars PROVE Inv'
  OBVIOUS
<1>1. CASE UNCHANGED vars
  BY <1>1 DEF vars, request, window, backing, Inv, TypeOK, BufferOK, StripOK, CleanOK, NoHoles,
              StoreClosedOnce, ArrayRows, WindowFrom, IoRows, InWindow, Strips
<1>2. ASSUME NEW m \in 1 .. minheights, Realize(m) PROVE Inv'
  BY <1>2, RealizeInv
<1>3. ASSUME NEW s \in Strips, Access(s) PROVE Inv'
  BY <1>3, AccessKeepsRows
<1>4. ASSUME NEW s \in Strips, RealizeFails \/ AccessRefused(s) \/ AccessFails(s) \/ StoreFails(s) \/ FreePool
      PROVE  Inv'
  BY <1>4, EndInv
<1>5. ASSUME NEW r \in StripRows(strip), NEW v \in Values, WriteRow(r, v) PROVE Inv'
  BY <1>5, WriteInv
<1>6. \E s : s \in Strips
  <2>1. [first |-> 0, end |-> 1, writable |-> FALSE] \in Strips
    BY SizesAssumption DEF Strips, Inv, TypeOK
  <2> QED
    BY <2>1
<1> QED
  BY <1>1, <1>2, <1>3, <1>4, <1>5, <1>6 DEF Next

LEMMA SpecInv == Spec => []Inv
  BY InitInv, StepInv, PTL DEF Spec

(* Whatever is asked of the array, its parts stay what they are: for        *)
(* arrays of any height.                                                   *)
THEOREM TypeCorrect == Spec => []TypeOK
<1>1. Inv => TypeOK
  BY DEF Inv
<1> QED
  BY <1>1, SpecInv, PTL

(* The array never finds a window that it cannot move, its backing store   *)
(* has no holes and is closed once: for arrays and strips of any height,   *)
(* any buffer and any sequence of accesses and failures.                   *)
THEOREM ArrayIsSound == Spec => [](TypeOK /\ NoVirtualBug /\ NoHoles /\ StoreClosedOnce)
<1>1. Inv => TypeOK /\ NoHoles /\ StoreClosedOnce
  BY DEF Inv
<1>2. Inv => NoVirtualBug
  BY SizesAssumption DEF Inv, TypeOK, BufferOK, NoVirtualBug, Strips, InWindow
<1> QED
  BY <1>1, <1>2, SpecInv, PTL

-----------------------------------------------------------------------------
(* The refinement.                                                         *)

contents == [r \in ArrayRows |-> Row(r)]

seen == [r \in StripRows(strip) |-> mem_buffer[r - cur_start_row]]

LEMMA InitRefines == Init => Rows!Init
<1> SUFFICES ASSUME Init PROVE Rows!Init
  OBVIOUS
<1>1. \A r \in ArrayRows : Row(r) = Zero
  BY SizesAssumption DEF Init, Row, ArrayRows
<1>2. StripRows(strip) = {} /\ Rows!StripRows(NoStrip) = {}
  BY DEF Init, StripRows, Rows!StripRows, NoStrip
<1> QED
  BY <1>1, <1>2, SizesAssumption DEF Init, Rows!Init, Rows!NoStrip, NoStrip, ArrayRows

LEMMA AccessRefines ==
    ASSUME Inv, NEW s \in Strips, Access(s)
    PROVE  Rows!Next
<1>1. /\ ~BadRequest(s) /\ ~BadRows(s)
      /\ first_undef_row' = Define(s) /\ strip' = s
      /\ UNCHANGED <<rows_in_array, maxaccess, pre_zero, state>>
  BY DEF Access, request
<1>2. /\ rows_in_array \in Nat /\ first_undef_row \in 0 .. rows_in_array
      /\ s.first \in 0 .. rows_in_array /\ s.end \in 0 .. rows_in_array /\ s.first < s.end
      /\ s.writable \in BOOLEAN /\ pre_zero \in BOOLEAN /\ state = "realized"
  BY <1>1, SizesAssumption DEF Inv, TypeOK, Strips, BadRequest
<1>3. s = [first |-> s.first, end |-> s.end, writable |-> s.writable]
  BY DEF Strips
<1>4. Rows!Granted(s)
  <2>1. s.end <= rows_in_array /\ s.end - s.first <= maxaccess
    BY <1>1, <1>2, SizesAssumption DEF BadRequest, Inv, TypeOK
  <2>2. s.writable => s.first <= first_undef_row
    BY <1>1, <1>2 DEF BadRows
  <2>3. s.writable \/ pre_zero \/ s.end <= first_undef_row
    BY <1>1, <1>2 DEF BadRows
  <2> QED
    BY <2>1, <2>2, <2>3 DEF Rows!Granted
<1>5. ArrayRows' = ArrayRows /\ StripRows(s) = Rows!StripRows(s)
  BY <1>1 DEF ArrayRows, StripRows, Rows!StripRows
<1>6. contents' \in [0 .. rows_in_array - 1 -> Values]
  BY <1>5, AccessKeepsRows DEF contents, ArrayRows
<1>7. \A r \in 0 .. rows_in_array - 1 :
          pre_zero \/ r \notin first_undef_row .. first_undef_row' - 1 => contents'[r] = contents[r]
  BY <1>5, AccessKeepsRows DEF contents, ArrayRows
<1>8. seen' = [r \in Rows!StripRows(s) |-> contents'[r]]
  <2>1. StripRows(strip)' = StripRows(s)
    BY <1>1 DEF StripRows
  <2>2. \A r \in StripRows(s) : r \in ArrayRows
    BY <1>2 DEF StripRows, ArrayRows
  <2> QED
    BY <1>5, <2>1, <2>2, AccessKeepsRows DEF seen, contents
<1>9. Rows!Access(s)
  BY <1>1, <1>2, <1>4, <1>6, <1>7, <1>8 DEF Rows!Access, Define, contents, seen
<1> QED
  BY <1>2, <1>3, <1>9 DEF Rows!Next

LEMMA WriteRefines ==
    ASSUME Inv, NEW q \in StripRows(strip), NEW v \in Values, WriteRow(q, v)
    PROVE  Rows!Next
<1>1. /\ state = "realized" /\ strip.writable
      /\ UNCHANGED <<rows_in_array, maxaccess, pre_zero, cur_start_row, first_undef_row, strip, state>>
  BY DEF WriteRow, request
<1>2. contents' = [contents EXCEPT ![q] = v]
  BY <1>1, WriteInv DEF contents, ArrayRows
<1>3. seen' = [seen EXCEPT ![q] = v]
  BY <1>1, WriteInv DEF seen, StripRows
<1>4. Rows!Write(q, v)
  BY <1>1, <1>2, <1>3 DEF Rows!Write, contents, seen
<1> QED
  BY <1>4 DEF Rows!Next, Rows!StripRows, StripRows

LEMMA EndRefines ==
    ASSUME strip' = NoStrip, state' \in {"error", "freed"}, UNCHANGED <<request, first_undef_row>>
    PROVE  Rows!Next
<1>1. StripRows(strip)' = {} /\ Rows!StripRows(Rows!NoStrip) = {}
  BY DEF StripRows, Rows!StripRows, NoStrip, Rows!NoStrip
<1>2. seen' = [r \in Rows!StripRows(Rows!NoStrip) |-> Zero]
  BY <1>1 DEF seen
<1> QED
  BY <1>2 DEF Rows!Next, Rows!GiveUp, Rows!NoStrip, NoStrip, request, seen

(* Wherever the window is, the caller sees the rows as they were last      *)
(* written, for arrays of any height (jmemmgr.c, access_virt_barray).      *)
THEOREM RowsAreKept == Spec => RowsSurvive
<1>1. Inv /\ [Next]_vars => [Rows!Next]_Rows!vars
  <2> SUFFICES ASSUME Inv, [Next]_vars PROVE [Rows!Next]_Rows!vars
    OBVIOUS
  <2>1. CASE UNCHANGED vars
    <3>1. contents' = contents /\ seen' = seen
      BY <2>1 DEF vars, request, window, backing, contents, seen, Row, ArrayRows, WindowFrom, StripRows
    <3> QED
      BY <2>1, <3>1 DEF vars, request, window, backing, Rows!vars, contents, seen
  <2>2. ASSUME NEW m \in 1 .. minheights, Realize(m) PROVE UNCHANGED Rows!vars
    <3>1. /\ state = "requested" /\ state' = "realized"
          /\ first_undef_row = 0 /\ first_undef_row' = 0 /\ strip = NoStrip
          /\ UNCHANGED <<rows_in_array, maxaccess, pre_zero, strip>>
      BY <2>2 DEF Realize, request, Inv, StripOK
    <3>2. contents' = contents
      BY <3>1, SizesAssumption DEF contents, Row, ArrayRows, Inv, TypeOK
    <3>3. seen' = seen
      BY <3>1 DEF seen, StripRows, NoStrip
    <3> QED
      BY <3>1, <3>2, <3>3 DEF Rows!vars, contents, seen
  <2>3. ASSUME NEW s \in Strips, Access(s) PROVE Rows!Next
    BY <2>3, AccessRefines
  <2>4. ASSUME RealizeFails PROVE Rows!Next
    BY <2>4, EndRefines DEF RealizeFails, ErrorExit
  <2>5. ASSUME NEW s \in Strips, AccessRefused(s) \/ AccessFails(s) \/ StoreFails(s) PROVE Rows!Next
    BY <2>5, EndRefines DEF AccessRefused, AccessFails, StoreFails, ErrorExit
  <2>6. ASSUME NEW r \in StripRows(strip), NEW v \in Values, WriteRow(r, v) PROVE Rows!Next
    BY <2>6, WriteRefines
  <2>7. ASSUME FreePool PROVE Rows!Next
    BY <2>7, EndRefines DEF FreePool
  <2> QED
    BY <2>1, <2>2, <2>3, <2>4, <2>5, <2>6, <2>7 DEF Next
<1> QED
  BY <1>1, InitRefines, SpecInv, PTL DEF Spec, Rows!Spec, RowsSurvive
=============================================================================
